----------------------------- MODULE PageProofs -----------------------------
(* Theorems about Page for every number of tabs, ids, requests and network *)
(* failures.                                                               *)
EXTENDS Page, TLAPS

USE IdAssumption, BoundAssumption

-----------------------------------------------------------------------------
(* The functions of a tab and of a drawer keep their types when a value is *)
(* replaced.                                                               *)
LEMMA NothingType == Nothing \in Selection
  BY DEF Nothing, Selection

LEMMA OnlyOfType ==
  ASSUME NEW t, NEW k \in Kind, NEW id \in Detail
  PROVE  OnlyOf(t, k, id) \in Selection
  BY DEF OnlyOf, Nothing, Selection

LEMMA StoreType ==
  ASSUME TypeOK, NEW t \in Tab, NEW s \in Selection, Store(t, s)
  PROVE  url' \in [Tab -> Selection] /\ storage' \in Selection
  BY DEF TypeOK, Store

LEMMA AskType ==
  ASSUME TypeOK, NEW t \in Tab, NEW for \in {"detail", "flow", "refresh"},
         NEW k \in Kind, NEW id \in Detail, NEW in, in \subseteq pending[t],
         Ask(t, for, k, id, in)
  PROVE  /\ pending' \in [Tab -> SUBSET Request]
         /\ asked' \in 0 .. MaxFetches
<1>1. asked' \in 0 .. MaxFetches /\ asked + 1 \in 1 .. MaxFetches
  BY DEF TypeOK, Ask
<1>2. [for |-> for, kind |-> k, id |-> id, n |-> asked + 1] \in Request
  BY <1>1 DEF Request
<1>3. in \subseteq Request
  BY DEF TypeOK
<1> QED
  BY <1>1, <1>2, <1>3 DEF TypeOK, Ask

Drawer == [title : Selection, shown : [Kind -> Detail \cup {None, "loading", "error"}],
           latest : Selection]

LEMMA DrawersType ==
  ASSUME TypeOK, NEW t \in Tab
  PROVE  Drawers(t) \in Drawer /\ EmptyDrawers \in Drawer
  BY DEF TypeOK, Drawers, EmptyDrawers, Drawer, Nothing, Selection

LEMMA OpenInType ==
  ASSUME TypeOK, NEW t \in Tab, NEW k \in Kind, NEW id \in Detail, NEW old \in Drawer,
         OpenIn(t, k, id, old), asked < MaxFetches
  PROVE  /\ selected' \in [Tab -> Selection]
         /\ drawer' \in [Tab -> Kind \cup {"none"}]
         /\ title' \in [Tab -> Selection]
         /\ shown' \in [Tab -> [Kind -> Detail \cup {None, "loading", "error"}]]
         /\ latest' \in [Tab -> Selection]
         /\ newest' \in [Tab -> [Kind -> 0 .. MaxFetches]]
         /\ late' \in [Tab -> [Kind -> BOOLEAN]]
<1>1. selected' \in [Tab -> Selection]
  BY OnlyOfType DEF TypeOK, OpenIn
<1>2. drawer' \in [Tab -> Kind \cup {"none"}]
  BY DEF TypeOK, OpenIn
<1>3. [old.title EXCEPT ![k] = id] \in Selection
  BY DEF Drawer, Selection
<1>4. [old.shown EXCEPT ![k] = "loading"]
        \in [Kind -> Detail \cup {None, "loading", "error"}]
  BY DEF Drawer
<1>5. [old.latest EXCEPT ![k] = None] \in Selection
  BY DEF Drawer, Selection
<1>6. title' \in [Tab -> Selection] /\ latest' \in [Tab -> Selection]
  BY <1>3, <1>5 DEF TypeOK, OpenIn
<1>7. shown' \in [Tab -> [Kind -> Detail \cup {None, "loading", "error"}]]
  BY <1>4 DEF TypeOK, OpenIn
<1>8. newest' \in [Tab -> [Kind -> 0 .. MaxFetches]]
  <2>1. asked + 1 \in 0 .. MaxFetches
    BY DEF TypeOK
  <2>2. [newest[t] EXCEPT ![k] = asked + 1] \in [Kind -> 0 .. MaxFetches]
    BY <2>1 DEF TypeOK
  <2> QED
    BY <2>2 DEF TypeOK, OpenIn
<1>9. late' \in [Tab -> [Kind -> BOOLEAN]]
  <2>1. [late[t] EXCEPT ![k] = FALSE] \in [Kind -> BOOLEAN]
    BY DEF TypeOK
  <2> QED
    BY <2>1 DEF TypeOK, OpenIn
<1> QED
  BY <1>1, <1>2, <1>6, <1>7, <1>8, <1>9

LEMMA RestoredClosedType ==
  ASSUME TypeOK, NEW t \in Tab, RestoredClosed(t)
  PROVE  /\ selected' \in [Tab -> Selection]
         /\ drawer' \in [Tab -> Kind \cup {"none"}]
         /\ title' \in [Tab -> Selection]
         /\ shown' \in [Tab -> [Kind -> Detail \cup {None, "loading", "error"}]]
         /\ latest' \in [Tab -> Selection]
         /\ pending' \in [Tab -> SUBSET Request]
         /\ newest' \in [Tab -> [Kind -> 0 .. MaxFetches]]
         /\ late' \in [Tab -> [Kind -> BOOLEAN]]
         /\ asked' \in 0 .. MaxFetches
<1>1. Nothing \in [Kind -> Detail \cup {None, "loading", "error"}]
  BY DEF Nothing
<1> QED
  BY <1>1, NothingType DEF TypeOK, RestoredClosed, order

LEMMA LoadType ==
  ASSUME TypeOK, NEW t \in Tab, Load(t)
  PROVE  TypeOK'
<1>1. page' \in [Tab -> {"blank", "app", "404"}] /\ url' \in [Tab -> Selection]
      /\ storage' = storage /\ failures' = failures
  BY NothingType DEF TypeOK, Load
<1>2. CASE RestoredClosed(t)
  BY <1>1, <1>2, RestoredClosedType DEF TypeOK
<1>3. ASSUME NEW k \in Kind, storage[k] # None, Restored(t, k)
      PROVE  TypeOK'
  <2>1. storage[k] \in Detail
    BY <1>3 DEF TypeOK, Selection
  <2>2. /\ Ask(t, "detail", k, storage[k], {})
        /\ OpenIn(t, k, storage[k], EmptyDrawers)
        /\ asked < MaxFetches
    BY <1>3 DEF Restored, Ask
  <2>3. pending' \in [Tab -> SUBSET Request] /\ asked' \in 0 .. MaxFetches
    BY <2>1, <2>2, AskType
  <2> QED
    BY <1>1, <2>1, <2>2, <2>3, OpenInType, DrawersType DEF TypeOK
<1> QED
  BY <1>2, <1>3 DEF Load

LEMMA DoneType ==
  ASSUME TypeOK, NEW t \in Tab, NEW r, Done(t, r)
  PROVE  pending' \in [Tab -> SUBSET Request]
  BY DEF TypeOK, Done

LEMMA AnswerType ==
  ASSUME TypeOK, NEW t \in Tab, NEW r \in pending[t], Answer(t, r)
  PROVE  TypeOK'
<1>1. r \in Request
  BY DEF TypeOK
<1>2. r.kind \in Kind /\ r.id \in Detail
  BY <1>1 DEF Request
<1>3. pending' \in [Tab -> SUBSET Request]
  BY DoneType DEF Answer
<1>4. late' \in [Tab -> [Kind -> BOOLEAN]]
  <2>1. (late[t][r.kind] \/ r.n < newest[t][r.kind]) \in BOOLEAN
    OBVIOUS
  <2>2. late' = [late EXCEPT ![t] = [late[t] EXCEPT ![r.kind] =
                   late[t][r.kind] \/ r.n < newest[t][r.kind]]]
    BY DEF Answer
  <2> QED
    BY <1>2, <2>1, <2>2, Zenon DEF TypeOK
<1>5. CASE Fill(t, r)
  <2>1. [shown[t] EXCEPT ![r.kind] = r.id] \in [Kind -> Detail \cup {None, "loading", "error"}]
    BY <1>2 DEF TypeOK
  <2>2. [latest[t] EXCEPT ![r.kind] = r.id] \in Selection
    BY <1>2 DEF TypeOK, Selection
  <2>3. shown' \in [Tab -> [Kind -> Detail \cup {None, "loading", "error"}]]
    BY <1>5, <2>1 DEF TypeOK, Fill
  <2>4. latest' \in [Tab -> Selection]
    BY <1>5, <2>2 DEF TypeOK, Fill
  <2>5. url' \in [Tab -> Selection] /\ storage' \in Selection
    BY <1>5, StoreType DEF TypeOK, Fill, kept
  <2> QED
    BY <1>3, <1>4, <1>5, <2>3, <2>4, <2>5 DEF TypeOK, Answer, Fill
<1>6. CASE FillError(t, r)
  <2>1. [shown[t] EXCEPT ![r.kind] = "error"]
          \in [Kind -> Detail \cup {None, "loading", "error"}]
    BY <1>2 DEF TypeOK
  <2>2. shown' \in [Tab -> [Kind -> Detail \cup {None, "loading", "error"}]]
    BY <1>6, <2>1 DEF TypeOK, FillError
  <2> QED
    BY <1>3, <1>4, <1>6, <2>2 DEF TypeOK, Answer, FillError, kept
<1> QED
  BY <1>5, <1>6 DEF Answer

LEMMA TypeStep ==
  ASSUME TypeOK, [Next]_vars
  PROVE  TypeOK'
<1>1. ASSUME NEW t \in Tab, Visit(t)
      PROVE  TypeOK'
  BY <1>1, LoadType DEF Visit
<1>2. ASSUME NEW t \in Tab, NotFound(t)
      PROVE  TypeOK'
  BY <1>2, RestoredClosedType DEF NotFound, TypeOK, kept
<1>3. ASSUME NEW t \in Tab, Reload(t)
      PROVE  TypeOK'
  BY <1>2, <1>3, LoadType DEF Reload
<1>4. ASSUME NEW t \in Tab, Persist(t)
      PROVE  TypeOK'
  BY <1>4, StoreType DEF Persist, TypeOK, view, order
<1>5. ASSUME NEW t \in Tab, NEW k \in Kind, Close(t, k)
      PROVE  TypeOK'
  <2>1. [selected[t] EXCEPT ![k] = None] \in Selection
    BY DEF TypeOK, Selection
  <2>2. selected' \in [Tab -> Selection] /\ drawer' \in [Tab -> Kind \cup {"none"}]
    BY <1>5, <2>1 DEF Close, TypeOK
  <2>3. url' \in [Tab -> Selection] /\ storage' \in Selection
    <3>1. selected[t]' \in Selection /\ Store(t, selected[t]')
      BY <1>5, <2>2 DEF Close
    <3> QED
      BY <3>1 DEF Store, TypeOK
  <2> QED
    BY <1>5, <2>2, <2>3 DEF Close, TypeOK, order
<1>6. ASSUME NEW t \in Tab, NEW k \in Kind, NEW id \in IdsOf[k], Click(t, k, id)
      PROVE  TypeOK'
  <2>1. id \in Detail
    BY <1>6 DEF IdsOf, Detail, Kind
  <2>2. /\ Ask(t, "detail", k, id, pending[t]) /\ asked < MaxFetches
        /\ OpenIn(t, k, id, Drawers(t)) /\ UNCHANGED <<page, kept, failures>>
    BY <1>6 DEF Click, Ask
  <2>3. pending' \in [Tab -> SUBSET Request] /\ asked' \in 0 .. MaxFetches
    BY <2>1, <2>2, AskType
  <2> QED
    BY <2>1, <2>2, <2>3, OpenInType, DrawersType DEF TypeOK, kept
<1>7. ASSUME NEW t \in Tab, NEW id \in Memory, Submit(t, id)
      PROVE  TypeOK'
  <2>1. id \in Detail /\ "memory" \in Kind
    BY DEF Detail, Kind
  <2>2. pending' \in [Tab -> SUBSET Request] /\ asked' \in 0 .. MaxFetches
    BY <1>7, <2>1, AskType DEF Submit
  <2> QED
    BY <1>7, <2>2 DEF Submit, TypeOK, view, kept, order
<1>8. ASSUME NEW t \in Tab, NEW r \in pending[t]
      PROVE  /\ FlowAnswer(t, r) => TypeOK'
             /\ RefreshAnswer(t, r) => TypeOK'
             /\ NetworkFail(t, r) => TypeOK'
  <2>1. r.id \in Detail /\ "memory" \in Kind
    BY DEF TypeOK, Request, Kind
  <2>2. pending[t] \ {r} \subseteq pending[t]
    OBVIOUS
  <2>3. ASSUME FlowAnswer(t, r)
        PROVE  TypeOK'
    <3>1. url' \in [Tab -> Selection] /\ storage' \in Selection
      BY <2>3, StoreType DEF FlowAnswer, TypeOK
    <3>2. pending' \in [Tab -> SUBSET Request] /\ asked' \in 0 .. MaxFetches
      <4>1. CASE Ask(t, "refresh", "memory", r.id, pending[t] \ {r})
        BY <2>1, <2>2, <4>1, AskType
      <4>2. CASE Done(t, r) /\ UNCHANGED asked
        BY <4>2, DoneType DEF TypeOK
      <4> QED
        BY <2>3, <4>1, <4>2 DEF FlowAnswer
    <3> QED
      BY <2>3, <3>1, <3>2 DEF FlowAnswer, TypeOK, view, order
  <2>4. ASSUME RefreshAnswer(t, r)
        PROVE  TypeOK'
    <3>1. /\ Ask(t, "detail", "memory", r.id, pending[t] \ {r}) /\ asked < MaxFetches
          /\ OpenIn(t, "memory", r.id, Drawers(t)) /\ UNCHANGED <<page, failures>>
      BY <2>4 DEF RefreshAnswer, Ask
    <3>2. pending' \in [Tab -> SUBSET Request] /\ asked' \in 0 .. MaxFetches
      BY <2>1, <2>2, <3>1, AskType
    <3>3. url' \in [Tab -> Selection] /\ storage' \in Selection
      BY <2>4, StoreType DEF RefreshAnswer, TypeOK, kept
    <3> QED
      BY <2>1, <3>1, <3>2, <3>3, OpenInType, DrawersType DEF TypeOK
  <2>5. ASSUME NetworkFail(t, r)
        PROVE  TypeOK'
    <3>1. failures' \in 0 .. MaxFailures
      BY <2>5 DEF NetworkFail, TypeOK
    <3> QED
      BY <2>5, <3>1, DoneType DEF NetworkFail, TypeOK, view, kept, order
  <2> QED
    BY <2>3, <2>4, <2>5
<1>9. CASE UNCHANGED vars
  BY <1>9 DEF TypeOK, vars, view, kept, order
<1> QED
  BY <1>1, <1>3, <1>4, <1>5, <1>6, <1>7, <1>8, <1>9, AnswerType DEF Next

LEMMA TypeInit == Init => TypeOK
<1>1. Nothing \in [Kind -> Detail \cup {None, "loading", "error"}]
  BY DEF Nothing
<1>2. [k \in Kind |-> 0] \in [Kind -> 0 .. MaxFetches] /\ 0 \in 0 .. MaxFailures
  OBVIOUS
<1> QED
  BY <1>1, <1>2, NothingType DEF Init, TypeOK

(* Every variable of the page keeps its type, whatever is clicked and in   *)
(* whichever order answers come.                                           *)
THEOREM PageTypeCorrect == Spec => []TypeOK
  BY TypeInit, TypeStep, PTL DEF Spec

-----------------------------------------------------------------------------
(* What opening a drawer does to the tab and to the others.                *)
LEMMA OpenInEffect ==
  ASSUME TypeOK, NEW t \in Tab, NEW k \in Kind, NEW id \in Detail, NEW old \in Drawer,
         OpenIn(t, k, id, old)
  PROVE  /\ selected'[t] = OnlyOf(t, k, id) /\ drawer'[t] = k
         /\ title'[t] = [old.title EXCEPT ![k] = id]
         /\ shown'[t] = [old.shown EXCEPT ![k] = "loading"]
         /\ latest'[t] = [old.latest EXCEPT ![k] = None]
         /\ newest'[t] = [newest[t] EXCEPT ![k] = asked + 1]
         /\ late'[t] = [late[t] EXCEPT ![k] = FALSE]
         /\ \A u \in Tab \ {t} :
              /\ selected'[u] = selected[u] /\ drawer'[u] = drawer[u]
              /\ title'[u] = title[u] /\ shown'[u] = shown[u]
              /\ latest'[u] = latest[u] /\ newest'[u] = newest[u]
              /\ late'[u] = late[u]
  BY DEF TypeOK, OpenIn

(* The steps that open a drawer: a click, the end of a flow, a start.      *)
Opens(t, k, id) ==
  /\ \/ OpenIn(t, k, id, Drawers(t))
     \/ OpenIn(t, k, id, EmptyDrawers)

(* Every step of a tab opens a drawer, closes or empties the drawers, or   *)
(* leaves the selection alone.                                             *)
LEMMA SelectionSteps ==
  ASSUME TypeOK, [Next]_vars
  PROVE  \/ UNCHANGED <<selected, drawer, title>>
         \/ \E t \in Tab : RestoredClosed(t)
         \/ \E t \in Tab, k \in Kind : Close(t, k)
         \/ \E t \in Tab, k \in Kind, id \in Detail : Opens(t, k, id)
<1>1. ASSUME NEW t \in Tab, Load(t), ~RestoredClosed(t)
      PROVE  \E k \in Kind, id \in Detail : Opens(t, k, id)
  <2>1. PICK k \in Kind : storage[k] # None /\ Restored(t, k)
    BY <1>1 DEF Load
  <2>2. storage[k] \in Detail
    BY <2>1 DEF TypeOK, Selection
  <2> QED
    BY <2>1, <2>2 DEF Restored, Opens
<1>2. ASSUME NEW t \in Tab, NEW k \in Kind, NEW id \in IdsOf[k], Click(t, k, id)
      PROVE  id \in Detail /\ Opens(t, k, id)
  BY <1>2 DEF Click, Opens, IdsOf, Kind, Detail
<1>3. ASSUME NEW t \in Tab, NEW r \in pending[t], RefreshAnswer(t, r)
      PROVE  \E k \in Kind, id \in Detail : Opens(t, k, id)
  <2>1. r.id \in Detail /\ "memory" \in Kind
    BY DEF TypeOK, Request, Kind
  <2> QED
    BY <1>3, <2>1 DEF RefreshAnswer, Opens
<1>4. ASSUME NEW t \in Tab, NEW r \in pending[t], Answer(t, r)
      PROVE  UNCHANGED <<selected, drawer, title>>
  BY <1>4 DEF Answer, Fill, FillError
<1> QED
  BY <1>1, <1>2, <1>3, <1>4 DEF Next, Visit, Reload, NotFound, Persist, Submit,
     FlowAnswer, NetworkFail, vars, view

(* A step stores a selection that some tab then has, or none.              *)
LEMMA StoreSteps ==
  ASSUME TypeOK, [Next]_vars
  PROVE  /\ storage' = storage \/ \E t \in Tab : storage' = selected'[t] \/ storage' = selected[t]
         /\ \A u \in Tab : \/ url'[u] = url[u]
                          \/ url'[u] \in {selected'[u], selected[u], Nothing}
<1> DEFINE Kept == UNCHANGED kept
           Stored(t) == Store(t, selected'[t]) \/ Store(t, selected[t])
           Goal == /\ storage' = storage \/ \E t \in Tab : storage' = selected'[t]
                                                         \/ storage' = selected[t]
                   /\ \A u \in Tab : \/ url'[u] = url[u]
                                    \/ url'[u] \in {selected'[u], selected[u], Nothing}
<1>1. ASSUME NEW t \in Tab, Stored(t) PROVE Goal
  BY <1>1 DEF Store, TypeOK
<1>2. ASSUME NEW t \in Tab, Load(t) PROVE Goal
  BY <1>2 DEF Load, TypeOK
<1>3. CASE Kept
  BY <1>3 DEF kept
<1>4. ASSUME NEW t \in Tab, NEW r \in pending[t],
             Answer(t, r) \/ FlowAnswer(t, r) \/ RefreshAnswer(t, r) \/ NetworkFail(t, r)
      PROVE  Kept \/ Stored(t)
  BY <1>4 DEF Answer, Fill, FillError, FlowAnswer, RefreshAnswer, NetworkFail, kept
<1>5. ASSUME NEW t \in Tab, NEW k \in Kind, Close(t, k) PROVE Stored(t)
  BY <1>5 DEF Close
<1>6. \/ Kept
      \/ \E t \in Tab : Load(t) \/ Stored(t)
  BY <1>4, <1>5 DEF Next, Visit, Reload, NotFound, Persist, Click, Submit, vars, kept
<1> QED
  BY <1>1, <1>2, <1>3, <1>6

LEMMA SelectionStep ==
  ASSUME TypeOK, SelectionIsTitle, [Next]_vars
  PROVE  SelectionIsTitle'
<1> DEFINE Agrees(t) ==
      /\ OneSelection(selected'[t])
      /\ \A k \in Kind : IF drawer'[t] = k THEN selected'[t][k] = title'[t][k]
                                           ELSE selected'[t][k] = None
<1>1. ASSUME NEW t \in Tab
      PROVE  Agrees(t)
  <2>1. CASE UNCHANGED <<selected, drawer, title>>
    BY <2>1 DEF SelectionIsTitle
  <2>2. ASSUME NEW u \in Tab, RestoredClosed(u)
        PROVE  Agrees(t)
    <3>1. CASE u = t
      <4>1. selected'[t] = Nothing /\ drawer'[t] = "none"
        BY <2>2, <3>1 DEF RestoredClosed, TypeOK
      <4> QED
        BY <4>1 DEF OneSelection, Nothing, Kind, Other
    <3>2. CASE u # t
      BY <2>2, <3>2 DEF RestoredClosed, TypeOK, SelectionIsTitle
    <3> QED
      BY <3>1, <3>2
  <2>3. ASSUME NEW u \in Tab, NEW k \in Kind, Close(u, k)
        PROVE  Agrees(t)
    <3>1. CASE u = t
      <4>1. /\ drawer[t] = k /\ drawer'[t] = "none"
            /\ selected'[t] = [selected[t] EXCEPT ![k] = None]
        BY <2>3, <3>1 DEF Close, TypeOK
      <4>2. \A j \in Kind : selected'[t][j] = None
        BY <4>1 DEF TypeOK, Selection, SelectionIsTitle
      <4> QED
        BY <4>1, <4>2 DEF OneSelection, Kind, Other
    <3>2. CASE u # t
      BY <2>3, <3>2 DEF Close, TypeOK, SelectionIsTitle
    <3> QED
      BY <3>1, <3>2
  <2>4. ASSUME NEW u \in Tab, NEW k \in Kind, NEW id \in Detail, Opens(u, k, id)
        PROVE  Agrees(t)
    <3>0. PICK old \in Drawer : OpenIn(u, k, id, old)
      BY <2>4, DrawersType DEF Opens
    <3>1. /\ selected'[u] = OnlyOf(u, k, id) /\ drawer'[u] = k
          /\ title'[u] = [old.title EXCEPT ![k] = id]
          /\ \A v \in Tab \ {u} : /\ selected'[v] = selected[v] /\ drawer'[v] = drawer[v]
                                 /\ title'[v] = title[v]
      BY <3>0 DEF OpenIn, TypeOK
    <3>2. CASE u = t
      <4>1. /\ selected'[t] = OnlyOf(t, k, id) /\ drawer'[t] = k
            /\ title'[t] = [old.title EXCEPT ![k] = id]
        BY <3>1, <3>2 DEF OnlyOf
      <4>2. title'[t][k] = id
        BY <4>1 DEF Drawer, Selection
      <4>3. selected'[t][k] = id /\ \A j \in Kind \ {k} : selected'[t][j] = None
        BY <4>1 DEF OnlyOf, Nothing
      <4> QED
        BY <4>1, <4>2, <4>3 DEF OneSelection, Kind, Other
    <3>3. CASE u # t
      <4>1. /\ selected'[t] = selected[t] /\ drawer'[t] = drawer[t]
            /\ title'[t] = title[t]
        BY <3>1, <3>3
      <4> QED
        BY <4>1 DEF SelectionIsTitle
    <3> QED
      BY <3>2, <3>3
  <2> QED
    BY <2>1, <2>2, <2>3, <2>4, SelectionSteps
<1>2. OneSelection(Nothing)
  BY DEF OneSelection, Nothing, Kind, Other
<1>3. OneSelection(storage') /\ \A t \in Tab : OneSelection(url'[t])
  BY <1>1, <1>2, StoreSteps DEF SelectionIsTitle
<1> QED
  BY <1>1, <1>3 DEF SelectionIsTitle, OneSelection

(* Whatever is clicked, closed, reloaded and answered, in however many     *)
(* tabs: what export and attestation act on, the selection, is what the    *)
(* headline of the open drawer names.                                      *)
THEOREM PageSelectionIsTitle == Spec => []SelectionIsTitle
<1>1. Init => SelectionIsTitle
  <2>1. Kind = {"memory", "binding"} /\ "none" \notin Kind
    BY DEF Kind
  <2> QED
    BY <2>1 DEF Init, SelectionIsTitle, OneSelection, Nothing, Other
<1> QED
  BY <1>1, TypeInit, TypeStep, SelectionStep, PTL DEF Spec

-----------------------------------------------------------------------------
(* Why only a late answer can mislead: the newest request of a drawer asks *)
(* for what its headline names, and every other one under way is older.    *)
OrderInv ==
  \A t \in Tab : \A r \in pending[t] :
    /\ r.n <= asked
    /\ r.for = "detail" /\ r.n >= newest[t][r.kind] => r.id = title[t][r.kind]

AnswerInv == OrderInv /\ MismatchNeedsLateAnswer

(* A tab whose drawers, requests and counters stay has nothing to show.    *)
Same(t) ==
  /\ title'[t] = title[t] /\ shown'[t] = shown[t] /\ latest'[t] = latest[t]
  /\ newest'[t] = newest[t] /\ late'[t] = late[t]

Right(t) ==
  /\ \A r \in pending'[t] :
       /\ r.n <= asked'
       /\ r.for = "detail" /\ r.n >= newest'[t][r.kind] => r.id = title'[t][r.kind]
  /\ \A k \in Kind :
       late'[t][k] \/
         /\ shown'[t][k] \in {None, "loading", "error", title'[t][k]}
         /\ latest'[t][k] \in {None, title'[t][k]}

LEMMA SameIsRight ==
  ASSUME TypeOK, AnswerInv, NEW t \in Tab, Same(t), asked' \in {asked, asked + 1},
         \A r \in pending'[t] : r \in pending[t] \/ (r.for # "detail" /\ r.n = asked')
  PROVE  Right(t)
<1>1. asked \in Nat /\ asked <= asked' /\ \A r \in pending[t] : r.n \in Nat
  BY DEF TypeOK, Request
<1>2. \A r \in pending'[t] : r.n <= asked'
  <2> SUFFICES ASSUME NEW r \in pending'[t] PROVE r.n <= asked'
    OBVIOUS
  <2>1. CASE r \in pending[t]
    BY <1>1, <2>1 DEF AnswerInv, OrderInv
  <2>2. CASE r.n = asked'
    BY <1>1, <2>2
  <2> QED
    BY <2>1, <2>2
<1> QED
  BY <1>2 DEF AnswerInv, OrderInv, MismatchNeedsLateAnswer, Same, Right

(* What a request changes: its tab's requests.                             *)
LEMMA AskEffect ==
  ASSUME TypeOK, NEW t \in Tab, NEW for, NEW k, NEW id, NEW in,
         Ask(t, for, k, id, in)
  PROVE  /\ asked' = asked + 1
         /\ pending'[t] = in \cup {[for |-> for, kind |-> k, id |-> id, n |-> asked + 1]}
         /\ \A u \in Tab \ {t} : pending'[u] = pending[u]
  BY DEF TypeOK, Ask

LEMMA OpeningIsRight ==
  ASSUME TypeOK, AnswerInv, NEW t \in Tab, NEW k \in Kind, NEW id \in Detail,
         NEW old \in {Drawers(t), EmptyDrawers}, NEW in, in \subseteq pending[t],
         in = {} \/ old = Drawers(t),
         Ask(t, "detail", k, id, in), OpenIn(t, k, id, old)
  PROVE  \A u \in Tab : Right(u)
<1>1. old \in Drawer
  BY DrawersType
<1>2. /\ title'[t] = [old.title EXCEPT ![k] = id]
      /\ shown'[t] = [old.shown EXCEPT ![k] = "loading"]
      /\ latest'[t] = [old.latest EXCEPT ![k] = None]
      /\ newest'[t] = [newest[t] EXCEPT ![k] = asked + 1]
      /\ late'[t] = [late[t] EXCEPT ![k] = FALSE]
      /\ \A u \in Tab \ {t} : Same(u)
  BY DEF OpenIn, TypeOK, Same
<1>3. /\ asked' = asked + 1
      /\ pending'[t] = in \cup {[for |-> "detail", kind |-> k, id |-> id, n |-> asked + 1]}
      /\ \A u \in Tab \ {t} : pending'[u] = pending[u]
  BY AskEffect
<1>4. ASSUME NEW u \in Tab \ {t} PROVE Right(u)
  BY <1>2, <1>3, SameIsRight
<1>5. asked \in Nat
  BY DEF TypeOK
<1>6. ASSUME NEW r \in pending'[t]
      PROVE  /\ r.n <= asked'
             /\ r.for = "detail" /\ r.n >= newest'[t][r.kind] => r.id = title'[t][r.kind]
  <2>1. newest'[t][k] = asked + 1 /\ title'[t][k] = id
    BY <1>1, <1>2 DEF TypeOK, Drawer, Selection
  <2>2. CASE r \in in
    <3>1. r \in pending[t] /\ r.n \in Nat /\ r.kind \in Kind /\ r.n <= asked
      BY <2>2 DEF TypeOK, Request, AnswerInv, OrderInv
    <3>2. CASE r.kind = k
      BY <1>3, <1>5, <2>1, <3>1, <3>2
    <3>3. CASE r.kind # k
      <4>1. old = Drawers(t)
        BY <2>2
      <4>2. title'[t][r.kind] = title[t][r.kind]
        BY <1>2, <3>1, <3>3, <4>1 DEF Drawers, TypeOK, Selection
      <4>3. newest'[t][r.kind] = newest[t][r.kind]
        BY <1>2, <3>1, <3>3 DEF TypeOK
      <4> QED
        BY <1>3, <1>5, <3>1, <4>2, <4>3 DEF AnswerInv, OrderInv
    <3> QED
      BY <3>2, <3>3
  <2>3. CASE r = [for |-> "detail", kind |-> k, id |-> id, n |-> asked + 1]
    BY <1>3, <1>5, <2>1, <2>3
  <2> QED
    BY <1>3, <2>2, <2>3
<1>7. ASSUME NEW j \in Kind, ~late'[t][j]
      PROVE  /\ shown'[t][j] \in {None, "loading", "error", title'[t][j]}
             /\ latest'[t][j] \in {None, title'[t][j]}
  <2>1. CASE j = k
    BY <1>1, <1>2, <2>1 DEF Drawer, Selection
  <2>2. CASE j # k
    <3>1. /\ title'[t][j] = old.title[j] /\ shown'[t][j] = old.shown[j]
          /\ latest'[t][j] = old.latest[j]
      BY <1>1, <1>2, <2>2 DEF Drawer, Selection
    <3>2. CASE old = EmptyDrawers
      BY <3>1, <3>2 DEF EmptyDrawers, Nothing
    <3>3. CASE old = Drawers(t)
      <4>1. late'[t][j] = late[t][j]
        BY <1>2, <2>2 DEF TypeOK
      <4> QED
        BY <1>7, <3>1, <3>3, <4>1 DEF Drawers, AnswerInv, MismatchNeedsLateAnswer
    <3> QED
      BY <3>2, <3>3
  <2> QED
    BY <2>1, <2>2
<1>8. Right(t)
  BY <1>6, <1>7 DEF Right
<1> QED
  BY <1>4, <1>8

LEMMA AnswerIsRight ==
  ASSUME TypeOK, AnswerInv, NEW t \in Tab, NEW r \in pending[t], Answer(t, r)
  PROVE  \A u \in Tab : Right(u)
<1>1. /\ r.for = "detail" /\ r.kind \in Kind /\ r.id \in Detail /\ r.n \in Nat
      /\ newest[t][r.kind] \in Nat
  BY DEF Answer, TypeOK, Request
<1>2. /\ title' = title /\ newest' = newest /\ asked' = asked
      /\ pending'[t] = pending[t] \ {r}
      /\ \A u \in Tab \ {t} : pending'[u] = pending[u]
  BY DEF Answer, Done, TypeOK
<1>3. /\ late'[t][r.kind] = (late[t][r.kind] \/ r.n < newest[t][r.kind])
      /\ \A k \in Kind \ {r.kind} : late'[t][k] = late[t][k]
      /\ \A u \in Tab \ {t} : late'[u] = late[u]
  BY <1>1, Zenon DEF Answer, TypeOK
<1>4. /\ \/ shown'[t][r.kind] = r.id /\ latest'[t][r.kind] = r.id
         \/ shown'[t][r.kind] = "error" /\ latest'[t][r.kind] = latest[t][r.kind]
      /\ \A k \in Kind \ {r.kind} : /\ shown'[t][k] = shown[t][k]
                                   /\ latest'[t][k] = latest[t][k]
      /\ \A u \in Tab \ {t} : shown'[u] = shown[u] /\ latest'[u] = latest[u]
  <2>1. CASE Fill(t, r)
    BY <1>1, <2>1 DEF Fill, TypeOK, Selection
  <2>2. CASE FillError(t, r)
    BY <1>1, <2>2 DEF FillError, TypeOK, Selection
  <2> QED
    BY <2>1, <2>2 DEF Answer
<1>5. ASSUME NEW u \in Tab \ {t} PROVE Right(u)
  <2>1. Same(u)
    BY <1>2, <1>3, <1>4 DEF Same
  <2> QED
    BY <1>2, <2>1, SameIsRight
<1>6. \A q \in pending'[t] :
        /\ q.n <= asked'
        /\ q.for = "detail" /\ q.n >= newest'[t][q.kind] => q.id = title'[t][q.kind]
  BY <1>2 DEF AnswerInv, OrderInv
<1>7. ASSUME NEW k \in Kind, ~late'[t][k]
      PROVE  /\ shown'[t][k] \in {None, "loading", "error", title'[t][k]}
             /\ latest'[t][k] \in {None, title'[t][k]}
  <2>1. CASE k = r.kind
    <3>0. ~late[t][k] /\ ~(r.n < newest[t][k])
      BY <1>3, <1>7, <2>1, Zenon
    <3>1. ~late[t][k] /\ r.n >= newest[t][k]
      BY <1>1, <2>1, <3>0
    <3>2. r.id = title[t][k]
      BY <1>1, <2>1, <3>1 DEF AnswerInv, OrderInv
    <3>3. latest[t][k] \in {None, title[t][k]}
      BY <3>1 DEF AnswerInv, MismatchNeedsLateAnswer
    <3> QED
      BY <1>2, <1>4, <2>1, <3>2, <3>3
  <2>2. CASE k # r.kind
    <3>1. ~late[t][k]
      BY <1>3, <1>7, <2>2
    <3> QED
      BY <1>2, <1>4, <2>2, <3>1 DEF AnswerInv, MismatchNeedsLateAnswer
  <2> QED
    BY <2>1, <2>2
<1>8. Right(t)
  BY <1>6, <1>7 DEF Right
<1> QED
  BY <1>5, <1>8

LEMMA EmptyIsRight ==
  ASSUME TypeOK, AnswerInv, NEW t \in Tab, RestoredClosed(t)
  PROVE  \A u \in Tab : Right(u)
<1>1. /\ title'[t] = Nothing /\ shown'[t] = Nothing /\ latest'[t] = Nothing
      /\ pending'[t] = {} /\ asked' = asked
      /\ \A u \in Tab \ {t} : Same(u) /\ pending'[u] = pending[u]
  BY DEF RestoredClosed, TypeOK, Same, order
<1>2. Right(t)
  BY <1>1 DEF Right, Nothing
<1>3. ASSUME NEW u \in Tab \ {t} PROVE Right(u)
  BY <1>1, SameIsRight
<1> QED
  BY <1>2, <1>3

LEMMA AnswerStep ==
  ASSUME TypeOK, AnswerInv, [Next]_vars
  PROVE  AnswerInv'
<1> DEFINE AllRight == \A u \in Tab : Right(u)
<1>1. ASSUME NEW t \in Tab, Load(t) PROVE AllRight
  <2>1. ASSUME NEW k \in Kind, storage[k] # None, Restored(t, k) PROVE AllRight
    <3>1. storage[k] \in Detail /\ {} \subseteq pending[t]
      BY <2>1 DEF TypeOK, Selection
    <3>2. /\ Ask(t, "detail", k, storage[k], {})
          /\ OpenIn(t, k, storage[k], EmptyDrawers)
      BY <2>1 DEF Restored
    <3> QED
      BY <3>1, <3>2, OpeningIsRight
  <2> QED
    BY <1>1, <2>1, EmptyIsRight DEF Load
<1>2. ASSUME NEW t \in Tab, NEW k \in Kind, NEW id \in IdsOf[k], Click(t, k, id)
      PROVE  AllRight
  <2>1. id \in Detail /\ pending[t] \subseteq pending[t]
    BY <1>2 DEF IdsOf, Kind, Detail
  <2> QED
    BY <1>2, <2>1, OpeningIsRight DEF Click
<1>3. ASSUME NEW t \in Tab, NEW r \in pending[t], RefreshAnswer(t, r)
      PROVE  AllRight
  <2>1. r.id \in Detail /\ "memory" \in Kind /\ pending[t] \ {r} \subseteq pending[t]
    BY DEF TypeOK, Request, Kind
  <2> QED
    BY <1>3, <2>1, OpeningIsRight DEF RefreshAnswer
<1>4. ASSUME UNCHANGED <<title, shown, latest, newest, late>>,
             asked' \in {asked, asked + 1},
             \A t \in Tab : \A r \in pending'[t] :
               r \in pending[t] \/ (r.for # "detail" /\ r.n = asked')
      PROVE  AllRight
  BY <1>4, SameIsRight DEF Same
<1>5. ASSUME NEW t \in Tab, NEW r \in pending[t], FlowAnswer(t, r) PROVE AllRight
  <2>1. CASE Ask(t, "refresh", "memory", r.id, pending[t] \ {r})
    <3>1. /\ asked' = asked + 1
          /\ pending'[t] = (pending[t] \ {r}) \cup
               {[for |-> "refresh", kind |-> "memory", id |-> r.id, n |-> asked + 1]}
          /\ \A u \in Tab \ {t} : pending'[u] = pending[u]
      BY <2>1, AskEffect
    <3> QED
      BY <1>4, <1>5, <3>1 DEF FlowAnswer, view, order
  <2>2. CASE Done(t, r) /\ UNCHANGED asked
    <3>1. \A u \in Tab : pending'[u] \subseteq pending[u]
      BY <2>2 DEF Done, TypeOK
    <3> QED
      BY <1>4, <1>5, <2>2, <3>1 DEF FlowAnswer, view, order
  <2> QED
    BY <1>5, <2>1, <2>2 DEF FlowAnswer
<1>6. ASSUME NEW t \in Tab, NEW r \in pending[t], NetworkFail(t, r) PROVE AllRight
  <2>1. \A u \in Tab : pending'[u] \subseteq pending[u]
    BY <1>6 DEF NetworkFail, Done, TypeOK
  <2> QED
    BY <1>4, <1>6, <2>1 DEF NetworkFail, view, order
<1>7. ASSUME NEW t \in Tab, NEW id \in Memory, Submit(t, id) PROVE AllRight
  <2>1. /\ asked' = asked + 1
        /\ pending'[t] = pending[t] \cup
             {[for |-> "flow", kind |-> "memory", id |-> id, n |-> asked + 1]}
        /\ \A u \in Tab \ {t} : pending'[u] = pending[u]
    BY <1>7, AskEffect DEF Submit
  <2> QED
    BY <1>4, <1>7, <2>1 DEF Submit, view, order
<1>8. ASSUME UNCHANGED <<title, shown, latest, newest, late, asked, pending>>
      PROVE  AllRight
  BY <1>4, <1>8
<1>9. ASSUME NEW t \in Tab, NotFound(t) PROVE AllRight
  BY <1>9, EmptyIsRight DEF NotFound
<1>10. AllRight
  BY <1>1, <1>2, <1>3, <1>5, <1>6, <1>7, <1>8, <1>9, AnswerIsRight
  DEF Next, Visit, Reload, Persist, Close, vars, view, order
<1> QED
  BY <1>10 DEF Right, AnswerInv, OrderInv, MismatchNeedsLateAnswer

(* A drawer shows, and its button for the content copies, the detail of    *)
(* what its headline names, unless the answer to an older request came     *)
(* after the newest was made.                                              *)
THEOREM PageMismatchNeedsLateAnswer == Spec => []MismatchNeedsLateAnswer
<1>1. Init => AnswerInv
  BY DEF Init, AnswerInv, OrderInv, MismatchNeedsLateAnswer, Nothing
<1>2. AnswerInv => MismatchNeedsLateAnswer
  BY DEF AnswerInv
<1> QED
  BY <1>1, <1>2, TypeInit, TypeStep, AnswerStep, PTL DEF Spec

-----------------------------------------------------------------------------
(* While the memory drawer shows a detail, the URL is of the selection.    *)
UrlIsSelection ==
  \A t \in Tab :
    drawer[t] = "memory" /\ shown[t]["memory"] \in Memory =>
      url[t] = selected[t]

LEMMA UrlStep ==
  ASSUME TypeOK, UrlIsSelection, [Next]_vars
  PROVE  UrlIsSelection'
<1> DEFINE Named(t) == drawer'[t] = "memory" /\ shown'[t]["memory"] \in Memory =>
                         url'[t] = selected'[t]
           Kept(t) == /\ drawer'[t] = drawer[t] /\ selected'[t] = selected[t]
                      /\ shown'[t]["memory"] \in {shown[t]["memory"], "error"}
                      /\ url'[t] \in {url[t], selected[t]}
<1>0. "memory" \in Kind /\ "loading" \notin Memory /\ "error" \notin Memory
  BY DEF Kind
<1>1. ASSUME NEW t \in Tab, Kept(t) PROVE Named(t)
  BY <1>0, <1>1 DEF UrlIsSelection
(* An open drawer is loading, a closed one names nothing.                  *)
<1>2. ASSUME NEW t \in Tab, NEW k \in Kind, NEW id \in Detail, NEW old \in Drawer,
             OpenIn(t, k, id, old), \A u \in Tab \ {t} : url'[u] = url[u]
      PROVE  \A u \in Tab : Named(u)
  <2>1. /\ drawer'[t] = k /\ shown'[t] = [old.shown EXCEPT ![k] = "loading"]
        /\ \A u \in Tab \ {t} : /\ selected'[u] = selected[u] /\ drawer'[u] = drawer[u]
                               /\ shown'[u] = shown[u]
    BY <1>2 DEF OpenIn, TypeOK
  <2>2. k = "memory" => shown'[t]["memory"] = "loading"
    BY <1>0, <2>1 DEF Drawer
  <2>3. Named(t)
    BY <1>0, <2>1, <2>2
  <2>4. \A u \in Tab \ {t} : Kept(u)
    BY <1>2, <2>1
  <2> QED
    BY <1>1, <2>3, <2>4
<1>3. ASSUME NEW t \in Tab, RestoredClosed(t), \A u \in Tab \ {t} : url'[u] = url[u]
      PROVE  \A u \in Tab : Named(u)
  <2>1. /\ drawer'[t] = "none"
        /\ \A u \in Tab \ {t} : /\ selected'[u] = selected[u] /\ drawer'[u] = drawer[u]
                               /\ shown'[u] = shown[u]
    BY <1>3 DEF RestoredClosed, TypeOK
  <2> QED
    BY <1>1, <1>3, <2>1
<1>4. ASSUME NEW t \in Tab, NEW s, Store(t, s)
      PROVE  url'[t] = s /\ \A u \in Tab \ {t} : url'[u] = url[u]
  BY <1>4 DEF Store, TypeOK
<1>5. ASSUME NEW t \in Tab, Load(t) PROVE \A u \in Tab : Named(u)
  <2>1. \A u \in Tab \ {t} : url'[u] = url[u]
    BY <1>5 DEF Load, TypeOK
  <2>2. ASSUME NEW k \in Kind, storage[k] # None, Restored(t, k)
        PROVE  \A u \in Tab : Named(u)
    <3>1. storage[k] \in Detail /\ EmptyDrawers \in Drawer
      BY <2>2, DrawersType DEF TypeOK, Selection
    <3> QED
      BY <1>2, <2>1, <2>2, <3>1 DEF Restored
  <2> QED
    BY <1>3, <1>5, <2>1, <2>2 DEF Load
<1>6. ASSUME NEW t \in Tab, NEW k \in Kind, NEW id \in IdsOf[k], Click(t, k, id)
      PROVE  \A u \in Tab : Named(u)
  <2>1. id \in Detail /\ Drawers(t) \in Drawer
    BY <1>6, DrawersType DEF IdsOf, Kind, Detail
  <2> QED
    BY <1>2, <1>6, <2>1 DEF Click, kept
<1>7. ASSUME NEW t \in Tab, NEW r \in pending[t], RefreshAnswer(t, r)
      PROVE  \A u \in Tab : Named(u)
  <2>1. r.id \in Detail /\ Drawers(t) \in Drawer
    BY DrawersType DEF TypeOK, Request
  <2>2. \A u \in Tab \ {t} : url'[u] = url[u]
    BY <1>4, <1>7 DEF RefreshAnswer, kept
  <2> QED
    BY <1>0, <1>2, <1>7, <2>1, <2>2 DEF RefreshAnswer
<1>8. ASSUME NEW t \in Tab, NEW r \in pending[t], Answer(t, r)
      PROVE  \A u \in Tab : Named(u)
  <2>1. drawer' = drawer /\ selected' = selected /\ r.kind \in Kind
    BY <1>8 DEF Answer, Fill, FillError, TypeOK, Request
  <2>2. CASE Fill(t, r)
    <3>1. \A u \in Tab \ {t} : shown'[u] = shown[u] /\ url'[u] = url[u]
      BY <1>4, <2>2 DEF Fill, TypeOK, kept
    <3>2. CASE r.kind = "memory"
      <4>1. url'[t] = selected[t]
        BY <1>4, <2>2, <3>2 DEF Fill
      <4> QED
        BY <1>1, <2>1, <3>1, <4>1
    <3>3. CASE r.kind # "memory"
      <4>1. shown'[t]["memory"] = shown[t]["memory"] /\ url'[t] = url[t]
        BY <1>0, <2>1, <2>2, <3>3 DEF Fill, TypeOK, kept
      <4> QED
        BY <1>1, <2>1, <3>1, <4>1
    <3> QED
      BY <3>2, <3>3
  <2>3. CASE FillError(t, r)
    <3>1. \A u \in Tab : /\ shown'[u]["memory"] \in {shown[u]["memory"], "error"}
                        /\ url'[u] = url[u]
      BY <1>0, <2>1, <2>3 DEF FillError, TypeOK, kept
    <3> QED
      BY <1>1, <2>1, <3>1
  <2> QED
    BY <1>8, <2>2, <2>3 DEF Answer
<1>9. ASSUME NEW t \in Tab, Store(t, selected[t]), UNCHANGED <<selected, view>>
      PROVE  \A u \in Tab : Named(u)
  BY <1>1, <1>4, <1>9 DEF view
<1>10. ASSUME NEW t \in Tab, NEW k \in Kind, Close(t, k)
       PROVE  \A u \in Tab : Named(u)
  <2>1. /\ drawer'[t] = "none" /\ shown' = shown
        /\ \A u \in Tab \ {t} : selected'[u] = selected[u] /\ drawer'[u] = drawer[u]
    BY <1>10 DEF Close, TypeOK
  <2>2. \A u \in Tab \ {t} : url'[u] = url[u]
    BY <1>4, <1>10 DEF Close
  <2> QED
    BY <1>1, <2>1, <2>2
<1>11. ASSUME UNCHANGED <<selected, drawer, shown, url>>
       PROVE  \A u \in Tab : Named(u)
  BY <1>1, <1>11
<1>12. ASSUME NEW t \in Tab, NotFound(t) PROVE \A u \in Tab : Named(u)
  BY <1>3, <1>12 DEF NotFound, kept
<1>13. \A u \in Tab : Named(u)
  BY <1>5, <1>6, <1>7, <1>8, <1>9, <1>10, <1>11, <1>12
  DEF Next, Visit, Reload, Persist, Submit, FlowAnswer, NetworkFail, vars, view, kept
<1> QED
  BY <1>13 DEF UrlIsSelection

(* The selection is what the headline names, and without a late answer so  *)
(* is the detail.                                                          *)
LEMMA UrlNames ==
  ASSUME UrlIsSelection, SelectionIsTitle, MismatchNeedsLateAnswer
  PROVE  UrlNamesOpenMemory
<1> SUFFICES ASSUME NEW t \in Tab,
                    drawer[t] = "memory", shown[t]["memory"] \in Memory,
                    ~late[t]["memory"]
             PROVE  url[t]["memory"] = shown[t]["memory"]
  BY DEF UrlIsSelection, UrlNamesOpenMemory
<1>1. "memory" \in Kind
  BY DEF Kind
<1>2. url[t]["memory"] = title[t]["memory"]
  BY <1>1 DEF UrlIsSelection, SelectionIsTitle
<1>3. shown[t]["memory"] \notin {None, "loading", "error"}
  BY IdAssumption
<1> QED
  BY <1>1, <1>2, <1>3 DEF MismatchNeedsLateAnswer

(* While the memory drawer shows a detail, the URL names what is selected, *)
(* whatever other tabs store meanwhile; and that is the memory shown,      *)
(* unless an older request was answered after the newest was made.         *)
THEOREM PageUrlNamesOpenMemory == Spec => []UrlNamesOpenMemory
<1>1. Init => UrlIsSelection
  BY DEF Init, UrlIsSelection, Kind
<1>2. Spec => []UrlIsSelection
  BY <1>1, TypeInit, TypeStep, UrlStep, PTL DEF Spec
<1> QED
  BY <1>2, PageSelectionIsTitle, PageMismatchNeedsLateAnswer, UrlNames, PTL
=============================================================================
