-------------------------------- MODULE Page --------------------------------
(***************************************************************************)
(* The page of the core client: two drawers, one for a memory and one for  *)
(* a binding, filled by requests whose answers come when they come; and    *)
(* what is kept of it in the URL of the tab and in the localStorage that   *)
(* all tabs share.                                                         *)
(*                                                                         *)
(* A step is what the browser runs without giving way: an event handler up *)
(* to its first await, or from the answer of a fetch on.                   *)
(*                                                                         *)
(* Abstracted: of the filters, the preset, the bundle and the result views *)
(* only that changing them stores the page's state; of a detail, whose it  *)
(* is.  Attestations are left out: the server refuses them (Lifecycle).    *)
(***************************************************************************)
EXTENDS Naturals

CONSTANTS
  Tab,
  Memory, Binding,   \* ids that lists and links can name
  None,
  MaxFetches,        \* bound: requests in a behaviour
  MaxFailures        \* bound: requests that fail on the network

ASSUME IdAssumption == {None, "loading", "error"} \cap (Memory \cup Binding) = {}
ASSUME BoundAssumption == MaxFetches \in Nat /\ MaxFailures \in Nat

Kind == {"memory", "binding"}
Other(k) == IF k = "memory" THEN "binding" ELSE "memory"
IdsOf == [memory |-> Memory, binding |-> Binding]
Detail == Memory \cup Binding

VARIABLES
  page,       \* [Tab -> "blank", "app" or "404": what the server answered]
  selected,   \* [Tab -> [Kind -> id]]: selectedMemoryId, selectedBindingId
  drawer,     \* [Tab -> the drawer that is open]
  title,      \* [Tab -> [Kind -> id]]: the headline of each drawer
  shown,      \* [Tab -> [Kind -> "loading", "error" or whose detail it shows]]
  latest,     \* [Tab -> [Kind -> id]]: latestDetail, latestBindingDetail
  pending,    \* [Tab -> requests under way]
  url,        \* [Tab -> [Kind -> id]]: the parameters of its URL
  storage,    \* [Kind -> id]: the selection in localStorage
  newest,     \* [Tab -> [Kind -> the number of its newest request]]
  late,       \* [Tab -> [Kind -> an older one was answered after that]]
  asked,      \* requests so far
  failures    \* of these, failed on the network

view == <<drawer, title, shown, latest>>
kept == <<url, storage>>
order == <<newest, late>>
vars == <<page, selected, view, pending, kept, order, asked, failures>>

Selection == [Kind -> Detail \cup {None}]
Nothing == [k \in Kind |-> None]

(* "detail" fills a drawer; "flow" creates or imports a memory, "refresh"  *)
(* reloads the lists after it.                                             *)
Request == [for : {"detail", "flow", "refresh"}, kind : Kind, id : Detail,
            n : 1 .. MaxFetches]

Init ==
  /\ page = [t \in Tab |-> "blank"]
  /\ selected = [t \in Tab |-> Nothing]
  /\ drawer = [t \in Tab |-> "none"]
  /\ title = [t \in Tab |-> Nothing]
  /\ shown = [t \in Tab |-> Nothing]
  /\ latest = [t \in Tab |-> Nothing]
  /\ pending = [t \in Tab |-> {}]
  /\ url = [t \in Tab |-> Nothing]
  /\ storage = Nothing
  /\ newest = [t \in Tab |-> [k \in Kind |-> 0]]
  /\ late = [t \in Tab |-> [k \in Kind |-> FALSE]]
  /\ asked = 0
  /\ failures = 0

-----------------------------------------------------------------------------
(* persistUiState and persistUrlState, of a selection.                     *)
Store(t, s) ==
  /\ url' = [url EXCEPT ![t] = s]
  /\ storage' = s

(* Mutant of OnlyOf: the other selection is kept.                          *)
BothOf(t, k, id) == [selected[t] EXCEPT ![k] = id]

(* One drawer at a time.                                                   *)
OnlyOf(t, k, id) == [Nothing EXCEPT ![k] = id]

(* A request, in a tab whose other requests under way are then in.         *)
Ask(t, for, k, id, in) ==
  /\ asked < MaxFetches
  /\ asked' = asked + 1
  /\ pending' = [pending EXCEPT ![t] =
       in \cup {[for |-> for, kind |-> k, id |-> id, n |-> asked + 1]}]

(* Mutant of OpenIn: the drawer keeps what it showed until the answer.     *)
OpenWithoutClearing(t, k, id, old) ==
  /\ selected' = [selected EXCEPT ![t] = OnlyOf(t, k, id)]
  /\ drawer' = [drawer EXCEPT ![t] = k]
  /\ title' = [title EXCEPT ![t] = [old.title EXCEPT ![k] = id]]
  /\ shown' = [shown EXCEPT ![t] = old.shown]
  /\ latest' = [latest EXCEPT ![t] = old.latest]
  /\ newest' = [newest EXCEPT ![t][k] = asked + 1]
  /\ late' = [late EXCEPT ![t][k] = FALSE]

(* openDetail and openBindingDetail up to the fetch, in a page whose       *)
(* drawers were as in old.                                                 *)
OpenIn(t, k, id, old) ==
  /\ selected' = [selected EXCEPT ![t] = OnlyOf(t, k, id)]
  /\ drawer' = [drawer EXCEPT ![t] = k]
  /\ title' = [title EXCEPT ![t] = [old.title EXCEPT ![k] = id]]
  /\ shown' = [shown EXCEPT ![t] = [old.shown EXCEPT ![k] = "loading"]]
  /\ latest' = [latest EXCEPT ![t] = [old.latest EXCEPT ![k] = None]]
  /\ newest' = [newest EXCEPT ![t][k] = asked + 1]
  /\ late' = [late EXCEPT ![t][k] = FALSE]

Drawers(t) == [title |-> title[t], shown |-> shown[t], latest |-> latest[t]]
EmptyDrawers == [title |-> Nothing, shown |-> Nothing, latest |-> Nothing]

(* A click on a memory or a binding in a list or in a drawer.              *)
Click(t, k, id) ==
  /\ page[t] = "app"
  /\ Ask(t, "detail", k, id, pending[t])
  /\ OpenIn(t, k, id, Drawers(t))
  /\ UNCHANGED <<page, kept, failures>>

Done(t, r) == pending' = [pending EXCEPT ![t] = @ \ {r}]

(* Mutant of Fill: neither drawer stores the state.                        *)
FillUnstored(t, r) ==
  /\ shown' = [shown EXCEPT ![t][r.kind] = r.id]
  /\ latest' = [latest EXCEPT ![t][r.kind] = r.id]
  /\ UNCHANGED <<selected, kept>>

(* The rest of openDetail and of openBindingDetail: the drawer gets the    *)
(* answer, whichever request it now shows.  Only the first stores the      *)
(* state.                                                                  *)
Fill(t, r) ==
  /\ shown' = [shown EXCEPT ![t][r.kind] = r.id]
  /\ latest' = [latest EXCEPT ![t][r.kind] = r.id]
  /\ IF r.kind = "memory" THEN Store(t, selected[t]) ELSE UNCHANGED kept
  /\ UNCHANGED selected

(* Mutant of FillError: it returns before it says so.                      *)
FillErrorSilently(t, r) ==
  UNCHANGED <<shown, latest, selected, kept>>

(* Mutant of FillError: the error becomes the latest detail.               *)
FillErrorAsDetail(t, r) ==
  /\ shown' = [shown EXCEPT ![t][r.kind] = "error"]
  /\ latest' = [latest EXCEPT ![t][r.kind] = "error"]
  /\ UNCHANGED <<selected, kept>>

(* The answer is an error: what was the latest detail stays it.            *)
FillError(t, r) ==
  /\ shown' = [shown EXCEPT ![t][r.kind] = "error"]
  /\ UNCHANGED <<latest, selected, kept>>

Answer(t, r) ==
  /\ r.for = "detail"
  /\ Fill(t, r) \/ FillError(t, r)
  /\ late' = [late EXCEPT ![t][r.kind] = @ \/ r.n < newest[t][r.kind]]
  /\ Done(t, r)
  /\ UNCHANGED <<page, drawer, title, newest, asked, failures>>

(* The fetch throws: nobody catches it, or a catch that leaves the drawer. *)
NetworkFail(t, r) ==
  /\ failures < MaxFailures
  /\ failures' = failures + 1
  /\ Done(t, r)
  /\ UNCHANGED <<page, selected, view, kept, order, asked>>

(* The form is submitted, or a bundle imported.                            *)
Submit(t, id) ==
  /\ page[t] = "app"
  /\ Ask(t, "flow", "memory", id, pending[t])
  /\ UNCHANGED <<page, selected, view, kept, order, failures>>

(* The result is shown and stored; then the lists are asked for anew.      *)
FlowAnswer(t, r) ==
  /\ r.for = "flow"
  /\ Store(t, selected[t])
  /\ \/ Ask(t, "refresh", "memory", r.id, pending[t] \ {r})
     \/ Done(t, r) /\ UNCHANGED asked         \* an error
  /\ UNCHANGED <<page, selected, view, order, failures>>

(* The lists are shown, and stored if not all empty or filtered away; then *)
(* the new memory is opened over whatever is open by now.                  *)
RefreshAnswer(t, r) ==
  /\ r.for = "refresh"
  /\ Store(t, selected[t]) \/ UNCHANGED kept
  /\ Ask(t, "detail", "memory", r.id, pending[t] \ {r})
  /\ OpenIn(t, "memory", r.id, Drawers(t))
  /\ UNCHANGED <<page, failures>>

-----------------------------------------------------------------------------
(* The close button, or a click beside the drawer.                         *)
Close(t, k) ==
  /\ page[t] = "app" /\ drawer[t] = k
  /\ drawer' = [drawer EXCEPT ![t] = "none"]
  /\ selected' = [selected EXCEPT ![t][k] = None]
  /\ Store(t, selected[t]')
  /\ UNCHANGED <<page, title, shown, latest, pending, order, asked, failures>>

(* A filter, the preset or the bundle is edited, an export is shown, the   *)
(* refresh button or the first refresh is answered: all store the state.   *)
Persist(t) ==
  /\ page[t] = "app"
  /\ Store(t, selected[t])
  /\ UNCHANGED <<page, selected, view, pending, order, asked, failures>>

-----------------------------------------------------------------------------
Restored(t, k) ==
  /\ Ask(t, "detail", k, storage[k], {})
  /\ OpenIn(t, k, storage[k], EmptyDrawers)

RestoredClosed(t) ==
  /\ selected' = [selected EXCEPT ![t] = Nothing]
  /\ drawer' = [drawer EXCEPT ![t] = "none"]
  /\ title' = [title EXCEPT ![t] = Nothing]
  /\ shown' = [shown EXCEPT ![t] = Nothing]
  /\ latest' = [latest EXCEPT ![t] = Nothing]
  /\ pending' = [pending EXCEPT ![t] = {}]
  /\ UNCHANGED <<order, asked>>

(* The tab loads the page: the server answers GET / with it, its script    *)
(* restores the selection and opens what it names.  The URL holds no       *)
(* parameter then.                                                         *)
Load(t) ==
  /\ page' = [page EXCEPT ![t] = "app"]
  /\ url' = [url EXCEPT ![t] = Nothing]
  /\ \/ storage = Nothing /\ RestoredClosed(t)
     \/ \E k \in Kind : storage[k] # None /\ Restored(t, k)
  /\ UNCHANGED <<storage, failures>>

Visit(t) == page[t] # "app" /\ Load(t)

(* Any parameter in the URL, and it is not "/" that is asked for: the      *)
(* server knows no such route.                                             *)
NotFound(t) ==
  /\ page' = [page EXCEPT ![t] = "404"]
  /\ RestoredClosed(t)
  /\ UNCHANGED <<kept, failures>>

Reload(t) ==
  /\ page[t] = "app"
  /\ IF url[t] = Nothing THEN Load(t) ELSE NotFound(t)

-----------------------------------------------------------------------------
Next ==
  \E t \in Tab :
    \/ Visit(t)
    \/ Reload(t)
    \/ Persist(t)
    \/ \E k \in Kind : Close(t, k) \/ \E id \in IdsOf[k] : Click(t, k, id)
    \/ \E id \in Memory : Submit(t, id)
    \/ \E r \in pending[t] :
         \/ Answer(t, r)
         \/ FlowAnswer(t, r)
         \/ RefreshAnswer(t, r)
         \/ NetworkFail(t, r)

Spec == Init /\ [][Next]_vars

(* A fetch ends: the server answers or the browser gives up on it.         *)
Fairness == \A t \in Tab : WF_vars(\E r \in pending[t] :
  r.for = "detail" /\ (Answer(t, r) \/ NetworkFail(t, r)))

FairSpec == Spec /\ Fairness

-----------------------------------------------------------------------------
(* Every variable has its type.                                            *)
TypeOK ==
  /\ page \in [Tab -> {"blank", "app", "404"}]
  /\ selected \in [Tab -> Selection]
  /\ drawer \in [Tab -> Kind \cup {"none"}]
  /\ title \in [Tab -> Selection]
  /\ shown \in [Tab -> [Kind -> Detail \cup {None, "loading", "error"}]]
  /\ latest \in [Tab -> Selection]
  /\ pending \in [Tab -> SUBSET Request]
  /\ url \in [Tab -> Selection]
  /\ storage \in Selection
  /\ newest \in [Tab -> [Kind -> 0 .. MaxFetches]]
  /\ late \in [Tab -> [Kind -> BOOLEAN]]
  /\ asked \in 0 .. MaxFetches
  /\ failures \in 0 .. MaxFailures

(* What Export, Copy Export and the attestation button act on is the       *)
(* selection: of an open drawer it is what the headline names, of a closed *)
(* one nothing.  (Copy Content and Copy Binding take the latest detail     *)
(* instead: MismatchNeedsLateAnswer.)  And no stored selection names a     *)
(* memory and a binding at once, so that start-up opens one drawer.        *)
OneSelection(s) == \E k \in Kind : s[Other(k)] = None

SelectionIsTitle ==
  /\ OneSelection(storage)
  /\ \A t \in Tab :
       /\ OneSelection(url[t])
       /\ OneSelection(selected[t])
       /\ \A k \in Kind :
            IF drawer[t] = k THEN selected[t][k] = title[t][k]
                             ELSE selected[t][k] = None

(* A drawer shows, and Copy Content or Copy Binding copies, the detail of  *)
(* what its headline names -- unless the answer to an older request came   *)
(* after the newest one was made: answers are not matched with requests.   *)
MismatchNeedsLateAnswer ==
  \A t \in Tab, k \in Kind :
    late[t][k] \/
      /\ shown[t][k] \in {None, "loading", "error", title[t][k]}
      /\ latest[t][k] \in {None, title[t][k]}

(* While the memory drawer shows a detail, the URL names what the page has *)
(* selected; and, unless an older request was answered late, that is the   *)
(* memory whose detail is shown.                                           *)
UrlNamesOpenMemory ==
  \A t \in Tab :
    drawer[t] = "memory" /\ shown[t]["memory"] \in Memory =>
      /\ url[t] = selected[t]
      /\ late[t]["memory"] \/ url[t]["memory"] = shown[t]["memory"]

(* No drawer says "loading" for ever, unless a fetch failed on the         *)
(* network.                                                                *)
LoadingEnds ==
  \A t \in Tab, k \in Kind :
    shown[t][k] = "loading" ~> shown[t][k] # "loading" \/ failures > 0

=============================================================================
