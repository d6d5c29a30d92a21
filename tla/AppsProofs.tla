----------------------------- MODULE AppsProofs -----------------------------
(* Theorems about Apps for every number of workers, intents and failures.  *)
EXTENDS Apps, FunctionTheorems, FiniteSetTheorems, TLAPS

USE WorkerAssumption, IntentAssumption, SentinelAssumption, BoundAssumption

-----------------------------------------------------------------------------
(* What a request under way has in its locals.                             *)
JobInv ==
  \A w \in Worker :
    /\ pc[w] # "idle" => /\ job[w].intent \in Intent
                         /\ job[w].request \in Request
                         /\ Via[job[w].intent] = AppOf[w]
                         /\ job[w].request[1] = job[w].intent
    /\ pc[w] \in {"keytruncate", "keywrite"} => job[w].key \in Key
    /\ pc[w] = "lookup" => job[w].key = None

TypeInv == TypeOK /\ JobInv

(* A request ends: its worker is free, its owner has been told.            *)
LEMMA ReplyType ==
  ASSUME TypeInv, NEW w \in Worker, pc[w] # "idle",
         NEW code \in {"201", "400"}, Reply(w, code)
  PROVE  /\ pc' \in [Worker -> Await] /\ job' \in [Worker -> Job]
         /\ answer' \in [Intent -> {"none", "waiting", "201", "400"}]
         /\ JobInv'
<1>1. NoJob \in Job /\ "idle" \in Await
  BY DEF NoJob, Job, Await
<1>2. /\ pc' = [pc EXCEPT ![w] = "idle"] /\ job' = [job EXCEPT ![w] = NoJob]
      /\ answer' = [answer EXCEPT ![job[w].intent] = code]
  BY DEF Reply, Goto
<1>3. /\ pc' \in [Worker -> Await] /\ job' \in [Worker -> Job]
      /\ answer' \in [Intent -> {"none", "waiting", "201", "400"}]
  BY <1>1, <1>2 DEF TypeInv, TypeOK, JobInv
<1>4. pc'[w] = "idle" /\ \A v \in Worker \ {w} : pc'[v] = pc[v] /\ job'[v] = job[v]
  BY <1>2 DEF TypeInv, TypeOK
<1>5. JobInv'
  BY <1>4 DEF TypeInv, JobInv
<1> QED
  BY <1>3, <1>5

(* A request goes on to an await, with its locals or a key for them.       *)
LEMMA GotoType ==
  ASSUME TypeInv, NEW w \in Worker, pc[w] # "idle", NEW await \in Await \ {"idle", "lookup"},
         Goto(w, await), UNCHANGED answer,
         \/ job' = job /\ (await = "keywrite" => job[w].key \in Key)
         \/ \E key \in Key : job' = [job EXCEPT ![w].key = key],
         await = "keytruncate" => job'[w].key \in Key
  PROVE  /\ pc' \in [Worker -> Await] /\ job' \in [Worker -> Job]
         /\ answer' \in [Intent -> {"none", "waiting", "201", "400"}]
         /\ JobInv'
<1>1. job \in [Worker -> Job] /\ pc \in [Worker -> Await]
  BY DEF TypeInv, TypeOK
<1>2. /\ job' \in [Worker -> Job]
      /\ job'[w].intent = job[w].intent /\ job'[w].request = job[w].request
      /\ \A v \in Worker \ {w} : job'[v] = job[v]
      /\ await \in {"keytruncate", "keywrite"} => job'[w].key \in Key
  <2>1. CASE job' = job /\ (await = "keywrite" => job[w].key \in Key)
    BY <1>1, <2>1
  <2>2. ASSUME NEW key \in Key, job' = [job EXCEPT ![w].key = key]
        PROVE  /\ job' \in [Worker -> Job]
               /\ job'[w].intent = job[w].intent /\ job'[w].request = job[w].request
               /\ \A v \in Worker \ {w} : job'[v] = job[v]
               /\ job'[w].key = key
    <3>1. job[w] \in Job
      BY <1>1
    <3>2. [job[w] EXCEPT !.key = key] \in Job
      BY <3>1 DEF Job
    <3>3. job' = [job EXCEPT ![w] = [job[w] EXCEPT !.key = key]]
      BY <2>2
    <3> QED
      BY <1>1, <3>1, <3>2, <3>3 DEF Job
  <2> QED
    BY <2>1, <2>2
<1>3. pc' = [pc EXCEPT ![w] = await]
  BY DEF Goto
<1>4. pc' \in [Worker -> Await] /\ pc'[w] = await
      /\ \A v \in Worker \ {w} : pc'[v] = pc[v]
  BY <1>1, <1>3
<1>5. JobInv'
  <2>1. ASSUME NEW v \in Worker, v # w
        PROVE  /\ pc'[v] # "idle" => /\ job'[v].intent \in Intent
                                    /\ job'[v].request \in Request
                                    /\ Via[job'[v].intent] = AppOf[v]
                                    /\ job'[v].request[1] = job'[v].intent
               /\ pc'[v] \in {"keytruncate", "keywrite"} => job'[v].key \in Key
               /\ pc'[v] = "lookup" => job'[v].key = None
    <3>1. pc'[v] = pc[v] /\ job'[v] = job[v]
      BY <1>2, <1>4, <2>1
    <3> QED
      BY <3>1 DEF TypeInv, JobInv
  <2>2. /\ job'[w].intent \in Intent
        /\ job'[w].request \in Request
        /\ Via[job'[w].intent] = AppOf[w]
        /\ job'[w].request[1] = job'[w].intent
    BY <1>2 DEF TypeInv, JobInv
  <2> QED
    BY <1>2, <1>4, <2>1, <2>2 DEF JobInv
<1> QED
  BY <1>2, <1>4, <1>5 DEF TypeInv, TypeOK

LEMMA LineType ==
  ASSUME TypeInv, NEW w \in Worker, pc[w] # "idle"
  PROVE  /\ LineOf(w) \in Line /\ BondOf(w) \in Bond /\ IdOf(w) \in MemoryId
         /\ want(w) \in Want /\ AppOf[w] \in App
<1>1. /\ job[w].intent \in Intent /\ job[w].request \in Request
      /\ job[w].key \in Key \cup {None}
  BY DEF TypeInv, TypeOK, JobInv, Job
<1>2. IdOf(w) \in MemoryId
  BY <1>1 DEF IdOf, MemoryId
<1> QED
  BY <1>1, <1>2 DEF LineOf, Line, BondOf, Bond, want

LEMMA StartType ==
  ASSUME TypeInv, NEW w \in Worker, NEW i \in Intent, Start(w, i),
         answer' \in [Intent -> {"none", "waiting", "201", "400"}],
         again' \in [Intent -> Nat]
  PROVE  TypeInv'
<1>1. tries[i] + 1 \in Nat
  BY DEF TypeInv, TypeOK
<1>2. <<i, tries[i] + 1>> \in Request
  BY <1>1 DEF Request
<1> DEFINE new == [intent |-> i, request |-> <<i, tries[i] + 1>>, key |-> None]
<1>3. new \in Job
  BY <1>2 DEF Job
<1>4. Begin(i) \in Await \ {"idle", "keytruncate", "keywrite"}
  BY DEF Begin, Await
<1>5. /\ pc' = [pc EXCEPT ![w] = Begin(i)] /\ job' = [job EXCEPT ![w] = new]
  BY DEF Start, Goto
<1>6. /\ pc'[w] = Begin(i) /\ job'[w] = new
      /\ \A v \in Worker \ {w} : pc'[v] = pc[v] /\ job'[v] = job[v]
  BY <1>5 DEF TypeInv, TypeOK
<1>7. JobInv'
  <2>1. /\ new.intent = i /\ new.request = <<i, tries[i] + 1>> /\ new.request[1] = i
        /\ new.key = None
    OBVIOUS
  <2>2. Via[i] = AppOf[w]
    BY DEF Start
  <2> QED
    BY <1>2, <1>4, <1>6, <2>1, <2>2 DEF JobInv, TypeInv
<1>8. TypeOK'
  <2>1. tries' \in [Intent -> Nat]
    BY <1>1 DEF Start, TypeInv, TypeOK
  <2>2. pc' \in [Worker -> Await] /\ job' \in [Worker -> Job]
    BY <1>3, <1>4, <1>5 DEF TypeInv, TypeOK
  <2> QED
    BY <2>1, <2>2 DEF Start, disk, TypeInv, TypeOK
<1> QED
  BY <1>7, <1>8 DEF TypeInv

LEMMA SubmitType ==
  ASSUME TypeInv, NEW w \in Worker, NEW i \in Intent, Submit(w, i) \/ SubmitAgain(w, i)
  PROVE  TypeInv'
<1>1. answer' \in [Intent -> {"none", "waiting", "201", "400"}]
  BY DEF Submit, SubmitAgain, TypeInv, TypeOK
<1>2. again' \in [Intent -> Nat]
  BY DEF Submit, SubmitAgain, TypeInv, TypeOK
<1> QED
  BY <1>1, <1>2, StartType DEF Submit, SubmitAgain

LEMMA ProceedType ==
  ASSUME TypeInv, NEW w \in Worker, Proceed(w)
  PROVE  TypeInv'
<1> DEFINE Typed == /\ pc' \in [Worker -> Await] /\ job' \in [Worker -> Job]
                    /\ answer' \in [Intent -> {"none", "waiting", "201", "400"}]
                    /\ JobInv'
<1>1. CASE ReadKey(w)
  <2>1. pc[w] = "key" /\ AppOf[w] \in App
    BY <1>1 DEF ReadKey
  <2>2. \E key \in Key : job' = [job EXCEPT ![w].key = key] /\ job'[w].key = key
    <3>1. keyfile[AppOf[w]] \in Key \cup {Absent, Torn} /\ job[w].request \in Key
      BY <2>1 DEF TypeInv, TypeOK, JobInv, Key
    <3>2. PICK key \in Key : job' = [job EXCEPT ![w].key = key]
      BY <1>1, <3>1 DEF ReadKey
    <3>3. job'[w].key = key
      BY <3>2 DEF TypeInv, TypeOK, Job
    <3> QED
      BY <3>2, <3>3
  <2>3. Goto(w, "record") \/ Goto(w, "keytruncate")
    BY <1>1 DEF ReadKey
  <2>4. Typed
    BY <1>1, <2>1, <2>2, <2>3, GotoType DEF ReadKey, Await
  <2>5. rekeyed' \in [App -> BOOLEAN]
    <3>1. CASE UNCHANGED rekeyed
      BY <3>1 DEF asked, TypeInv, TypeOK
    <3>2. CASE rekeyed' = [rekeyed EXCEPT ![AppOf[w]] =
                 @ \/ \E v \in Worker : AppOf[v] = AppOf[w] /\ MakingKey(v)]
      <4>1. (rekeyed[AppOf[w]] \/ \E v \in Worker : AppOf[v] = AppOf[w] /\ MakingKey(v)) \in BOOLEAN
        OBVIOUS
      <4> QED
        BY <3>2, <4>1, Zenon DEF asked, TypeInv, TypeOK
    <3> QED
      BY <1>1, <3>1, <3>2 DEF ReadKey
  <2> QED
    BY <1>1, <2>4, <2>5 DEF ReadKey, disk, asked, TypeInv, TypeOK
<1>2. CASE TruncateKey(w)
  <2>1. Typed
    BY <1>2, GotoType DEF TruncateKey, Await, TypeInv, JobInv
  <2> QED
    BY <1>2, <2>1 DEF TruncateKey, asked, TypeInv, TypeOK
<1>3. CASE WriteKey(w)
  <2>1. Typed
    BY <1>3, GotoType DEF WriteKey, Await
  <2>2. job[w].key \in Key
    BY <1>3 DEF WriteKey, TypeInv, JobInv
  <2> QED
    BY <1>3, <2>1, <2>2 DEF WriteKey, asked, TypeInv, TypeOK
<1>4. CASE Record(w)
  <2>1. pc[w] = "record" /\ Goto(w, AfterRecord(w)) /\ UNCHANGED <<job, answer>>
    BY <1>4 DEF Record
  <2>2. AfterRecord(w) \in {"readback", "lasttruncate", "answer"}
    BY DEF AfterRecord
  <2>3. Typed
    BY <2>1, <2>2, GotoType DEF Await
  <2>4. memories' \subseteq Line /\ medium' \in {"good", "open", "lost"}
    BY <1>4, <2>1, LineType DEF Record, AfterAppend, asked, TypeInv, TypeOK
  <2> QED
    BY <1>4, <2>3, <2>4 DEF Record, asked, TypeInv, TypeOK
<1>5. CASE ReadBack(w)
  <2>1. pc[w] = "readback"
    BY <1>5 DEF ReadBack
  <2>2. \/ Reply(w, "400")
        \/ (Goto(w, "bind") \/ Goto(w, "answer")) /\ UNCHANGED <<job, answer>>
    BY <1>5 DEF ReadBack
  <2>3. Typed
    BY <2>1, <2>2, GotoType, ReplyType DEF Await
  <2> QED
    BY <1>5, <2>3 DEF ReadBack, disk, asked, TypeInv, TypeOK
<1>6. CASE Bind(w)
  <2>1. pc[w] = "bind" /\ UNCHANGED <<job, answer>>
        /\ (Goto(w, "lasttruncate") \/ Goto(w, "answer"))
    BY <1>6 DEF Bind
  <2>2. Typed
    BY <2>1, GotoType DEF Await
  <2>3. bindings' \subseteq Bond
    BY <1>6, <2>1, LineType DEF Bind, asked, TypeInv, TypeOK
  <2> QED
    BY <1>6, <2>2, <2>3 DEF Bind, asked, TypeInv, TypeOK
<1>7. CASE TruncateLast(w)
  <2>1. Typed
    BY <1>7, GotoType DEF TruncateLast, Await
  <2> QED
    BY <1>7, <2>1 DEF TruncateLast, asked, TypeInv, TypeOK
<1>8. CASE WriteLast(w)
  <2>1. Typed
    BY <1>8, GotoType DEF WriteLast, Await
  <2>2. IdOf(w) \in MemoryId
    BY <1>8, LineType DEF WriteLast
  <2> QED
    BY <1>8, <2>1, <2>2 DEF WriteLast, asked, TypeInv, TypeOK
<1>10. CASE LookUp(w)
  <2>1. /\ pc[w] = "lookup" /\ UNCHANGED <<job, answer>>
        /\ \E await \in {"record", "readback", "lasttruncate", "answer"} : Goto(w, await)
    BY <1>10 DEF LookUp, AfterRecord
  <2>2. Typed
    BY <2>1, GotoType DEF Await
  <2> QED
    BY <1>10, <2>2 DEF LookUp, disk, asked, TypeInv, TypeOK
<1>9. CASE Answer(w)
  <2>1. Typed
    BY <1>9, ReplyType DEF Answer
  <2> QED
    BY <1>9, <2>1 DEF Answer, disk, asked, TypeInv, TypeOK
<1> QED
  BY <1>1, <1>2, <1>3, <1>4, <1>5, <1>6, <1>7, <1>8, <1>9, <1>10 DEF Proceed

LEMMA FailType ==
  ASSUME TypeInv, NEW w \in Worker, Fail(w)
  PROVE  TypeInv'
<1> DEFINE Typed == /\ pc' \in [Worker -> Await] /\ job' \in [Worker -> Job]
                    /\ answer' \in [Intent -> {"none", "waiting", "201", "400"}]
                    /\ JobInv'
<1>0. failures' \in 0 .. MaxFailures /\ UNCHANGED asked
  BY DEF Fail, asked, TypeInv, TypeOK
<1>1. CASE FailKeyRead(w)
  <2>1. pc[w] = "key" /\ job[w].request \in Key
    BY <1>1 DEF FailKeyRead, TypeInv, JobInv, Key
  <2>2. job' = [job EXCEPT ![w].key = job[w].request]
    BY <1>1 DEF FailKeyRead
  <2>3. job'[w].key \in Key
    BY <2>1, <2>2 DEF TypeInv, TypeOK, Job
  <2>4. Typed
    BY <1>1, <2>1, <2>2, <2>3, GotoType DEF FailKeyRead, Await
  <2>5. rekeyed' \in [App -> BOOLEAN]
    BY <1>1 DEF FailKeyRead, asked, TypeInv, TypeOK
  <2> QED
    BY <1>0, <1>1, <2>4, <2>5 DEF FailKeyRead, disk, asked, TypeInv, TypeOK
<1>2. CASE FailRecord(w)
  <2>1. Typed
    BY <1>2, ReplyType DEF FailRecord
  <2>2. memories' \subseteq Line /\ medium' \in {"good", "open", "lost"}
    BY <1>2, LineType DEF FailRecord, asked, TypeInv, TypeOK
  <2> QED
    BY <1>0, <1>2, <2>1, <2>2 DEF FailRecord, asked, TypeInv, TypeOK
<1>3. CASE FailOther(w)
  <2>1. pc[w] # "idle"
    BY <1>3 DEF FailOther
  <2>2. Typed
    BY <1>3, <2>1, ReplyType DEF FailOther
  <2>3. bindings' \subseteq Bond
    BY <1>3, <2>1, LineType DEF FailOther, asked, TypeInv, TypeOK
  <2> QED
    BY <1>0, <1>3, <2>2, <2>3 DEF FailOther, asked, TypeInv, TypeOK
<1>4. CASE FailLookUp(w)
  <2>1. pc[w] = "lookup"
    BY <1>4 DEF FailLookUp
  <2>2. Reply(w, "400") \/ (Goto(w, "record") /\ UNCHANGED <<job, answer>>)
    BY <1>4 DEF FailLookUp
  <2>3. Typed
    BY <2>1, <2>2, ReplyType, GotoType DEF Await
  <2>4. blind' \in [Intent -> BOOLEAN]
    BY <1>4 DEF FailLookUp, asked, TypeInv, TypeOK
  <2> QED
    BY <1>0, <1>4, <2>3, <2>4 DEF FailLookUp, disk, asked, TypeInv, TypeOK
<1> QED
  BY <1>1, <1>2, <1>3, <1>4 DEF Fail

LEMMA CrashType ==
  ASSUME TypeInv, NEW w \in Worker, Crash(w)
  PROVE  TypeInv'
<1> DEFINE dead == IF AppOf[w] = "cli" THEN {w} ELSE {v \in Worker : AppOf[v] = AppOf[w]}
           told == {job[v].intent : v \in dead}
<1>1. /\ pc' = [v \in Worker |-> IF v \in dead THEN "idle" ELSE pc[v]]
      /\ job' = [v \in Worker |-> IF v \in dead THEN NoJob ELSE job[v]]
      /\ answer' = [i \in Intent |-> IF i \in told THEN "400" ELSE answer[i]]
  BY DEF Crash
<1> HIDE DEF dead, told
<1>2. NoJob \in Job /\ "idle" \in Await
  BY DEF NoJob, Job, Await
<1>3. /\ pc' \in [Worker -> Await] /\ job' \in [Worker -> Job]
      /\ answer' \in [Intent -> {"none", "waiting", "201", "400"}]
  BY <1>1, <1>2 DEF asked, TypeInv, TypeOK
<1>4. JobInv'
  BY <1>1 DEF TypeInv, JobInv
<1>5. failures' \in 0 .. MaxFailures
  BY DEF Crash, asked, TypeInv, TypeOK
<1> QED
  BY <1>3, <1>4, <1>5 DEF Crash, disk, asked, TypeInv, TypeOK

LEMMA TypeInit == Init => TypeInv
<1> SUFFICES ASSUME Init PROVE TypeInv
  OBVIOUS
<1>1. NoJob \in Job /\ "idle" \in Await
  BY DEF NoJob, Job, Await
<1>2. pc \in [Worker -> Await] /\ job \in [Worker -> Job]
  BY <1>1 DEF Init
<1>3. tries \in [Intent -> Nat] /\ again \in [Intent -> Nat] /\ failures \in 0 .. MaxFailures
  BY DEF Init
<1>4. JobInv
  BY DEF Init, JobInv
<1> QED
  BY <1>2, <1>3, <1>4 DEF Init, asked, TypeInv, TypeOK

LEMMA TypeStep ==
  ASSUME TypeInv, [Next]_vars
  PROVE  TypeInv'
<1>1. CASE UNCHANGED vars
  BY <1>1 DEF TypeInv, TypeOK, JobInv, vars
<1> QED
  BY <1>1, SubmitType, ProceedType, FailType, CrashType DEF Next

(* Every variable keeps its type, whatever fails.                          *)
THEOREM AppsTypeCorrect == Spec => []TypeOK
<1>1. TypeInv => TypeOK
  BY DEF TypeInv
<1> QED
  BY <1>1, TypeInit, TypeStep, PTL DEF Spec

-----------------------------------------------------------------------------
(* Why a program signs with the key it keeps: a key is used only when the  *)
(* file holds it, and while one is being made the file holds none.         *)
KeyInv(a) ==
  /\ \A m \in memories : m.app = a /\ m.key # None => m.key = keyfile[a]
  /\ \A w \in Worker :
       /\ AppOf[w] = a /\ pc[w] = "record" /\ job[w].key # None => job[w].key = keyfile[a]
       /\ AppOf[w] = a /\ MakingKey(w) => keyfile[a] \in {Absent, Torn}
  /\ \A v, w \in Worker :
       AppOf[v] = a /\ AppOf[w] = a /\ MakingKey(v) /\ MakingKey(w) => v = w

KeysInv == \A a \in App : ~rekeyed[a] => KeyInv(a)

(* Neither None nor a key is the state of a file without one.              *)
LEMMA KeyFacts ==
  Absent \notin Key /\ Torn \notin Key /\ None \notin Key
  BY DEF Key, MemoryId

(* While a file holds no key, none is in use.                              *)
LEMMA NoneInUse ==
  ASSUME TypeInv, NEW a \in App, KeyInv(a), keyfile[a] \in {Absent, Torn}
  PROVE  /\ \A m \in memories : m.app = a => m.key = None
         /\ \A w \in Worker : AppOf[w] = a /\ pc[w] = "record" => job[w].key = None
<1>1. /\ \A m \in memories : m.key \in Key \cup {None}
      /\ \A w \in Worker : job[w].key \in Key \cup {None}
  BY DEF TypeInv, TypeOK, Line, Job
<1> QED
  BY <1>1, KeyFacts DEF KeyInv

(* A step that lets no worker make a key or record with another, and signs *)
(* nothing, keeps the invariant.                                           *)
LEMMA KeyKept ==
  ASSUME TypeInv, NEW a \in App, KeyInv(a), keyfile'[a] = keyfile[a],
         \A m \in memories' : m \in memories \/ m.app # a \/ m.key = None
                                             \/ m.key = keyfile[a],
         \A w \in Worker : AppOf[w] = a =>
           \/ pc'[w] = pc[w] /\ job'[w] = job[w]
           \/ pc'[w] \notin {"record", "keytruncate", "keywrite"}
           \/ pc'[w] = "record" /\ job'[w].key \in {None, keyfile[a]}
           \/ MakingKey(w) /\ pc'[w] = "keywrite"
  PROVE  KeyInv(a)'
<1>1. \A w \in Worker : AppOf[w] = a /\ MakingKey(w)' => MakingKey(w)
  BY DEF MakingKey
<1>2. \A w \in Worker : AppOf[w] = a /\ pc'[w] = "record" /\ job'[w].key # None =>
        job'[w].key = keyfile[a]
  BY DEF KeyInv
<1>3. \A m \in memories' : m.app = a /\ m.key # None => m.key = keyfile[a]
  BY DEF KeyInv
<1> QED
  BY <1>1, <1>2, <1>3 DEF KeyInv

LEMMA KeyStep ==
  ASSUME TypeInv, KeysInv, [Next]_vars
  PROVE  KeysInv'
<1> SUFFICES ASSUME NEW a \in App, ~rekeyed'[a]
             PROVE  KeyInv(a)'
  BY DEF KeysInv
<1> DEFINE Others(w) == \A v \in Worker \ {w} : pc'[v] = pc[v] /\ job'[v] = job[v]
<1>0. rekeyed \in [App -> BOOLEAN] /\ pc \in [Worker -> Await] /\ job \in [Worker -> Job]
      /\ keyfile \in [App -> Key \cup {Absent, Torn}]
  BY DEF TypeInv, TypeOK
<1>1. KeyInv(a)
  <2>1. ASSUME NEW w \in Worker, ReadKey(w) PROVE ~rekeyed[a]
    <3>1. CASE UNCHANGED rekeyed
      BY <3>1
    <3>2. CASE rekeyed' = [rekeyed EXCEPT ![AppOf[w]] =
                 @ \/ \E v \in Worker : AppOf[v] = AppOf[w] /\ MakingKey(v)]
      BY <1>0, <3>2, Zenon
    <3> QED
      BY <2>1, <3>1, <3>2 DEF ReadKey
  <2>2. ASSUME NEW w \in Worker, Fail(w) PROVE ~rekeyed[a]
    <3>1. CASE UNCHANGED rekeyed
      BY <3>1
    <3>2. CASE rekeyed' = [rekeyed EXCEPT ![AppOf[w]] = TRUE]
      BY <1>0, <3>2
    <3> QED
      BY <2>2, <3>1, <3>2 DEF Fail, FailKeyRead, FailLookUp, FailRecord, FailOther
  <2>3. ~rekeyed[a]
    BY <2>1, <2>2 DEF Next, Proceed, Submit, SubmitAgain, Start, LookUp, TruncateKey, WriteKey, Record, ReadBack, Bind,
       TruncateLast, WriteLast, Answer, Crash, vars
  <2> QED
    BY <2>3 DEF KeysInv
<1>2. ASSUME NEW w \in Worker, NEW i \in Intent, Start(w, i)
      PROVE  KeyInv(a)'
  <2>1. /\ pc' = [pc EXCEPT ![w] = Begin(i)]
        /\ job' = [job EXCEPT ![w] =
             [intent |-> i, request |-> <<i, tries[i] + 1>>, key |-> None]]
        /\ UNCHANGED <<keyfile, memories>>
    BY <1>2 DEF Start, Goto, disk
  <2>2. Begin(i) \in {"bind", "lookup", "key"}
    BY DEF Begin
  <2>3. pc'[w] = Begin(i) /\ job'[w].key = None /\ Others(w)
    BY <1>0, <2>1
  <2> QED
    BY <1>1, <2>1, <2>2, <2>3, KeyKept
<1>3. ASSUME NEW w \in Worker, ReadKey(w)
      PROVE  KeyInv(a)'
  <2>1. UNCHANGED <<keyfile, memories>> /\ pc[w] = "key" /\ Others(w)
    BY <1>0, <1>3 DEF ReadKey, Goto, disk
  <2>2. CASE AppOf[w] # a
    BY <1>1, <2>1, <2>2, KeyKept
  <2>3. CASE /\ AppOf[w] = a /\ keyfile[a] \notin {Absent, Torn}
             /\ job' = [job EXCEPT ![w].key = keyfile[a]] /\ Goto(w, "record")
    <3>1. pc'[w] = "record" /\ job'[w].key = keyfile[a]
      BY <1>0, <2>3 DEF Goto, Job
    <3> QED
      BY <1>1, <2>1, <3>1, KeyKept
  <2>4. CASE /\ AppOf[w] = a /\ keyfile[a] \in {Absent, Torn} /\ Goto(w, "keytruncate")
             /\ rekeyed' = [rekeyed EXCEPT ![a] =
                  @ \/ \E v \in Worker : AppOf[v] = a /\ MakingKey(v)]
    <3>1. \A v \in Worker : AppOf[v] = a => ~MakingKey(v)
      BY <1>0, <2>4, Zenon
    <3>2. pc'[w] = "keytruncate"
      BY <1>0, <2>4 DEF Goto
    <3>3. \A v \in Worker : AppOf[v] = a /\ MakingKey(v)' => v = w
      BY <2>1, <3>1 DEF MakingKey
    <3>4. \A v \in Worker : AppOf[v] = a /\ pc'[v] = "record" => job'[v].key = None
      BY <1>1, <2>1, <2>4, <3>2, NoneInUse
    <3>5. \A m \in memories : m.app = a => m.key = None
      BY <1>1, <2>4, NoneInUse
    <3> QED
      BY <2>1, <2>4, <3>3, <3>4, <3>5 DEF KeyInv
  <2> QED
    BY <1>3, <2>2, <2>3, <2>4 DEF ReadKey
<1>4. ASSUME NEW w \in Worker, TruncateKey(w) \/ WriteKey(w)
      PROVE  KeyInv(a)'
  <2>1. /\ UNCHANGED memories /\ job' = job /\ Others(w) /\ MakingKey(w)
        /\ \/ keyfile' = [keyfile EXCEPT ![AppOf[w]] = Torn] /\ pc'[w] = "keywrite"
           \/ keyfile' = [keyfile EXCEPT ![AppOf[w]] = job[w].key] /\ pc'[w] = "record"
    BY <1>0, <1>4 DEF TruncateKey, WriteKey, Goto, MakingKey
  <2>2. CASE AppOf[w] # a
    <3>1. keyfile'[a] = keyfile[a]
      BY <1>0, <2>1, <2>2
    <3> QED
      BY <1>1, <2>1, <2>2, <3>1, KeyKept
  <2>3. CASE AppOf[w] = a
    <3>1. keyfile[a] \in {Absent, Torn}
      BY <1>1, <2>1, <2>3 DEF KeyInv
    <3>2. /\ \A m \in memories : m.app = a => m.key = None
          /\ \A v \in Worker : AppOf[v] = a /\ pc[v] = "record" => job[v].key = None
      BY <1>1, <3>1, NoneInUse
    <3>3. \A v \in Worker : AppOf[v] = a /\ v # w => ~MakingKey(v) /\ ~MakingKey(v)'
      BY <1>1, <2>1, <2>3 DEF KeyInv, MakingKey
    <3>4. CASE keyfile' = [keyfile EXCEPT ![AppOf[w]] = Torn] /\ pc'[w] = "keywrite"
      <4>1. keyfile'[a] = Torn
        BY <1>0, <2>3, <3>4
      <4> QED
        BY <2>1, <3>2, <3>3, <3>4, <4>1 DEF KeyInv
    <3>5. CASE keyfile' = [keyfile EXCEPT ![AppOf[w]] = job[w].key] /\ pc'[w] = "record"
      <4>1. keyfile'[a] = job[w].key /\ ~MakingKey(w)'
        BY <1>0, <2>3, <3>5 DEF MakingKey
      <4> QED
        BY <2>1, <3>2, <3>3, <3>5, <4>1 DEF KeyInv
    <3> QED
      BY <2>1, <3>4, <3>5
  <2> QED
    BY <2>2, <2>3
<1>5. ASSUME NEW w \in Worker, pc[w] = "record" \/ memories' = memories,
             memories' \subseteq memories \cup {LineOf(w)}, UNCHANGED keyfile,
             Others(w), pc'[w] \notin {"record", "keytruncate", "keywrite"}
      PROVE  KeyInv(a)'
  <2>1. LineOf(w).app = AppOf[w] /\ LineOf(w).key = job[w].key
    BY DEF LineOf
  <2>2. pc[w] = "record" /\ AppOf[w] = a => job[w].key \in {None, keyfile[a]}
    BY <1>1 DEF KeyInv
  <2> QED
    BY <1>1, <1>5, <2>1, <2>2, KeyKept
<1>6. ASSUME NEW w \in Worker, Record(w)
      PROVE  KeyInv(a)'
  <2>1. AfterRecord(w) \notin {"record", "keytruncate", "keywrite"}
    BY DEF AfterRecord
  <2>2. pc'[w] = AfterRecord(w) /\ Others(w)
    BY <1>0, <1>6 DEF Record, Goto
  <2> QED
    BY <1>5, <1>6, <2>1, <2>2 DEF Record
<1>7. ASSUME NEW w \in Worker, NEW code, Reply(w, code)
      PROVE  pc'[w] = "idle" /\ Others(w)
  BY <1>0, <1>7 DEF Reply, Goto
<1>8. ASSUME NEW w \in Worker, ReadBack(w) \/ Bind(w) \/ TruncateLast(w) \/ WriteLast(w)
                                \/ Answer(w)
      PROVE  KeyInv(a)'
  <2>1. UNCHANGED <<keyfile, memories>>
    BY <1>8 DEF ReadBack, Bind, TruncateLast, WriteLast, Answer, disk
  <2>2. \/ \E code : Reply(w, code)
        \/ /\ job' = job
           /\ \E await \in {"bind", "answer", "lasttruncate", "lastwrite"} : Goto(w, await)
    BY <1>8 DEF ReadBack, Bind, TruncateLast, WriteLast, Answer
  <2>3. pc'[w] \notin {"record", "keytruncate", "keywrite"} /\ Others(w)
    BY <1>0, <1>7, <2>2 DEF Goto
  <2> QED
    BY <1>5, <2>1, <2>3
<1>12. ASSUME NEW w \in Worker, pc[w] = "lookup", UNCHANGED <<keyfile, memories>>,
              \/ \E code : Reply(w, code)
              \/ (job' = job /\ \E await : Goto(w, await) /\ await \notin {"keytruncate", "keywrite"})
       PROVE  KeyInv(a)'
  <2>1. /\ Others(w)
        /\ pc'[w] \notin {"record", "keytruncate", "keywrite"} \/
             (pc'[w] = "record" /\ job'[w] = job[w])
    BY <1>0, <1>7, <1>12 DEF Goto
  <2>2. job[w].key = None
    BY <1>12 DEF TypeInv, JobInv
  <2> QED
    BY <1>1, <1>12, <2>1, <2>2, KeyKept
<1>13. ASSUME NEW w \in Worker, LookUp(w)
       PROVE  KeyInv(a)'
  <2>1. /\ pc[w] = "lookup" /\ UNCHANGED <<keyfile, memories, job>>
        /\ \E await : Goto(w, await) /\ await \notin {"keytruncate", "keywrite"}
    BY <1>13 DEF LookUp, AfterRecord, disk
  <2> QED
    BY <1>12, <2>1
<1>9. ASSUME NEW w \in Worker, Fail(w)
      PROVE  KeyInv(a)'
  <2>1. CASE FailKeyRead(w)
    <3>1. AppOf[w] # a
      BY <1>0, <2>1 DEF FailKeyRead
    <3>2. UNCHANGED <<keyfile, memories>> /\ Others(w)
      BY <1>0, <2>1 DEF FailKeyRead, Goto, disk
    <3> QED
      BY <1>1, <3>1, <3>2, KeyKept
  <2>2. CASE FailRecord(w)
    BY <1>5, <1>7, <2>2 DEF FailRecord
  <2>3. CASE FailOther(w)
    BY <1>5, <1>7, <2>3 DEF FailOther
  <2>4. CASE FailLookUp(w)
    BY <1>7, <1>12, <2>4 DEF FailLookUp, disk
  <2> QED
    BY <1>9, <2>1, <2>2, <2>3, <2>4 DEF Fail
<1>10. ASSUME NEW w \in Worker, Crash(w)
       PROVE  KeyInv(a)'
  <2>1. /\ UNCHANGED <<keyfile, memories>>
        /\ \A v \in Worker : pc'[v] = "idle" \/ (pc'[v] = pc[v] /\ job'[v] = job[v])
    BY <1>0, <1>10 DEF Crash, disk
  <2> QED
    BY <1>1, <2>1, KeyKept
<1>11. CASE UNCHANGED vars
  BY <1>1, <1>11 DEF vars, KeyInv, MakingKey
<1> QED
  BY <1>2, <1>3, <1>4, <1>6, <1>8, <1>9, <1>10, <1>11, <1>13
  DEF Next, Proceed, Submit, SubmitAgain

(* As long as no two requests of a program made a key at the same time and *)
(* its file could be read, all it has signed is signed with the key in its *)
(* file, whichever requests failed or died in between.                     *)
THEOREM AppsSignedWithKeptKey == Spec => []SignedWithKeptKey
<1>1. Init => KeysInv
  BY DEF Init, KeysInv, KeyInv, MakingKey
<1>2. KeysInv => SignedWithKeptKey
  BY DEF KeysInv, KeyInv, SignedWithKeptKey
<1> QED
  BY <1>1, <1>2, TypeInit, TypeStep, KeyStep, PTL DEF Spec

-----------------------------------------------------------------------------
(* Why 201 means all of it: what a request has got done by each await.     *)
Whole(i) ==
  CASE Wants[i] = "binding" -> \E b \in bindings : b.intent = i
    [] Wants[i] = "bound"   -> \E b \in bindings, m \in memories :
                                 b.intent = i /\ m.intent = i /\ b.subject = m.id
    [] OTHER                -> \E m \in memories : m.intent = i

HasMemory(w) == \E m \in memories : m.id = IdOf(w) /\ m.intent = job[w].intent

Stage(w) ==
  /\ pc[w] \in {"key", "keytruncate", "keywrite"} => want(w) \in {"memory", "bound"}
  /\ pc[w] = "lookup" => want(w) = "import"
  /\ pc[w] \in {"record", "readback"} => want(w) # "binding"
  /\ pc[w] = "bind" => want(w) \in {"bound", "binding"}
  /\ pc[w] = "readback" \/ (pc[w] = "bind" /\ want(w) = "bound") => HasMemory(w)
  /\ pc[w] \in {"lasttruncate", "lastwrite", "answer"} => Whole(job[w].intent)

WholeInv ==
  /\ \A m \in memories :
       m.id = IF Wants[m.intent] = "import" THEN m.intent ELSE m.request
  /\ \A b \in bindings : b.subject # None =>
       \E m \in memories : m.id = b.subject /\ m.intent = b.intent
  /\ \A w \in Worker : Stage(w)
  /\ \A i \in Intent : answer[i] = "201" => Whole(i)

(* Nothing that is recorded goes away, and so no request falls back.       *)
LEMMA WholeGrows ==
  ASSUME memories \subseteq memories', bindings \subseteq bindings', NEW i, Whole(i)
  PROVE  Whole(i)'
<1>1. CASE Wants[i] = "binding"
  BY <1>1 DEF Whole
<1>2. CASE Wants[i] = "bound"
  BY <1>2 DEF Whole
<1>3. CASE Wants[i] \notin {"binding", "bound"}
  BY <1>3 DEF Whole
<1> QED
  BY <1>1, <1>2, <1>3

LEMMA StageKept ==
  ASSUME memories \subseteq memories', bindings \subseteq bindings', NEW w \in Worker,
         Stage(w), pc'[w] = pc[w], job'[w] = job[w]
  PROVE  Stage(w)'
<1>1. want(w)' = want(w) /\ IdOf(w)' = IdOf(w)
  BY DEF want, IdOf
<1>2. HasMemory(w) => HasMemory(w)'
  BY <1>1 DEF HasMemory
<1>3. Whole(job[w].intent) => Whole(job[w].intent)'
  BY WholeGrows
<1> QED
  BY <1>1, <1>2, <1>3 DEF Stage

(* A step of w in which it records at most its own line and bond.          *)
LEMMA WholeStepOf ==
  ASSUME TypeInv, WholeInv, NEW w \in Worker,
         memories' \in {memories, memories \cup {LineOf(w)}},
         \/ bindings' = bindings
         \/ bindings' = bindings \cup {BondOf(w)} /\ pc[w] = "bind",
         \A v \in Worker \ {w} : pc'[v] = pc[v] /\ job'[v] = job[v],
         Stage(w)',
         \A i \in Intent : answer'[i] = "201" => answer[i] = "201" \/ Whole(i)
  PROVE  WholeInv'
<1>1. memories \subseteq memories' /\ bindings \subseteq bindings'
  OBVIOUS
<1>2. \A v \in Worker : Stage(v)'
  BY <1>1, StageKept DEF WholeInv
<1>3. \A i \in Intent : answer'[i] = "201" => Whole(i)'
  BY <1>1, WholeGrows DEF WholeInv
<1>4. \A m \in memories' :
        m.id = IF Wants[m.intent] = "import" THEN m.intent ELSE m.request
  BY DEF WholeInv, LineOf, IdOf, want
<1>5. \A b \in bindings' : b.subject # None =>
        \E m \in memories' : m.id = b.subject /\ m.intent = b.intent
  <2>1. ASSUME pc[w] = "bind", BondOf(w).subject # None
        PROVE  \E m \in memories : m.id = BondOf(w).subject /\ m.intent = BondOf(w).intent
    <3>1. want(w) = "bound" /\ BondOf(w).subject = IdOf(w) /\ BondOf(w).intent = job[w].intent
      BY <2>1 DEF BondOf
    <3>2. HasMemory(w)
      BY <2>1, <3>1 DEF WholeInv, Stage
    <3> QED
      BY <3>1, <3>2 DEF HasMemory
  <2> QED
    BY <1>1, <2>1 DEF WholeInv
<1> QED
  BY <1>2, <1>3, <1>4, <1>5 DEF WholeInv

(* An import that finds its id finds a memory of its own bundle.           *)
LEMMA FoundIsRecorded ==
  ASSUME TypeInv, WholeInv, NEW w \in Worker, pc[w] # "idle", want(w) = "import",
         Finds(IdOf(w))
  PROVE  \E m \in memories : m.id = IdOf(w) /\ m.intent = job[w].intent
<1>1. PICK m \in memories : m.id = job[w].intent
  BY DEF Finds, IdOf
<1>2. m.intent \in Intent /\ m.request \in Request /\ job[w].intent \in Intent
  BY DEF TypeInv, TypeOK, Line, JobInv
<1>3. Wants[m.intent] = "import"
  BY <1>1, <1>2 DEF WholeInv
<1>4. m.intent = job[w].intent
  BY <1>1, <1>3 DEF WholeInv
<1> QED
  BY <1>1, <1>4 DEF IdOf

LEMMA WholeStep ==
  ASSUME TypeInv, WholeInv, [Next]_vars
  PROVE  WholeInv'
<1> DEFINE Others(w) == \A v \in Worker \ {w} : pc'[v] = pc[v] /\ job'[v] = job[v]
           Told == \A i \in Intent : answer'[i] = "201" => answer[i] = "201" \/ Whole(i)
<1>0. /\ pc \in [Worker -> Await] /\ job \in [Worker -> Job]
      /\ answer \in [Intent -> {"none", "waiting", "201", "400"}]
  BY DEF TypeInv, TypeOK
(* A worker that has replied stands nowhere.                               *)
<1>1. ASSUME NEW w \in Worker, pc[w] # "idle", NEW code \in {"201", "400"},
             Reply(w, code), code = "201" => Whole(job[w].intent)
      PROVE  Others(w) /\ Stage(w)' /\ Told
  <2>1. /\ pc'[w] = "idle" /\ Others(w)
        /\ answer' = [answer EXCEPT ![job[w].intent] = code]
    BY <1>0, <1>1 DEF Reply, Goto
  <2>2. Stage(w)'
    BY <2>1 DEF Stage
  <2>3. Told
    BY <1>0, <1>1, <2>1
  <2> QED
    BY <2>1, <2>2, <2>3
<1>2. ASSUME NEW w \in Worker, NEW await, Goto(w, await)
      PROVE  /\ pc'[w] = await
             /\ UNCHANGED job => Others(w) /\ want(w)' = want(w) /\ IdOf(w)' = IdOf(w)
             /\ \A key : job' = [job EXCEPT ![w].key = key] =>
                  Others(w) /\ want(w)' = want(w)
  BY <1>0, <1>2 DEF Goto, want, IdOf, Job
<1>3. ASSUME NEW w \in Worker, pc[w] # "idle"
      PROVE  /\ job[w].intent \in Intent /\ job[w].request \in Request
             /\ Via[job[w].intent] = AppOf[w] /\ want(w) \in Want
  BY <1>3 DEF TypeInv, JobInv, want
<1>4. ASSUME NEW w \in Worker, NEW i \in Intent, Start(w, i),
             answer' \in {answer, [answer EXCEPT ![i] = "waiting"]}
      PROVE  WholeInv'
  <2>1. /\ pc' = [pc EXCEPT ![w] = Begin(i)]
        /\ job' = [job EXCEPT ![w] =
             [intent |-> i, request |-> <<i, tries[i] + 1>>, key |-> None]]
        /\ UNCHANGED <<memories, bindings>>
    BY <1>4 DEF Start, Goto, disk
  <2>2. pc'[w] = Begin(i) /\ job'[w].intent = i /\ Others(w) /\ Told
    BY <1>0, <1>4, <2>1
  <2>3. want(w)' = Wants[i]
    BY <2>2 DEF want
  <2>4. Stage(w)'
    <3>1. /\ Begin(i) \in {"bind", "lookup", "key"} /\ Wants[i] \in Want
          /\ Begin(i) = "bind" <=> Wants[i] = "binding"
          /\ Begin(i) = "lookup" <=> Wants[i] = "import"
      BY DEF Begin
    <3> QED
      BY <2>2, <2>3, <3>1 DEF Stage, Want
  <2> QED
    BY <2>1, <2>2, <2>4, WholeStepOf
<1>5. ASSUME NEW w \in Worker, ReadKey(w) \/ TruncateKey(w) \/ WriteKey(w) \/ FailKeyRead(w)
      PROVE  WholeInv'
  <2>1. UNCHANGED <<memories, bindings, answer>>
    BY <1>5 DEF ReadKey, TruncateKey, WriteKey, FailKeyRead, disk
  <2>2. pc[w] \in {"key", "keytruncate", "keywrite"}
    BY <1>5 DEF ReadKey, TruncateKey, WriteKey, FailKeyRead
  <2>3. /\ \E await \in {"record", "keytruncate", "keywrite"} : Goto(w, await)
        /\ UNCHANGED job \/ \E key : job' = [job EXCEPT ![w].key = key]
    BY <1>5 DEF ReadKey, TruncateKey, WriteKey, FailKeyRead
  <2>4. /\ pc'[w] \in {"record", "keytruncate", "keywrite"}
        /\ Others(w) /\ want(w)' = want(w)
    BY <1>2, <2>3
  <2>5. Stage(w)'
    BY <2>2, <2>4 DEF WholeInv, Stage
  <2> QED
    BY <2>1, <2>4, <2>5, WholeStepOf
(* Once there is a line with its id, a request goes on to what follows.    *)
<1>6. ASSUME NEW w \in Worker, pc[w] \in {"lookup", "record"}, Goto(w, AfterRecord(w)),
             UNCHANGED <<job, bindings, answer>>,
             memories' \in {memories, memories \cup {LineOf(w)}},
             \E m \in memories' : m.id = IdOf(w) /\ m.intent = job[w].intent
      PROVE  WholeInv'
  <2>3. /\ pc'[w] = AfterRecord(w) /\ want(w)' = want(w) /\ IdOf(w)' = IdOf(w) /\ Others(w)
        /\ job' = job
    BY <1>2, <1>6
  <2>4. want(w) # "binding"
    BY <1>6 DEF WholeInv, Stage
  <2>5. HasMemory(w)'
    BY <1>6, <2>3 DEF HasMemory
  <2>6. CASE AfterRecord(w) = "readback"
    <3>1. Stage(w)'
      BY <2>3, <2>4, <2>5, <2>6 DEF Stage
    <3> QED
      BY <1>6, <2>3, <3>1, WholeStepOf
  <2>7. CASE AfterRecord(w) # "readback"
    <3>1. AfterRecord(w) \in {"lasttruncate", "answer"}
      BY <2>7 DEF AfterRecord
    <3>2. want(w) # "bound"
      BY <1>3, <1>6, <2>7 DEF AfterRecord, want
    <3>3. Whole(job[w].intent)'
      BY <1>6, <2>3, <2>4, <3>2 DEF Whole, want
    <3>4. Stage(w)'
      BY <2>3, <3>1, <3>3 DEF Stage
    <3> QED
      BY <1>6, <2>3, <3>4, WholeStepOf
  <2> QED
    BY <2>6, <2>7
<1>14. ASSUME NEW w \in Worker, Record(w)
       PROVE  WholeInv'
  <2>1. LineOf(w).id = IdOf(w) /\ LineOf(w).intent = job[w].intent
    BY DEF LineOf
  <2> QED
    BY <1>6, <1>14, <2>1 DEF Record
(* What is not found is appended, whatever the reason.                     *)
<1>15. ASSUME NEW w \in Worker, pc[w] = "lookup", Goto(w, "record"),
              UNCHANGED <<job, memories, bindings, answer>>
       PROVE  WholeInv'
  <2>1. pc'[w] = "record" /\ want(w)' = want(w) /\ Others(w)
    BY <1>2, <1>15
  <2>2. Stage(w)'
    BY <1>15, <2>1 DEF WholeInv, Stage
  <2> QED
    BY <1>15, <2>1, <2>2, WholeStepOf
<1>16. ASSUME NEW w \in Worker, LookUp(w)
       PROVE  WholeInv'
  <2>1. pc[w] = "lookup" /\ UNCHANGED <<job, memories, bindings, answer>> /\ want(w) = "import"
    BY <1>16 DEF LookUp, disk, WholeInv, Stage
  <2>2. CASE Finds(IdOf(w))
    BY <1>6, <1>16, <2>1, <2>2, FoundIsRecorded DEF LookUp
  <2>3. CASE ~Finds(IdOf(w))
    BY <1>15, <1>16, <2>1, <2>3 DEF LookUp
  <2> QED
    BY <2>2, <2>3
<1>7. ASSUME NEW w \in Worker, ReadBack(w)
      PROVE  WholeInv'
  <2>1. /\ pc[w] = "readback" /\ UNCHANGED <<memories, bindings>>
        /\ HasMemory(w) /\ want(w) # "binding"
    BY <1>7 DEF ReadBack, disk, WholeInv, Stage
  <2>2. CASE Reply(w, "400")
    BY <1>1, <2>1, <2>2, WholeStepOf
  <2>3. CASE /\ Goto(w, IF want(w) = "bound" THEN "bind" ELSE "answer")
             /\ UNCHANGED <<job, answer>>
    <3>1. /\ pc'[w] = IF want(w) = "bound" THEN "bind" ELSE "answer"
          /\ want(w)' = want(w) /\ IdOf(w)' = IdOf(w) /\ Others(w) /\ job' = job
      BY <1>2, <2>3
    <3>2. HasMemory(w)'
      BY <2>1, <3>1 DEF HasMemory
    <3>3. want(w) # "bound" => Whole(job[w].intent)'
      BY <2>1, <3>1 DEF HasMemory, Whole, want
    <3>4. Stage(w)'
      BY <3>1, <3>2, <3>3 DEF Stage
    <3> QED
      BY <2>1, <2>3, <3>1, <3>4, WholeStepOf
  <2> QED
    BY <1>7, <2>2, <2>3 DEF ReadBack
<1>8. ASSUME NEW w \in Worker, Bind(w)
      PROVE  WholeInv'
  <2>1. /\ pc[w] = "bind" /\ UNCHANGED <<memories, job, answer>>
        /\ bindings' = bindings \cup {BondOf(w)}
        /\ \E await \in {"lasttruncate", "answer"} : Goto(w, await)
    BY <1>8 DEF Bind
  <2>2. pc'[w] \in {"lasttruncate", "answer"} /\ Others(w) /\ job' = job
    BY <1>2, <2>1
  <2>3. /\ BondOf(w).intent = job[w].intent
        /\ want(w) = "bound" => BondOf(w).subject = IdOf(w)
        /\ want(w) \in {"bound", "binding"}
        /\ want(w) = "bound" => HasMemory(w)
    BY <2>1 DEF BondOf, WholeInv, Stage
  <2>4. CASE want(w) = "binding"
    BY <2>1, <2>2, <2>3, <2>4, WholeStepOf DEF Whole, want, Stage
  <2>5. CASE want(w) = "bound"
    <3>1. PICK m \in memories : m.id = IdOf(w) /\ m.intent = job[w].intent
      BY <2>3, <2>5 DEF HasMemory
    <3>2. Whole(job[w].intent)'
      BY <2>1, <2>2, <2>3, <2>5, <3>1 DEF Whole, want
    <3>3. Stage(w)'
      BY <2>2, <3>2 DEF Stage
    <3> QED
      BY <2>1, <2>2, <3>3, WholeStepOf
  <2> QED
    BY <2>3, <2>4, <2>5
<1>9. ASSUME NEW w \in Worker, TruncateLast(w) \/ WriteLast(w)
      PROVE  WholeInv'
  <2>1. /\ pc[w] \in {"lasttruncate", "lastwrite"} /\ UNCHANGED <<memories, bindings, job, answer>>
        /\ \E await \in {"lastwrite", "answer"} : Goto(w, await)
    BY <1>9 DEF TruncateLast, WriteLast
  <2>2. pc'[w] \in {"lastwrite", "answer"} /\ Others(w) /\ job' = job
    BY <1>2, <2>1
  <2>3. Whole(job[w].intent)'
    BY <2>1, <2>2, WholeGrows DEF WholeInv, Stage
  <2>4. Stage(w)'
    BY <2>2, <2>3 DEF Stage
  <2> QED
    BY <2>1, <2>2, <2>4, WholeStepOf
<1>10. ASSUME NEW w \in Worker, Answer(w)
       PROVE  WholeInv'
  <2>1. /\ pc[w] = "answer" /\ Reply(w, "201") /\ UNCHANGED <<memories, bindings>>
        /\ Whole(job[w].intent)
    BY <1>10 DEF Answer, disk, WholeInv, Stage
  <2> QED
    BY <1>1, <2>1, WholeStepOf
<1>17. ASSUME NEW w \in Worker, FailLookUp(w)
       PROVE  WholeInv'
  <2>1. pc[w] = "lookup" /\ UNCHANGED <<memories, bindings>>
    BY <1>17 DEF FailLookUp, disk
  <2>2. CASE Reply(w, "400")
    BY <1>1, <2>1, <2>2, WholeStepOf
  <2>3. CASE Goto(w, "record") /\ UNCHANGED <<job, answer>>
    BY <1>15, <2>1, <2>3
  <2> QED
    BY <1>17, <2>2, <2>3 DEF FailLookUp
<1>11. ASSUME NEW w \in Worker, FailRecord(w) \/ FailOther(w)
       PROVE  WholeInv'
  <2>1. /\ pc[w] # "idle" /\ Reply(w, "400")
        /\ memories' \in {memories, memories \cup {LineOf(w)}}
        /\ \/ bindings' = bindings
           \/ bindings' = bindings \cup {BondOf(w)} /\ pc[w] = "bind"
    BY <1>11 DEF FailRecord, FailOther
  <2> QED
    BY <1>1, <2>1, WholeStepOf
<1>12. ASSUME NEW w \in Worker, Crash(w)
       PROVE  WholeInv'
  <2>1. /\ UNCHANGED <<memories, bindings>>
        /\ \A v \in Worker : pc'[v] = "idle" \/ (pc'[v] = pc[v] /\ job'[v] = job[v])
        /\ \A i \in Intent : answer'[i] \in {answer[i], "400"}
    BY <1>0, <1>12 DEF Crash, disk
  <2>2. \A v \in Worker : Stage(v)'
    <3> SUFFICES ASSUME NEW v \in Worker PROVE Stage(v)'
      OBVIOUS
    <3>1. CASE pc'[v] = "idle"
      BY <3>1 DEF Stage
    <3>2. CASE pc'[v] = pc[v] /\ job'[v] = job[v]
      BY <2>1, <3>2, StageKept DEF WholeInv
    <3> QED
      BY <2>1, <3>1, <3>2
  <2>3. \A i \in Intent : answer'[i] = "201" => Whole(i)'
    BY <2>1, WholeGrows DEF WholeInv
  <2> QED
    BY <2>1, <2>2, <2>3 DEF WholeInv
<1>13. CASE UNCHANGED vars
  <2>1. /\ \A v \in Worker : Stage(v)'
        /\ \A i \in Intent : answer'[i] = "201" => Whole(i)'
    BY <1>13, StageKept, WholeGrows DEF vars, WholeInv
  <2> QED
    BY <1>13, <2>1 DEF vars, WholeInv
<1> QED
  BY <1>4, <1>5, <1>7, <1>8, <1>9, <1>10, <1>11, <1>12, <1>13, <1>14, <1>16, <1>17
  DEF Next, Proceed, Fail, Submit, SubmitAgain

(* 201 means all of it was recorded, and no flow leaves a binding without  *)
(* its memory, whatever failed on the way.                                 *)
THEOREM AppsAnsweredWhole == Spec => []AnsweredWhole
<1>1. Init => WholeInv
  BY DEF Init, WholeInv, Stage
<1>2. WholeInv => AnsweredWhole
  BY DEF WholeInv, Whole, AnsweredWhole
<1> QED
  BY <1>1, <1>2, TypeInit, TypeStep, WholeStep, PTL DEF Spec

-----------------------------------------------------------------------------
(* How many lines an intent has.  A request that has yet to append stands  *)
(* for a line to come, and an owner who has not been served for a request  *)
(* to come; only a failure or a repeat makes more of them than one.        *)
Unrecorded == {"key", "keytruncate", "keywrite", "lookup", "record"}

Active(i) == {w \in Worker : pc[w] # "idle" /\ job[w].intent = i}
Recording(i) == {w \in Active(i) : pc[w] \in Unrecorded}
Appending(i) == {w \in Active(i) : pc[w] = "record"}
Due(i) == IF answer[i] \in {"none", "400"} THEN 1 ELSE 0

Counted(i) ==
  /\ IsFiniteSet(Active(i)) /\ IsFiniteSet(LinesOf(i))
  /\ Cardinality(Active(i)) + Due(i) <= 1 + again[i]
  /\ medium # "lost" =>
       /\ Cardinality(LinesOf(i)) + Cardinality(Recording(i)) + Due(i)
            <= 1 + failures + again[i]
       /\ Wants[i] = "import" /\ ~blind[i] =>
            Cardinality(LinesOf(i)) + Cardinality(Appending(i)) <= 1 + again[i]

CountInv ==
  /\ \A w \in Worker : pc[w] = "idle" => job[w].intent = None
  /\ \A i \in Intent : Counted(i)

(* What a step of a worker leaves as it is: it goes on with its request,   *)
(* or replies; it records at most its own line, once; an import goes on to *)
(* append only if it found nothing or could not look; and a request is     *)
(* refused only where something failed or the ledger is lost.              *)
GoesOn(w) ==
  /\ answer' = answer
  /\ pc'[w] # "idle" /\ (pc'[w] \in Unrecorded => pc[w] \in Unrecorded)
  /\ job'[w].intent = job[w].intent /\ job'[w].request = job[w].request

LEMMA WorkerStep ==
  ASSUME TypeInv, WholeInv, NEW w \in Worker, Proceed(w) \/ Fail(w)
  PROVE  /\ pc[w] # "idle" /\ again' = again
         /\ \A v \in Worker \ {w} : pc'[v] = pc[v] /\ job'[v] = job[v]
         /\ GoesOn(w) \/ \E code \in {"201", "400"} : Reply(w, code)
         /\ \/ memories' = memories
            \/ /\ pc[w] = "record" /\ pc'[w] \notin Unrecorded
               /\ memories' = memories \cup {LineOf(w)}
         /\ \A i \in Intent : blind[i] => blind'[i]
         /\ pc'[w] = "record" =>
              \/ want(w) # "import"
              \/ pc[w] = "lookup" /\ (~Finds(IdOf(w)) \/ blind'[job[w].intent])
         /\ medium = "lost" => medium' = "lost"
         /\ \/ failures' = failures + 1
            \/ /\ failures' = failures
               /\ GoesOn(w) \/ Reply(w, "201") \/ medium = "lost"
<1> USE DEF Unrecorded
<1>0. pc \in [Worker -> Await] /\ job \in [Worker -> Job] /\ blind \in [Intent -> BOOLEAN]
  BY DEF TypeInv, TypeOK
<1> DEFINE Others == \A v \in Worker \ {w} : pc'[v] = pc[v] /\ job'[v] = job[v]
<1>1. ASSUME NEW code, Reply(w, code)
      PROVE  pc'[w] = "idle" /\ Others
  BY <1>0, <1>1 DEF Reply, Goto
<1>2. ASSUME NEW await \in Await \ {"idle"}, Goto(w, await), UNCHANGED answer,
             await \in Unrecorded => pc[w] \in Unrecorded,
             UNCHANGED job \/ \E key : job' = [job EXCEPT ![w].key = key]
      PROVE  pc'[w] = await /\ Others /\ GoesOn(w)
  BY <1>0, <1>2 DEF Goto, GoesOn, Job
<1>3. CASE ReadKey(w)
  <2>1. /\ pc[w] = "key" /\ UNCHANGED <<memories, medium, answer, again, blind, failures>>
        /\ \E await \in {"record", "keytruncate"} : Goto(w, await)
        /\ \E key : job' = [job EXCEPT ![w].key = key]
    BY <1>3 DEF ReadKey, disk, asked
  <2>2. want(w) # "import"
    BY <2>1 DEF WholeInv, Stage
  <2> QED
    BY <1>2, <2>1, <2>2 DEF Await
<1>4. CASE TruncateKey(w) \/ WriteKey(w)
  <2>1. /\ pc[w] \in {"keytruncate", "keywrite"}
        /\ UNCHANGED <<memories, medium, job, answer, again, blind, failures>>
        /\ \E await \in {"record", "keywrite"} : Goto(w, await)
    BY <1>4 DEF TruncateKey, WriteKey, asked
  <2>2. want(w) # "import"
    BY <2>1 DEF WholeInv, Stage
  <2> QED
    BY <1>2, <2>1, <2>2 DEF Await
<1>5. CASE LookUp(w)
  <2>1. /\ pc[w] = "lookup"
        /\ UNCHANGED <<memories, medium, job, answer, again, blind, failures>>
    BY <1>5 DEF LookUp, disk, asked
  <2>2. CASE Goto(w, "record") /\ ~Finds(IdOf(w))
    BY <1>2, <2>1, <2>2 DEF Await
  <2>3. CASE Goto(w, AfterRecord(w)) /\ AfterRecord(w) \in {"readback", "lasttruncate", "answer"}
    BY <1>2, <2>1, <2>3 DEF Await
  <2> QED
    BY <1>5, <2>2, <2>3 DEF LookUp, AfterRecord
<1>6. CASE Record(w)
  <2>1. /\ pc[w] = "record" /\ UNCHANGED <<job, answer, again, blind, failures>>
        /\ Goto(w, AfterRecord(w))
        /\ AfterRecord(w) \in {"readback", "lasttruncate", "answer"}
        /\ memories' = memories \cup {LineOf(w)} /\ medium' = AfterAppend
    BY <1>6 DEF Record, AfterRecord, asked
  <2> QED
    BY <1>2, <2>1 DEF Await, AfterAppend
<1>7. CASE ReadBack(w)
  <2>1. pc[w] = "readback" /\ UNCHANGED <<memories, medium, again, blind, failures>>
    BY <1>7 DEF ReadBack, disk, asked
  <2>2. CASE ~Finds(IdOf(w)) /\ Reply(w, "400")
    <3>1. HasMemory(w)
      BY <2>1 DEF WholeInv, Stage
    <3>2. medium = "lost"
      BY <2>2, <3>1 DEF HasMemory, Finds, Readable
    <3> QED
      BY <1>1, <2>1, <2>2, <3>2
  <2>3. CASE /\ Goto(w, IF want(w) = "bound" THEN "bind" ELSE "answer")
             /\ UNCHANGED <<job, answer>>
    BY <1>2, <2>1, <2>3 DEF Await
  <2> QED
    BY <1>7, <2>2, <2>3 DEF ReadBack
<1>8. CASE Bind(w) \/ TruncateLast(w) \/ WriteLast(w)
  <2>1. /\ pc[w] \in {"bind", "lasttruncate", "lastwrite"}
        /\ UNCHANGED <<memories, medium, job, answer, again, blind, failures>>
        /\ \E await \in {"lasttruncate", "lastwrite", "answer"} : Goto(w, await)
    BY <1>8 DEF Bind, TruncateLast, WriteLast, asked
  <2> QED
    BY <1>2, <2>1 DEF Await
<1>9. CASE Answer(w)
  BY <1>1, <1>9 DEF Answer, disk, asked
<1>10. CASE Fail(w)
  <2>1. failures' = failures + 1 /\ again' = again
    BY <1>10 DEF Fail, asked
  <2>2. CASE FailKeyRead(w)
    <3>1. /\ pc[w] = "key" /\ UNCHANGED <<memories, medium, answer, blind>>
          /\ Goto(w, "keytruncate")
          /\ job' = [job EXCEPT ![w].key = job[w].request]
      BY <2>2 DEF FailKeyRead, disk
    <3>2. \E key : job' = [job EXCEPT ![w].key = key]
      BY <3>1
    <3>3. pc'[w] = "keytruncate" /\ Others /\ GoesOn(w)
      BY <1>2, <3>1, <3>2 DEF Await
    <3> QED
      BY <2>1, <3>1, <3>3
  <2>3. CASE FailLookUp(w)
    <3>1. pc[w] = "lookup" /\ UNCHANGED <<memories, medium>> /\ job[w].intent \in Intent
      BY <2>3 DEF FailLookUp, disk, TypeInv, JobInv
    <3>2. CASE Reply(w, "400") /\ UNCHANGED blind
      BY <1>1, <2>1, <3>1, <3>2
    <3>3. CASE /\ Goto(w, "record") /\ UNCHANGED <<job, answer>>
               /\ blind' = [blind EXCEPT ![job[w].intent] = TRUE]
      BY <1>0, <1>2, <2>1, <3>1, <3>3 DEF Await
    <3> QED
      BY <2>3, <3>2, <3>3 DEF FailLookUp
  <2>4. CASE FailRecord(w)
    <3>1. pc[w] = "record" /\ Reply(w, "400") /\ UNCHANGED blind
      BY <2>4 DEF FailRecord
    <3>2. /\ memories' = memories \/ memories' = memories \cup {LineOf(w)}
          /\ medium = "lost" => medium' = "lost"
      BY <2>4 DEF FailRecord
    <3> QED
      BY <1>1, <2>1, <3>1, <3>2
  <2>5. CASE FailOther(w)
    <3>1. pc[w] # "idle" /\ Reply(w, "400") /\ UNCHANGED <<memories, medium, blind>>
      BY <2>5 DEF FailOther
    <3> QED
      BY <1>1, <2>1, <3>1
  <2> QED
    BY <1>10, <2>2, <2>3, <2>4, <2>5 DEF Fail
<1> QED
  BY <1>3, <1>4, <1>5, <1>6, <1>7, <1>8, <1>9, <1>10 DEF Proceed

(* Adding to or taking from a finite set.                                  *)
LEMMA AddOne ==
  ASSUME NEW S, NEW T, NEW x, IsFiniteSet(S), T \subseteq S \cup {x}
  PROVE  IsFiniteSet(T) /\ Cardinality(T) <= Cardinality(S) + 1
<1>1. /\ IsFiniteSet(S \cup {x}) /\ Cardinality(S) \in Nat
      /\ Cardinality(S \cup {x}) \in {Cardinality(S), Cardinality(S) + 1}
  BY FS_AddElement, FS_CardinalityType
<1>2. IsFiniteSet(T) /\ Cardinality(T) <= Cardinality(S \cup {x}) /\ Cardinality(T) \in Nat
  BY <1>1, FS_Subset, FS_CardinalityType
<1> QED
  BY <1>1, <1>2

LEMMA TakeOne ==
  ASSUME NEW S, NEW T, NEW x \in S, IsFiniteSet(S), T \subseteq S \ {x}
  PROVE  IsFiniteSet(T) /\ Cardinality(T) + 1 <= Cardinality(S)
<1>1. /\ IsFiniteSet(S \ {x}) /\ Cardinality(S) \in Nat
      /\ Cardinality(S \ {x}) = Cardinality(S) - 1
  BY FS_RemoveElement, FS_CardinalityType
<1>2. IsFiniteSet(T) /\ Cardinality(T) <= Cardinality(S \ {x}) /\ Cardinality(T) \in Nat
  BY <1>1, FS_Subset, FS_CardinalityType
<1> QED
  BY <1>1, <1>2

(* The sets that are counted, and their parts.                             *)
LEMMA CountedType ==
  ASSUME TypeInv, NEW i \in Intent, Counted(i)
  PROVE  /\ IsFiniteSet(Recording(i)) /\ IsFiniteSet(Appending(i))
         /\ Cardinality(Active(i)) \in Nat /\ Cardinality(LinesOf(i)) \in Nat
         /\ Cardinality(Recording(i)) \in Nat /\ Cardinality(Appending(i)) \in Nat
         /\ Cardinality(Appending(i)) <= Cardinality(Active(i))
         /\ again[i] \in Nat /\ failures \in Nat /\ Due(i) \in {0, 1}
<1>1. /\ Recording(i) \subseteq Active(i) /\ Appending(i) \subseteq Active(i)
      /\ IsFiniteSet(Active(i)) /\ IsFiniteSet(LinesOf(i))
  BY DEF Recording, Appending, Counted
<1>2. /\ IsFiniteSet(Recording(i)) /\ IsFiniteSet(Appending(i))
      /\ Cardinality(Appending(i)) <= Cardinality(Active(i))
  BY <1>1, FS_Subset
<1>3. again[i] \in Nat /\ failures \in Nat /\ Due(i) \in {0, 1}
  BY DEF TypeInv, TypeOK, Due
<1> QED
  BY <1>1, <1>2, <1>3, FS_CardinalityType

(* An intent of which nothing is asked, done or answered.                  *)
LEMMA CountedKept ==
  ASSUME TypeInv, NEW i \in Intent, Counted(i),
         LinesOf(i)' = LinesOf(i), Active(i)' \subseteq Active(i),
         \A w \in Active(i)' : pc'[w] = pc[w],
         answer'[i] = answer[i], again'[i] = again[i],
         blind[i] => blind'[i], medium = "lost" => medium' = "lost",
         failures' \in {failures, failures + 1}
  PROVE  Counted(i)'
<1>1. Recording(i)' \subseteq Recording(i) /\ Appending(i)' \subseteq Appending(i)
  BY DEF Recording, Appending
<1>2. /\ IsFiniteSet(Active(i)') /\ Cardinality(Active(i)') <= Cardinality(Active(i))
      /\ Cardinality(Recording(i)') <= Cardinality(Recording(i))
      /\ Cardinality(Appending(i)') <= Cardinality(Appending(i))
      /\ Cardinality(Active(i)') \in Nat /\ Cardinality(Recording(i)') \in Nat
      /\ Cardinality(Appending(i)') \in Nat
  <2>1. IsFiniteSet(Recording(i)) /\ IsFiniteSet(Appending(i)) /\ IsFiniteSet(Active(i))
    BY CountedType DEF Counted
  <2> QED
    BY <1>1, <2>1, FS_Subset, FS_CardinalityType
<1>3. Due(i)' = Due(i)
  BY DEF Due
<1>4. Cardinality(Active(i)') + Due(i)' <= 1 + again'[i]
  BY <1>2, <1>3, CountedType DEF Counted
<1>5. medium' # "lost" =>
        Cardinality(LinesOf(i)') + Cardinality(Recording(i)') + Due(i)'
          <= 1 + failures' + again'[i]
  BY <1>2, <1>3, CountedType DEF Counted
<1>6. medium' # "lost" /\ Wants[i] = "import" /\ ~blind'[i] =>
        Cardinality(LinesOf(i)') + Cardinality(Appending(i)') <= 1 + again'[i]
  BY <1>2, CountedType DEF Counted
<1> QED
  BY <1>2, <1>4, <1>5, <1>6 DEF Counted

(* A request more: its owner was not served, or it is a repeat.            *)
LEMMA CountStart ==
  ASSUME TypeInv, CountInv, NEW w \in Worker, NEW i \in Intent,
         Submit(w, i) \/ SubmitAgain(w, i)
  PROVE  CountInv'
<1>0. /\ pc \in [Worker -> Await] /\ job \in [Worker -> Job]
      /\ answer \in [Intent -> {"none", "waiting", "201", "400"}]
      /\ again \in [Intent -> Nat]
  BY DEF TypeInv, TypeOK
<1>1. /\ pc[w] = "idle" /\ pc' = [pc EXCEPT ![w] = Begin(i)]
      /\ job' = [job EXCEPT ![w] =
           [intent |-> i, request |-> <<i, tries[i] + 1>>, key |-> None]]
      /\ UNCHANGED <<memories, medium, blind, failures>>
  BY DEF Submit, SubmitAgain, Start, Goto, disk
<1>2. /\ pc'[w] = Begin(i) /\ job'[w].intent = i
      /\ \A v \in Worker \ {w} : pc'[v] = pc[v] /\ job'[v] = job[v]
      /\ Begin(i) \in {"bind", "lookup", "key"}
  BY <1>0, <1>1 DEF Begin
<1>3. ASSUME NEW j \in Intent, j # i
      PROVE  Counted(j)'
  <2>1. answer'[j] = answer[j] /\ again'[j] = again[j]
    BY <1>0, <1>3 DEF Submit, SubmitAgain
  <2>2. /\ Active(j)' \subseteq Active(j) /\ LinesOf(j)' = LinesOf(j)
        /\ \A v \in Active(j)' : pc'[v] = pc[v]
    BY <1>1, <1>2, <1>3 DEF Active, LinesOf
  <2>3. Counted(j)
    BY DEF CountInv
  <2> QED
    BY <1>1, <2>1, <2>2, <2>3, CountedKept DEF TypeInv, TypeOK
<1>4. Counted(i)'
  <2>1. Counted(i)
    BY DEF CountInv
  <2>2. /\ Active(i)' \subseteq Active(i) \cup {w} /\ LinesOf(i)' = LinesOf(i)
        /\ Recording(i)' \subseteq Recording(i) \cup {w}
        /\ Appending(i)' \subseteq Appending(i)
    BY <1>1, <1>2 DEF Active, Recording, Appending, LinesOf
  <2>3. /\ IsFiniteSet(Active(i)') /\ Cardinality(Active(i)') <= Cardinality(Active(i)) + 1
        /\ Cardinality(Active(i)') \in Nat
    BY <2>1, <2>2, AddOne, FS_CardinalityType DEF Counted
  <2>4. /\ Cardinality(Recording(i)') <= Cardinality(Recording(i)) + 1
        /\ Cardinality(Recording(i)') \in Nat
    BY <2>1, <2>2, AddOne, CountedType, FS_CardinalityType
  <2>5. /\ Cardinality(Appending(i)') <= Cardinality(Appending(i))
        /\ Cardinality(Appending(i)') \in Nat
    BY <2>1, <2>2, CountedType, FS_Subset, FS_CardinalityType
  <2>6. \/ Due(i) = 1 /\ Due(i)' = 0 /\ again'[i] = again[i]
        \/ Due(i) = 0 /\ Due(i)' = 0 /\ again'[i] = again[i] + 1
    BY <1>0 DEF Submit, SubmitAgain, Due
  <2>7. Cardinality(Active(i)') + Due(i)' <= 1 + again'[i]
    BY <2>1, <2>3, <2>6, CountedType DEF Counted
  <2>8. medium # "lost" =>
          Cardinality(LinesOf(i)) + Cardinality(Recording(i)') + Due(i)'
            <= 1 + failures + again'[i]
    BY <2>1, <2>4, <2>6, CountedType DEF Counted
  <2>9. medium # "lost" /\ Wants[i] = "import" /\ ~blind[i] =>
          Cardinality(LinesOf(i)) + Cardinality(Appending(i)') <= 1 + again'[i]
    BY <2>1, <2>5, <2>6, CountedType DEF Counted
  <2> QED
    BY <1>1, <2>1, <2>2, <2>3, <2>7, <2>8, <2>9 DEF Counted
<1>5. \A v \in Worker : pc'[v] = "idle" => job'[v].intent = None
  BY <1>2 DEF CountInv
<1> QED
  BY <1>3, <1>4, <1>5 DEF CountInv

(* A request goes on or is answered: what it appends it had to come.       *)
LEMMA CountWork ==
  ASSUME TypeInv, WholeInv, CountInv, NEW w \in Worker, Proceed(w) \/ Fail(w)
  PROVE  CountInv'
<1>i. pc[w] # "idle" /\ job[w].intent \in Intent
  BY WorkerStep DEF TypeInv, JobInv
<1> SUFFICES ASSUME NEW i \in Intent, job[w].intent = i
             PROVE  CountInv'
  BY <1>i
<1>0. /\ pc \in [Worker -> Await] /\ job \in [Worker -> Job]
      /\ answer \in [Intent -> {"none", "waiting", "201", "400"}] /\ failures \in Nat
  BY DEF TypeInv, TypeOK
<1>1. /\ pc[w] # "idle" /\ again' = again
      /\ \A v \in Worker \ {w} : pc'[v] = pc[v] /\ job'[v] = job[v]
      /\ GoesOn(w) \/ \E code \in {"201", "400"} : Reply(w, code)
      /\ \/ memories' = memories
         \/ /\ pc[w] = "record" /\ pc'[w] \notin Unrecorded
            /\ memories' = memories \cup {LineOf(w)}
      /\ \A j \in Intent : blind[j] => blind'[j]
      /\ pc'[w] = "record" =>
           \/ want(w) # "import"
           \/ pc[w] = "lookup" /\ (~Finds(IdOf(w)) \/ blind'[i])
      /\ medium = "lost" => medium' = "lost"
      /\ \/ failures' = failures + 1
         \/ /\ failures' = failures
            /\ GoesOn(w) \/ Reply(w, "201") \/ medium = "lost"
  BY WorkerStep
<1>2. i \in Intent /\ Counted(i)
  BY DEF CountInv
<1>3. ASSUME NEW code, Reply(w, code)
      PROVE  /\ pc'[w] = "idle" /\ job'[w].intent = None /\ None \notin Intent
             /\ answer' = [answer EXCEPT ![i] = code]
  BY <1>0, <1>3 DEF Reply, Goto, NoJob, MemoryId
<1>4. LineOf(w).intent = i
  BY DEF LineOf
<1>5. ASSUME NEW j \in Intent, j # i
      PROVE  Counted(j)'
  <2>1. answer'[j] = answer[j]
    BY <1>0, <1>1, <1>3, <1>5 DEF GoesOn
  <2>2. LinesOf(j)' = LinesOf(j)
    BY <1>1, <1>4, <1>5 DEF LinesOf
  <2>3. job'[w].intent # j
    BY <1>1, <1>3, <1>5 DEF GoesOn
  <2>4. Active(j)' \subseteq Active(j) /\ \A v \in Active(j)' : pc'[v] = pc[v]
    BY <1>1, <2>3 DEF Active
  <2>5. Counted(j)
    BY DEF CountInv
  <2> QED
    BY <1>1, <2>1, <2>2, <2>4, <2>5, CountedKept
<1>6. Counted(i)'
  <2>1. w \in Active(i)
    BY <1>1 DEF Active
  <2>2. /\ IsFiniteSet(Active(i)') /\ Cardinality(Active(i)') \in Nat
        /\ Cardinality(Active(i)') + Due(i)' <= 1 + again'[i]
    <3>1. CASE GoesOn(w)
      <4>1. Active(i)' = Active(i) /\ Due(i)' = Due(i)
        BY <1>1, <3>1 DEF GoesOn, Active, Due
      <4> QED
        BY <1>1, <1>2, <4>1, CountedType DEF Counted
    <3>2. ASSUME NEW code \in {"201", "400"}, Reply(w, code)
          PROVE  /\ IsFiniteSet(Active(i)') /\ Cardinality(Active(i)') \in Nat
                 /\ Cardinality(Active(i)') + Due(i)' <= 1 + again'[i]
      <4>1. Active(i)' \subseteq Active(i) \ {w}
        BY <1>1, <1>3, <3>2 DEF Active
      <4>2. /\ IsFiniteSet(Active(i)') /\ Cardinality(Active(i)') \in Nat
            /\ Cardinality(Active(i)') + 1 <= Cardinality(Active(i))
        BY <1>2, <2>1, <4>1, TakeOne, FS_CardinalityType DEF Counted
      <4>3. Due(i)' \in {0, 1}
        BY DEF Due
      <4> QED
        BY <1>1, <1>2, <4>2, <4>3, CountedType DEF Counted
    <3> QED
      BY <1>1, <3>1, <3>2
  <2>3. /\ IsFiniteSet(LinesOf(i)') /\ Cardinality(LinesOf(i)') \in Nat
        /\ Cardinality(Recording(i)') \in Nat
        /\ Cardinality(LinesOf(i)') + Cardinality(Recording(i)')
             <= Cardinality(LinesOf(i)) + Cardinality(Recording(i))
    <3>1. pc'[w] \in Unrecorded => pc[w] \in Unrecorded
      BY <1>1, <1>3 DEF GoesOn, Unrecorded
    <3>2. CASE memories' = memories
      <4>1. LinesOf(i)' = LinesOf(i) /\ Recording(i)' \subseteq Recording(i)
        BY <1>1, <1>2, <2>1, <3>1, <3>2, <1>3 DEF LinesOf, Recording, Active, GoesOn
      <4>2. /\ Cardinality(Recording(i)') <= Cardinality(Recording(i))
            /\ Cardinality(Recording(i)') \in Nat
        BY <1>2, <4>1, CountedType, FS_Subset, FS_CardinalityType
      <4> QED
        BY <1>2, <4>1, <4>2, CountedType DEF Counted
    <3>3. CASE /\ pc[w] = "record" /\ pc'[w] \notin Unrecorded
               /\ memories' = memories \cup {LineOf(w)}
      <4>1. LinesOf(i)' \subseteq LinesOf(i) \cup {LineOf(w)}
        BY <3>3 DEF LinesOf
      <4>2. w \in Recording(i) /\ Recording(i)' \subseteq Recording(i) \ {w}
        BY <1>1, <2>1, <3>3 DEF Recording, Active, Unrecorded
      <4>3. /\ IsFiniteSet(LinesOf(i)') /\ Cardinality(LinesOf(i)') \in Nat
            /\ Cardinality(LinesOf(i)') <= Cardinality(LinesOf(i)) + 1
        BY <1>2, <4>1, AddOne, FS_CardinalityType DEF Counted
      <4>4. /\ Cardinality(Recording(i)') + 1 <= Cardinality(Recording(i))
            /\ Cardinality(Recording(i)') \in Nat
        BY <1>2, <4>2, TakeOne, CountedType, FS_CardinalityType
      <4> QED
        BY <1>2, <4>3, <4>4, CountedType
    <3> QED
      BY <1>1, <3>2, <3>3
  <2>4. medium' # "lost" =>
          Cardinality(LinesOf(i)') + Cardinality(Recording(i)') + Due(i)'
            <= 1 + failures' + again'[i]
    <3> SUFFICES ASSUME medium' # "lost"
                 PROVE  Cardinality(LinesOf(i)') + Cardinality(Recording(i)') + Due(i)'
                          <= 1 + failures' + again'[i]
      OBVIOUS
    <3>1. Cardinality(LinesOf(i)) + Cardinality(Recording(i)) + Due(i)
            <= 1 + failures + again[i]
      BY <1>1, <1>2 DEF Counted
    <3>2. Due(i)' \in {0, 1}
      BY DEF Due
    <3>3. CASE failures' = failures + 1
      BY <1>1, <1>2, <2>3, <3>1, <3>2, <3>3, CountedType
    <3>4. CASE failures' = failures /\ (GoesOn(w) \/ Reply(w, "201"))
      <4>1. Due(i)' = Due(i) \/ Due(i)' = 0
        BY <1>0, <1>2, <1>3, <3>4 DEF Due, GoesOn
      <4> QED
        BY <1>1, <1>2, <2>3, <3>1, <3>4, <4>1, CountedType
    <3> QED
      BY <1>1, <3>3, <3>4
  <2>5. medium' # "lost" /\ Wants[i] = "import" /\ ~blind'[i] =>
          Cardinality(LinesOf(i)') + Cardinality(Appending(i)') <= 1 + again'[i]
    <3> SUFFICES ASSUME medium' # "lost", Wants[i] = "import", ~blind'[i]
                 PROVE  Cardinality(LinesOf(i)') + Cardinality(Appending(i)') <= 1 + again'[i]
      OBVIOUS
    <3>0. want(w) = "import"
      BY DEF want
    <3>1. Cardinality(LinesOf(i)) + Cardinality(Appending(i)) <= 1 + again[i]
      BY <1>1, <1>2 DEF Counted
    <3>2. CASE pc'[w] = "record"
      <4>1. pc[w] = "lookup" /\ ~Finds(IdOf(w)) /\ medium # "lost"
        BY <1>1, <3>0, <3>2
      <4>2. LinesOf(i)' = {}
        <5>1. memories' = memories
          BY <1>1, <4>1
        <5>2. \A m \in memories : m.intent = i => m.id = IdOf(w)
          BY <3>0 DEF WholeInv, IdOf, want
        <5> QED
          BY <4>1, <5>1, <5>2 DEF Finds, Readable, LinesOf
      <4>3. Cardinality(LinesOf(i)') = 0
        BY <4>2, FS_EmptySet
      <4>4. Appending(i)' \subseteq Active(i)'
        BY DEF Appending
      <4>5. /\ Cardinality(Appending(i)') <= Cardinality(Active(i)')
            /\ Cardinality(Appending(i)') \in Nat
        BY <2>2, <4>4, FS_Subset, FS_CardinalityType
      <4>6. again'[i] \in Nat /\ Due(i)' \in {0, 1}
        BY <1>1, <1>2, CountedType DEF Due
      <4> QED
        BY <2>2, <4>3, <4>5, <4>6
    <3>3. CASE pc'[w] # "record" /\ memories' = memories
      <4>1. Appending(i)' \subseteq Appending(i) /\ LinesOf(i)' = LinesOf(i)
        BY <1>1, <3>3 DEF Appending, Active, LinesOf
      <4>2. /\ Cardinality(Appending(i)') <= Cardinality(Appending(i))
            /\ Cardinality(Appending(i)') \in Nat
        BY <1>2, <4>1, CountedType, FS_Subset, FS_CardinalityType
      <4> QED
        BY <1>1, <1>2, <3>1, <4>1, <4>2, CountedType
    <3>4. CASE /\ pc[w] = "record" /\ pc'[w] # "record"
               /\ memories' = memories \cup {LineOf(w)}
      <4>1. LinesOf(i)' \subseteq LinesOf(i) \cup {LineOf(w)}
        BY <3>4 DEF LinesOf
      <4>2. w \in Appending(i) /\ Appending(i)' \subseteq Appending(i) \ {w}
        BY <1>1, <2>1, <3>4 DEF Appending, Active
      <4>3. /\ Cardinality(LinesOf(i)') <= Cardinality(LinesOf(i)) + 1
            /\ Cardinality(LinesOf(i)') \in Nat
        BY <1>2, <2>3, <4>1, AddOne DEF Counted
      <4>4. /\ Cardinality(Appending(i)') + 1 <= Cardinality(Appending(i))
            /\ Cardinality(Appending(i)') \in Nat
        BY <1>2, <4>2, TakeOne, CountedType, FS_CardinalityType
      <4> QED
        BY <1>1, <1>2, <3>1, <4>3, <4>4, CountedType
    <3> QED
      BY <1>1, <3>2, <3>3, <3>4
  <2> QED
    BY <2>2, <2>3, <2>4, <2>5 DEF Counted
<1>7. \A v \in Worker : pc'[v] = "idle" => job'[v].intent = None
  BY <1>1, <1>3 DEF GoesOn, CountInv
<1> QED
  BY <1>5, <1>6, <1>7 DEF CountInv

(* A process dies: whoever had a request there is not served, and that is  *)
(* one request less.                                                       *)
LEMMA CountCrash ==
  ASSUME TypeInv, CountInv, NEW w \in Worker, Crash(w)
  PROVE  CountInv'
<1> DEFINE dead == IF AppOf[w] = "cli" THEN {w} ELSE {v \in Worker : AppOf[v] = AppOf[w]}
           told == {job[v].intent : v \in dead}
<1>1. /\ pc' = [v \in Worker |-> IF v \in dead THEN "idle" ELSE pc[v]]
      /\ job' = [v \in Worker |-> IF v \in dead THEN NoJob ELSE job[v]]
      /\ answer' = [i \in Intent |-> IF i \in told THEN "400" ELSE answer[i]]
      /\ UNCHANGED <<memories, medium, again, blind>> /\ failures' = failures + 1
      /\ dead \subseteq Worker
  BY DEF Crash, disk, asked
<1> HIDE DEF dead
<1>2. \A v \in Worker : pc'[v] = "idle" => job'[v].intent = None
  BY <1>1 DEF CountInv, NoJob
<1>3. ASSUME NEW i \in Intent
      PROVE  Counted(i)'
  <2>1. /\ Active(i)' \subseteq Active(i) /\ LinesOf(i)' = LinesOf(i) /\ Counted(i)
        /\ \A v \in Active(i)' : pc'[v] = pc[v] /\ v \notin dead
    BY <1>1, <1>3 DEF Active, LinesOf, CountInv
  <2>2. CASE i \notin told
    <3>1. answer'[i] = answer[i] /\ again'[i] = again[i] /\ (blind[i] => blind'[i])
      BY <1>1, <2>2
    <3> QED
      BY <1>1, <2>1, <3>1, CountedKept
  <2>3. CASE i \in told
    <3>1. PICK v \in dead : job[v].intent = i
      BY <2>3
    <3>2. v \in Active(i) /\ Active(i)' \subseteq Active(i) \ {v}
      <4>1. None \notin Intent
        BY DEF MemoryId
      <4> QED
        BY <1>1, <2>1, <3>1, <4>1 DEF Active, CountInv
    <3>3. /\ IsFiniteSet(Active(i)') /\ Cardinality(Active(i)') \in Nat
          /\ Cardinality(Active(i)') + 1 <= Cardinality(Active(i))
      BY <2>1, <3>2, TakeOne, FS_CardinalityType DEF Counted
    <3>4. Recording(i)' \subseteq Recording(i) /\ Appending(i)' \subseteq Appending(i)
      BY <2>1 DEF Recording, Appending
    <3>5. /\ Cardinality(Recording(i)') <= Cardinality(Recording(i))
          /\ Cardinality(Appending(i)') <= Cardinality(Appending(i))
          /\ Cardinality(Recording(i)') \in Nat /\ Cardinality(Appending(i)') \in Nat
      BY <2>1, <3>4, CountedType, FS_Subset, FS_CardinalityType
    <3>6. Due(i)' \in {0, 1}
      BY DEF Due
    <3>7. Cardinality(Active(i)') + Due(i)' <= 1 + again'[i]
      BY <1>1, <2>1, <3>3, <3>6, CountedType DEF Counted
    <3>8. medium' # "lost" =>
            Cardinality(LinesOf(i)') + Cardinality(Recording(i)') + Due(i)'
              <= 1 + failures' + again'[i]
      BY <1>1, <2>1, <3>5, <3>6, CountedType DEF Counted
    <3>9. medium' # "lost" /\ Wants[i] = "import" /\ ~blind'[i] =>
            Cardinality(LinesOf(i)') + Cardinality(Appending(i)') <= 1 + again'[i]
      BY <1>1, <2>1, <3>5, CountedType DEF Counted
    <3> QED
      BY <2>1, <3>3, <3>7, <3>8, <3>9 DEF Counted
  <2> QED
    BY <2>2, <2>3
<1> QED
  BY <1>2, <1>3 DEF CountInv

LEMMA CountStep ==
  ASSUME TypeInv, WholeInv, CountInv, [Next]_vars
  PROVE  CountInv'
<1>1. CASE UNCHANGED vars
  BY <1>1 DEF vars, CountInv, Counted, Active, Recording, Appending, LinesOf, Due
<1> QED
  BY <1>1, CountStart, CountWork, CountCrash DEF Next

LEMMA CountInit == Init => CountInv
<1> SUFFICES ASSUME Init PROVE CountInv
  OBVIOUS
<1>1. \A w \in Worker : pc[w] = "idle" /\ job[w].intent = None
  BY DEF Init, NoJob
<1>2. ASSUME NEW i \in Intent PROVE Counted(i)
  <2>1. /\ Active(i) = {} /\ Recording(i) = {} /\ Appending(i) = {} /\ LinesOf(i) = {}
        /\ Due(i) = 1 /\ again[i] = 0 /\ failures = 0
    BY <1>1 DEF Init, Active, Recording, Appending, LinesOf, Due
  <2> QED
    BY <2>1, FS_EmptySet DEF Counted
<1> QED
  BY <1>1, <1>2 DEF CountInv

(* As long as the ledger can be read, an intent has one line, and at most  *)
(* one more for each failure and each repeated request; an import that     *)
(* could read the ledger has more only if it was asked for repeatedly.     *)
THEOREM AppsLinesAccountedFor == Spec => []LinesAccountedFor
<1>1. Init => WholeInv /\ CountInv
  BY CountInit DEF Init, WholeInv, Stage
<1>2. TypeInv /\ CountInv => LinesAccountedFor
  <2> SUFFICES ASSUME TypeInv, CountInv, medium # "lost", NEW i \in Intent
               PROVE  Cardinality(LinesOf(i)) <= 1 + again[i] +
                        IF Wants[i] = "import" /\ ~blind[i] THEN 0 ELSE failures
    BY DEF LinesAccountedFor
  <2>1. Counted(i)
    BY DEF CountInv
  <2> QED
    BY <2>1, CountedType DEF Counted
<1> QED
  BY <1>1, <1>2, TypeInit, TypeStep, WholeStep, CountStep, PTL DEF Spec

-----------------------------------------------------------------------------
(* Why the CLI notes only what is recorded.                                *)
(* What the CLI is about to note is recorded.                              *)
Recorded(w) ==
  IF want(w) = "binding" THEN \E b \in bindings : b.request = job[w].request
  ELSE HasMemory(w)

NotedInv ==
  /\ LastIsRecorded
  /\ \A w \in Worker : pc[w] \in {"lasttruncate", "lastwrite"} => Recorded(w)

LEMMA RecordedKept ==
  ASSUME memories \subseteq memories', bindings \subseteq bindings',
         NEW w \in Worker, Recorded(w), job'[w] = job[w]
  PROVE  Recorded(w)'
<1>1. want(w)' = want(w) /\ IdOf(w)' = IdOf(w)
  BY DEF want, IdOf
<1> QED
  BY <1>1 DEF Recorded, HasMemory

(* What is noted stays recorded; a file that is torn stays so by a worker  *)
(* that is about to write it.                                              *)
LEMMA NotedKept ==
  ASSUME NotedInv, memories \subseteq memories', bindings \subseteq bindings', last' = last,
         failures \in Nat, failures' \in {failures, failures + 1},
         failures' = failures =>
           \A w \in Worker : pc[w] = "lastwrite" => pc'[w] = pc[w] /\ job'[w] = job[w]
  PROVE  LastIsRecorded'
<1>1. \A kind \in {"memory", "binding"} : last'[kind] = Torn =>
        \/ failures' > 0
        \/ \E w \in Worker : pc'[w] = "lastwrite" /\ (LastOf(w) = kind)'
  <2> SUFFICES ASSUME NEW kind \in {"memory", "binding"}, last[kind] = Torn, ~(failures' > 0)
               PROVE  \E w \in Worker : pc'[w] = "lastwrite" /\ (LastOf(w) = kind)'
    OBVIOUS
  <2>1. ~(failures > 0) /\ failures' = failures
    OBVIOUS
  <2>2. PICK w \in Worker : pc[w] = "lastwrite" /\ LastOf(w) = kind
    BY <2>1 DEF NotedInv, LastIsRecorded
  <2>3. pc'[w] = "lastwrite" /\ LastOf(w)' = LastOf(w)
    BY <2>1, <2>2 DEF LastOf, want
  <2> QED
    BY <2>2, <2>3
<1>2. /\ last'["memory"] \in {Absent, Torn} \cup {m.id : m \in memories'}
      /\ last'["binding"] \in {Absent, Torn} \cup {b.request : b \in bindings'}
  BY DEF NotedInv, LastIsRecorded
<1> QED
  BY <1>1, <1>2 DEF LastIsRecorded

LEMMA NotedStep ==
  ASSUME TypeInv, WholeInv, NotedInv, [Next]_vars
  PROVE  NotedInv'
<1> DEFINE Others(w) == \A v \in Worker \ {w} : pc'[v] = pc[v] /\ job'[v] = job[v]
           Grows == memories \subseteq memories' /\ bindings \subseteq bindings'
<1>0. /\ pc \in [Worker -> Await] /\ job \in [Worker -> Job] /\ failures \in Nat
      /\ last \in [{"memory", "binding"} -> MemoryId \cup {Absent, Torn}]
  BY DEF TypeInv, TypeOK
<1>1. ASSUME NEW w \in Worker, Others(w), Grows, last' = last,
             failures' \in {failures, failures + 1},
             failures' = failures => pc[w] # "lastwrite",
             pc'[w] \in {"lasttruncate", "lastwrite"} => Recorded(w)'
      PROVE  NotedInv'
  <2>1. LastIsRecorded'
    BY <1>0, <1>1, NotedKept
  <2>2. \A v \in Worker \ {w} : pc'[v] \in {"lasttruncate", "lastwrite"} => Recorded(v)'
    BY <1>1, RecordedKept DEF NotedInv
  <2> QED
    BY <1>1, <2>1, <2>2 DEF NotedInv
<1>2. ASSUME NEW w \in Worker, NEW i \in Intent, Start(w, i)
      PROVE  NotedInv'
  <2>1. /\ pc[w] = "idle" /\ pc'[w] = Begin(i) /\ Others(w)
        /\ UNCHANGED <<memories, bindings, last, failures>>
    BY <1>0, <1>2 DEF Start, Goto, disk
  <2>2. Begin(i) \in {"bind", "lookup", "key"}
    BY DEF Begin
  <2> QED
    BY <1>1, <2>1, <2>2
<1>4. ASSUME NEW w \in Worker, ReadKey(w) \/ TruncateKey(w) \/ WriteKey(w)
      PROVE  NotedInv'
  <2>1. /\ pc[w] \in {"key", "keytruncate", "keywrite"}
        /\ pc'[w] \in {"record", "keytruncate", "keywrite"} /\ Others(w)
        /\ UNCHANGED <<memories, bindings, last, failures>>
    BY <1>0, <1>4 DEF ReadKey, TruncateKey, WriteKey, Goto, disk
  <2> QED
    BY <1>1, <2>1
<1>5. ASSUME NEW w \in Worker, Grows, Goto(w, AfterRecord(w)), want(w) # "binding",
             UNCHANGED <<job, last, failures>>, pc[w] \in {"lookup", "record"},
             \E m \in memories' : m.id = IdOf(w) /\ m.intent = job[w].intent
      PROVE  NotedInv'
  <2>1. Others(w)
    BY <1>0, <1>5 DEF Goto
  <2>2. Recorded(w)'
    <3>1. want(w)' = want(w) /\ IdOf(w)' = IdOf(w)
      BY <1>5 DEF want, IdOf
    <3>2. HasMemory(w)'
      BY <1>5, <3>1 DEF HasMemory
    <3> QED
      BY <1>5, <3>1, <3>2 DEF Recorded
  <2> QED
    BY <1>1, <1>5, <2>1, <2>2
<1>13. ASSUME NEW w \in Worker, Record(w)
       PROVE  NotedInv'
  <2>1. LineOf(w).id = IdOf(w) /\ LineOf(w).intent = job[w].intent
    BY DEF LineOf
  <2>2. pc[w] = "record" /\ want(w) # "binding" /\ Grows
    BY <1>13 DEF Record, WholeInv, Stage
  <2> QED
    BY <1>5, <1>13, <2>1, <2>2 DEF Record
<1>14. ASSUME NEW w \in Worker, LookUp(w)
       PROVE  NotedInv'
  <2>1. /\ pc[w] = "lookup" /\ want(w) = "import" /\ Grows
        /\ UNCHANGED <<memories, bindings, job, last, failures>>
    BY <1>14 DEF LookUp, disk, WholeInv, Stage
  <2>2. CASE Finds(IdOf(w)) /\ Goto(w, AfterRecord(w))
    BY <1>5, <2>1, <2>2, FoundIsRecorded
  <2>3. CASE Goto(w, "record")
    <3>1. pc'[w] = "record" /\ Others(w)
      BY <1>0, <2>1, <2>3 DEF Goto
    <3> QED
      BY <1>1, <2>1, <3>1
  <2> QED
    BY <1>14, <2>2, <2>3 DEF LookUp
<1>6. ASSUME NEW w \in Worker, ReadBack(w) \/ Answer(w)
      PROVE  NotedInv'
  <2>1. /\ pc[w] \in {"readback", "answer"} /\ pc'[w] \in {"idle", "bind", "answer"}
        /\ Others(w) /\ UNCHANGED <<memories, bindings, last, failures>>
    BY <1>0, <1>6 DEF ReadBack, Answer, Reply, Goto, disk
  <2> QED
    BY <1>1, <2>1
<1>7. ASSUME NEW w \in Worker, Bind(w)
      PROVE  NotedInv'
  <2>1. /\ pc[w] = "bind" /\ job' = job /\ Others(w)
        /\ UNCHANGED <<memories, last, failures>> /\ bindings' = bindings \cup {BondOf(w)}
        /\ pc'[w] = IF AppOf[w] = "cli" THEN "lasttruncate" ELSE "answer"
    BY <1>0, <1>7 DEF Bind, Goto
  <2>2. CASE want(w) = "binding"
    <3>1. BondOf(w).request = job[w].request /\ want(w)' = want(w)
      BY <2>1 DEF BondOf, want
    <3>2. Recorded(w)'
      BY <2>1, <2>2, <3>1 DEF Recorded
    <3> QED
      BY <1>1, <2>1, <3>2
  <2>3. CASE want(w) = "bound"
    <3>1. AppOf[w] = "client"
      BY <2>1, <2>3 DEF TypeInv, JobInv, want
    <3> QED
      BY <1>1, <2>1, <3>1
  <2> QED
    BY <2>1, <2>2, <2>3 DEF WholeInv, Stage
<1>8. ASSUME NEW w \in Worker, TruncateLast(w)
      PROVE  NotedInv'
  <2>1. /\ pc[w] = "lasttruncate" /\ pc'[w] = "lastwrite" /\ job' = job /\ Others(w)
        /\ UNCHANGED <<memories, bindings, failures>>
        /\ last' = [last EXCEPT ![LastOf(w)] = Torn]
    BY <1>0, <1>8 DEF TruncateLast, Goto
  <2>2. \A v \in Worker : Recorded(v) => Recorded(v)'
    BY <2>1, RecordedKept
  <2>3. \A v \in Worker : LastOf(v)' = LastOf(v)
    BY <2>1 DEF LastOf, want
  <2>4. \A kind \in {"memory", "binding"} : kind # LastOf(w) => last'[kind] = last[kind]
    BY <1>0, <2>1
  <2>5. LastOf(w) \in {"memory", "binding"} /\ last'[LastOf(w)] = Torn
    BY <1>0, <2>1 DEF LastOf
  <2>6. LastIsRecorded'
    <3>1. /\ last'["memory"] \in {Absent, Torn} \cup {m.id : m \in memories}
          /\ last'["binding"] \in {Absent, Torn} \cup {b.request : b \in bindings}
      BY <2>4, <2>5 DEF NotedInv, LastIsRecorded
    <3>2. \A kind \in {"memory", "binding"} : last'[kind] = Torn =>
            failures > 0 \/ \E v \in Worker : pc'[v] = "lastwrite" /\ LastOf(v) = kind
      BY <2>1, <2>4 DEF NotedInv, LastIsRecorded
    <3> QED
      BY <2>1, <2>3, <3>1, <3>2 DEF LastIsRecorded
  <2>7. \A v \in Worker : pc'[v] \in {"lasttruncate", "lastwrite"} => Recorded(v)'
    BY <2>1, <2>2 DEF NotedInv
  <2> QED
    BY <2>6, <2>7 DEF NotedInv
<1>9. ASSUME NEW w \in Worker, WriteLast(w)
      PROVE  NotedInv'
  <2>1. /\ pc[w] = "lastwrite" /\ pc'[w] = "answer" /\ job' = job /\ Others(w)
        /\ UNCHANGED <<memories, bindings, failures>>
        /\ last' = [last EXCEPT ![LastOf(w)] = IdOf(w)]
    BY <1>0, <1>9 DEF WriteLast, Goto
  <2>2. \A v \in Worker : Recorded(v) => Recorded(v)'
    BY <2>1, RecordedKept
  <2>3. \A v \in Worker : LastOf(v)' = LastOf(v)
    BY <2>1 DEF LastOf, want
  <2>4. \A kind \in {"memory", "binding"} : kind # LastOf(w) => last'[kind] = last[kind]
    BY <1>0, <2>1
  <2>5. LastOf(w) \in {"memory", "binding"} /\ last'[LastOf(w)] = IdOf(w)
    BY <1>0, <2>1 DEF LastOf
  <2>6. IdOf(w) # Torn
    BY <2>1, LineType
  <2>7. Recorded(w)
    BY <2>1 DEF NotedInv
  <2>8. LastIsRecorded'
    <3>1. last'["memory"] \in {Absent, Torn} \cup {m.id : m \in memories}
      <4>1. CASE LastOf(w) = "memory"
        <5>1. HasMemory(w)
          BY <2>7, <4>1 DEF LastOf, Recorded
        <5> QED
          BY <2>5, <4>1, <5>1 DEF HasMemory
      <4>2. CASE LastOf(w) # "memory"
        BY <2>4, <4>2 DEF NotedInv, LastIsRecorded
      <4> QED
        BY <4>1, <4>2
    <3>2. last'["binding"] \in {Absent, Torn} \cup {b.request : b \in bindings}
      <4>1. CASE LastOf(w) = "binding"
        <5>1. want(w) = "binding"
          BY <4>1 DEF LastOf
        <5>2. IdOf(w) = job[w].request /\ \E b \in bindings : b.request = job[w].request
          BY <2>7, <5>1 DEF Recorded, IdOf
        <5> QED
          BY <2>5, <4>1, <5>2
      <4>2. CASE LastOf(w) # "binding"
        BY <2>4, <4>2 DEF NotedInv, LastIsRecorded
      <4> QED
        BY <4>1, <4>2
    <3>3. \A kind \in {"memory", "binding"} : last'[kind] = Torn =>
            failures > 0 \/ \E v \in Worker : pc'[v] = "lastwrite" /\ LastOf(v) = kind
      <4> SUFFICES ASSUME NEW kind \in {"memory", "binding"}, last'[kind] = Torn,
                          ~(failures > 0)
                   PROVE  \E v \in Worker : pc'[v] = "lastwrite" /\ LastOf(v) = kind
        OBVIOUS
      <4>1. kind # LastOf(w)
        BY <2>5, <2>6
      <4>2. PICK v \in Worker : pc[v] = "lastwrite" /\ LastOf(v) = kind
        BY <2>4, <4>1 DEF NotedInv, LastIsRecorded
      <4> QED
        BY <2>1, <4>1, <4>2
    <3> QED
      BY <2>1, <2>3, <3>1, <3>2, <3>3 DEF LastIsRecorded
  <2>9. \A v \in Worker : pc'[v] \in {"lasttruncate", "lastwrite"} => Recorded(v)'
    BY <2>1, <2>2 DEF NotedInv
  <2> QED
    BY <2>8, <2>9 DEF NotedInv
<1>10. ASSUME NEW w \in Worker, Fail(w)
       PROVE  NotedInv'
  <2>1. failures' = failures + 1 /\ Grows /\ last' = last
    BY <1>10 DEF Fail, FailKeyRead, FailLookUp, FailRecord, FailOther, disk
  <2>2. pc'[w] \in {"idle", "keytruncate", "record"} /\ Others(w)
    BY <1>0, <1>10 DEF Fail, FailKeyRead, FailLookUp, FailRecord, FailOther, Reply, Goto
  <2> QED
    BY <1>0, <1>1, <2>1, <2>2
<1>11. ASSUME NEW w \in Worker, Crash(w)
       PROVE  NotedInv'
  <2>1. /\ UNCHANGED <<memories, bindings, last>> /\ failures' = failures + 1
        /\ \A v \in Worker : pc'[v] = "idle" \/ (pc'[v] = pc[v] /\ job'[v] = job[v])
    BY <1>0, <1>11 DEF Crash, disk
  <2>2. LastIsRecorded'
    BY <1>0, <2>1, NotedKept
  <2>3. \A v \in Worker : pc'[v] \in {"lasttruncate", "lastwrite"} => Recorded(v)'
    BY <2>1, RecordedKept DEF NotedInv
  <2> QED
    BY <2>2, <2>3 DEF NotedInv
<1>12. CASE UNCHANGED vars
  BY <1>12 DEF vars, NotedInv, LastIsRecorded, LastOf, Recorded, HasMemory, IdOf, want
<1> QED
  BY <1>2, <1>4, <1>6, <1>7, <1>8, <1>9, <1>10, <1>11, <1>12, <1>13, <1>14
  DEF Next, Proceed, Submit, SubmitAgain

(* The id that the CLI has noted is that of a recorded memory or binding,  *)
(* and its file is torn only while it is written or after a failure.       *)
THEOREM AppsLastIsRecorded == Spec => []LastIsRecorded
<1>1. Init => WholeInv /\ NotedInv
  BY DEF Init, WholeInv, Stage, NotedInv, LastIsRecorded
<1>2. NotedInv => LastIsRecorded
  BY DEF NotedInv
<1> QED
  BY <1>1, <1>2, TypeInit, TypeStep, WholeStep, NotedStep, PTL DEF Spec
=============================================================================
