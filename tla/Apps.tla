-------------------------------- MODULE Apps --------------------------------
(***************************************************************************)
(* The three programs people use: the ingestion API, the core client and   *)
(* the demo CLI.  What each does around the SDK's calls: find or make the  *)
(* signing key, record a memory, read it back, record a binding to its     *)
(* owner, note the id for the next command, answer.                        *)
(*                                                                         *)
(* Every program has a key file of its own; the ledgers are shared.  The   *)
(* API and the client serve many requests in one process and a crash takes *)
(* them all; of the CLI every worker is a process.                         *)
(*                                                                         *)
(* Abstracted: an append is one step, what LocalCore and Lifecycle show of *)
(* it: a line is written or the append fails, and a ledger may be left     *)
(* with an open last line or be lost to its readers.  A request is the     *)
(* intent behind it and how often it has been made; a memory it creates    *)
(* has it as id, since createAndRecordMemoryObject draws a new owner, and  *)
(* so has a key that it makes.  All ids have one length.                   *)
(***************************************************************************)
EXTENDS Naturals, FiniteSets

CONSTANTS
  Worker,
  AppOf,        \* [Worker -> App]
  Intent,       \* what people want done
  Wants, Via,   \* [Intent -> what it takes], [Intent -> App]
  Absent, Torn, \* the states of a file that holds no value
  None,
  MaxFailures,  \* bound: crashes and failing writes
  MaxRepeats    \* bound: requests made for what is being or has been served

App == {"api", "client", "cli"}
Want == {"memory",     \* a memory
         "bound",      \* a memory and a binding of its owner (client only)
         "binding",    \* a binding on its own
         "import"}     \* a memory from a bundle

ASSUME WorkerAssumption == AppOf \in [Worker -> App]
Request == Intent \X Nat
Key == Request
MemoryId == Request \cup Intent

ASSUME IntentAssumption ==
  /\ Wants \in [Intent -> Want]
  /\ Via \in [Intent -> App]
  /\ \A i \in Intent : Wants[i] = "bound" => Via[i] = "client"
  /\ \A i \in Intent : Wants[i] = "binding" => Via[i] # "client"
ASSUME SentinelAssumption ==
  /\ {Absent, Torn, None} \cap MemoryId = {} /\ Absent # Torn
  /\ Intent \cap Request = {}     \* an imported id is not drawn anew
ASSUME BoundAssumption == MaxFailures \in Nat /\ MaxRepeats \in Nat

VARIABLES
  keyfile,   \* [App -> the key in its file]
  memories,  \* lines of records.jsonl
  medium,    \* "good"; "open": its last line lacks the newline; "lost"
  bindings,  \* lines of bindings.jsonl
  last,      \* [memory, binding: last-memory-id.txt, last-binding-id.txt]
  pc, job,   \* [Worker -> the await it stands at, the locals of its request]
  answer,    \* [Intent -> what its owner has been told]
  tries,     \* [Intent -> requests made for it]
  again,     \* [Intent -> of these, made while or after another was served]
  rekeyed,   \* [App -> a key was made while another was, or its file not readable]
  blind,     \* [Intent -> an import of it could not read the ledger]
  failures

disk == <<keyfile, memories, medium, bindings, last>>
asked == <<tries, again>>
vars == <<keyfile, memories, medium, bindings, last, pc, job, answer,
          tries, again, rekeyed, blind, failures>>

Line == [id : MemoryId, request : Request, app : App, intent : Intent, key : Key \cup {None}]
Bond == [request : Request, subject : MemoryId \cup {None}, intent : Intent]
Await == {"idle", "key", "keytruncate", "keywrite", "lookup", "record",
          "readback", "bind", "lasttruncate", "lastwrite", "answer"}
Job == [intent : Intent \cup {None}, request : Request \cup {None}, key : Key \cup {None}]
NoJob == [intent |-> None, request |-> None, key |-> None]

Init ==
  /\ keyfile = [a \in App |-> Absent]
  /\ memories = {} /\ medium = "good" /\ bindings = {}
  /\ last = [kind \in {"memory", "binding"} |-> Absent]
  /\ pc = [w \in Worker |-> "idle"]
  /\ job = [w \in Worker |-> NoJob]
  /\ answer = [i \in Intent |-> "none"]
  /\ tries = [i \in Intent |-> 0]
  /\ again = [i \in Intent |-> 0]
  /\ rekeyed = [a \in App |-> FALSE]
  /\ blind = [i \in Intent |-> FALSE]
  /\ failures = 0

-----------------------------------------------------------------------------
want(w) == Wants[job[w].intent]
MakingKey(w) == pc[w] \in {"keytruncate", "keywrite"}

Goto(w, await) == pc' = [pc EXCEPT ![w] = await]

Reply(w, code) ==
  /\ answer' = [answer EXCEPT ![job[w].intent] = code]
  /\ Goto(w, "idle")
  /\ job' = [job EXCEPT ![w] = NoJob]

(* Where a request begins once its input has been read.                    *)
Begin(i) ==
  CASE Wants[i] = "binding" -> "bind"
    [] Wants[i] = "import"  -> "lookup"
    [] OTHER                -> "key"

(* The id the record of this request goes by.                              *)
IdOf(w) == IF want(w) = "import" THEN job[w].intent ELSE job[w].request

(* A request comes in.  (A flow without text is refused before anything is *)
(* awaited.)                                                               *)
Start(w, i) ==
  /\ pc[w] = "idle"
  /\ Via[i] = AppOf[w]
  /\ tries' = [tries EXCEPT ![i] = @ + 1]
  /\ Goto(w, Begin(i))
  /\ job' = [job EXCEPT ![w] = [intent |-> i, request |-> <<i, tries[i] + 1>>, key |-> None]]
  /\ UNCHANGED <<disk, rekeyed, blind, failures>>

(* Someone asks, or asks again after an error or a connection that was cut *)
(* -- also while another request of theirs is still being served.          *)
Submit(w, i) ==
  /\ answer[i] \in {"none", "400"}
  /\ tries[i] <= MaxFailures + again[i]
  /\ Start(w, i)
  /\ answer' = [answer EXCEPT ![i] = "waiting"]
  /\ UNCHANGED again

(* The button is clicked twice, the command run twice, a bundle imported   *)
(* that has been imported: nothing in the page or the CLI prevents it.     *)
SubmitAgain(w, i) ==
  /\ answer[i] \in {"waiting", "201"}
  /\ Cardinality({r \in Intent \X (1 .. MaxRepeats) : r[2] <= again[r[1]]}) < MaxRepeats
  /\ again' = [again EXCEPT ![i] = @ + 1]
  /\ Start(w, i)
  /\ UNCHANGED answer

-----------------------------------------------------------------------------
(* loadOrCreateSigningKey.                                                 *)

(* Mutants of ReadKey: what the file holds is used as it is; a new key is  *)
(* used before it is in its file; only a missing file is replaced, one     *)
(* that does not parse is an error.                                        *)
ReadKeyUnparsed(w) ==
  LET a == AppOf[w] IN
  /\ pc[w] = "key"
  /\ job' = [job EXCEPT ![w].key = IF keyfile[a] = Absent THEN job[w].request
                                   ELSE keyfile[a]]
  /\ Goto(w, IF keyfile[a] = Absent THEN "keytruncate" ELSE "record")
  /\ UNCHANGED <<disk, answer, asked, rekeyed, blind, failures>>

ReadKeyUnsaved(w) ==
  LET a == AppOf[w] IN
  /\ pc[w] = "key"
  /\ job' = [job EXCEPT ![w].key = IF keyfile[a] \in Key THEN keyfile[a]
                                   ELSE job[w].request]
  /\ Goto(w, "record")
  /\ UNCHANGED <<disk, answer, asked, rekeyed, blind, failures>>

ReadKeyStrictly(w) ==
  LET a == AppOf[w] IN
  /\ pc[w] = "key"
  /\ \/ /\ keyfile[a] = Torn
        /\ Reply(w, "400")
     \/ /\ keyfile[a] # Torn
        /\ job' = [job EXCEPT ![w].key = IF keyfile[a] = Absent THEN job[w].request
                                         ELSE keyfile[a]]
        /\ Goto(w, IF keyfile[a] = Absent THEN "keytruncate" ELSE "record")
        /\ UNCHANGED answer
  /\ UNCHANGED <<disk, asked, rekeyed, blind, failures>>

(* The file is read; if it is missing or does not parse, a key is made.    *)
ReadKey(w) ==
  LET a == AppOf[w] IN
  /\ pc[w] = "key"
  /\ \/ /\ keyfile[a] \notin {Absent, Torn}
        /\ job' = [job EXCEPT ![w].key = keyfile[a]]
        /\ Goto(w, "record")
        /\ UNCHANGED rekeyed
     \/ /\ keyfile[a] \in {Absent, Torn}
        /\ job' = [job EXCEPT ![w].key = job[w].request]
        /\ Goto(w, "keytruncate")
        /\ rekeyed' = [rekeyed EXCEPT ![a] =
             @ \/ \E v \in Worker : AppOf[v] = a /\ MakingKey(v)]
  /\ UNCHANGED <<disk, answer, asked, blind, failures>>

(* writeFile: open with O_TRUNC, write.  All key files have one length.    *)
TruncateKey(w) ==
  /\ pc[w] = "keytruncate"
  /\ keyfile' = [keyfile EXCEPT ![AppOf[w]] = Torn]
  /\ Goto(w, "keywrite")
  /\ UNCHANGED <<memories, medium, bindings, last, job, answer, asked,
                 rekeyed, blind, failures>>

WriteKey(w) ==
  /\ pc[w] = "keywrite"
  /\ keyfile' = [keyfile EXCEPT ![AppOf[w]] = job[w].key]
  /\ Goto(w, "record")
  /\ UNCHANGED <<memories, medium, bindings, last, job, answer, asked,
                 rekeyed, blind, failures>>

-----------------------------------------------------------------------------
(* The handlers, from the recording on.                                    *)
LineOf(w) == [id |-> IdOf(w), request |-> job[w].request, app |-> AppOf[w],
              intent |-> job[w].intent, key |-> job[w].key]

(* What a lookup of an id finds.                                           *)
Readable == medium # "lost"
Finds(id) == Readable /\ \E m \in memories : m.id = id

(* A line that is appended behind an open one is lost with it.             *)
AfterAppend == IF medium = "good" THEN "good" ELSE "lost"

(* What comes after the memory is recorded: the client reads it back, the  *)
(* CLI notes its id, the API answers.                                      *)
AfterRecord(w) ==
  CASE AppOf[w] = "client" /\ want(w) # "import" -> "readback"
    [] AppOf[w] = "cli"                          -> "lasttruncate"
    [] OTHER                                     -> "answer"

(* Mutant of LookUp: an import does not look its id up.                    *)
LookUpNothing(w) ==
  /\ pc[w] = "lookup"
  /\ Goto(w, "record")
  /\ UNCHANGED <<disk, job, answer, asked, rekeyed, blind, failures>>

(* importRecordedMemoryBundle up to the answer of get: the entry that is   *)
(* there is as good as the bundle's.                                       *)
LookUp(w) ==
  /\ pc[w] = "lookup"
  /\ Goto(w, IF Finds(IdOf(w)) THEN AfterRecord(w) ELSE "record")
  /\ UNCHANGED <<disk, job, answer, asked, rekeyed, blind, failures>>

(* createAndRecordMemoryObject, and the append of an import: whatever the  *)
(* ledger holds by now.                                                    *)
Record(w) ==
  /\ pc[w] = "record"
  /\ memories' = memories \cup {LineOf(w)}
  /\ medium' = AfterAppend
  /\ Goto(w, AfterRecord(w))
  /\ UNCHANGED <<keyfile, bindings, last, job, answer, asked, rekeyed, blind, failures>>

(* Mutant of ReadBack: the flow goes on without the record.                *)
ReadBackUnchecked(w) ==
  /\ pc[w] = "readback"
  /\ Goto(w, "answer")
  /\ UNCHANGED <<disk, job, answer, asked, rekeyed, blind, failures>>

(* The create flow looks its memory up, verifies it, and goes on to the    *)
(* binding if network, address and scheme are given.                       *)
ReadBack(w) ==
  /\ pc[w] = "readback"
  /\ \/ /\ ~Finds(IdOf(w))      \* "memory record was not found": 400
        /\ Reply(w, "400")
     \/ /\ Finds(IdOf(w))
        /\ Goto(w, IF want(w) = "bound" THEN "bind" ELSE "answer")
        /\ UNCHANGED <<job, answer>>
  /\ UNCHANGED <<disk, asked, rekeyed, blind, failures>>

(* createAndRecordBindingObject; of a flow, for the owner of its memory.   *)
BondOf(w) == [request |-> job[w].request, intent |-> job[w].intent,
              subject |-> IF want(w) = "bound" THEN IdOf(w) ELSE None]

Bind(w) ==
  /\ pc[w] = "bind"
  /\ bindings' = bindings \cup {BondOf(w)}
  /\ Goto(w, IF AppOf[w] = "cli" THEN "lasttruncate" ELSE "answer")
  /\ UNCHANGED <<keyfile, memories, medium, last, job, answer, asked,
                 rekeyed, blind, failures>>

(* persistLastMemoryId, persistLastBindingId.                              *)
LastOf(w) == IF want(w) = "binding" THEN "binding" ELSE "memory"

TruncateLast(w) ==
  /\ pc[w] = "lasttruncate"
  /\ last' = [last EXCEPT ![LastOf(w)] = Torn]
  /\ Goto(w, "lastwrite")
  /\ UNCHANGED <<keyfile, memories, medium, bindings, job, answer, asked,
                 rekeyed, blind, failures>>

(* Mutant of WriteLast: a binding's id goes to the file of the memories.   *)
WriteLastMemory(w) ==
  /\ pc[w] = "lastwrite"
  /\ last' = [last EXCEPT !["memory"] = IdOf(w)]
  /\ Goto(w, "answer")
  /\ UNCHANGED <<keyfile, memories, medium, bindings, job, answer, asked,
                 rekeyed, blind, failures>>

WriteLast(w) ==
  /\ pc[w] = "lastwrite"
  /\ last' = [last EXCEPT ![LastOf(w)] = IdOf(w)]
  /\ Goto(w, "answer")
  /\ UNCHANGED <<keyfile, memories, medium, bindings, job, answer, asked,
                 rekeyed, blind, failures>>

Answer(w) ==
  /\ pc[w] = "answer"
  /\ Reply(w, "201")
  /\ UNCHANGED <<disk, asked, rekeyed, blind, failures>>

-----------------------------------------------------------------------------
(* Failures.                                                               *)

(* A system call of the request fails: disk full, too many open files.  A  *)
(* key file that cannot be read counts as missing, a ledger as empty.      *)
FailKeyRead(w) ==
  /\ pc[w] = "key"
  /\ job' = [job EXCEPT ![w].key = job[w].request]
  /\ Goto(w, "keytruncate")
  /\ rekeyed' = [rekeyed EXCEPT ![AppOf[w]] = TRUE]
  /\ UNCHANGED <<disk, answer, blind>>

(* The put of an import fails, or its ledger cannot be read.               *)
FailLookUp(w) ==
  /\ pc[w] = "lookup"
  /\ \/ Reply(w, "400") /\ UNCHANGED blind
     \/ /\ Goto(w, "record")
        /\ blind' = [blind EXCEPT ![job[w].intent] = TRUE]
        /\ UNCHANGED <<job, answer>>
  /\ UNCHANGED <<disk, rekeyed>>

(* The put fails, or the append of a memory after a fragment or after all  *)
(* but the newline.                                                        *)
FailRecord(w) ==
  /\ pc[w] = "record"
  /\ \/ UNCHANGED <<memories, medium>>
     \/ /\ medium' = "lost"
        /\ UNCHANGED memories
     \/ /\ memories' = memories \cup {LineOf(w)}
        /\ medium' = IF medium = "good" THEN "open" ELSE "lost"
  /\ Reply(w, "400")
  /\ UNCHANGED <<keyfile, bindings, last, rekeyed, blind>>

FailOther(w) ==
  /\ pc[w] \in {"keytruncate", "keywrite", "readback", "bind", "lasttruncate", "lastwrite"}
  /\ bindings' \in {bindings} \cup
       (IF pc[w] = "bind" THEN {bindings \cup {BondOf(w)}} ELSE {})
  /\ Reply(w, "400")      \* what was truncated stays so
  /\ UNCHANGED <<keyfile, memories, medium, last, rekeyed, blind>>

Fail(w) ==
  /\ failures < MaxFailures
  /\ failures' = failures + 1
  /\ FailKeyRead(w) \/ FailLookUp(w) \/ FailRecord(w) \/ FailOther(w)
  /\ UNCHANGED asked

(* The process of w dies, of a server with all its requests; their clients *)
(* see the connection cut.                                                 *)
Crash(w) ==
  LET dead == IF AppOf[w] = "cli" THEN {w} ELSE {v \in Worker : AppOf[v] = AppOf[w]}
      told == {job[v].intent : v \in dead} IN
  /\ pc[w] # "idle"
  /\ failures < MaxFailures
  /\ failures' = failures + 1
  /\ pc' = [v \in Worker |-> IF v \in dead THEN "idle" ELSE pc[v]]
  /\ job' = [v \in Worker |-> IF v \in dead THEN NoJob ELSE job[v]]
  /\ answer' = [i \in Intent |-> IF i \in told THEN "400" ELSE answer[i]]
  /\ UNCHANGED <<disk, asked, rekeyed, blind>>

-----------------------------------------------------------------------------
Proceed(w) ==
  \/ ReadKey(w) \/ TruncateKey(w) \/ WriteKey(w)
  \/ LookUp(w) \/ Record(w) \/ ReadBack(w) \/ Bind(w)
  \/ TruncateLast(w) \/ WriteLast(w) \/ Answer(w)

Next ==
  \E w \in Worker :
    \/ \E i \in Intent : Submit(w, i) \/ SubmitAgain(w, i)
    \/ Proceed(w)
    \/ Fail(w)
    \/ Crash(w)

Spec == Init /\ [][Next]_vars

(* The event loop and the kernel go on with every request; people whose    *)
(* request has failed make it again.                                       *)
FairSpec ==
  /\ Spec
  /\ \A w \in Worker : WF_vars(Proceed(w))
  /\ \A i \in Intent : WF_vars(\E w \in Worker : Submit(w, i))

-----------------------------------------------------------------------------
(* Every variable has its type.                                            *)
TypeOK ==
  /\ keyfile \in [App -> Key \cup {Absent, Torn}]
  /\ memories \subseteq Line
  /\ medium \in {"good", "open", "lost"}
  /\ bindings \subseteq Bond
  /\ last \in [{"memory", "binding"} -> MemoryId \cup {Absent, Torn}]
  /\ pc \in [Worker -> Await]
  /\ job \in [Worker -> Job]
  /\ answer \in [Intent -> {"none", "waiting", "201", "400"}]
  /\ tries \in [Intent -> Nat]
  /\ again \in [Intent -> Nat]
  /\ rekeyed \in [App -> BOOLEAN]
  /\ blind \in [Intent -> BOOLEAN]
  /\ failures \in 0 .. MaxFailures

(* The key a program signs with is the one it keeps: as long as no two of  *)
(* its requests made a key at the same time and its key file could always  *)
(* be read, whichever died in between, every memory it has signed is       *)
(* signed with the key that is in its file.                                *)
SignedWithKeptKey ==
  \A a \in App : ~rekeyed[a] =>
    \A m \in memories : m.app = a /\ m.key # None => keyfile[a] = m.key

(* 201 means all of it: the memory is recorded, and a binding that was     *)
(* asked for is recorded for the owner of that same memory.  And no flow   *)
(* leaves a binding without its memory, whatever failed.                   *)
AnsweredWhole ==
  /\ \A i \in Intent : answer[i] = "201" =>
       CASE Wants[i] = "binding" -> \E b \in bindings : b.intent = i
         [] Wants[i] = "bound"   -> \E b \in bindings, m \in memories :
                                      b.intent = i /\ m.intent = i /\ b.subject = m.id
         [] OTHER                -> \E m \in memories : m.intent = i
  /\ \A b \in bindings : b.subject # None =>
       \E m \in memories : m.id = b.subject /\ m.intent = b.intent

(* Asking again records a memory again: beyond the first there is a line   *)
(* at most for each failure and for each time it was asked for though      *)
(* another request was under way or served.  Failures alone duplicate no   *)
(* import that could read the ledger, repeats do: of two at once each      *)
(* looks before the other appends.  Once the ledger is lost there is no    *)
(* bound, because every flow is then refused after it has recorded.        *)
LinesOf(i) == {m \in memories : m.intent = i}
LinesAccountedFor ==
  medium # "lost" =>
    \A i \in Intent :
      Cardinality(LinesOf(i)) <= 1 + again[i] +
        IF Wants[i] = "import" /\ ~blind[i] THEN 0 ELSE failures

(* The id the CLI has noted is that of a memory or binding it recorded.    *)
(* The file is torn only while a command writes it, or after one failed.   *)
LastIsRecorded ==
  /\ last["memory"] \in {Absent, Torn} \cup {m.id : m \in memories}
  /\ last["binding"] \in {Absent, Torn} \cup {b.request : b \in bindings}
  /\ \A kind \in {"memory", "binding"} : last[kind] = Torn =>
       \/ failures > 0
       \/ \E w \in Worker : pc[w] = "lastwrite" /\ LastOf(w) = kind

(* Whoever keeps asking is served: no key file left torn by a crash, no    *)
(* half finished flow stands in the way of the next - unless the memory    *)
(* ledger is lost.                                                         *)
EventuallyServed ==
  \A i \in Intent : <>(answer[i] = "201" \/ medium = "lost")

=============================================================================
