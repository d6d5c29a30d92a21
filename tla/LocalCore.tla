----------------------------- MODULE LocalCore -----------------------------
(***************************************************************************)
(* The local core: the SDK's create, import, verify and export of memory   *)
(* objects (packages/sdk) over the content store (packages/storage-client) *)
(* and the JSONL ledger (packages/ledger).                                 *)
(*                                                                         *)
(* A worker is one request of the ingestion API or the core client, or one *)
(* run of the demo CLI.  All of them share the same two files trees and no *)
(* lock, and each gives way at every await: a worker's steps are the       *)
(* stretches between two awaits.                                           *)
(*                                                                         *)
(* Abstracted: SHA-256 is injective, so a canonical hash is the hashed     *)
(* fields themselves (content cid and the rest of the object, an Input), a *)
(* cid is the content itself, and the memory_id, which is derived from the *)
(* hash, is the hash.  A signature is what was signed and with which key.  *)
(***************************************************************************)
EXTENDS JsonlFile, FiniteSets

CONSTANTS
  Worker,          \* concurrent requests and CLI runs
  Content,         \* content bodies clients submit
  Torn,            \* what reading a truncated content file yields
  Input,           \* the other hashed fields of a memory object
  ValidInput,      \* those that assertValidMemoryObject accepts
  Key, ServerKey,  \* signing keys; the one of this process
  KeyRef,          \* [Input -> Key or None]: the key in producer.key_ref
  Decode,          \* [Body -> Body]: bytes after TextDecoder and re-encoding
  ForeignBundle,   \* bundles that reach us from other nodes
  None,            \* no record, no signature, no key
  MaxRequests,     \* bound: requests started in a behaviour
  MaxFailures      \* bound: requests that die or hit a failing write

Body   == Content \cup {Torn}
Hash   == Body \X Input
Entry  == [memory_id : Hash, canonical_hash : Hash, content_cid : Body]
Memory == [memory_id : Hash, canonical_hash : Hash, cid : Body,
           input : Input, signed : (Hash \X Key) \cup {None}]
Record == [entry : Entry, memory : Memory]
Bundle == [record : Record, body : Body]

ASSUME InputAssumption ==
  /\ ValidInput \subseteq Input
  /\ ServerKey \in Key
  /\ KeyRef \in [Input -> Key \cup {None}]
  /\ Decode \in [Body -> Body]
  /\ ForeignBundle \subseteq Bundle
ASSUME SentinelAssumption ==
  Garbled \notin Record /\ None \notin Record
ASSUME BoundAssumption == MaxRequests \in Nat /\ MaxFailures \in Nat

VARIABLES
  store,     \* [Body -> state of the content file of that cid]
  ledger,    \* the ledger file
  pc,        \* [Worker -> the await it stands at]
  job,       \* [Worker -> the locals of its request]
  bundles,   \* bundles exported so far, wherever they were carried
  acked,     \* ledger entries answered to a create or an import
  verdicts,  \* answers of verify that named a record
  issued,    \* requests started so far
  failures   \* failures so far

vars == <<store, ledger, pc, job, bundles, acked, verdicts, issued, failures>>

FileState == {"absent", "partial", "whole"}
Await == {"idle", "truncate", "write", "lookup", "append",
          "fetch", "has", "read"}
Code == {"ok", "LEDGER_HASH_MISMATCH", "STORED_CONTENT_MISSING",
         "CONTENT_CID_MISMATCH", "CANONICAL_HASH_MISMATCH",
         "PRODUCER_KEY_MISSING", "SIGNATURE_VERIFICATION_FAILED"}
Job == [op : {"none", "create", "import", "verify", "export"},
        id : Hash \cup {None}, body : Body \cup {None}, rec : Record \cup {None}]

NoJob == [op |-> "none", id |-> None, body |-> None, rec |-> None]

-----------------------------------------------------------------------------
(* Pure parts of the SDK.                                                  *)

(* hashCanonicalMemoryObject: memory_id, integrity and anchors are left    *)
(* out of the hash.                                                        *)
HashOf(m) == <<m.cid, m.input>>

(* The record createAndRecordMemoryObject builds and signs with key k.     *)
RecordOf(c, i, k) ==
  LET h == <<c, i>> IN
  [entry  |-> [memory_id |-> h, canonical_hash |-> h, content_cid |-> c],
   memory |-> [memory_id |-> h, canonical_hash |-> h, cid |-> c, input |-> i,
               signed |-> <<h, k>>]]

(* The checks of importRecordedMemoryBundle that precede its first await.  *)
Admissible(b) ==
  /\ b.record.memory.input \in ValidInput
  /\ b.record.entry.canonical_hash = b.record.memory.canonical_hash
  /\ HashOf(b.record.memory) = b.record.memory.canonical_hash

(* verifyRecordedMemoryObject after storage.has has answered.              *)
Verdict(r, present) ==
  IF ~present
    THEN "STORED_CONTENT_MISSING"
  ELSE IF r.memory.cid # r.entry.content_cid
    THEN "CONTENT_CID_MISMATCH"
  ELSE IF HashOf(r.memory) # r.memory.canonical_hash
    THEN "CANONICAL_HASH_MISMATCH"
  ELSE IF r.memory.signed = None
    THEN "ok"
  ELSE IF KeyRef[r.memory.input] = None
    THEN "PRODUCER_KEY_MISSING"
  ELSE IF r.memory.signed # <<HashOf(r.memory), KeyRef[r.memory.input]>>
    THEN "SIGNATURE_VERIFICATION_FAILED"
  ELSE "ok"

(* JsonlLedgerClient.list: the catch turns one bad line into no records.   *)
Listed(f) == IF Parses(f) THEN f.lines ELSE <<>>

LinesOf(s, id) == {k \in DOMAIN s : s[k].entry.memory_id = id}

(* Mutant of Get: findLast for find.                                       *)
GetLast(f, id) ==
  LET s    == Listed(f)
      hits == LinesOf(s, id)
  IN  IF hits = {} THEN None
      ELSE s[CHOOSE k \in hits : \A j \in hits : j <= k]

(* JsonlLedgerClient.get: the first listed record with that id.            *)
Get(f, id) ==
  LET s    == Listed(f)
      hits == LinesOf(s, id)
  IN  IF hits = {} THEN None
      ELSE s[CHOOSE k \in hits : \A j \in hits : k <= j]

-----------------------------------------------------------------------------
Init ==
  /\ store = [b \in Body |-> "absent"]
  /\ ledger = EmptyFile
  /\ pc = [w \in Worker |-> "idle"]
  /\ job = [w \in Worker |-> NoJob]
  /\ bundles = {}
  /\ acked = {}
  /\ verdicts = {}
  /\ issued = 0
  /\ failures = 0

Start(w, j, await) ==
  /\ pc[w] = "idle"
  /\ issued < MaxRequests
  /\ issued' = issued + 1
  /\ job' = [job EXCEPT ![w] = j]
  /\ pc' = [pc EXCEPT ![w] = await]
  /\ UNCHANGED <<store, ledger, bundles, acked, verdicts, failures>>

Goto(w, await) == pc' = [pc EXCEPT ![w] = await] /\ UNCHANGED job

Return(w) ==
  /\ pc' = [pc EXCEPT ![w] = "idle"]
  /\ job' = [job EXCEPT ![w] = NoJob]

-----------------------------------------------------------------------------
(* Mutants: what a slip in one of the steps below would do.                *)

(* Import looks the id up and records it without storing its content.      *)
ImportUnstored(w, b) ==
  /\ Admissible(b)
  /\ Start(w, [op |-> "import", id |-> b.record.entry.memory_id,
               body |-> b.body, rec |-> b.record], "lookup")

(* Import does not compare the stored cid with the one in the bundle.      *)
PutTrustsBundle(w) ==
  /\ pc[w] = "write"
  /\ store' = [store EXCEPT ![job[w].body] = "whole"]
  /\ Goto(w, IF job[w].op = "create" THEN "append" ELSE "lookup")
  /\ UNCHANGED <<ledger, bundles, acked, verdicts, issued, failures>>

(* Import answers the record it found instead of its entry.                *)
LookUpAnswersRecord(w) ==
  /\ pc[w] = "lookup"
  /\ LET found == Get(ledger, job[w].id) IN
     IF found # None
       THEN acked' = acked \cup {found} /\ Return(w)
       ELSE UNCHANGED acked /\ Goto(w, "append")
  /\ UNCHANGED <<store, ledger, bundles, verdicts, issued, failures>>

(* The rejection of appendFile is swallowed.                               *)
AppendUnchecked(w) ==
  /\ pc[w] = "append"
  /\ ledger' \in {AppendLine(ledger, job[w].rec)} \cup CutAppend(ledger, job[w].rec)
  /\ acked' = acked \cup {job[w].rec.entry}
  /\ Return(w)
  /\ UNCHANGED <<store, bundles, verdicts, issued, failures>>

(* writeFile for appendFile: the ledger is rewritten.                      *)
AppendRewrites(w) ==
  /\ pc[w] = "append"
  /\ ledger' = AppendLine(EmptyFile, job[w].rec)
  /\ acked' = acked \cup {job[w].rec.entry}
  /\ Return(w)
  /\ UNCHANGED <<store, bundles, verdicts, issued, failures>>

-----------------------------------------------------------------------------
(* Requests arrive.  Create has nothing to check before storage.put; it    *)
(* signs with the key in the request, or else with the key of the process. *)
Create(w, c, i, k) ==
  Start(w, [op |-> "create", id |-> <<c, i>>, body |-> c,
            rec |-> RecordOf(c, i, k)], "truncate")

Import(w, b) ==
  /\ Admissible(b)
  /\ Start(w, [op |-> "import", id |-> b.record.entry.memory_id,
               body |-> b.body, rec |-> b.record], "truncate")

Query(w, op, id) ==
  Start(w, [op |-> op, id |-> id, body |-> None, rec |-> None], "fetch")

(* LocalStorageClient.put is writeFile: open with O_TRUNC, then write.  It *)
(* does so even when the file is already there.                            *)
PutTruncate(w) ==
  /\ pc[w] = "truncate"
  /\ store' = [store EXCEPT ![job[w].body] = "partial"]
  /\ Goto(w, "write")
  /\ UNCHANGED <<ledger, bundles, acked, verdicts, issued, failures>>

PutWrite(w) ==
  /\ pc[w] = "write"
  /\ store' = [store EXCEPT ![job[w].body] = "whole"]
  /\ \/ /\ job[w].op = "create"
        /\ job[w].rec.memory.input \in ValidInput
        /\ Goto(w, "append")
     \/ /\ job[w].op = "create"       \* the object does not validate: 400
        /\ job[w].rec.memory.input \notin ValidInput
        /\ Return(w)
     \/ /\ job[w].op = "import"
        /\ job[w].body = job[w].rec.memory.cid
        /\ Goto(w, "lookup")
     \/ /\ job[w].op = "import"       \* content cid mismatch: 400
        /\ job[w].body # job[w].rec.memory.cid
        /\ Return(w)
  /\ UNCHANGED <<ledger, bundles, acked, verdicts, issued, failures>>

(* Import looks the id up and answers the record it finds.                 *)
LookUp(w) ==
  /\ pc[w] = "lookup"
  /\ LET found == Get(ledger, job[w].id) IN
     \/ /\ found # None
        /\ acked' = acked \cup {found.entry}
        /\ Return(w)
     \/ /\ found = None
        /\ Goto(w, "append")
        /\ UNCHANGED acked
  /\ UNCHANGED <<store, ledger, bundles, verdicts, issued, failures>>

AppendRecord(w) ==
  /\ pc[w] = "append"
  /\ ledger' = AppendLine(ledger, job[w].rec)
  /\ acked' = acked \cup {job[w].rec.entry}
  /\ Return(w)
  /\ UNCHANGED <<store, bundles, verdicts, issued, failures>>

(* Verify: ledger.get, the checks up to storage.has, then the others.      *)
FetchForVerify(w) ==
  /\ pc[w] = "fetch"
  /\ job[w].op = "verify"
  /\ LET found == Get(ledger, job[w].id) IN
     \/ /\ found = None               \* LEDGER_RECORD_NOT_FOUND
        /\ Return(w)
        /\ UNCHANGED verdicts
     \/ /\ found # None
        /\ IF found.entry.canonical_hash # found.memory.canonical_hash
           THEN /\ verdicts' = verdicts \cup
                     {[record |-> found, code |-> "LEDGER_HASH_MISMATCH"]}
                /\ Return(w)
           ELSE /\ pc' = [pc EXCEPT ![w] = "has"]
                /\ job' = [job EXCEPT ![w].rec = found]
                /\ UNCHANGED verdicts
  /\ UNCHANGED <<store, ledger, bundles, acked, issued, failures>>

(* storage.has is stat().isFile(): a truncated file exists.                *)
HasContent(w) ==
  /\ pc[w] = "has"
  /\ LET r == job[w].rec IN
     verdicts' = verdicts \cup
       {[record |-> r,
         code   |-> Verdict(r, store[r.entry.content_cid] # "absent")]}
  /\ Return(w)
  /\ UNCHANGED <<store, ledger, bundles, acked, issued, failures>>

(* Export: ledger.get, then storage.get of the entry's cid.                *)
FetchForExport(w) ==
  /\ pc[w] = "fetch"
  /\ job[w].op = "export"
  /\ LET found == Get(ledger, job[w].id) IN
     \/ /\ found = None               \* LEDGER_RECORD_NOT_FOUND: 404
        /\ Return(w)
     \/ /\ found # None
        /\ pc' = [pc EXCEPT ![w] = "read"]
        /\ job' = [job EXCEPT ![w].rec = found]
  /\ UNCHANGED <<store, ledger, bundles, acked, verdicts, issued, failures>>

ReadContent(w) ==
  /\ pc[w] = "read"
  /\ LET cid  == job[w].rec.entry.content_cid
         read == IF store[cid] = "whole" THEN cid ELSE Torn
     IN bundles' = IF store[cid] = "absent"   \* readFile rejects: 404
                   THEN bundles
                   ELSE bundles \cup
                          {[record |-> job[w].rec, body |-> Decode[read]]}
  /\ Return(w)
  /\ UNCHANGED <<store, ledger, acked, verdicts, issued, failures>>

(* The process dies at an await, or the write it awaits fails half way.    *)
Fail(w) ==
  /\ pc[w] # "idle"
  /\ failures < MaxFailures
  /\ failures' = failures + 1
  /\ \/ /\ pc[w] = "append"
        /\ ledger' \in CutAppend(ledger, job[w].rec)
     \/ /\ pc[w] # "append"
        /\ UNCHANGED ledger
  /\ Return(w)
  /\ UNCHANGED <<store, bundles, acked, verdicts, issued>>

-----------------------------------------------------------------------------
(* The ids a client can name: those it was answered and those it can list. *)
KnownIds ==
  {e.memory_id : e \in acked} \cup
  {Listed(ledger)[k].entry.memory_id : k \in DOMAIN Listed(ledger)}

Proceed(w) ==
  \/ PutTruncate(w) \/ PutWrite(w) \/ LookUp(w) \/ AppendRecord(w)
  \/ FetchForVerify(w) \/ HasContent(w)
  \/ FetchForExport(w) \/ ReadContent(w)

Next ==
  \E w \in Worker :
    \/ \E c \in Content, i \in Input, k \in Key : Create(w, c, i, k)
    \/ \E b \in bundles \cup ForeignBundle : Import(w, b)
    \/ \E op \in {"verify", "export"}, id \in KnownIds : Query(w, op, id)
    \/ Proceed(w)
    \/ Fail(w)

Spec == Init /\ [][Next]_vars

-----------------------------------------------------------------------------
(* Every variable has its type.                                            *)
TypeOK ==
  /\ store \in [Body -> FileState]
  /\ ledger \in Files(Record)
  /\ pc \in [Worker -> Await]
  /\ job \in [Worker -> Job]
  /\ bundles \subseteq Bundle
  /\ acked \subseteq Entry
  /\ verdicts \subseteq [record : Record, code : Code]
  /\ issued \in 0 .. MaxRequests
  /\ failures \in 0 .. MaxFailures

(* storage.put before ledger.append: whatever line the ledger holds, the   *)
(* content its memory object names has been stored, by create, by import,  *)
(* and whichever requests died in between.                                 *)
ContentBeforeRecord ==
  \A k \in DOMAIN ledger.lines :
    ledger.lines[k] # Garbled => store[ledger.lines[k].memory.cid] # "absent"

(* The entry createAndRecordMemoryObject derives from a memory object.     *)
EntryOf(m) ==
  [memory_id |-> HashOf(m), canonical_hash |-> HashOf(m), content_cid |-> m.cid]

(* Bundles whose entry was derived from their memory object, as the export *)
(* of any node writes them.                                                *)
HonestBundles ==
  \A b \in ForeignBundle : b.record.entry = EntryOf(b.record.memory)

(* As long as the ledger parses, every memory a create or an import has    *)
(* been answered for is found by its id, however the requests interleave   *)
(* and although neither create nor two concurrent imports look first; and  *)
(* if bundles are honest it is found with the entry that was answered.     *)
AckedReadable ==
  Parses(ledger) =>
    \A e \in acked :
      /\ Get(ledger, e.memory_id) # None
      /\ HonestBundles => Get(ledger, e.memory_id).entry = e

(* A record that verify or export has answered with stays the record of    *)
(* its id: no later append puts another one in front of it.                *)
AnswersStable ==
  Parses(ledger) =>
    \A r \in {v.record : v \in verdicts} \cup {b.record : b \in bundles} :
      Get(ledger, r.entry.memory_id) = r

(* Verify raises no false alarm: of what this service recorded, from its   *)
(* own clients or from honest bundles, nothing is reported missing or      *)
(* mismatched, and a signature is refused only where producer.key_ref is   *)
(* missing or does not name the key that signed.                           *)
NoFalseAlarm ==
  HonestBundles =>
    \A v \in verdicts :
      LET m == v.record.memory IN
      \/ v.code = "ok"
      \/ v.code = "PRODUCER_KEY_MISSING" /\ KeyRef[m.input] = None
      \/ /\ v.code = "SIGNATURE_VERIFICATION_FAILED"
         /\ m.signed # <<HashOf(m), KeyRef[m.input]>>

(* Until a write fails the files are damaged only in passing: the ledger   *)
(* parses, and a content file is partial only while some request stands    *)
(* between its truncate and its write.                                     *)
DamageNeedsFailure ==
  failures = 0 =>
    /\ Parses(ledger) /\ ~ledger.open
    /\ \A b \in Body :
         store[b] = "partial" => \E w \in Worker : pc[w] = "write" /\ job[w].body = b

(* The requests and files implement the write-once archive.                *)
A == INSTANCE Archive WITH
       Id       <- Hash,
       Entry    <- Record,
       Unknown  <- None,
       Lossy    <- MaxFailures > 0,
       known    <- [id \in Hash |-> Get(ledger, id)],
       promised <- {e.memory_id : e \in acked},
       lost     <- ~Parses(ledger)

(* First write wins for ever, acknowledged ids are known, and a service    *)
(* without failures never loses its ledger.                                *)
ImplementsArchive == A!Spec

-----------------------------------------------------------------------------
(* What the documents say and the code does not do.                        *)

(* README.md:3: recorded memories are durable.  One torn line and list     *)
(* answers that there are none.                                            *)
AckedDurable == \A e \in acked : Get(ledger, e.memory_id) # None

=============================================================================
