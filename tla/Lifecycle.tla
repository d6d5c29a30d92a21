----------------------------- MODULE Lifecycle -----------------------------
(***************************************************************************)
(* Bindings and attestations: the SDK's create, import and export of the   *)
(* two kinds of object that have a status (packages/sdk), what they may    *)
(* look like (packages/memory-schema) and the ledger file of each kind     *)
(* (packages/ledger).  The code of the two kinds is a copy of each other;  *)
(* the model is written once and takes the kind as a field.                *)
(*                                                                         *)
(* Requests, files and awaits are those of LocalCore: several processes,   *)
(* no lock, one step between two awaits.                                   *)
(*                                                                         *)
(* Abstracted: an id is its prefix, the alphabet of its body and a name;   *)
(* the required strings and timestamps of an object are one flag, filled;  *)
(* the cid of a text is the text, and the JSON text of an object is the    *)
(* object.                                                                 *)
(***************************************************************************)
EXTENDS JsonlFile, FiniteSets

CONSTANTS
  Worker,          \* concurrent requests and CLI runs
  Draft,           \* inputs of create: objects, their id possibly None
  ForeignBundle,   \* bundles that reach us from other nodes
  GivenName,       \* names of ids that clients and other nodes choose
  Torn,            \* what reading a truncated content file yields
  None,            \* no id, no record, no issuer
  MaxRequests,     \* bound: requests started in a behaviour
  MaxFailures      \* bound: requests that die or hit a failing write

Kind == {"binding", "attestation"}

-----------------------------------------------------------------------------
(* Ids (memory-schema index.ts:209-356).                                   *)

(* "alnum" is [a-z0-9]{20,64}, "spelled" needs '_' or '-' as well, "short" *)
(* is anything else.                                                       *)
Alphabet == {"alnum", "spelled", "short"}

PrefixOf == [producer |-> "prod", owner |-> "own", binding |-> "bind",
             attestation |-> "att", anchor |-> "anch", memory |-> "mem"]
IdType == DOMAIN PrefixOf
IdPrefix == {PrefixOf[t] : t \in IdType}

Id == [prefix : IdPrefix, body : Alphabet,
       name : (0 .. MaxRequests) \cup GivenName]

(* Only MEMORY_ID_PATTERN lets '_' and '-' into the body.                  *)
IsId(type, id) ==
  /\ id.prefix = PrefixOf[type]
  /\ id.body \in IF type = "memory" THEN {"alnum", "spelled"} ELSE {"alnum"}

(* createCoreIdFromBytes of randomBytes: base32, and never the same twice. *)
GeneratedId(type, n) == [prefix |-> PrefixOf[type], body |-> "alnum", name |-> n]

-----------------------------------------------------------------------------
(* Objects.                                                                *)

SubjectType ==
  [binding     |-> {"producer", "owner", "attestation", "anchor"},
   attestation |-> IdType]

Status == [binding     |-> {"claimed", "verified", "revoked"},
           attestation |-> {"issued", "revoked"}]

AnyStatus == Status["binding"] \cup Status["attestation"]
Stamp == {"verified_at", "revoked_at"}

ObjectWith(ids) ==
  [kind : Kind, id : ids, subject_type : IdType, subject : Id,
   issuer_type : IdType \cup {None}, issuer : Id \cup {None},
   filled : BOOLEAN, status : AnyStatus, stamps : SUBSET Stamp]

Object == ObjectWith(Id)

(* Mutant of LifecycleHolds: a revoked object needs no revoked_at.         *)
LifecycleForgetsRevoked(o) ==
  CASE o.status = "claimed"  -> o.stamps = {}
    [] o.status = "verified" -> o.stamps = {"verified_at"}
    [] o.status = "issued"   -> "revoked_at" \notin o.stamps
    [] o.status = "revoked"  -> TRUE

(* assertValidBindingLifecycle, assertValidAttestationLifecycle.           *)
LifecycleHolds(o) ==
  CASE o.status = "claimed"  -> o.stamps = {}
    [] o.status = "verified" -> o.stamps = {"verified_at"}
    [] o.status = "issued"   -> "revoked_at" \notin o.stamps
    [] o.status = "revoked"  -> "revoked_at" \in o.stamps

(* validateAttestationIssuerId; a binding has no issuer.                   *)
ValidIssuer(o) ==
  o.kind = "attestation" =>
    /\ o.issuer_type \in {"producer", "owner"}
    /\ IsId(o.issuer_type, o.issuer)

(* assertValidBindingObject, assertValidAttestationObject.                 *)
Valid(o) ==
  /\ IsId(o.kind, o.id)
  /\ o.subject_type \in SubjectType[o.kind]
  /\ IsId(o.subject_type, o.subject)
  /\ ValidIssuer(o)
  /\ o.filled
  /\ o.status \in Status[o.kind]
  /\ LifecycleHolds(o)

(* assertValidBindingTransition, assertValidAttestationTransition: which   *)
(* statuses may follow one another.  Nothing in src/ calls either.         *)
MayFollow(previous, o) ==
  /\ Valid(o)
  /\ \/ previous = o.status
     \/ previous = "claimed" /\ o.status \in {"verified", "revoked"}
     \/ previous \in {"verified", "issued"} /\ o.status = "revoked"

-----------------------------------------------------------------------------
(* Records, bundles, the ledger files.                                     *)
Body   == Object \cup {Torn}
Entry  == [id : Id, content_cid : Body, subject_type : IdType, subject : Id,
           status : AnyStatus]
Record == [entry : Entry, object : Object]
Bundle == [record : Record, body : Body]

(* The entry createAndRecord... derives from the object it has stored.     *)
EntryOf(o) ==
  [id |-> o.id, content_cid |-> o, subject_type |-> o.subject_type,
   subject |-> o.subject, status |-> o.status]

(* Jsonl(Binding|Attestation)LedgerClient.list: one bad line, no records.  *)
Listed(f) == IF Parses(f) THEN f.lines ELSE <<>>

LinesOf(s, id) == {k \in DOMAIN s : s[k].entry.id = id}

(* Mutant of Get: findLast for find.                                       *)
GetLast(f, id) ==
  LET s    == Listed(f)
      hits == LinesOf(s, id)
  IN  IF hits = {} THEN None ELSE s[CHOOSE k \in hits : \A j \in hits : j <= k]

(* ...LedgerClient.get: the first listed record whose entry has that id.   *)
Get(f, id) ==
  LET s    == Listed(f)
      hits == LinesOf(s, id)
  IN  IF hits = {} THEN None ELSE s[CHOOSE k \in hits : \A j \in hits : k <= j]

-----------------------------------------------------------------------------
(* Nobody outside chooses an id that randomBytes is yet to return.         *)
ASSUME DraftAssumption ==
  /\ Draft \subseteq ObjectWith(Id \cup {None})
  /\ \A d \in Draft : d.id # None => d.id.name \in GivenName
ASSUME BundleAssumption ==
  /\ ForeignBundle \subseteq Bundle
  /\ \A b \in ForeignBundle : b.record.entry.id.name \in GivenName
ASSUME NameAssumption == GivenName \cap Nat = {}
ASSUME SentinelAssumption ==
  /\ Garbled \notin Record
  /\ None \notin Record
  /\ Torn \notin Object
ASSUME BoundAssumption == MaxRequests \in Nat /\ MaxFailures \in Nat

VARIABLES
  whole, partial,  \* the content files that are complete, and truncated
  ledger,          \* [Kind -> bindings.jsonl and attestations.jsonl]
  pc,              \* [Worker -> the await it stands at]
  job,             \* [Worker -> the locals of its request]
  bundles,         \* bundles exported so far, wherever they were carried
  acked,           \* [Kind -> entries answered to a create or an import]
  refused,         \* objects whose creation was answered 400
  issued,          \* requests started so far
  failures         \* [Kind -> requests that failed]

files == <<whole, partial, ledger>>
vars == <<whole, partial, ledger, pc, job, bundles, acked, refused, issued, failures>>

Await == {"idle", "truncate", "write", "lookup", "append", "fetch", "read"}
Job == [op : {"none", "create", "import", "export"}, kind : Kind \cup {None},
        id : Id \cup {None}, body : Body \cup {None}, rec : Record \cup {None}]
NoJob == [op |-> "none", kind |-> None, id |-> None, body |-> None, rec |-> None]

Init ==
  /\ whole = {} /\ partial = {}
  /\ ledger = [k \in Kind |-> EmptyFile]
  /\ pc = [w \in Worker |-> "idle"]
  /\ job = [w \in Worker |-> NoJob]
  /\ bundles = {}
  /\ acked = [k \in Kind |-> {}]
  /\ refused = {}
  /\ issued = 0
  /\ failures = [k \in Kind |-> 0]

Arrive(w) ==
  /\ pc[w] = "idle"
  /\ issued < MaxRequests
  /\ issued' = issued + 1

Start(w, j, await) ==
  /\ Arrive(w)
  /\ job' = [job EXCEPT ![w] = j]
  /\ pc' = [pc EXCEPT ![w] = await]
  /\ UNCHANGED <<files, bundles, acked, refused, failures>>

Goto(w, await) == pc' = [pc EXCEPT ![w] = await] /\ UNCHANGED job

Return(w) ==
  /\ pc' = [pc EXCEPT ![w] = "idle"]
  /\ job' = [job EXCEPT ![w] = NoJob]

-----------------------------------------------------------------------------
(* create...Object: the draft, with the id of the client or a new one.     *)
Completed(d) ==
  IF d.id = None THEN [d EXCEPT !.id = GeneratedId(d.kind, issued + 1)] ELSE d

(* Mutant of CreateWith: a new entry is always that of a claim.            *)
CreateAsClaimed(w, o) ==
  LET entry == [EntryOf(o) EXCEPT !.status = "claimed"] IN
  /\ Valid(o)
  /\ Start(w, [op |-> "create", kind |-> o.kind, id |-> o.id, body |-> o,
               rec |-> [entry |-> entry, object |-> o]], "truncate")

(* createAndRecord...Object: the object is validated before anything is    *)
(* stored, and no ledger is asked whether its id is taken.                 *)
CreateWith(w, o) ==
  \/ /\ Valid(o)
     /\ Start(w, [op |-> "create", kind |-> o.kind, id |-> o.id, body |-> o,
                  rec |-> [entry |-> EntryOf(o), object |-> o]], "truncate")
  \/ /\ ~Valid(o)
     /\ Arrive(w)
     /\ refused' = refused \cup {o}
     /\ UNCHANGED <<files, pc, job, bundles, acked, failures>>

Create(w, d) == CreateWith(w, Completed(d))

(* The attestation the core client makes out of a request: everything but  *)
(* its subject is fixed, the issuer is "prod_core_client_attestor".        *)
ClientAttestor == [prefix |-> "prod", body |-> "spelled", name |-> 0]

ClientAttestation(type, subject) ==
  [kind |-> "attestation", id |-> GeneratedId("attestation", issued + 1),
   subject_type |-> type, subject |-> subject,
   issuer_type |-> "producer", issuer |-> ClientAttestor,
   filled |-> TRUE, status |-> "issued", stamps |-> {}]

(* handleCreateAttestation.  What it does after the record is written, to  *)
(* look it up again and answer 201, is never reached: see AttestFromClient.*)
ClientAttest(w, type, subject) == CreateWith(w, ClientAttestation(type, subject))

(* importRecorded...Bundle: the object is validated, the entry is not, and *)
(* neither is compared with the other or with the body.                    *)
Import(w, b) ==
  /\ Valid(b.record.object)
  /\ Start(w, [op |-> "import", kind |-> b.record.object.kind,
               id |-> b.record.entry.id, body |-> b.body, rec |-> b.record], "truncate")

Export(w, k, id) ==
  Start(w, [op |-> "export", kind |-> k, id |-> id, body |-> None, rec |-> None],
        "fetch")

-----------------------------------------------------------------------------
(* storage.put, as in LocalCore.                                           *)
PutTruncate(w) ==
  /\ pc[w] = "truncate"
  /\ whole' = whole \ {job[w].body}
  /\ partial' = partial \cup {job[w].body}
  /\ Goto(w, "write")
  /\ UNCHANGED <<ledger, bundles, acked, refused, issued, failures>>

(* Mutant of PutWrite: the cid is not compared with that of the entry.     *)
PutTrustsBundle(w) ==
  /\ pc[w] = "write"
  /\ whole' = whole \cup {job[w].body}
  /\ partial' = partial \ {job[w].body}
  /\ Goto(w, IF job[w].op = "create" THEN "append" ELSE "lookup")
  /\ UNCHANGED <<ledger, bundles, acked, refused, issued, failures>>

PutWrite(w) ==
  /\ pc[w] = "write"
  /\ whole' = whole \cup {job[w].body}
  /\ partial' = partial \ {job[w].body}
  /\ \/ /\ job[w].op = "create"
        /\ Goto(w, "append")
     \/ /\ job[w].op = "import"
        /\ job[w].body = job[w].rec.entry.content_cid
        /\ Goto(w, "lookup")
     \/ /\ job[w].op = "import"       \* CONTENT_CID_MISMATCH: 400
        /\ job[w].body # job[w].rec.entry.content_cid
        /\ Return(w)
  /\ UNCHANGED <<ledger, bundles, acked, refused, issued, failures>>

(* Mutant of LookUp: import answers the record instead of its entry.       *)
LookUpAnswersRecord(w) ==
  /\ pc[w] = "lookup"
  /\ LET found == Get(ledger[job[w].kind], job[w].id) IN
     IF found # None
       THEN acked' = [acked EXCEPT ![job[w].kind] = @ \cup {found}] /\ Return(w)
       ELSE UNCHANGED acked /\ Goto(w, "append")
  /\ UNCHANGED <<files, bundles, refused, issued, failures>>

(* Import answers the entry it finds under the id.                         *)
LookUp(w) ==
  /\ pc[w] = "lookup"
  /\ LET found == Get(ledger[job[w].kind], job[w].id) IN
     \/ /\ found # None
        /\ acked' = [acked EXCEPT ![job[w].kind] = @ \cup {found.entry}]
        /\ Return(w)
     \/ /\ found = None
        /\ Goto(w, "append")
        /\ UNCHANGED acked
  /\ UNCHANGED <<files, bundles, refused, issued, failures>>

(* Mutant of AppendRecord: the rejection of appendFile is swallowed.       *)
AppendUnchecked(w) ==
  /\ pc[w] = "append"
  /\ \E f \in {AppendLine(ledger[job[w].kind], job[w].rec)} \cup
             CutAppend(ledger[job[w].kind], job[w].rec) :
       ledger' = [ledger EXCEPT ![job[w].kind] = f]
  /\ acked' = [acked EXCEPT ![job[w].kind] = @ \cup {job[w].rec.entry}]
  /\ Return(w)
  /\ UNCHANGED <<whole, partial, bundles, refused, issued, failures>>

AppendRecord(w) ==
  /\ pc[w] = "append"
  /\ ledger' = [ledger EXCEPT ![job[w].kind] = AppendLine(@, job[w].rec)]
  /\ acked' = [acked EXCEPT ![job[w].kind] = @ \cup {job[w].rec.entry}]
  /\ Return(w)
  /\ UNCHANGED <<whole, partial, bundles, refused, issued, failures>>

(* Export: ledger.get, then storage.get of the entry's cid.                *)
Fetch(w) ==
  /\ pc[w] = "fetch"
  /\ LET found == Get(ledger[job[w].kind], job[w].id) IN
     \/ /\ found = None               \* LEDGER_RECORD_NOT_FOUND: 404
        /\ Return(w)
     \/ /\ found # None
        /\ pc' = [pc EXCEPT ![w] = "read"]
        /\ job' = [job EXCEPT ![w].rec = found]
  /\ UNCHANGED <<files, bundles, acked, refused, issued, failures>>

ReadBody(w) ==
  /\ pc[w] = "read"
  /\ LET r == job[w].rec
         c == r.entry.content_cid
     IN bundles' = bundles \cup
          CASE c \in whole   -> {[record |-> r, body |-> c]}
            [] c \in partial -> {[record |-> r, body |-> Torn]}
            [] OTHER         -> {}     \* readFile rejects: 404
  /\ Return(w)
  /\ UNCHANGED <<files, acked, refused, issued, failures>>

(* Mutant of Fail: the file of the other kind is the one that is cut.      *)
FailInBindings(w) ==
  /\ pc[w] = "append"
  /\ failures["binding"] + failures["attestation"] < MaxFailures
  /\ failures' = [failures EXCEPT ![job[w].kind] = @ + 1]
  /\ \E f \in CutAppend(ledger["binding"], job[w].rec) :
       ledger' = [ledger EXCEPT !["binding"] = f]
  /\ Return(w)
  /\ UNCHANGED <<whole, partial, bundles, acked, refused, issued>>

(* The process dies at an await, or the write it awaits fails half way.    *)
Fail(w) ==
  /\ pc[w] # "idle"
  /\ failures["binding"] + failures["attestation"] < MaxFailures
  /\ failures' = [failures EXCEPT ![job[w].kind] = @ + 1]
  /\ \/ /\ pc[w] = "append"
        /\ \E f \in CutAppend(ledger[job[w].kind], job[w].rec) :
             ledger' = [ledger EXCEPT ![job[w].kind] = f]
     \/ /\ pc[w] # "append"
        /\ UNCHANGED ledger
  /\ Return(w)
  /\ UNCHANGED <<whole, partial, bundles, acked, refused, issued>>

-----------------------------------------------------------------------------
(* The ids a client can name: those it was answered and those it can list. *)
KnownIds(k) ==
  {e.id : e \in acked[k]} \cup
  {Listed(ledger[k])[i].entry.id : i \in DOMAIN Listed(ledger[k])}

Next ==
  \E w \in Worker :
    \/ \E d \in Draft : Create(w, d)
    \/ ClientAttest(w, "memory", GeneratedId("memory", 0))   \* of a drawer
    \/ \E id \in KnownIds("binding") : ClientAttest(w, "binding", id)
    \/ \E b \in bundles \cup ForeignBundle : Import(w, b)
    \/ \E k \in Kind : \E id \in KnownIds(k) : Export(w, k, id)
    \/ PutTruncate(w) \/ PutWrite(w) \/ LookUp(w) \/ AppendRecord(w)
    \/ Fetch(w) \/ ReadBody(w)
    \/ Fail(w)

Spec == Init /\ [][Next]_vars

-----------------------------------------------------------------------------
(* Every variable has its type.                                            *)
TypeOK ==
  /\ whole \subseteq Body /\ partial \subseteq Body
  /\ ledger \in [Kind -> Files(Record)]
  /\ pc \in [Worker -> Await]
  /\ job \in [Worker -> Job]
  /\ bundles \subseteq Bundle
  /\ acked \in [Kind -> SUBSET Entry]
  /\ refused \subseteq Object
  /\ issued \in 0 .. MaxRequests
  /\ failures \in [Kind -> 0 .. MaxFailures]

Lines(k) == {ledger[k].lines[i] : i \in DOMAIN ledger[k].lines} \ {Garbled}

(* Statuses and dates that docs/address-model.md:137-150 and               *)
(* docs/schema.md:248-251 give to an object: a date for what has happened, *)
(* none for what has not.                                                  *)
DatesMatchStatus(o) ==
  /\ "verified_at" \in o.stamps /\ o.kind = "binding" => o.status # "claimed"
  /\ "revoked_at" \in o.stamps <=> o.status = "revoked"
  /\ o.status = "verified" => "verified_at" \in o.stamps

(* Whatever clients create and other nodes send, both ledgers hold only    *)
(* objects whose dates tell the same as their status, each in the file of  *)
(* its kind, and under core ids: no chain address, no id of another prefix.*)
RecordedIsLegal ==
  \A k \in Kind : \A r \in Lines(k) :
    LET o == r.object IN
    /\ o.kind = k
    /\ o.id.prefix = PrefixOf[k] /\ o.id.body = "alnum"
    /\ o.subject.prefix = PrefixOf[o.subject_type]
    /\ DatesMatchStatus(o)

(* Content first, for create and import, whichever requests die or         *)
(* interleave: the content an entry names has been stored.                 *)
ContentBeforeRecord ==
  \A k \in Kind : \A r \in Lines(k) : r.entry.content_cid \in whole \cup partial

(* The client reads id and subject from the entry, the query filters read  *)
(* them from the object, and an export reads the content file: the three   *)
(* agree in every record but those that another node has sent that way.    *)
IndexAgrees ==
  \A k \in Kind : \A r \in Lines(k) :
    r.entry = EntryOf(r.object) \/ r \in {b.record : b \in ForeignBundle}

(* While the ledger of a kind parses, each id that a create or an import   *)
(* was answered is found, and an id this node generated is found with the  *)
(* entry that was answered.  (A create with an id of the client's choosing *)
(* that is already taken is answered with an entry nobody will see again.) *)
AckedFound ==
  \A k \in Kind : Parses(ledger[k]) =>
    \A e \in acked[k] :
      LET found == Get(ledger[k], e.id) IN
      /\ found # None
      /\ e.id.name \notin GivenName => found.entry = e

(* A failing append damages no ledger but its own.                         *)
DamageStaysInKind ==
  \A k \in Kind : failures[k] = 0 => Parses(ledger[k]) /\ ~ledger[k].open

(* The requests and the file of a kind implement the write-once archive.   *)
Answers(k) == [id \in Id |-> Get(ledger[k], id)]
Promised(k) == {e.id : e \in acked[k]}

Bindings == INSTANCE Archive WITH
  Entry <- Record, Unknown <- None, Lossy <- MaxFailures > 0,
  known <- Answers("binding"), promised <- Promised("binding"),
  lost <- ~Parses(ledger["binding"])

Attestations == INSTANCE Archive WITH
  Entry <- Record, Unknown <- None, Lossy <- MaxFailures > 0,
  known <- Answers("attestation"), promised <- Promised("attestation"),
  lost <- ~Parses(ledger["attestation"])

(* First write wins for ever in both, and acknowledged ids are known until *)
(* the file of their kind is lost.                                         *)
ImplementsArchives == Bindings!Spec /\ Attestations!Spec

-----------------------------------------------------------------------------
(* What the documents say and the code does not do.                        *)

(* README.md:186: the client can "issue real local attestations from       *)
(* memory and binding drawers".                                            *)
AttestFromClient == \A o \in refused : o.issuer # ClientAttestor

(* docs/address-model.md:147-149: claimed -> verified, claimed -> revoked  *)
(* and verified -> revoked are valid.  A recorded object that may follow   *)
(* the one its id answers with is what the id answers with from then on.   *)
TransitionTakesEffect ==
  \A k \in Kind : Parses(ledger[k]) =>
    \A r \in Lines(k) :
      LET shown == Get(ledger[k], r.entry.id) IN
      MayFollow(shown.entry.status, r.object) => shown.entry.status = r.entry.status

=============================================================================
