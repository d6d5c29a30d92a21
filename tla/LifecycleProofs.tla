-------------------------- MODULE LifecycleProofs --------------------------
(* Theorems about Lifecycle for every number of workers, drafts, foreign   *)
(* bundles, requests and failures.                                         *)
EXTENDS Lifecycle, JsonlFileProofs

-----------------------------------------------------------------------------
(* ledger.get: the first of the matching lines, if there is one.           *)

(* list answers a sequence of records, whatever is in the file.            *)
LEMMA ListedType ==
  ASSUME NEW f \in Files(Record)
  PROVE  /\ Listed(f) \in Seq(Record)
         /\ Parses(f) => f.lines \in Seq(Record)
<1>1. f.lines \in Seq(Record \cup {Garbled})
  BY DEF Files
<1>2. ASSUME Parses(f)
      PROVE  f.lines \in Seq(Record)
  <2>1. \A k \in 1 .. Len(f.lines) : f.lines[k] \in Record
    BY <1>1, <1>2 DEF Parses
  <2> QED
    BY <1>1, <2>1
<1> QED
  BY <1>2 DEF Listed

(* get answers None if no listed line has the id, else such a line, and    *)
(* then the file parses.                                                   *)
LEMMA GetFacts ==
  ASSUME NEW f \in Files(Record), NEW id
  PROVE  /\ (Get(f, id) = None) = (LinesOf(Listed(f), id) = {})
         /\ Get(f, id) # None =>
              /\ Get(f, id) \in Record
              /\ Parses(f)
              /\ \E i \in DOMAIN f.lines :
                   Get(f, id) = f.lines[i] /\ f.lines[i].entry.id = id
<1> DEFINE s == Listed(f)
           hits == LinesOf(s, id)
<1>1. s \in Seq(Record)
  BY ListedType
<1>2. CASE hits = {}
  BY <1>2 DEF Get
<1>3. CASE hits # {}
  <2>1. hits \in SUBSET Nat
    BY <1>1 DEF LinesOf
  <2>2. \E i \in hits : \A j \in hits : i <= j
    BY <1>3, <2>1, LeastIndex
  <2>3. PICK i \in hits : Get(f, id) = s[i]
    BY <1>3, <2>2 DEF Get
  <2>4. i \in DOMAIN s /\ s[i] \in Record /\ s[i].entry.id = id
    BY <1>1 DEF LinesOf
  <2>5. Parses(f) /\ s = f.lines
    BY <2>4 DEF Listed
  <2> QED
    BY <1>3, <2>3, <2>4, <2>5, SentinelAssumption
<1> QED
  BY <1>2, <1>3

(* A record appended on a line of its own is found unless its id already   *)
(* was, and changes no other answer.                                       *)
LEMMA GetAfterAppend ==
  ASSUME NEW f \in Files(Record), Parses(f), NEW r \in Record, NEW g \in Files(Record),
         g.lines = Append(f.lines, r), NEW id
  PROVE  Get(g, id) = IF Get(f, id) = None /\ r.entry.id = id THEN r ELSE Get(f, id)
<1> DEFINE s == f.lines
           t == g.lines
           n == Len(s) + 1
<1>1. s \in Seq(Record) /\ Len(s) \in Nat
  BY ListedType
<1>2. /\ t \in Seq(Record)
      /\ DOMAIN t = DOMAIN s \cup {n} /\ t[n] = r
      /\ \A i \in DOMAIN s : i < n /\ t[i] = s[i]
  BY <1>1, AppendFacts
<1>3. Parses(g)
  BY <1>2, SentinelAssumption, ListedType DEF Parses
<1>4. Listed(f) = s /\ Listed(g) = t
  BY <1>3 DEF Listed
<1>5. LinesOf(t, id) = LinesOf(s, id) \cup IF r.entry.id = id THEN {n} ELSE {}
  BY <1>2 DEF LinesOf
<1>6. LinesOf(s, id) \subseteq DOMAIN s /\ LinesOf(s, id) \subseteq Nat /\ n \in Nat
  BY <1>1 DEF LinesOf
<1> HIDE DEF s, t, n
<1>7. CASE LinesOf(s, id) = {}
  <2>1. Get(f, id) = None
    BY <1>4, <1>7 DEF Get
  <2>2. CASE r.entry.id = id
    <3>1. LinesOf(t, id) = {n}
      BY <1>5, <1>7, <2>2
    <3>2. (CHOOSE i \in {n} : \A j \in {n} : i <= j) = n
      BY <1>6
    <3>3. LinesOf(t, id) # {}
      BY <3>1
    <3>4. Get(g, id) = t[CHOOSE i \in LinesOf(t, id) : \A j \in LinesOf(t, id) : i <= j]
      BY <1>4, <3>3 DEF Get
    <3>5. Get(g, id) = t[n]
      BY <3>1, <3>2, <3>4
    <3> QED
      BY <1>2, <2>1, <2>2, <3>5
  <2>3. CASE r.entry.id # id
    BY <1>4, <1>5, <1>7, <2>1, <2>3 DEF Get
  <2> QED
    BY <2>2, <2>3
<1>8. CASE LinesOf(s, id) # {}
  <2> DEFINE I == LinesOf(s, id)
             J == LinesOf(t, id)
             first == CHOOSE i \in I : \A j \in I : i <= j
  <2>1. \A i : (i \in J /\ \A j \in J : i <= j) <=> (i \in I /\ \A j \in I : i <= j)
    BY <1>2, <1>5, <1>6, <1>8
  <2>2. (CHOOSE i \in J : \A j \in J : i <= j) = first
    BY <2>1
  <2>3. first \in I
    BY <1>6, <1>8, LeastIndex
  <2>4. Get(f, id) = s[first] /\ Get(g, id) = t[first]
    BY <1>4, <1>5, <1>8, <2>2 DEF Get
  <2>5. s[first] = t[first] /\ s[first] \in Record
    BY <1>1, <1>2, <1>6, <2>3
  <2> HIDE DEF first, I, J
  <2> QED
    BY <2>4, <2>5, SentinelAssumption
<1> QED
  BY <1>7, <1>8

-----------------------------------------------------------------------------
(* Type correctness.                                                       *)

(* The types of ids, and that each has its prefix.                         *)
LEMMA IdFacts ==
  /\ IdType = {"producer", "owner", "binding", "attestation", "anchor", "memory"}
  /\ Kind \subseteq IdType
  /\ \A t \in IdType : PrefixOf[t] \in IdPrefix
<1>1. IdType = {"producer", "owner", "binding", "attestation", "anchor", "memory"}
  BY DEF IdType, PrefixOf
<1> QED
  BY <1>1 DEF Kind, IdPrefix

(* An id generated for this request, and the one name of a memory that the *)
(* client attests, are ids.                                                *)
LEMMA GeneratedType ==
  ASSUME NEW t \in IdType, NEW n \in 0 .. MaxRequests
  PROVE  GeneratedId(t, n) \in Id
  BY IdFacts DEF GeneratedId, Id, Alphabet

(* The object a create is about: one this request has made, whose id the   *)
(* client chose or randomBytes now returns.                                *)
NewObject(o) ==
  /\ o \in Object
  /\ o.id.name \in GivenName \/ o.id.name = issued + 1

LEMMA CompletedType ==
  ASSUME TypeOK, issued < MaxRequests, NEW d \in Draft
  PROVE  NewObject(Completed(d))
<1>1. issued + 1 \in 0 .. MaxRequests
  BY BoundAssumption DEF TypeOK
<1>2. d \in ObjectWith(Id \cup {None}) /\ (d.id # None => d.id.name \in GivenName)
  BY DraftAssumption
<1>3. CASE d.id = None
  <2> DEFINE id == GeneratedId(d.kind, issued + 1)
  <2>1. id \in Id /\ id.name = issued + 1
    BY <1>1, <1>2, IdFacts, GeneratedType DEF ObjectWith, GeneratedId
  <2> HIDE DEF id
  <2>2. [d EXCEPT !.id = id] \in Object /\ [d EXCEPT !.id = id].id = id
    BY <1>2, <2>1 DEF Object, ObjectWith
  <2> QED
    BY <1>3, <2>1, <2>2 DEF Completed, NewObject, id
<1>4. CASE d.id # None
  BY <1>2, <1>4 DEF Completed, NewObject, Object, ObjectWith
<1> QED
  BY <1>3, <1>4

LEMMA ClientAttestationType ==
  ASSUME TypeOK, issued < MaxRequests, NEW type \in IdType, NEW subject \in Id
  PROVE  NewObject(ClientAttestation(type, subject))
<1>1. issued + 1 \in 0 .. MaxRequests /\ 0 \in 0 .. MaxRequests
  BY BoundAssumption DEF TypeOK
<1> DEFINE id == GeneratedId("attestation", issued + 1)
<1>2. id \in Id /\ id.name = issued + 1
  BY <1>1, IdFacts, GeneratedType DEF GeneratedId
<1>3. ClientAttestor \in Id
  <2>1. "prod" \in IdPrefix
    BY IdFacts DEF PrefixOf
  <2> QED
    BY <1>1, <2>1 DEF ClientAttestor, Id, Alphabet
<1>4. "producer" \in IdType /\ "attestation" \in Kind /\ "issued" \in AnyStatus
  BY IdFacts DEF Kind, AnyStatus, Status
<1> HIDE DEF id
<1>5. [kind |-> "attestation", id |-> id, subject_type |-> type, subject |-> subject,
       issuer_type |-> "producer", issuer |-> ClientAttestor,
       filled |-> TRUE, status |-> "issued", stamps |-> {}] \in Object
  BY <1>2, <1>3, <1>4 DEF Object, ObjectWith
<1> QED
  BY <1>2, <1>5 DEF NewObject, ClientAttestation, id

(* The ids a client can name are ids.                                      *)
LEMMA KnownIdsType ==
  ASSUME TypeOK, NEW k \in Kind
  PROVE  KnownIds(k) \subseteq Id
<1>1. \A e \in acked[k] : e.id \in Id
  BY DEF TypeOK, Entry
<1>2. Listed(ledger[k]) \in Seq(Record)
  BY ListedType DEF TypeOK
<1>3. \A i \in DOMAIN Listed(ledger[k]) : Listed(ledger[k])[i] \in Record
  BY <1>2
<1>4. \A r \in Record : r.entry.id \in Id
  BY DEF Record, Entry
<1> QED
  BY <1>1, <1>3, <1>4 DEF KnownIds

(* The steps, with the creates of the three clients in one.                *)
LEMMA NextCases ==
  ASSUME TypeOK, [Next]_vars
  PROVE  \/ UNCHANGED vars
         \/ \E w \in Worker, o \in {x \in Object : NewObject(x)} : CreateWith(w, o)
         \/ \E w \in Worker, b \in bundles \cup ForeignBundle : Import(w, b)
         \/ \E w \in Worker, k \in Kind : \E id \in KnownIds(k) : Export(w, k, id)
         \/ \E w \in Worker :
              \/ PutTruncate(w) \/ PutWrite(w) \/ LookUp(w) \/ AppendRecord(w)
              \/ Fetch(w) \/ ReadBody(w) \/ Fail(w)
<1>1. ASSUME NEW w \in Worker, NEW o, CreateWith(w, o)
      PROVE  issued < MaxRequests
  BY <1>1 DEF CreateWith, Start, Arrive
<1>2. ASSUME NEW w \in Worker, NEW d \in Draft, Create(w, d)
      PROVE  NewObject(Completed(d)) /\ CreateWith(w, Completed(d))
  BY <1>1, <1>2, CompletedType DEF Create
<1>3. ASSUME NEW w \in Worker, NEW type \in {"memory", "binding"}, NEW subject \in Id,
             ClientAttest(w, type, subject)
      PROVE  \E o \in {x \in Object : NewObject(x)} : CreateWith(w, o)
  <2>1. NewObject(ClientAttestation(type, subject))
    BY <1>1, <1>3, IdFacts, ClientAttestationType DEF ClientAttest
  <2> QED
    BY <1>3, <2>1 DEF ClientAttest, NewObject
<1>4. GeneratedId("memory", 0) \in Id /\ KnownIds("binding") \subseteq Id
  BY IdFacts, GeneratedType, KnownIdsType, BoundAssumption DEF Kind
<1> QED
  BY <1>2, <1>3, <1>4 DEF Next, NewObject

-----------------------------------------------------------------------------
(* What a step does to the request of one worker.                          *)
CreateJob(o) ==
  [op |-> "create", kind |-> o.kind, id |-> o.id, body |-> o,
   rec |-> [entry |-> EntryOf(o), object |-> o]]

ImportJob(b) ==
  [op |-> "import", kind |-> b.record.object.kind, id |-> b.record.entry.id,
   body |-> b.body, rec |-> b.record]

ExportJob(k, id) ==
  [op |-> "export", kind |-> k, id |-> id, body |-> None, rec |-> None]

Idles(w) == pc'[w] = "idle" /\ job'[w] = NoJob

Begins(w) ==
  \/ \E o \in Object :
       /\ NewObject(o) /\ Valid(o) /\ issued' = issued + 1
       /\ pc'[w] = "truncate" /\ job'[w] = CreateJob(o)
  \/ \E b \in bundles \cup ForeignBundle :
       /\ Valid(b.record.object)
       /\ pc'[w] = "truncate" /\ job'[w] = ImportJob(b)
  \/ \E k \in Kind, id \in Id : pc'[w] = "fetch" /\ job'[w] = ExportJob(k, id)

GoesOn(w) ==
  /\ job'[w] = job[w]
  /\ \/ pc[w] = "truncate" /\ pc'[w] = "write" /\ job[w].body \in partial'
     \/ pc[w] = "write" /\ job[w].op = "create" /\ pc'[w] = "append"
     \/ /\ pc[w] = "write" /\ pc'[w] = "lookup"
        /\ job[w].body = job[w].rec.entry.content_cid
     \/ /\ pc[w] = "lookup" /\ pc'[w] = "append"

Finds(w) ==
  /\ pc[w] = "fetch" /\ pc'[w] = "read"
  /\ Get(ledger[job[w].kind], job[w].id) # None
  /\ job'[w] = [job[w] EXCEPT !.rec = Get(ledger[job[w].kind], job[w].id)]

(* Every step takes one worker from one await to the next, and no other.   *)
LEMMA JobStep ==
  ASSUME TypeOK, [Next]_vars, NEW v \in Worker
  PROVE  \/ pc'[v] = pc[v] /\ job'[v] = job[v]
         \/ Idles(v) \/ Begins(v) \/ GoesOn(v) \/ Finds(v)
<1> USE DEF TypeOK
<1>1. CASE UNCHANGED vars
  BY <1>1 DEF vars
<1>2. ASSUME NEW w \in Worker, NEW j, NEW await, Start(w, j, await)
      PROVE  /\ issued' = issued + 1
             /\ pc'[w] = await /\ job'[w] = j
             /\ w # v => pc'[v] = pc[v] /\ job'[v] = job[v]
  BY <1>2 DEF Start, Arrive
<1>3. ASSUME NEW w \in Worker, NEW o \in Object, NewObject(o), CreateWith(w, o)
      PROVE  (pc'[v] = pc[v] /\ job'[v] = job[v]) \/ Begins(v)
  <2>1. CASE Valid(o) /\ Start(w, CreateJob(o), "truncate")
    BY <1>2, <1>3, <2>1 DEF Begins
  <2>2. CASE pc' = pc /\ job' = job
    BY <2>2
  <2> QED
    BY <1>3, <2>1, <2>2 DEF CreateWith, CreateJob
<1>4. ASSUME NEW w \in Worker, NEW b \in bundles \cup ForeignBundle, Import(w, b)
      PROVE  (pc'[v] = pc[v] /\ job'[v] = job[v]) \/ Begins(v)
  <2>1. Valid(b.record.object) /\ Start(w, ImportJob(b), "truncate")
    BY <1>4 DEF Import, ImportJob
  <2> QED
    BY <1>2, <2>1 DEF Begins
<1>5. ASSUME NEW w \in Worker, NEW k \in Kind, NEW id \in KnownIds(k), Export(w, k, id)
      PROVE  (pc'[v] = pc[v] /\ job'[v] = job[v]) \/ Begins(v)
  <2>1. Start(w, ExportJob(k, id), "fetch") /\ id \in Id
    BY <1>5, KnownIdsType DEF Export, ExportJob
  <2> QED
    BY <1>2, <2>1 DEF Begins
<1>6. ASSUME NEW w \in Worker, Return(w)
      PROVE  (pc'[v] = pc[v] /\ job'[v] = job[v]) \/ Idles(v)
  BY <1>6 DEF Return, Idles
<1>7. ASSUME NEW w \in Worker, NEW await, Goto(w, await)
      PROVE  job' = job /\ pc'[w] = await /\ (w # v => pc'[v] = pc[v])
  BY <1>7 DEF Goto
<1>8. ASSUME NEW w \in Worker,
             PutTruncate(w) \/ PutWrite(w) \/ LookUp(w) \/ AppendRecord(w)
      PROVE  \/ pc'[v] = pc[v] /\ job'[v] = job[v]
             \/ Idles(v) \/ GoesOn(v)
  BY <1>6, <1>7, <1>8 DEF PutTruncate, PutWrite, LookUp, AppendRecord, GoesOn
<1>9. ASSUME NEW w \in Worker, Fetch(w)
      PROVE  \/ pc'[v] = pc[v] /\ job'[v] = job[v]
             \/ Idles(v) \/ Finds(v)
  BY <1>6, <1>9 DEF Fetch, Finds
<1>10. ASSUME NEW w \in Worker, ReadBody(w) \/ Fail(w)
      PROVE  (pc'[v] = pc[v] /\ job'[v] = job[v]) \/ Idles(v)
  BY <1>6, <1>10 DEF ReadBody, Fail
<1> QED
  BY <1>1, <1>3, <1>4, <1>5, <1>8, <1>9, <1>10, NextCases

(* What is true of the locals of a worker while it stands at an await: all *)
(* that stands between a request and a ledger has been validated.          *)
JobInv(w) ==
  /\ pc[w] # "idle" => job[w].kind \in Kind
  /\ pc[w] \in {"truncate", "write", "lookup", "append"} =>
       /\ job[w].rec \in Record /\ job[w].body \in Body
       /\ job[w].id = job[w].rec.entry.id
       /\ job[w].kind = job[w].rec.object.kind
       /\ Valid(job[w].rec.object)
       /\ job[w].op = "create" => job[w].body = job[w].rec.entry.content_cid
  /\ pc[w] = "read" => job[w].rec \in Record

TypeInv == TypeOK /\ \A w \in Worker : JobInv(w)

LEMMA TypeInvInit == Init => TypeInv
<1> SUFFICES ASSUME Init PROVE TypeInv
  OBVIOUS
<1>1. EmptyFile \in Files(Record)
  BY DEF EmptyFile, Files
<1>2. NoJob \in Job
  BY DEF NoJob, Job
<1>3. 0 \in 0 .. MaxRequests /\ 0 \in 0 .. MaxFailures
  BY BoundAssumption
<1> QED
  BY <1>1, <1>2, <1>3 DEF Init, TypeInv, TypeOK, JobInv, Await

(* The request of a create, an import and an export.                       *)
LEMMA CreateJobType ==
  ASSUME NEW o \in Object
  PROVE  CreateJob(o) \in Job /\ CreateJob(o).rec \in Record /\ o \in Body
<1>1. /\ o.kind \in Kind /\ o.id \in Id /\ o.subject_type \in IdType
      /\ o.subject \in Id /\ o.status \in AnyStatus
  BY DEF Object, ObjectWith
<1>2. o \in Body
  BY DEF Body
<1>3. [entry |-> EntryOf(o), object |-> o] \in Record
  BY <1>1, <1>2 DEF EntryOf, Entry, Record
<1> QED
  BY <1>1, <1>2, <1>3 DEF CreateJob, Job

LEMMA ImportJobType ==
  ASSUME NEW b \in Bundle
  PROVE  /\ ImportJob(b) \in Job
         /\ b.record \in Record /\ b.body \in Body /\ b.record.object.kind \in Kind
<1>1. b.record \in Record /\ b.body \in Body
  BY DEF Bundle
<1>2. b.record.entry.id \in Id /\ b.record.object.kind \in Kind
  BY <1>1 DEF Record, Entry, Object, ObjectWith
<1> QED
  BY <1>1, <1>2 DEF ImportJob, Job

LEMMA JobInvStep ==
  ASSUME TypeInv, [Next]_vars, NEW v \in Worker
  PROVE  pc'[v] \in Await /\ job'[v] \in Job /\ JobInv(v)'
<1>1. pc[v] \in Await /\ job[v] \in Job /\ JobInv(v)
  BY DEF TypeInv, TypeOK
<1>2. CASE pc'[v] = pc[v] /\ job'[v] = job[v]
  BY <1>1, <1>2 DEF JobInv
<1>3. CASE Idles(v)
  BY <1>3 DEF Idles, JobInv, Await, NoJob, Job
<1>4. ASSUME NEW o \in Object, Valid(o), pc'[v] = "truncate", job'[v] = CreateJob(o)
      PROVE  pc'[v] \in Await /\ job'[v] \in Job /\ JobInv(v)'
  <2>1. CreateJob(o) \in Job /\ CreateJob(o).rec \in Record /\ o \in Body
    BY CreateJobType
  <2>2. o.kind \in Kind
    BY DEF Object, ObjectWith
  <2> QED
    BY <1>4, <2>1, <2>2 DEF JobInv, Await, CreateJob, EntryOf
<1>5. ASSUME NEW b \in bundles \cup ForeignBundle, Valid(b.record.object),
             pc'[v] = "truncate", job'[v] = ImportJob(b)
      PROVE  pc'[v] \in Await /\ job'[v] \in Job /\ JobInv(v)'
  <2>1. b \in Bundle
    BY BundleAssumption DEF TypeInv, TypeOK
  <2>2. /\ ImportJob(b) \in Job
        /\ b.record \in Record /\ b.body \in Body /\ b.record.object.kind \in Kind
    BY <2>1, ImportJobType
  <2> QED
    BY <1>5, <2>2 DEF JobInv, Await, ImportJob
<1>6. ASSUME NEW k \in Kind, NEW id \in Id, pc'[v] = "fetch", job'[v] = ExportJob(k, id)
      PROVE  pc'[v] \in Await /\ job'[v] \in Job /\ JobInv(v)'
  BY <1>6 DEF JobInv, Await, ExportJob, Job
<1>7. CASE GoesOn(v)
  BY <1>1, <1>7 DEF GoesOn, JobInv, Await
<1>8. CASE Finds(v)
  <2> DEFINE found == Get(ledger[job[v].kind], job[v].id)
  <2>1. job[v].kind \in Kind
    BY <1>1, <1>8 DEF Finds, JobInv
  <2>2. found \in Record
    BY <1>8, <2>1, GetFacts DEF Finds, TypeInv, TypeOK
  <2> HIDE DEF found
  <2>3. [job[v] EXCEPT !.rec = found] \in Job
    BY <1>1, <2>2 DEF Job
  <2>4. [job[v] EXCEPT !.rec = found].rec = found /\ [job[v] EXCEPT !.rec = found].kind = job[v].kind
    BY <1>1 DEF Job
  <2> QED
    BY <1>8, <2>1, <2>2, <2>3, <2>4 DEF Finds, JobInv, Await, found
<1> QED
  BY <1>2, <1>3, <1>4, <1>5, <1>6, <1>7, <1>8, JobStep DEF TypeInv, Begins

(* A ledger file only changes where a worker appends to the file of its    *)
(* kind, and only a request that fails leaves its append unfinished.       *)
LEMMA LedgerStep ==
  ASSUME TypeInv, [Next]_vars, NEW k \in Kind
  PROVE  \/ ledger'[k] = ledger[k]
         \/ \E w \in Worker :
              /\ pc[w] = "append" /\ job[w].kind = k
              /\ \/ AppendRecord(w) /\ ledger'[k] = AppendLine(ledger[k], job[w].rec)
                 \/ /\ Fail(w) /\ ledger'[k] \in CutAppend(ledger[k], job[w].rec)
<1> USE DEF TypeInv, TypeOK
<1>1. ASSUME NEW w \in Worker, AppendRecord(w)
      PROVE  \/ ledger'[k] = ledger[k]
             \/ /\ pc[w] = "append" /\ job[w].kind = k
                /\ ledger'[k] = AppendLine(ledger[k], job[w].rec)
  BY <1>1 DEF AppendRecord
<1>2. ASSUME NEW w \in Worker, Fail(w)
      PROVE  \/ ledger'[k] = ledger[k]
             \/ /\ pc[w] = "append" /\ job[w].kind = k
                /\ ledger'[k] \in CutAppend(ledger[k], job[w].rec)
  BY <1>2 DEF Fail
<1>3. CASE ~ \E w \in Worker : AppendRecord(w) \/ Fail(w)
  <2>1. ledger' = ledger
    BY <1>3, NextCases DEF CreateWith, Import, Export, Start, PutTruncate, PutWrite, LookUp,
       Fetch, ReadBody, vars, files
  <2> QED
    BY <2>1
<1> QED
  BY <1>1, <1>2, <1>3

(* The files have their type after any step.                               *)
LEMMA LedgerType ==
  ASSUME TypeInv, [Next]_vars
  PROVE  ledger' \in [Kind -> Files(Record)]
<1>1. ASSUME NEW k \in Kind
      PROVE  ledger'[k] \in Files(Record)
  <2>1. ledger[k] \in Files(Record)
    BY DEF TypeInv, TypeOK
  <2>2. \A w \in Worker : pc[w] = "append" => job[w].rec \in Record
    BY DEF TypeInv, JobInv
  <2> QED
    BY <2>1, <2>2, LedgerStep, AppendLineType, CutAppendType
<1>2. \/ ledger' = ledger
      \/ \E k, f : ledger' = [ledger EXCEPT ![k] = f]
  BY NextCases DEF CreateWith, Import, Export, Start, PutTruncate, PutWrite, LookUp,
     AppendRecord, Fetch, ReadBody, Fail, vars, files, TypeInv
<1>3. DOMAIN ledger' = Kind /\ ledger' = [k \in Kind |-> ledger'[k]]
  BY <1>2 DEF TypeInv, TypeOK
<1> QED
  BY <1>1, <1>3

LEMMA TypeInvStep ==
  ASSUME TypeInv, [Next]_vars
  PROVE  TypeInv'
<1> USE DEF TypeInv
<1>1. pc' \in [Worker -> Await] /\ job' \in [Worker -> Job] /\ \A v \in Worker : JobInv(v)'
  <2>1. \/ pc' = pc
        \/ \E w \in Worker : \E place : pc' = [pc EXCEPT ![w] = place]
    BY NextCases DEF CreateWith, Import, Export, Start, PutTruncate, PutWrite, LookUp,
       AppendRecord, Fetch, ReadBody, Fail, Goto, Return, vars
  <2>2. \/ job' = job
        \/ \E w \in Worker : \E j : job' = [job EXCEPT ![w] = j]
    <3>1. ASSUME NEW w \in Worker, Fetch(w)
          PROVE  \E j : job' = [job EXCEPT ![w] = j]
      BY <3>1 DEF Fetch, Return
    <3> QED
      BY <3>1, NextCases DEF CreateWith, Import, Export, Start, PutTruncate, PutWrite,
         LookUp, AppendRecord, ReadBody, Fail, Goto, Return, vars
  <2>3. pc' = [w \in Worker |-> pc'[w]] /\ job' = [w \in Worker |-> job'[w]]
    BY <2>1, <2>2 DEF TypeOK
  <2> QED
    BY <2>3, JobInvStep
<1>2. whole' \subseteq Body /\ partial' \subseteq Body
  <2>1. \/ whole' = whole /\ partial' = partial
        \/ \E w \in Worker : PutTruncate(w) \/ PutWrite(w)
    BY NextCases DEF CreateWith, Import, Export, Start, LookUp, AppendRecord, Fetch,
       ReadBody, Fail, vars, files
  <2>2. ASSUME NEW w \in Worker, PutTruncate(w) \/ PutWrite(w)
        PROVE  job[w].body \in Body
    BY <2>2 DEF PutTruncate, PutWrite, JobInv
  <2> QED
    BY <2>1, <2>2 DEF PutTruncate, PutWrite, TypeOK
<1>3. bundles' \subseteq Bundle
  <2>1. bundles' = bundles \/ \E w \in Worker : ReadBody(w)
    BY NextCases DEF CreateWith, Import, Export, Start, PutTruncate, PutWrite, LookUp,
       AppendRecord, Fetch, Fail, vars
  <2>2. ASSUME NEW w \in Worker, ReadBody(w)
        PROVE  bundles' \subseteq Bundle
    <3> DEFINE r == job[w].rec
               c == r.entry.content_cid
    <3>1. r \in Record /\ c \in Body /\ Torn \in Body
      BY <2>2 DEF ReadBody, JobInv, Record, Entry, Body
    <3>2. bundles' \subseteq bundles \cup {[record |-> r, body |-> c], [record |-> r, body |-> Torn]}
      BY <2>2 DEF ReadBody
    <3> QED
      BY <3>1, <3>2 DEF Bundle, TypeOK
  <2> QED
    BY <2>1, <2>2 DEF TypeOK
<1>4. acked' \in [Kind -> SUBSET Entry]
  <2>1. acked' = acked \/ \E w \in Worker : LookUp(w) \/ AppendRecord(w)
    BY NextCases DEF CreateWith, Import, Export, Start, PutTruncate, PutWrite, Fetch,
       ReadBody, Fail, vars
  <2>2. ASSUME NEW w \in Worker, LookUp(w)
        PROVE  acked' \in [Kind -> SUBSET Entry]
    <3> DEFINE found == Get(ledger[job[w].kind], job[w].id)
    <3>1. job[w].kind \in Kind
      BY <2>2 DEF LookUp, JobInv
    <3>2. found # None => found.entry \in Entry
      BY <3>1, GetFacts DEF TypeOK, Record
    <3> QED
      BY <2>2, <3>1, <3>2 DEF LookUp, TypeOK
  <2>3. ASSUME NEW w \in Worker, AppendRecord(w)
        PROVE  acked' \in [Kind -> SUBSET Entry]
    <3>1. job[w].kind \in Kind /\ job[w].rec.entry \in Entry
      BY <2>3 DEF AppendRecord, JobInv, Record
    <3> QED
      BY <2>3, <3>1 DEF AppendRecord, TypeOK
  <2> QED
    BY <2>1, <2>2, <2>3 DEF TypeOK
<1>5. refused' \subseteq Object /\ issued' \in 0 .. MaxRequests
  BY NextCases, BoundAssumption DEF CreateWith, Import, Export, Start, Arrive, PutTruncate,
     PutWrite, LookUp, AppendRecord, Fetch, ReadBody, Fail, vars, TypeOK
<1>6. failures' \in [Kind -> 0 .. MaxFailures]
  <2>1. failures' = failures \/ \E w \in Worker : Fail(w)
    BY NextCases DEF CreateWith, Import, Export, Start, PutTruncate, PutWrite, LookUp,
       AppendRecord, Fetch, ReadBody, vars
  <2>2. ASSUME NEW w \in Worker, Fail(w)
        PROVE  failures' \in [Kind -> 0 .. MaxFailures]
    <3>1. job[w].kind \in Kind /\ failures["binding"] + failures["attestation"] < MaxFailures
      BY <2>2 DEF Fail, JobInv
    <3>2. failures["binding"] \in Nat /\ failures["attestation"] \in Nat
      BY DEF TypeOK, Kind
    <3>3. failures[job[w].kind] + 1 \in 0 .. MaxFailures
      BY <3>1, <3>2, BoundAssumption DEF Kind
    <3> QED
      BY <2>2, <3>1, <3>3 DEF Fail, TypeOK
  <2> QED
    BY <2>1, <2>2 DEF TypeOK
<1> QED
  BY <1>1, <1>2, <1>3, <1>4, <1>5, <1>6, LedgerType DEF TypeOK

(* Every variable keeps its type in every behaviour of the two archives.   *)
THEOREM LifecycleTypeCorrect == Spec => []TypeOK
<1>1. TypeInv => TypeOK
  BY DEF TypeInv
<1> QED
  BY <1>1, TypeInvInit, TypeInvStep, PTL DEF Spec

-----------------------------------------------------------------------------
(* What the ledgers hold.  Every line comes from a worker that stood at its*)
(* append, so it has what JobInv says of the record there.                 *)

(* A line of a ledger was there before, was spoilt, or is the record of    *)
(* the worker that stood at its append.                                    *)
LEMMA LinesOrigin ==
  ASSUME TypeInv, [Next]_vars, NEW k \in Kind, NEW r \in Lines(k)'
  PROVE  \/ r \in Lines(k)
         \/ \E w \in Worker : pc[w] = "append" /\ job[w].kind = k /\ r = job[w].rec
<1>1. PICK i \in DOMAIN ledger'[k].lines : r = ledger'[k].lines[i] /\ r # Garbled
  BY DEF Lines
<1>2. CASE ledger'[k] = ledger[k]
  BY <1>1, <1>2 DEF Lines
<1>3. ASSUME NEW w \in Worker, pc[w] = "append", job[w].kind = k,
             ledger'[k] \in {AppendLine(ledger[k], job[w].rec)} \cup
                            CutAppend(ledger[k], job[w].rec)
      PROVE  r \in Lines(k) \/ r = job[w].rec
  <2> DEFINE f == ledger[k]
             x == job[w].rec
  <2>1. x \in Record /\ f \in Files(Record)
    BY <1>3 DEF TypeInv, TypeOK, JobInv
  <2>2. f.lines \in Seq(Record \cup {Garbled})
    BY <2>1 DEF Files
  <2>3. \/ ledger'[k] = f
        \/ ledger'[k].lines = GlueToLast(f)
        \/ ledger'[k].lines = Append(f.lines, x)
        \/ ledger'[k].lines = Append(f.lines, Garbled)
    BY <1>3 DEF AppendLine, AppendOpen, CutAppend
  <2>4. \A j \in DOMAIN GlueToLast(f) :
          GlueToLast(f)[j] = Garbled \/ (j \in DOMAIN f.lines /\ GlueToLast(f)[j] = f.lines[j])
    BY <2>1, <2>2, GlueFacts
  <2>5. \A y \in Record \cup {Garbled} : \A j \in DOMAIN Append(f.lines, y) :
          \/ Append(f.lines, y)[j] = y
          \/ j \in DOMAIN f.lines /\ Append(f.lines, y)[j] = f.lines[j]
    BY <2>2, AppendFacts
  <2>6. r = x \/ (i \in DOMAIN f.lines /\ r = f.lines[i])
    BY <1>1, <2>1, <2>3, <2>4, <2>5
  <2> QED
    BY <1>1, <2>6 DEF Lines
<1> QED
  BY <1>2, <1>3, LedgerStep

LEMMA LinesType ==
  ASSUME TypeOK, NEW k \in Kind
  PROVE  Lines(k) \subseteq Record
<1>1. ledger[k].lines \in Seq(Record \cup {Garbled})
  BY DEF TypeOK, Files
<1> QED
  BY <1>1 DEF Lines

LEMMA NoLinesAtFirst ==
  ASSUME Init, NEW k \in Kind
  PROVE  Lines(k) = {}
  BY DEF Init, EmptyFile, Lines

(* Statuses and dates.  The strengthening: every line is a valid object of *)
(* the kind of its file, as the record of every worker on its way there.   *)
LegalInv ==
  TypeInv /\ \A k \in Kind : \A r \in Lines(k) : r.object.kind = k /\ Valid(r.object)

LEMMA LegalInvStep ==
  ASSUME LegalInv, [Next]_vars
  PROVE  LegalInv'
<1>1. TypeInv /\ TypeInv'
  BY TypeInvStep DEF LegalInv
<1>2. ASSUME NEW k \in Kind, NEW r \in Lines(k)'
      PROVE  r.object.kind = k /\ Valid(r.object)
  <2>1. CASE r \in Lines(k)
    BY <2>1 DEF LegalInv
  <2>2. ASSUME NEW w \in Worker, pc[w] = "append", job[w].kind = k, r = job[w].rec
        PROVE  r.object.kind = k /\ Valid(r.object)
    BY <1>1, <2>2 DEF TypeInv, JobInv
  <2> QED
    BY <1>1, <2>1, <2>2, LinesOrigin
<1> QED
  BY <1>1, <1>2 DEF LegalInv

(* What assertValid...Object accepts is what the documents say of it.      *)
LEMMA ValidIsLegal ==
  ASSUME NEW o \in Object, Valid(o)
  PROVE  /\ o.id.prefix = PrefixOf[o.kind] /\ o.id.body = "alnum"
         /\ o.subject.prefix = PrefixOf[o.subject_type]
         /\ DatesMatchStatus(o)
<1>1. o.kind \in {"binding", "attestation"} /\ o.stamps \subseteq {"verified_at", "revoked_at"}
  BY DEF Object, ObjectWith, Kind, Stamp
<1>2. o.status \in {"claimed", "verified", "issued", "revoked"}
  BY DEF Object, ObjectWith, AnyStatus, Status
<1>3. LifecycleHolds(o) /\ IsId(o.kind, o.id) /\ IsId(o.subject_type, o.subject)
  BY DEF Valid
<1>4. DatesMatchStatus(o)
  <2>1. CASE o.status = "claimed"
    BY <1>3, <2>1 DEF LifecycleHolds, DatesMatchStatus
  <2>2. CASE o.status = "verified"
    BY <1>3, <2>2 DEF LifecycleHolds, DatesMatchStatus
  <2>3. CASE o.status = "issued"
    BY <1>3, <2>3 DEF LifecycleHolds, DatesMatchStatus
  <2>4. CASE o.status = "revoked"
    BY <1>3, <2>4 DEF LifecycleHolds, DatesMatchStatus
  <2> QED
    BY <1>2, <2>1, <2>2, <2>3, <2>4
<1> QED
  BY <1>1, <1>3, <1>4 DEF IsId

(* Whatever clients create and other nodes send, the ledgers hold only     *)
(* objects whose dates and ids are as the documents say.                   *)
THEOREM LifecycleRecordedIsLegal == Spec => []RecordedIsLegal
<1>1. Init => LegalInv
  BY TypeInvInit, NoLinesAtFirst DEF LegalInv
<1>2. LegalInv => RecordedIsLegal
  <2> SUFFICES ASSUME LegalInv, NEW k \in Kind, NEW r \in Lines(k)
               PROVE  /\ r.object.kind = k
                      /\ r.object.id.prefix = PrefixOf[k] /\ r.object.id.body = "alnum"
                      /\ r.object.subject.prefix = PrefixOf[r.object.subject_type]
                      /\ DatesMatchStatus(r.object)
    BY DEF RecordedIsLegal
  <2>1. r.object \in Object
    BY LinesType DEF LegalInv, TypeInv, Record
  <2> QED
    BY <2>1, ValidIsLegal DEF LegalInv
<1> QED
  BY <1>1, <1>2, LegalInvStep, PTL DEF Spec

-----------------------------------------------------------------------------
(* Content before record.  The strengthening: a worker that has opened the *)
(* content file has created it, and one that looks up or appends holds a   *)
(* record of that content.                                                 *)
Stored == whole \cup partial

StoreInv ==
  /\ TypeInv
  /\ ContentBeforeRecord
  /\ \A w \in Worker :
       /\ pc[w] = "write" => job[w].body \in Stored
       /\ pc[w] \in {"lookup", "append"} => job[w].rec.entry.content_cid \in Stored

(* A content file once stored is never absent again.                       *)
LEMMA StoredStays ==
  ASSUME [Next]_vars, TypeOK
  PROVE  Stored \subseteq Stored'
  BY NextCases DEF CreateWith, Import, Export, Start, PutTruncate, PutWrite, LookUp,
     AppendRecord, Fetch, ReadBody, Fail, vars, files, Stored

LEMMA StoreInvStep ==
  ASSUME StoreInv, [Next]_vars
  PROVE  StoreInv'
<1>1. TypeInv /\ TypeInv' /\ TypeOK
  BY TypeInvStep DEF StoreInv, TypeInv
<1>2. Stored \subseteq Stored'
  BY <1>1, StoredStays
<1>3. ContentBeforeRecord'
  <2> SUFFICES ASSUME NEW k \in Kind, NEW r \in Lines(k)'
               PROVE  r.entry.content_cid \in Stored'
    BY DEF ContentBeforeRecord, Stored
  <2>1. r \in Lines(k) => r.entry.content_cid \in Stored
    BY DEF StoreInv, ContentBeforeRecord, Stored
  <2> QED
    BY <1>1, <1>2, <2>1, LinesOrigin DEF StoreInv
<1>4. ASSUME NEW w \in Worker
      PROVE  /\ pc'[w] = "write" => job'[w].body \in Stored'
             /\ pc'[w] \in {"lookup", "append"} =>
                  job'[w].rec.entry.content_cid \in Stored'
  <2>1. CASE pc'[w] = pc[w] /\ job'[w] = job[w]
    BY <1>2, <2>1 DEF StoreInv
  <2>2. CASE Idles(w) \/ Begins(w) \/ Finds(w)
    BY <2>2 DEF Idles, Begins, Finds
  <2>3. CASE GoesOn(w)
    BY <1>1, <1>2, <2>3 DEF GoesOn, StoreInv, TypeInv, JobInv, Stored
  <2> QED
    BY <1>1, <2>1, <2>2, <2>3, JobStep
<1> QED
  BY <1>1, <1>3, <1>4 DEF StoreInv

(* For create and import, whichever requests die or interleave: the        *)
(* content an entry names has been stored.                                 *)
THEOREM LifecycleContentBeforeRecord == Spec => []ContentBeforeRecord
<1>1. Init => StoreInv
  BY TypeInvInit, NoLinesAtFirst DEF Init, StoreInv, ContentBeforeRecord
<1>2. StoreInv => ContentBeforeRecord
  BY DEF StoreInv
<1> QED
  BY <1>1, <1>2, StoreInvStep, PTL DEF Spec

-----------------------------------------------------------------------------
(* A failing append damages no ledger but its own: only AppendRecord and   *)
(* Fail touch a file, and Fail counts for the file it touches.             *)
DamageInv == TypeInv /\ DamageStaysInKind

LEMMA DamageInvStep ==
  ASSUME DamageInv, [Next]_vars
  PROVE  DamageInv'
<1>1. TypeInv /\ TypeInv'
  BY TypeInvStep DEF DamageInv
<1>2. ASSUME NEW k \in Kind, failures'[k] = 0
      PROVE  Parses(ledger'[k]) /\ ~ledger'[k].open
  <2>1. failures[k] = 0 /\ \A w \in Worker : Fail(w) => job[w].kind # k
    <3>1. failures \in [Kind -> Nat]
      BY <1>1, BoundAssumption DEF TypeInv, TypeOK
    <3>2. failures' = failures \/ \E w \in Worker : Fail(w)
      BY <1>1, NextCases DEF CreateWith, Import, Export, Start, PutTruncate, PutWrite, LookUp,
         AppendRecord, Fetch, ReadBody, vars, TypeInv
    <3>3. ASSUME NEW w \in Worker, Fail(w)
          PROVE  failures'[k] = failures[k] + IF job[w].kind = k THEN 1 ELSE 0
      BY <3>1, <3>3 DEF Fail
    <3>4. failures[k] \in Nat
      BY <3>1
    <3> QED
      BY <1>2, <3>2, <3>3, <3>4
  <2>2. Parses(ledger[k]) /\ ~ledger[k].open
    BY <2>1 DEF DamageInv, DamageStaysInKind
  <2>3. CASE ledger'[k] = ledger[k]
    BY <2>2, <2>3
  <2>4. ASSUME NEW w \in Worker, pc[w] = "append", ledger'[k] = AppendLine(ledger[k], job[w].rec)
        PROVE  Parses(ledger'[k]) /\ ~ledger'[k].open
    <3>1. ledger[k].lines \in Seq(Record \cup {Garbled}) /\ job[w].rec \in Record
      BY <1>1, <2>4 DEF TypeInv, TypeOK, JobInv, Files
    <3>2. /\ ledger'[k].lines = Append(ledger[k].lines, job[w].rec)
          /\ ~ledger'[k].open
      BY <2>2, <2>4 DEF AppendLine
    <3> QED
      BY <2>2, <3>1, <3>2, AppendFacts, SentinelAssumption DEF Parses
  <2> QED
    BY <1>1, <2>1, <2>3, <2>4, LedgerStep
<1> QED
  BY <1>1, <1>2 DEF DamageInv, DamageStaysInKind

(* An append that fails on the bindings leaves the attestations whole, and *)
(* the other way round.                                                    *)
THEOREM LifecycleDamageStaysInKind == Spec => []DamageStaysInKind
<1>1. Init => DamageInv
  BY TypeInvInit DEF Init, DamageInv, DamageStaysInKind, EmptyFile, Parses
<1>2. DamageInv => DamageStaysInKind
  BY DEF DamageInv
<1> QED
  BY <1>1, <1>2, DamageInvStep, PTL DEF Spec

-----------------------------------------------------------------------------
(* Where records come from.  InPlay: in a ledger, in the locals of a       *)
(* worker, or in a bundle.  A step carries records from one place to       *)
(* another and makes at most one, that of a create.                        *)
InPlay(r) ==
  \/ \E k \in Kind : r \in Lines(k)
  \/ \E w \in Worker : r = job[w].rec
  \/ \E b \in bundles \cup ForeignBundle : r = b.record

RecordFor(o) == [entry |-> EntryOf(o), object |-> o]

(* One worker moves at a time.                                             *)
LEMMA OneMoves ==
  ASSUME TypeOK, [Next]_vars
  PROVE  \/ job' = job
         \/ \E w \in Worker : \A v \in Worker \ {w} : job'[v] = job[v]
<1> USE DEF TypeOK
<1>1. ASSUME NEW w \in Worker, Fetch(w)
      PROVE  \A v \in Worker \ {w} : job'[v] = job[v]
  BY <1>1 DEF Fetch, Return
<1>2. ASSUME NEW w \in Worker, NEW j, NEW await, Start(w, j, await)
      PROVE  \A v \in Worker \ {w} : job'[v] = job[v]
  BY <1>2 DEF Start
<1>3. ASSUME NEW w \in Worker,
             \/ \E o : CreateWith(w, o)
             \/ \E b : Import(w, b)
             \/ \E k, id : Export(w, k, id)
      PROVE  job' = job \/ \A v \in Worker \ {w} : job'[v] = job[v]
  BY <1>2, <1>3 DEF CreateWith, Import, Export
<1>4. ASSUME NEW w \in Worker,
             \/ PutTruncate(w) \/ PutWrite(w) \/ LookUp(w) \/ AppendRecord(w)
             \/ ReadBody(w) \/ Fail(w)
      PROVE  job' = job \/ \A v \in Worker \ {w} : job'[v] = job[v]
  BY <1>4 DEF PutTruncate, PutWrite, LookUp, AppendRecord, ReadBody, Fail, Goto, Return
<1> QED
  BY <1>1, <1>3, <1>4, NextCases DEF vars

(* What get answers is a line, so a record in play.                        *)
LEMMA GetInLines ==
  ASSUME TypeOK, NEW k \in Kind, NEW id, Get(ledger[k], id) # None
  PROVE  Get(ledger[k], id) \in Lines(k) /\ Get(ledger[k], id).entry.id = id
<1>1. ledger[k] \in Files(Record)
  BY DEF TypeOK
<1>2. PICK i \in DOMAIN ledger[k].lines :
        Get(ledger[k], id) = ledger[k].lines[i] /\ ledger[k].lines[i].entry.id = id
  BY <1>1, GetFacts
<1>3. Get(ledger[k], id) \in Record
  BY <1>1, GetFacts
<1> QED
  BY <1>2, <1>3, SentinelAssumption DEF Lines

(* The record a worker holds after a step it held before, or found in the  *)
(* ledger or in a bundle, or it is none, or that of the object it creates. *)
LEMMA JobRecordOrigin ==
  ASSUME TypeInv, [Next]_vars, NEW w \in Worker
  PROVE  \/ job'[w].rec = None \/ InPlay(job'[w].rec)
         \/ \E o \in Object : /\ NewObject(o) /\ issued' = issued + 1
                              /\ job'[w].rec = RecordFor(o) /\ job'[w] # job[w]
<1>1. TypeOK /\ job[w] \in Job /\ JobInv(w) /\ InPlay(job[w].rec)
  <2>1. TypeOK /\ JobInv(w)
    BY DEF TypeInv
  <2> QED
    BY <2>1 DEF TypeOK, InPlay
<1>2. CASE job'[w] = job[w]
  BY <1>1, <1>2
<1>3. CASE Idles(w)
  BY <1>3 DEF Idles, NoJob
<1>4. CASE Begins(w) /\ job'[w] # job[w]
  <2>1. ASSUME NEW o \in Object, NewObject(o), issued' = issued + 1, job'[w] = CreateJob(o)
        PROVE  job'[w].rec = RecordFor(o)
    BY <2>1 DEF CreateJob, RecordFor
  <2>2. ASSUME NEW b \in bundles \cup ForeignBundle, job'[w] = ImportJob(b)
        PROVE  InPlay(job'[w].rec)
    BY <2>2 DEF ImportJob, InPlay
  <2>3. ASSUME NEW k, NEW id, job'[w] = ExportJob(k, id)
        PROVE  job'[w].rec = None
    BY <2>3 DEF ExportJob
  <2> QED
    BY <1>4, <2>1, <2>2, <2>3 DEF Begins
<1>5. CASE Finds(w)
  <2> DEFINE found == Get(ledger[job[w].kind], job[w].id)
  <2>1. job[w].kind \in Kind
    BY <1>1, <1>5 DEF Finds, JobInv
  <2>2. InPlay(found)
    BY <1>1, <1>5, <2>1, GetInLines DEF Finds, InPlay
  <2>3. [job[w] EXCEPT !.rec = found].rec = found
    BY <1>1 DEF Job
  <2> QED
    BY <1>5, <2>2, <2>3 DEF Finds
<1> QED
  BY <1>1, <1>2, <1>3, <1>4, <1>5, JobStep DEF GoesOn

LEMMA BundlesOrigin ==
  ASSUME TypeOK, [Next]_vars, NEW b \in bundles'
  PROVE  b \in bundles \/ \E w \in Worker : b.record = job[w].rec
<1>1. CASE bundles' = bundles
  BY <1>1
<1>2. ASSUME NEW w \in Worker, ReadBody(w)
      PROVE  b \in bundles \/ b.record = job[w].rec
  <2> DEFINE r == job[w].rec
             c == r.entry.content_cid
  <2>1. bundles' \subseteq bundles \cup {[record |-> r, body |-> c], [record |-> r, body |-> Torn]}
    BY <1>2 DEF ReadBody
  <2> QED
    BY <2>1
<1>3. CASE ~ \E w \in Worker : ReadBody(w)
  <2>1. bundles' = bundles
    BY <1>3, NextCases DEF CreateWith, Import, Export, Start, PutTruncate, PutWrite, LookUp,
       AppendRecord, Fetch, Fail, vars
  <2> QED
    BY <2>1
<1> QED
  BY <1>2, <1>3

LEMMA InPlayStep ==
  ASSUME TypeInv, [Next]_vars
  PROVE  \/ \A r \in Record : InPlay(r)' => InPlay(r)
         \/ \E o \in Object : /\ NewObject(o) /\ issued' = issued + 1
                              /\ \A r \in Record : InPlay(r)' => InPlay(r) \/ r = RecordFor(o)
<1>1. TypeOK
  BY DEF TypeInv
<1>2. ASSUME NEW k \in Kind, NEW r \in Lines(k)'
      PROVE  InPlay(r)
  BY <1>2, LinesOrigin DEF InPlay
<1>3. ASSUME NEW b \in bundles' \cup ForeignBundle
      PROVE  InPlay(b.record)
  BY <1>1, BundlesOrigin DEF InPlay
<1>4. ASSUME NEW r \in Record, InPlay(r)'
      PROVE  InPlay(r) \/ \E w \in Worker : r = job'[w].rec
  BY <1>2, <1>3, <1>4 DEF InPlay
<1>5. CASE \A w \in Worker : job'[w].rec = None \/ InPlay(job'[w].rec)
  BY <1>4, <1>5, SentinelAssumption
<1>6. ASSUME NEW w \in Worker, job'[w].rec # None, ~InPlay(job'[w].rec)
      PROVE  \E o \in Object :
               /\ NewObject(o) /\ issued' = issued + 1
               /\ \A r \in Record : InPlay(r)' => InPlay(r) \/ r = RecordFor(o)
  <2>1. PICK o \in Object : /\ NewObject(o) /\ issued' = issued + 1
                            /\ job'[w].rec = RecordFor(o) /\ job'[w] # job[w]
    BY <1>6, JobRecordOrigin
  <2>2. ASSUME NEW v \in Worker \ {w}
        PROVE  InPlay(job'[v].rec)
    <3>1. job'[v] = job[v]
      BY <1>1, <2>1, OneMoves
    <3> QED
      BY <3>1 DEF InPlay
  <2>3. \A r \in Record : InPlay(r)' => InPlay(r) \/ r = RecordFor(o)
    BY <1>4, <2>1, <2>2
  <2> QED
    BY <2>1, <2>3
<1> QED
  BY <1>5, <1>6

-----------------------------------------------------------------------------
(* The entry agrees with the object in every record in play but those that *)
(* another node has sent otherwise.                                        *)
Agrees(r) == r.entry = EntryOf(r.object) \/ r \in {b.record : b \in ForeignBundle}

(* An id this node has generated names one record, wherever that is.       *)
Generated(id) == id.name \notin GivenName

PlayInv ==
  /\ TypeInv
  /\ \A r \in Record : InPlay(r) => Agrees(r)
  /\ \A r \in Record : InPlay(r) /\ Generated(r.entry.id) => r.entry.id.name <= issued
  /\ \A r, s \in Record :
       InPlay(r) /\ InPlay(s) /\ Generated(r.entry.id) /\ r.entry.id = s.entry.id => r = s

LEMMA PlayInvInit == Init => PlayInv
<1> SUFFICES ASSUME Init PROVE PlayInv
  OBVIOUS
<1>1. ASSUME NEW r \in Record, InPlay(r)
      PROVE  \E b \in ForeignBundle : r = b.record
  <2>1. \A w \in Worker : job[w].rec = None
    BY DEF Init, NoJob
  <2> QED
    BY <1>1, <2>1, NoLinesAtFirst, SentinelAssumption DEF Init, InPlay
<1>2. \A b \in ForeignBundle : ~Generated(b.record.entry.id)
  BY BundleAssumption DEF Generated
<1> QED
  BY <1>1, <1>2, TypeInvInit DEF PlayInv, Agrees

LEMMA PlayInvStep ==
  ASSUME PlayInv, [Next]_vars
  PROVE  PlayInv'
<1>1. TypeInv /\ TypeInv' /\ issued \in Nat /\ issued' \in Nat
  BY TypeInvStep, BoundAssumption DEF PlayInv, TypeInv, TypeOK
<1>2. issued <= issued'
  BY <1>1, NextCases DEF CreateWith, Import, Export, Start, Arrive, PutTruncate, PutWrite,
     LookUp, AppendRecord, Fetch, ReadBody, Fail, vars, TypeInv
<1>3. \A r \in Record : Generated(r.entry.id) => r.entry.id.name \in Nat
  BY BoundAssumption DEF Record, Entry, Id, Generated
<1>4. CASE \A r \in Record : InPlay(r)' => InPlay(r)
  <2>1. \A r \in Record : InPlay(r)' /\ Generated(r.entry.id) => r.entry.id.name <= issued'
    BY <1>1, <1>2, <1>3, <1>4 DEF PlayInv
  <2> QED
    BY <1>1, <1>4, <2>1 DEF PlayInv, Agrees, Generated
<1>5. ASSUME NEW o \in Object, NewObject(o), issued' = issued + 1,
             \A r \in Record : InPlay(r)' => InPlay(r) \/ r = RecordFor(o)
      PROVE  PlayInv'
  <2> DEFINE x == RecordFor(o)
  <2>1. /\ x.entry = EntryOf(x.object) /\ x.entry.id = o.id
        /\ Generated(x.entry.id) => x.entry.id.name = issued + 1
    BY <1>5 DEF NewObject, RecordFor, EntryOf, Generated
  <2>2. \A r \in Record : InPlay(r)' => InPlay(r) \/ r = x
    BY <1>5
  <2> HIDE DEF x
  <2>3. \A r \in Record : InPlay(r)' => Agrees(r)
    BY <2>1, <2>2 DEF PlayInv, Agrees
  <2>4. \A r \in Record : InPlay(r)' /\ Generated(r.entry.id) => r.entry.id.name <= issued'
    BY <1>1, <1>2, <1>3, <1>5, <2>1, <2>2 DEF PlayInv
  <2>5. \A r \in Record : InPlay(r) /\ Generated(r.entry.id) => r.entry.id # x.entry.id
    BY <1>1, <1>3, <2>1 DEF PlayInv
  <2>6. ASSUME NEW r \in Record, NEW s \in Record, InPlay(r)', InPlay(s)',
               Generated(r.entry.id), r.entry.id = s.entry.id
        PROVE  r = s
    BY <2>2, <2>5, <2>6 DEF PlayInv
  <2> QED
    BY <1>1, <2>3, <2>4, <2>6 DEF PlayInv, Agrees, Generated
<1> QED
  BY <1>1, <1>4, <1>5, InPlayStep

(* In every line the entry the client reads is that of the object the      *)
(* filters read, unless another node has sent it that way.                 *)
THEOREM LifecycleIndexAgrees == Spec => []IndexAgrees
<1>1. PlayInv => IndexAgrees
  <2> SUFFICES ASSUME PlayInv, NEW k \in Kind, NEW r \in Lines(k)
               PROVE  Agrees(r)
    BY DEF IndexAgrees, Agrees
  <2>1. r \in Record /\ InPlay(r)
    BY LinesType DEF PlayInv, TypeInv, InPlay
  <2> QED
    BY <2>1 DEF PlayInv
<1> QED
  BY <1>1, PlayInvInit, PlayInvStep, PTL DEF Spec

-----------------------------------------------------------------------------
(* What was acknowledged is found.                                         *)

(* As long as a ledger parses afterwards, a step takes no answer back.     *)
LEMMA AnswersStay ==
  ASSUME TypeInv, [Next]_vars, NEW k \in Kind, Parses(ledger'[k])
  PROVE  /\ Parses(ledger[k])
         /\ \A id : Get(ledger[k], id) # None => Get(ledger'[k], id) = Get(ledger[k], id)
<1>1. CASE ledger'[k] = ledger[k]
  BY <1>1
<1>2. ASSUME NEW w \in Worker, pc[w] = "append",
             ledger'[k] \in {AppendLine(ledger[k], job[w].rec)} \cup
                            CutAppend(ledger[k], job[w].rec)
      PROVE  /\ Parses(ledger[k])
             /\ \A id : Get(ledger[k], id) # None => Get(ledger'[k], id) = Get(ledger[k], id)
  <2> DEFINE f == ledger[k]
             g == ledger'[k]
             x == job[w].rec
  <2>1. x \in Record /\ f \in Files(Record)
    BY <1>2 DEF TypeInv, TypeOK, JobInv
  <2>2. g \in Files(Record)
    BY <1>2, <2>1, AppendLineType, CutAppendType
  <2>3. Parses(f) /\ (g.lines = f.lines \/ g.lines = Append(f.lines, x))
    BY <1>2, <2>1, ParsedAppend
  <2>4. CASE g.lines = f.lines
    BY <2>3, <2>4 DEF Get, Listed
  <2>5. CASE g.lines = Append(f.lines, x)
    <3> HIDE DEF f, g, x
    <3>1. \A id : Get(g, id) = IF Get(f, id) = None /\ x.entry.id = id THEN x ELSE Get(f, id)
      BY <2>1, <2>2, <2>3, <2>5, GetAfterAppend
    <3> QED
      BY <2>3, <3>1 DEF f, g
  <2> QED
    BY <2>3, <2>4, <2>5
<1> QED
  BY <1>1, <1>2, LedgerStep

(* Only a create or an import that has been served acknowledges.           *)
LEMMA AckedStep ==
  ASSUME TypeInv, [Next]_vars, NEW k \in Kind
  PROVE  \/ acked'[k] = acked[k]
         \/ \E w \in Worker :
              /\ job[w].kind = k
              /\ \/ /\ LookUp(w) /\ Get(ledger[k], job[w].id) # None
                    /\ acked'[k] = acked[k] \cup {Get(ledger[k], job[w].id).entry}
                    /\ ledger' = ledger
                 \/ /\ AppendRecord(w)
                    /\ acked'[k] = acked[k] \cup {job[w].rec.entry}
<1> USE DEF TypeInv, TypeOK
<1>1. ASSUME NEW w \in Worker, LookUp(w)
      PROVE  \/ acked'[k] = acked[k]
             \/ /\ job[w].kind = k /\ Get(ledger[k], job[w].id) # None
                /\ acked'[k] = acked[k] \cup {Get(ledger[k], job[w].id).entry}
                /\ ledger' = ledger
  BY <1>1 DEF LookUp, files
<1>2. ASSUME NEW w \in Worker, AppendRecord(w)
      PROVE  \/ acked'[k] = acked[k]
             \/ job[w].kind = k /\ acked'[k] = acked[k] \cup {job[w].rec.entry}
  BY <1>2 DEF AppendRecord
<1>3. CASE ~ \E w \in Worker : LookUp(w) \/ AppendRecord(w)
  <2>1. acked' = acked
    BY <1>3, NextCases DEF CreateWith, Import, Export, Start, PutTruncate, PutWrite,
       Fetch, ReadBody, Fail, vars
  <2> QED
    BY <2>1
<1> QED
  BY <1>1, <1>2, <1>3

(* What a worker appends is found if the file still parses: it, or a record*)
(* that was there before under the same id.                                *)
LEMMA AppendedFound ==
  ASSUME TypeInv, NEW w \in Worker, NEW k \in Kind, AppendRecord(w), job[w].kind = k,
         Parses(ledger'[k])
  PROVE  LET r == job[w].rec
             found == Get(ledger'[k], r.entry.id)
         IN  /\ r \in Record /\ found # None
             /\ found = r \/ (found = Get(ledger[k], r.entry.id) /\ found # None)
<1> DEFINE r == job[w].rec
           f == ledger[k]
           g == ledger'[k]
<1>1. r \in Record /\ f \in Files(Record) /\ g = AppendLine(f, r)
  BY DEF AppendRecord, TypeInv, TypeOK, JobInv
<1> HIDE DEF r, f, g
<1>2. Parses(g)
  BY DEF g
<1>3. Parses(f) /\ g.lines = Append(f.lines, r) /\ g \in Files(Record)
  BY <1>1, <1>2, ParsedAppend, ParsedAppendLine, AppendLineType
<1>4. Get(g, r.entry.id) = IF Get(f, r.entry.id) = None THEN r ELSE Get(f, r.entry.id)
  BY <1>1, <1>3, GetAfterAppend
<1> QED
  BY <1>1, <1>4, SentinelAssumption DEF r, f, g

AckedInv == PlayInv /\ AckedFound

LEMMA AckedInvStep ==
  ASSUME AckedInv, [Next]_vars
  PROVE  AckedInv'
<1>1. PlayInv /\ PlayInv' /\ TypeInv /\ TypeOK
  BY PlayInvStep DEF AckedInv, PlayInv, TypeInv
<1>2. ASSUME NEW k \in Kind, Parses(ledger'[k]), NEW e \in acked'[k]
      PROVE  LET found == Get(ledger'[k], e.id) IN
             found # None /\ (e.id.name \notin GivenName => found.entry = e)
  <2>1. /\ Parses(ledger[k])
        /\ \A id : Get(ledger[k], id) # None => Get(ledger'[k], id) = Get(ledger[k], id)
    BY <1>1, <1>2, AnswersStay
  <2>2. CASE e \in acked[k]
    BY <2>1, <2>2 DEF AckedInv, AckedFound
  <2>3. ASSUME NEW w \in Worker, Get(ledger[k], job[w].id) # None,
               e = Get(ledger[k], job[w].id).entry, ledger' = ledger
        PROVE  LET found == Get(ledger'[k], e.id) IN
               found # None /\ (e.id.name \notin GivenName => found.entry = e)
    <3>1. e.id = job[w].id
      BY <1>1, <2>3, GetInLines
    <3> QED
      BY <2>3, <3>1
  <2>4. ASSUME NEW w \in Worker, AppendRecord(w), job[w].kind = k, e = job[w].rec.entry
        PROVE  LET found == Get(ledger'[k], e.id) IN
               found # None /\ (e.id.name \notin GivenName => found.entry = e)
    <3> DEFINE r == job[w].rec
               found == Get(ledger'[k], e.id)
               before == Get(ledger[k], e.id)
    <3>1. r \in Record /\ InPlay(r) /\ found # None /\ (found = r \/ found = before)
      BY <1>1, <1>2, <2>4, AppendedFound DEF InPlay
    <3>2. ASSUME found = before
          PROVE  found \in Record /\ InPlay(found) /\ found.entry.id = e.id
      BY <1>1, <3>1, <3>2, GetInLines, LinesType DEF InPlay
    <3> HIDE DEF r, found, before
    <3>3. ASSUME e.id.name \notin GivenName, found = before
          PROVE  found = r
      BY <1>1, <2>4, <3>1, <3>2, <3>3 DEF PlayInv, Generated, r
    <3> QED
      BY <2>4, <3>1, <3>3 DEF r, found
  <2> QED
    BY <1>1, <2>2, <2>3, <2>4, AckedStep
<1> QED
  BY <1>1, <1>2 DEF AckedInv, AckedFound

LEMMA AckedInvInit == Init => AckedInv
<1> SUFFICES ASSUME Init PROVE AckedInv
  OBVIOUS
<1>1. \A k \in Kind : acked[k] = {}
  BY DEF Init
<1> QED
  BY <1>1, PlayInvInit DEF AckedInv, AckedFound

(* While the ledger of a kind parses, what was answered to a create or an  *)
(* import is found, and under an id of this node with the entry answered.  *)
THEOREM LifecycleAckedFound == Spec => []AckedFound
<1>1. AckedInv => AckedFound
  BY DEF AckedInv
<1> QED
  BY <1>1, AckedInvInit, AckedInvStep, PTL DEF Spec

-----------------------------------------------------------------------------
(* Each kind implements the write-once archive, said of the file and the   *)
(* acknowledgements of one kind: a step writes the first record of an id,  *)
(* loses the file, promises what is known, or changes nothing.             *)

LEMMA UnreadableKnowsNothing ==
  ASSUME NEW f \in Files(Record), ~Parses(f)
  PROVE  \A id : Get(f, id) = None
  BY GetFacts

Same(k) == Answers(k)' = Answers(k) /\ Parses(ledger[k])' = Parses(ledger[k])

Writes(k, id) ==
  /\ Parses(ledger[k]) /\ Parses(ledger'[k])
  /\ Answers(k)[id] = None
  /\ Answers(k)'[id] \in Record
  /\ Answers(k)' = [Answers(k) EXCEPT ![id] = Answers(k)'[id]]

Loses(k) ==
  Parses(ledger[k]) /\ ~Parses(ledger'[k]) /\ Answers(k)' = [id \in Id |-> None]

(* What a step that writes the record of w does to the answers.            *)
LEMMA AppendMaps ==
  ASSUME TypeInv, NEW k \in Kind, NEW r \in Record,
         ledger'[k] \in {AppendLine(ledger[k], r)} \cup CutAppend(ledger[k], r)
  PROVE  Same(k) \/ Writes(k, r.entry.id) \/ Loses(k)
<1> DEFINE f == ledger[k]
           g == ledger'[k]
           id == r.entry.id
           K == [h \in Id |-> Get(f, h)]
           L == [h \in Id |-> Get(g, h)]
<1>1. id \in Id /\ f \in Files(Record)
  BY DEF Record, Entry, TypeInv, TypeOK
<1>2. g \in Files(Record)
  BY <1>1, AppendLineType, CutAppendType
<1>3. Answers(k) = K /\ Answers(k)' = L
  BY DEF Answers
<1>4. Parses(g) => Parses(f) /\ (g.lines = f.lines \/ g.lines = Append(f.lines, r))
  BY <1>1, ParsedAppend
<1> HIDE DEF f, g
<1>5. CASE ~Parses(g)
  <2>1. L = [h \in Id |-> None]
    BY <1>2, <1>5, UnreadableKnowsNothing
  <2>2. CASE Parses(f)
    BY <1>3, <1>5, <2>1, <2>2 DEF Loses, f, g
  <2>3. CASE ~Parses(f)
    <3>1. K = [h \in Id |-> None]
      BY <1>1, <2>3, UnreadableKnowsNothing
    <3>2. Parses(g) = Parses(f)
      BY <1>5, <2>3 DEF Parses
    <3> QED
      BY <1>3, <2>1, <3>1, <3>2 DEF Same, f, g
  <2> QED
    BY <2>2, <2>3
<1>6. CASE Parses(g) /\ g.lines = f.lines
  <2>1. \A h : Get(g, h) = Get(f, h)
    BY <1>4, <1>6 DEF Get, Listed
  <2>2. Parses(g) = Parses(f)
    BY <1>6 DEF Parses
  <2> QED
    BY <1>3, <2>1, <2>2 DEF Same, f, g
<1>7. CASE Parses(g) /\ g.lines = Append(f.lines, r)
  <2>1. \A h : Get(g, h) = IF Get(f, h) = None /\ id = h THEN r ELSE Get(f, h)
    BY <1>1, <1>2, <1>4, <1>7, GetAfterAppend
  <2>2. CASE Get(f, id) = None
    <3>1. K[id] = None /\ L[id] = r /\ L = [K EXCEPT ![id] = L[id]]
      BY <1>1, <2>1, <2>2
    <3> QED
      BY <1>3, <1>4, <1>7, <3>1 DEF Writes, f, g
  <2>3. CASE Get(f, id) # None
    <3>1. L = K
      BY <2>1, <2>3
    <3>2. Parses(g) = Parses(f)
      BY <1>4, <1>7 DEF Parses
    <3> QED
      BY <1>3, <3>1, <3>2 DEF Same, f, g
  <2> QED
    BY <2>2, <2>3
<1> QED
  BY <1>4, <1>5, <1>6, <1>7

(* Every step does one of four things to the archive of a kind.            *)
LEMMA KindStep ==
  ASSUME AckedInv, DamageInv, [Next]_vars, NEW k \in Kind
  PROVE  \/ Same(k) /\ Promised(k)' = Promised(k)
         \/ \E id \in Id :
              /\ Same(k) /\ Promised(k)' = Promised(k) \cup {id}
              /\ ~Parses(ledger[k]) \/ Answers(k)[id] # None
         \/ \E id \in Id :
              Writes(k, id) /\ Promised(k)' \in {Promised(k), Promised(k) \cup {id}}
         \/ /\ Loses(k) /\ MaxFailures > 0
            /\ \/ Promised(k)' = Promised(k)
               \/ \E id \in Id : Promised(k)' = Promised(k) \cup {id}
<1>1. TypeInv /\ TypeOK /\ TypeInv' /\ AckedInv'
  BY AckedInvStep DEF AckedInv, PlayInv, TypeInv
<1>2. ASSUME ledger'[k] = ledger[k]
      PROVE  Same(k)
  BY <1>2 DEF Same, Answers
<1>3. ASSUME acked'[k] = acked[k]
      PROVE  Promised(k)' = Promised(k)
  BY <1>3 DEF Promised
<1>4. ASSUME NEW e, acked'[k] = acked[k] \cup {e}
      PROVE  Promised(k)' = Promised(k) \cup {e.id}
  BY <1>4 DEF Promised
<1>5. ASSUME Loses(k)
      PROVE  MaxFailures > 0
  <2>1. failures'[k] # 0
    BY <1>5, DamageInvStep DEF Loses, DamageInv, DamageStaysInKind
  <2>2. failures'[k] \in 0 .. MaxFailures
    BY <1>1 DEF TypeInv, TypeOK
  <2> QED
    BY <2>1, <2>2, BoundAssumption
<1>6. ASSUME NEW w \in Worker, job[w].kind = k, Get(ledger[k], job[w].id) # None,
             acked'[k] = acked[k] \cup {Get(ledger[k], job[w].id).entry}, ledger' = ledger
      PROVE  \E id \in Id :
               /\ Same(k) /\ Promised(k)' = Promised(k) \cup {id}
               /\ ~Parses(ledger[k]) \/ Answers(k)[id] # None
  <2> DEFINE found == Get(ledger[k], job[w].id)
  <2>1. found.entry.id = job[w].id /\ found \in Record
    BY <1>1, <1>6, GetInLines, LinesType
  <2>2. PICK id \in Id : id = job[w].id
    BY <2>1 DEF Record, Entry
  <2> QED
    BY <1>2, <1>4, <1>6, <2>1, <2>2 DEF Answers
<1>7. ASSUME NEW w \in Worker, job[w].kind = k, pc[w] = "append",
             ledger'[k] \in {AppendLine(ledger[k], job[w].rec)} \cup
                            CutAppend(ledger[k], job[w].rec)
      PROVE  /\ job[w].rec.entry.id \in Id
             /\ Same(k) \/ Writes(k, job[w].rec.entry.id) \/ Loses(k)
  <2>1. job[w].rec \in Record
    BY <1>1, <1>7 DEF TypeInv, JobInv
  <2> QED
    BY <1>1, <1>7, <2>1, AppendMaps DEF Record, Entry
<1>8. ASSUME NEW w \in Worker, job[w].kind = k, AppendRecord(w)
      PROVE  /\ acked'[k] = acked[k] \cup {job[w].rec.entry}
             /\ pc[w] = "append" /\ ledger'[k] = AppendLine(ledger[k], job[w].rec)
             /\ Parses(ledger'[k]) => Answers(k)'[job[w].rec.entry.id] # None
  <2>1. job[w].rec.entry.id \in Id
    BY <1>1, <1>8 DEF AppendRecord, TypeInv, JobInv, Record, Entry
  <2>2. Parses(ledger'[k]) => Get(ledger'[k], job[w].rec.entry.id) # None
    BY <1>1, <1>8, AppendedFound
  <2> QED
    BY <1>1, <1>8, <2>1, <2>2 DEF AppendRecord, TypeOK, Answers
<1>9. CASE \E w \in Worker : job[w].kind = k /\ AppendRecord(w)
  <2>1. PICK w \in Worker : job[w].kind = k /\ AppendRecord(w)
    BY <1>9
  <2> DEFINE id == job[w].rec.entry.id
  <2>2. Promised(k)' = Promised(k) \cup {id}
    BY <1>4, <1>8, <2>1
  <2>3. id \in Id /\ (Same(k) \/ Writes(k, id) \/ Loses(k))
    BY <1>7, <1>8, <2>1
  <2>4. Same(k) => ~Parses(ledger[k]) \/ Answers(k)[id] # None
    BY <1>8, <2>1 DEF Same
  <2> HIDE DEF id
  <2> QED
    BY <1>5, <2>2, <2>3, <2>4
<1>10. CASE ~ \E w \in Worker : job[w].kind = k /\ AppendRecord(w)
  <2>1. CASE ledger'[k] = ledger[k]
    BY <1>1, <1>2, <1>3, <1>6, <1>10, <2>1, AckedStep
  <2>2. CASE ledger'[k] # ledger[k]
    <3>1. PICK w \in Worker :
            /\ pc[w] = "append" /\ job[w].kind = k /\ Fail(w)
            /\ ledger'[k] \in CutAppend(ledger[k], job[w].rec)
      BY <1>1, <1>10, <2>2, LedgerStep
    <3>2. Promised(k)' = Promised(k)
      BY <1>3, <3>1 DEF Fail
    <3> QED
      BY <1>5, <1>7, <3>1, <3>2
  <2> QED
    BY <2>1, <2>2
<1> QED
  BY <1>9, <1>10

ArchiveInv == AckedInv /\ DamageInv

LEMMA ArchiveInvInit == Init => ArchiveInv
  BY AckedInvInit, TypeInvInit
  DEF ArchiveInv, Init, DamageInv, DamageStaysInKind, EmptyFile, Parses

LEMMA ArchiveInvStep == ArchiveInv /\ [Next]_vars => ArchiveInv'
  BY AckedInvStep, DamageInvStep DEF ArchiveInv

(* At first both archives are empty.                                       *)
LEMMA ArchivesInit ==
  ASSUME Init, NEW k \in Kind
  PROVE  /\ Answers(k) = [id \in Id |-> None]
         /\ Promised(k) = {}
         /\ Parses(ledger[k])
<1>1. ledger[k] = EmptyFile /\ acked[k] = {}
  BY DEF Init
<1>2. Parses(ledger[k]) /\ \A id : Get(ledger[k], id) = None
  BY <1>1 DEF EmptyFile, Parses, Get, Listed, LinesOf
<1> QED
  BY <1>1, <1>2 DEF Answers, Promised

(* Every step is a step of the archive of the bindings, or none.           *)
LEMMA BindingsStep ==
  ASSUME ArchiveInv, [Next]_vars
  PROVE  [Bindings!Next]_(Bindings!vars)
<1> DEFINE k == "binding"
<1>1. k \in Kind
  BY DEF Kind
<1>2. CASE Same(k) /\ Promised(k)' = Promised(k)
  BY <1>2 DEF Bindings!vars, Same
<1>3. ASSUME NEW id \in Id, Same(k), Promised(k)' = Promised(k) \cup {id},
             ~Parses(ledger[k]) \/ Answers(k)[id] # None
      PROVE  Bindings!Next
  <2>1. Bindings!Promise(id)
    BY <1>3 DEF Bindings!Promise, Same
  <2> QED
    BY <2>1 DEF Bindings!Next
<1>4. ASSUME NEW id \in Id, Writes(k, id),
             Promised(k)' \in {Promised(k), Promised(k) \cup {id}}
      PROVE  Bindings!Next
  <2>1. Bindings!Write(id)
    BY <1>4 DEF Bindings!Write, Writes
  <2> QED
    BY <2>1 DEF Bindings!Next
<1>5. ASSUME Loses(k), MaxFailures > 0,
             \/ Promised(k)' = Promised(k)
             \/ \E id \in Id : Promised(k)' = Promised(k) \cup {id}
      PROVE  Bindings!Next
  <2>1. Bindings!Lose
    BY <1>5 DEF Bindings!Lose, Loses
  <2> QED
    BY <2>1 DEF Bindings!Next
<1> QED
  BY <1>1, <1>2, <1>3, <1>4, <1>5, KindStep DEF ArchiveInv

(* Every step is a step of the archive of the attestations, or none.       *)
LEMMA AttestationsStep ==
  ASSUME ArchiveInv, [Next]_vars
  PROVE  [Attestations!Next]_(Attestations!vars)
<1> DEFINE k == "attestation"
<1>1. k \in Kind
  BY DEF Kind
<1>2. CASE Same(k) /\ Promised(k)' = Promised(k)
  BY <1>2 DEF Attestations!vars, Same
<1>3. ASSUME NEW id \in Id, Same(k), Promised(k)' = Promised(k) \cup {id},
             ~Parses(ledger[k]) \/ Answers(k)[id] # None
      PROVE  Attestations!Next
  <2>1. Attestations!Promise(id)
    BY <1>3 DEF Attestations!Promise, Same
  <2> QED
    BY <2>1 DEF Attestations!Next
<1>4. ASSUME NEW id \in Id, Writes(k, id),
             Promised(k)' \in {Promised(k), Promised(k) \cup {id}}
      PROVE  Attestations!Next
  <2>1. Attestations!Write(id)
    BY <1>4 DEF Attestations!Write, Writes
  <2> QED
    BY <2>1 DEF Attestations!Next
<1>5. ASSUME Loses(k), MaxFailures > 0,
             \/ Promised(k)' = Promised(k)
             \/ \E id \in Id : Promised(k)' = Promised(k) \cup {id}
      PROVE  Attestations!Next
  <2>1. Attestations!Lose
    BY <1>5 DEF Attestations!Lose, Loses
  <2> QED
    BY <2>1 DEF Attestations!Next
<1> QED
  BY <1>1, <1>2, <1>3, <1>4, <1>5, KindStep DEF ArchiveInv

(* However requests interleave and die, each kind is a write-once archive  *)
(* to its readers, and loses its records only when an append of its fails. *)
THEOREM LifecycleImplementsArchives == Spec => ImplementsArchives
<1>1. Init => Bindings!Init /\ Attestations!Init
  <2> SUFFICES ASSUME Init PROVE Bindings!Init /\ Attestations!Init
    OBVIOUS
  <2>1. "binding" \in Kind /\ "attestation" \in Kind
    BY DEF Kind
  <2> QED
    BY <2>1, ArchivesInit DEF Bindings!Init, Attestations!Init
<1> QED
  BY <1>1, ArchiveInvInit, ArchiveInvStep, BindingsStep, AttestationsStep, PTL
     DEF Spec, ImplementsArchives, Bindings!Spec, Attestations!Spec

=============================================================================
