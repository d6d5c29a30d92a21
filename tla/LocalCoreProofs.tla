-------------------------- MODULE LocalCoreProofs --------------------------
(* Theorems about LocalCore for every number of workers, contents, inputs, *)
(* foreign bundles, requests and failures.                                 *)
EXTENDS LocalCore, JsonlFileProofs

-----------------------------------------------------------------------------
(* ledger.get: the first of the matching lines, if there is one.           *)

(* list answers a sequence of records, whatever is in the file.            *)
LEMMA ListedType ==
  ASSUME NEW f \in Files(Record)
  PROVE  /\ Listed(f) \in Seq(Record)
         /\ Parses(f) => f.lines \in Seq(Record)
<1>1. f.lines \in Seq(Record \cup {Garbled})
  BY DEF Files
<1>2. ASSUME Parses(f)
      PROVE  f.lines \in Seq(Record)
  <2>1. \A k \in 1 .. Len(f.lines) : f.lines[k] \in Record
    BY <1>1, <1>2 DEF Parses
  <2> QED
    BY <1>1, <2>1
<1> QED
  BY <1>2 DEF Listed

(* get answers None if no listed line has the id, else such a line, and    *)
(* then the file parses.                                                   *)
LEMMA GetFacts ==
  ASSUME NEW f \in Files(Record), NEW id
  PROVE  /\ (Get(f, id) = None) = (LinesOf(Listed(f), id) = {})
         /\ Get(f, id) # None =>
              /\ Get(f, id) \in Record
              /\ Parses(f)
              /\ \E k \in DOMAIN f.lines :
                   Get(f, id) = f.lines[k] /\ f.lines[k].entry.memory_id = id
<1> DEFINE s == Listed(f)
           hits == LinesOf(s, id)
<1>1. s \in Seq(Record)
  BY ListedType
<1>2. CASE hits = {}
  BY <1>2 DEF Get
<1>3. CASE hits # {}
  <2>1. hits \in SUBSET Nat
    BY <1>1 DEF LinesOf
  <2>2. \E k \in hits : \A j \in hits : k <= j
    BY <1>3, <2>1, LeastIndex
  <2>3. PICK k \in hits : Get(f, id) = s[k]
    BY <1>3, <2>2 DEF Get
  <2>4. k \in DOMAIN s /\ s[k] \in Record /\ s[k].entry.memory_id = id
    BY <1>1 DEF LinesOf
  <2>5. Parses(f) /\ s = f.lines
    BY <2>4 DEF Listed
  <2> QED
    BY <1>3, <2>3, <2>4, <2>5, SentinelAssumption
<1> QED
  BY <1>2, <1>3

(* A record appended on a line of its own is found unless its id already   *)
(* was, and changes no other answer.                                       *)
LEMMA GetAfterAppend ==
  ASSUME NEW f \in Files(Record), Parses(f), NEW r \in Record, NEW g \in Files(Record),
         g.lines = Append(f.lines, r), NEW id
  PROVE  Get(g, id) = IF Get(f, id) = None /\ r.entry.memory_id = id
                        THEN r ELSE Get(f, id)
<1> DEFINE s == f.lines
           t == g.lines
           n == Len(s) + 1
<1>1. s \in Seq(Record) /\ Len(s) \in Nat
  BY ListedType
<1>2. /\ t \in Seq(Record)
      /\ DOMAIN t = DOMAIN s \cup {n} /\ t[n] = r
      /\ \A k \in DOMAIN s : k < n /\ t[k] = s[k]
  BY <1>1, AppendFacts
<1>3. Parses(g)
  BY <1>2, SentinelAssumption, ListedType DEF Parses
<1>4. Listed(f) = s /\ Listed(g) = t
  BY <1>3 DEF Listed
<1>5. LinesOf(t, id) = LinesOf(s, id) \cup IF r.entry.memory_id = id THEN {n} ELSE {}
  BY <1>2 DEF LinesOf
<1>6. LinesOf(s, id) \subseteq DOMAIN s /\ LinesOf(s, id) \subseteq Nat /\ n \in Nat
  BY <1>1 DEF LinesOf
<1> HIDE DEF s, t, n
<1>7. CASE LinesOf(s, id) = {}
  <2>1. Get(f, id) = None
    BY <1>4, <1>7 DEF Get
  <2>2. CASE r.entry.memory_id = id
    <3>1. LinesOf(t, id) = {n}
      BY <1>5, <1>7, <2>2
    <3>2. (CHOOSE k \in {n} : \A j \in {n} : k <= j) = n
      BY <1>6
    <3>3. LinesOf(t, id) # {}
      BY <3>1
    <3>4. Get(g, id) = t[CHOOSE k \in LinesOf(t, id) : \A j \in LinesOf(t, id) : k <= j]
      BY <1>4, <3>3 DEF Get
    <3>5. Get(g, id) = t[n]
      BY <3>1, <3>2, <3>4
    <3> QED
      BY <1>2, <2>1, <2>2, <3>5
  <2>3. CASE r.entry.memory_id # id
    BY <1>4, <1>5, <1>7, <2>1, <2>3 DEF Get
  <2> QED
    BY <2>2, <2>3
<1>8. CASE LinesOf(s, id) # {}
  <2> DEFINE I == LinesOf(s, id)
             J == LinesOf(t, id)
             first == CHOOSE k \in I : \A j \in I : k <= j
  <2>1. \A k : (k \in J /\ \A j \in J : k <= j) <=> (k \in I /\ \A j \in I : k <= j)
    BY <1>2, <1>5, <1>6, <1>8
  <2>2. (CHOOSE k \in J : \A j \in J : k <= j) = first
    BY <2>1
  <2>3. first \in I
    BY <1>6, <1>8, LeastIndex
  <2>4. Get(f, id) = s[first] /\ Get(g, id) = t[first]
    BY <1>4, <1>5, <1>8, <2>2 DEF Get
  <2>5. s[first] = t[first] /\ s[first] \in Record
    BY <1>1, <1>2, <1>6, <2>3
  <2> HIDE DEF first, I, J
  <2> QED
    BY <2>4, <2>5, SentinelAssumption
<1> QED
  BY <1>7, <1>8

-----------------------------------------------------------------------------
(* Type correctness.                                                       *)

LEMMA RecordOfType ==
  ASSUME NEW c \in Content, NEW i \in Input, NEW k \in Key
  PROVE  <<c, i>> \in Hash /\ RecordOf(c, i, k) \in Record
<1>1. c \in Body /\ <<c, i>> \in Hash
  BY InputAssumption DEF Body, Hash
<1>2. [memory_id |-> <<c, i>>, canonical_hash |-> <<c, i>>, content_cid |-> c] \in Entry
  BY <1>1 DEF Entry
<1>3. [memory_id |-> <<c, i>>, canonical_hash |-> <<c, i>>, cid |-> c, input |-> i,
       signed |-> <<<<c, i>>, k>>] \in Memory
  BY <1>1 DEF Memory
<1> QED
  BY <1>1, <1>2, <1>3 DEF RecordOf, Record

(* The ids a client can name are ids.                                      *)
LEMMA KnownIdsType == TypeOK => KnownIds \subseteq Hash
<1> SUFFICES ASSUME TypeOK PROVE KnownIds \subseteq Hash
  OBVIOUS
<1>1. \A e \in acked : e.memory_id \in Hash
  BY DEF TypeOK, Entry
<1>2. Listed(ledger) \in Seq(Record)
  BY ListedType DEF TypeOK
<1>3. \A k \in DOMAIN Listed(ledger) : Listed(ledger)[k] \in Record
  BY <1>2
<1>4. \A r \in Record : r.entry.memory_id \in Hash
  BY DEF Record, Entry
<1> QED
  BY <1>1, <1>3, <1>4 DEF KnownIds

(* What is true of the jobs while a worker stands at an await: which kind  *)
(* of request it is, and which of its locals are set.                      *)
JobInv(w) ==
  /\ pc[w] \in {"truncate", "write", "lookup", "append"} =>
       /\ job[w].op \in {"create", "import"}
       /\ job[w].rec \in Record /\ job[w].body \in Body
       /\ job[w].id = job[w].rec.entry.memory_id
  /\ pc[w] \in {"has", "read"} =>
       /\ job[w].rec \in Record
       /\ job[w].id = job[w].rec.entry.memory_id

TypeInv == TypeOK /\ \A w \in Worker : JobInv(w)

LEMMA TypeInvInit == Init => TypeInv
<1> SUFFICES ASSUME Init PROVE TypeInv
  OBVIOUS
<1>1. ledger \in Files(Record)
  BY DEF Init, EmptyFile, Files
<1>2. NoJob \in Job
  BY DEF NoJob, Job
<1>3. 0 \in 0 .. MaxRequests /\ 0 \in 0 .. MaxFailures
  BY BoundAssumption
<1> QED
  BY <1>1, <1>2, <1>3 DEF Init, TypeInv, TypeOK, JobInv, FileState, Await

(* A request starts, returns, or goes on with the same locals.             *)
LEMMA StartType ==
  ASSUME TypeInv, NEW w \in Worker, NEW j \in Job, NEW await \in Await,
         Start(w, j, await),
         await = "truncate" =>
           /\ j.op \in {"create", "import"} /\ j.rec \in Record /\ j.body \in Body
           /\ j.id = j.rec.entry.memory_id,
         await \in {"truncate", "fetch"}
  PROVE  TypeInv'
<1>1. TypeOK'
  BY BoundAssumption DEF TypeInv, TypeOK, Start
<1>2. /\ pc'[w] = await /\ job'[w] = j
      /\ \A v \in Worker \ {w} : pc'[v] = pc[v] /\ job'[v] = job[v]
  BY DEF TypeInv, TypeOK, Start
<1> QED
  BY <1>1, <1>2 DEF TypeInv, JobInv

LEMMA ReturnType ==
  ASSUME TypeInv, NEW w \in Worker, Return(w)
  PROVE  /\ pc' \in [Worker -> Await] /\ job' \in [Worker -> Job]
         /\ \A v \in Worker : JobInv(v)'
<1>1. NoJob \in Job
  BY DEF NoJob, Job
<1>2. /\ pc'[w] = "idle"
      /\ \A v \in Worker \ {w} : pc'[v] = pc[v] /\ job'[v] = job[v]
  BY DEF TypeInv, TypeOK, Return
<1> QED
  BY <1>1, <1>2 DEF TypeInv, TypeOK, Return, JobInv, Await

LEMMA GotoType ==
  ASSUME TypeInv, NEW w \in Worker, NEW await \in {"write", "lookup", "append"},
         Goto(w, await), pc[w] \in {"truncate", "write", "lookup"}
  PROVE  /\ pc' \in [Worker -> Await] /\ job' \in [Worker -> Job]
         /\ \A v \in Worker : JobInv(v)'
<1>2. /\ pc'[w] = await /\ job' = job
      /\ \A v \in Worker \ {w} : pc'[v] = pc[v]
  BY DEF TypeInv, TypeOK, Goto
<1> QED
  BY <1>2 DEF TypeInv, TypeOK, Goto, JobInv, Await

(* A query keeps the record it found.                                      *)
LEMMA KeepType ==
  ASSUME TypeInv, NEW w \in Worker, NEW await \in {"has", "read"},
         NEW r \in Record, job[w].id = r.entry.memory_id,
         pc' = [pc EXCEPT ![w] = await], job' = [job EXCEPT ![w].rec = r]
  PROVE  /\ pc' \in [Worker -> Await] /\ job' \in [Worker -> Job]
         /\ \A v \in Worker : JobInv(v)'
<1>1. job[w] \in Job
  BY DEF TypeInv, TypeOK
<1>2. [job[w] EXCEPT !.rec = r] \in Job
  BY <1>1 DEF Job
<1>3. [job[w] EXCEPT !.rec = r].rec = r /\ [job[w] EXCEPT !.rec = r].id = job[w].id
  BY <1>1 DEF Job
<1>4. /\ pc'[w] = await /\ job'[w] = [job[w] EXCEPT !.rec = r]
      /\ \A v \in Worker \ {w} : pc'[v] = pc[v] /\ job'[v] = job[v]
  BY DEF TypeInv, TypeOK
<1>5. job' \in [Worker -> Job] /\ pc' \in [Worker -> Await]
  BY <1>2 DEF TypeInv, TypeOK, Await
<1> QED
  BY <1>3, <1>4, <1>5 DEF TypeInv, JobInv

LEMMA TypeInvStep ==
  ASSUME TypeInv, [Next]_vars
  PROVE  TypeInv'
<1> USE DEF FileState
<1>1. ASSUME NEW w \in Worker, NEW c \in Content, NEW i \in Input, NEW k \in Key, Create(w, c, i, k)
      PROVE  TypeInv'
  <2> DEFINE j == [op |-> "create", id |-> <<c, i>>, body |-> c, rec |-> RecordOf(c, i, k)]
  <2>1. <<c, i>> \in Hash /\ RecordOf(c, i, k) \in Record /\ c \in Body
    BY RecordOfType DEF Body
  <2>2. j \in Job
    BY <2>1 DEF Job
  <2>3. RecordOf(c, i, k).entry.memory_id = <<c, i>>
    BY DEF RecordOf
  <2> QED
    BY <1>1, <2>1, <2>2, <2>3, StartType DEF Create, Await
<1>2. ASSUME NEW w \in Worker, NEW b \in bundles \cup ForeignBundle, Import(w, b)
      PROVE  TypeInv'
  <2> DEFINE j == [op |-> "import", id |-> b.record.entry.memory_id,
                   body |-> b.body, rec |-> b.record]
  <2>1. b \in Bundle
    BY InputAssumption DEF TypeInv, TypeOK
  <2>2. b.record \in Record /\ b.body \in Body /\ b.record.entry.memory_id \in Hash
    BY <2>1 DEF Bundle, Record, Entry
  <2>3. j \in Job
    BY <2>2 DEF Job
  <2> QED
    BY <1>2, <2>2, <2>3, StartType DEF Import, Await
<1>3. ASSUME NEW w \in Worker, NEW op \in {"verify", "export"}, NEW id \in KnownIds,
             Query(w, op, id)
      PROVE  TypeInv'
  <2> DEFINE j == [op |-> op, id |-> id, body |-> None, rec |-> None]
  <2>1. j \in Job
    BY KnownIdsType DEF TypeInv, Job
  <2> QED
    BY <1>3, <2>1, StartType DEF Query, Await
<1>4. ASSUME NEW w \in Worker, PutTruncate(w)
      PROVE  TypeInv'
  BY <1>4, GotoType DEF PutTruncate, TypeInv, TypeOK
<1>5. ASSUME NEW w \in Worker, PutWrite(w)
      PROVE  TypeInv'
  <2>1. store' \in [Body -> FileState]
    BY <1>5 DEF PutWrite, TypeInv, TypeOK
  <2>2. Return(w) \/ Goto(w, "append") \/ Goto(w, "lookup")
    BY <1>5 DEF PutWrite
  <2>3. /\ pc' \in [Worker -> Await] /\ job' \in [Worker -> Job]
        /\ \A v \in Worker : JobInv(v)'
    BY <1>5, <2>2, GotoType, ReturnType DEF PutWrite
  <2> QED
    BY <1>5, <2>1, <2>3 DEF PutWrite, TypeInv, TypeOK
<1>6. ASSUME NEW w \in Worker, LookUp(w)
      PROVE  TypeInv'
  <2> DEFINE found == Get(ledger, job[w].id)
  <2>1. found # None => found.entry \in Entry
    BY GetFacts DEF TypeInv, TypeOK, Record
  <2>2. acked' \subseteq Entry
    BY <1>6, <2>1 DEF LookUp, TypeInv, TypeOK
  <2>3. /\ pc' \in [Worker -> Await] /\ job' \in [Worker -> Job]
        /\ \A v \in Worker : JobInv(v)'
    BY <1>6, GotoType, ReturnType DEF LookUp
  <2> QED
    BY <1>6, <2>2, <2>3 DEF LookUp, TypeInv, TypeOK
<1>7. ASSUME NEW w \in Worker, AppendRecord(w)
      PROVE  TypeInv'
  <2>1. job[w].rec \in Record
    BY <1>7 DEF AppendRecord, TypeInv, JobInv
  <2>2. job[w].rec.entry \in Entry
    BY <2>1 DEF Record
  <2>3. ledger' \in Files(Record)
    BY <1>7, <2>1, AppendLineType DEF AppendRecord, TypeInv, TypeOK
  <2> QED
    BY <1>7, <2>2, <2>3, ReturnType DEF AppendRecord, TypeInv, TypeOK
<1>8. ASSUME NEW w \in Worker, FetchForVerify(w)
      PROVE  TypeInv'
  <2> DEFINE found == Get(ledger, job[w].id)
  <2>1. found # None => found \in Record /\ job[w].id = found.entry.memory_id
    BY GetFacts DEF TypeInv, TypeOK
  <2>2. verdicts' \subseteq [record : Record, code : Code]
    BY <1>8, <2>1 DEF FetchForVerify, TypeInv, TypeOK, Code
  <2>3. \/ Return(w)
        \/ /\ found # None
           /\ pc' = [pc EXCEPT ![w] = "has"] /\ job' = [job EXCEPT ![w].rec = found]
    BY <1>8 DEF FetchForVerify
  <2>4. /\ pc' \in [Worker -> Await] /\ job' \in [Worker -> Job]
        /\ \A v \in Worker : JobInv(v)'
    BY <2>1, <2>3, KeepType, ReturnType
  <2> QED
    BY <1>8, <2>2, <2>4 DEF FetchForVerify, TypeInv, TypeOK
<1>9. ASSUME NEW w \in Worker, HasContent(w)
      PROVE  TypeInv'
  <2>1. job[w].rec \in Record
    BY <1>9 DEF HasContent, TypeInv, JobInv
  <2>2. \A r, present : Verdict(r, present) \in Code
    BY DEF Verdict, Code
  <2>3. verdicts' \subseteq [record : Record, code : Code]
    BY <1>9, <2>1, <2>2 DEF HasContent, TypeInv, TypeOK
  <2> QED
    BY <1>9, <2>3, ReturnType DEF HasContent, TypeInv, TypeOK
<1>10. ASSUME NEW w \in Worker, FetchForExport(w)
      PROVE  TypeInv'
  <2> DEFINE found == Get(ledger, job[w].id)
  <2>1. found # None => found \in Record /\ job[w].id = found.entry.memory_id
    BY GetFacts DEF TypeInv, TypeOK
  <2>2. \/ Return(w)
        \/ /\ found # None
           /\ pc' = [pc EXCEPT ![w] = "read"] /\ job' = [job EXCEPT ![w].rec = found]
    BY <1>10 DEF FetchForExport
  <2>3. /\ pc' \in [Worker -> Await] /\ job' \in [Worker -> Job]
        /\ \A v \in Worker : JobInv(v)'
    BY <2>1, <2>2, KeepType, ReturnType
  <2> QED
    BY <1>10, <2>3 DEF FetchForExport, TypeInv, TypeOK
<1>11. ASSUME NEW w \in Worker, ReadContent(w)
      PROVE  TypeInv'
  <2>1. job[w].rec \in Record
    BY <1>11 DEF ReadContent, TypeInv, JobInv
  <2>2. job[w].rec.entry.content_cid \in Body /\ Torn \in Body
    BY <2>1 DEF Record, Entry, Body
  <2>3. bundles' \subseteq Bundle
    BY <1>11, <2>1, <2>2, InputAssumption DEF ReadContent, TypeInv, TypeOK, Bundle
  <2> QED
    BY <1>11, <2>3, ReturnType DEF ReadContent, TypeInv, TypeOK
<1>12. ASSUME NEW w \in Worker, Fail(w)
      PROVE  TypeInv'
  <2>1. ledger' \in Files(Record)
    <3>1. CASE pc[w] = "append"
      <4>1. job[w].rec \in Record
        BY <3>1 DEF TypeInv, JobInv
      <4> QED
        BY <1>12, <3>1, <4>1, CutAppendType DEF Fail, TypeInv, TypeOK
    <3>2. CASE pc[w] # "append"
      BY <1>12, <3>2 DEF Fail, TypeInv, TypeOK
    <3> QED
      BY <3>1, <3>2
  <2>2. failures' \in 0 .. MaxFailures
    BY <1>12, BoundAssumption DEF Fail, TypeInv, TypeOK
  <2> QED
    BY <1>12, <2>1, <2>2, ReturnType DEF Fail, TypeInv, TypeOK
<1>13. CASE UNCHANGED vars
  BY <1>13 DEF TypeInv, TypeOK, JobInv, vars
<1> QED
  BY <1>1, <1>2, <1>3, <1>4, <1>5, <1>6, <1>7, <1>8, <1>9, <1>10, <1>11, <1>12, <1>13
  DEF Next, Proceed

(* Every variable keeps its type in every behaviour of the local core.     *)
THEOREM LocalCoreTypeCorrect == Spec => []TypeOK
<1>1. TypeInv => TypeOK
  BY DEF TypeInv
<1> QED
  BY <1>1, TypeInvInit, TypeInvStep, PTL DEF Spec

-----------------------------------------------------------------------------
(* What a step does to the two files.                                      *)

(* The ledger only changes where a worker appends.                         *)
LEMMA LedgerStep ==
  ASSUME [Next]_vars
  PROVE  \/ ledger' = ledger
         \/ \E w \in Worker :
              /\ pc[w] = "append"
              /\ ledger' \in {AppendLine(ledger, job[w].rec)} \cup
                             CutAppend(ledger, job[w].rec)
  BY DEF Next, Create, Import, Query, Start, Proceed, PutTruncate, PutWrite, LookUp,
     AppendRecord, FetchForVerify, HasContent, FetchForExport, ReadContent, Fail, vars

(* A line of the ledger was there before, was spoilt, or is the record of  *)
(* the worker that stood at its append.                                    *)
LEMMA LinesOrigin ==
  ASSUME TypeInv, [Next]_vars, NEW k \in DOMAIN ledger'.lines
  PROVE  \/ ledger'.lines[k] = Garbled
         \/ k \in DOMAIN ledger.lines /\ ledger'.lines[k] = ledger.lines[k]
         \/ \E w \in Worker : pc[w] = "append" /\ ledger'.lines[k] = job[w].rec
<1>1. CASE ledger' = ledger
  BY <1>1
<1>2. ASSUME NEW w \in Worker, pc[w] = "append",
             ledger' \in {AppendLine(ledger, job[w].rec)} \cup
                         CutAppend(ledger, job[w].rec)
      PROVE  \/ ledger'.lines[k] \in {Garbled, job[w].rec}
             \/ k \in DOMAIN ledger.lines /\ ledger'.lines[k] = ledger.lines[k]
  <2>1. job[w].rec \in Record /\ ledger \in Files(Record)
    BY <1>2 DEF TypeInv, TypeOK, JobInv
  <2>2. ledger.lines \in Seq(Record \cup {Garbled})
    BY <2>1 DEF Files
  <2>3. \/ ledger' = ledger
        \/ ledger'.lines = GlueToLast(ledger)
        \/ ledger'.lines = Append(ledger.lines, job[w].rec)
        \/ ledger'.lines = Append(ledger.lines, Garbled)
    BY <1>2 DEF AppendLine, AppendOpen, CutAppend
  <2>4. \A i \in DOMAIN GlueToLast(ledger) :
          \/ GlueToLast(ledger)[i] = Garbled
          \/ i \in DOMAIN ledger.lines /\ GlueToLast(ledger)[i] = ledger.lines[i]
    BY <2>1, <2>2, GlueFacts
  <2>5. \A x \in Record \cup {Garbled} : \A i \in DOMAIN Append(ledger.lines, x) :
          \/ Append(ledger.lines, x)[i] = x
          \/ i \in DOMAIN ledger.lines /\ Append(ledger.lines, x)[i] = ledger.lines[i]
    BY <2>2, AppendFacts
  <2> QED
    BY <2>1, <2>3, <2>4, <2>5
<1> QED
  BY <1>1, <1>2, LedgerStep

(* A content file once stored is never absent again.                       *)
LEMMA StoredStays ==
  ASSUME TypeInv, [Next]_vars
  PROVE  \A b \in Body : store[b] # "absent" => store'[b] # "absent"
  BY DEF TypeInv, TypeOK, Next, Create, Import, Query, Start, Proceed, PutTruncate,
     PutWrite, LookUp, AppendRecord, FetchForVerify, HasContent, FetchForExport,
     ReadContent, Fail, vars

(* As long as the ledger parses afterwards, a step takes no answer back.   *)
LEMMA AnswersStay ==
  ASSUME TypeInv, [Next]_vars, Parses(ledger')
  PROVE  /\ Parses(ledger)
         /\ \A id : Get(ledger, id) # None => Get(ledger', id) = Get(ledger, id)
<1>1. CASE ledger' = ledger
  BY <1>1
<1>2. ASSUME NEW w \in Worker, pc[w] = "append",
             ledger' \in {AppendLine(ledger, job[w].rec)} \cup
                         CutAppend(ledger, job[w].rec)
      PROVE  /\ Parses(ledger)
             /\ \A id : Get(ledger, id) # None => Get(ledger', id) = Get(ledger, id)
  <2>1. job[w].rec \in Record /\ ledger \in Files(Record)
    BY <1>2 DEF TypeInv, TypeOK, JobInv
  <2>2. ledger' \in Files(Record)
    BY <1>2, <2>1, AppendLineType, CutAppendType
  <2>3. /\ Parses(ledger)
        /\ ledger'.lines = ledger.lines \/ ledger'.lines = Append(ledger.lines, job[w].rec)
    BY <1>2, <2>1, ParsedAppend
  <2>4. CASE ledger'.lines = ledger.lines
    BY <2>3, <2>4 DEF Get, Listed
  <2>5. CASE ledger'.lines = Append(ledger.lines, job[w].rec)
    BY <2>1, <2>2, <2>3, <2>5, GetAfterAppend
  <2> QED
    BY <2>3, <2>4, <2>5
<1> QED
  BY <1>1, <1>2, LedgerStep

-----------------------------------------------------------------------------
(* Content before record.  The strengthening: by the time a worker looks up*)
(* or appends, its content is stored.                                      *)
StoreInv ==
  /\ TypeInv
  /\ ContentBeforeRecord
  /\ \A w \in Worker :
       /\ pc[w] = "write" => store[job[w].body] # "absent"
       /\ pc[w] \in {"lookup", "append"} => store[job[w].rec.memory.cid] # "absent"
  /\ \A w \in Worker :
       pc[w] \in {"truncate", "write"} /\ job[w].op = "create" =>
         job[w].body = job[w].rec.memory.cid

LEMMA StoreInvStep ==
  ASSUME StoreInv, [Next]_vars
  PROVE  StoreInv'
<1>1. TypeInv /\ TypeInv'
  BY TypeInvStep DEF StoreInv
<1> DEFINE stored(b) == store[b] # "absent"
<1>2. \A b \in Body : store[b] # "absent" => store'[b] # "absent"
  BY <1>1, StoredStays
<1>3. \A r \in Record : r.memory.cid \in Body
  BY DEF Record, Memory
<1>4. ContentBeforeRecord'
  <2> SUFFICES ASSUME NEW k \in DOMAIN ledger'.lines, ledger'.lines[k] # Garbled
               PROVE  store'[ledger'.lines[k].memory.cid] # "absent"
    BY DEF ContentBeforeRecord
  <2>1. CASE k \in DOMAIN ledger.lines /\ ledger'.lines[k] = ledger.lines[k]
    <3>1. ledger.lines[k] \in Record
      BY <1>1, <2>1 DEF TypeInv, TypeOK, Files
    <3> QED
      BY <1>2, <1>3, <2>1, <3>1 DEF StoreInv, ContentBeforeRecord
  <2>2. ASSUME NEW w \in Worker, pc[w] = "append", ledger'.lines[k] = job[w].rec
        PROVE  store'[ledger'.lines[k].memory.cid] # "absent"
    BY <1>1, <1>2, <1>3, <2>2 DEF TypeInv, JobInv, StoreInv
  <2> QED
    BY <1>1, <2>1, <2>2, LinesOrigin
<1> DEFINE Own(w) ==
      /\ pc[w] = "write" => store[job[w].body] # "absent"
      /\ pc[w] \in {"lookup", "append"} => store[job[w].rec.memory.cid] # "absent"
      /\ pc[w] \in {"truncate", "write"} /\ job[w].op = "create" =>
           job[w].body = job[w].rec.memory.cid
<1>5. \A w \in Worker : Own(w)
  BY DEF StoreInv
<1>6. ASSUME NEW w \in Worker, pc'[w] = pc[w], job'[w] = job[w]
      PROVE  Own(w)'
  <2>1. pc[w] = "write" => job[w].body \in Body
    BY <1>1 DEF TypeInv, JobInv
  <2>2. pc[w] \in {"lookup", "append"} => job[w].rec.memory.cid \in Body
    BY <1>1, <1>3 DEF TypeInv, JobInv
  <2> QED
    BY <1>2, <1>5, <1>6, <2>1, <2>2
<1>7. ASSUME NEW w \in Worker, pc'[w] \in {"idle", "fetch", "has", "read"}
      PROVE  Own(w)'
  BY <1>7
<1>8. ASSUME NEW w \in Worker,
             \A v \in Worker \ {w} : pc'[v] = pc[v] /\ job'[v] = job[v],
             Own(w)'
      PROVE  StoreInv'
  <2>1. \A v \in Worker : Own(v)'
    BY <1>6, <1>8
  <2> QED
    BY <1>1, <1>4, <2>1 DEF StoreInv
<1>9. ASSUME NEW w \in Worker, Return(w)
      PROVE  StoreInv'
  BY <1>1, <1>7, <1>8, <1>9 DEF Return, TypeInv, TypeOK
<1>10. ASSUME NEW w \in Worker, NEW j, NEW await, Start(w, j, await),
              \/ await = "fetch"
              \/ await = "truncate" /\ (j.op = "create" => j.body = j.rec.memory.cid)
       PROVE  StoreInv'
  <2>1. /\ pc'[w] = await /\ job'[w] = j
        /\ \A v \in Worker \ {w} : pc'[v] = pc[v] /\ job'[v] = job[v]
    BY <1>1, <1>10 DEF Start, TypeInv, TypeOK
  <2> QED
    BY <1>8, <1>10, <2>1
<1>11. ASSUME NEW w \in Worker, NEW c \in Content, NEW i \in Input, NEW k \in Key, Create(w, c, i, k)
       PROVE  StoreInv'
  BY <1>10, <1>11 DEF Create, RecordOf
<1>12. ASSUME NEW w \in Worker, NEW b, Import(w, b)
       PROVE  StoreInv'
  BY <1>10, <1>12 DEF Import
<1>13. ASSUME NEW w \in Worker, NEW op, NEW id, Query(w, op, id)
       PROVE  StoreInv'
  BY <1>10, <1>13 DEF Query
<1>14. ASSUME NEW w \in Worker, PutTruncate(w)
       PROVE  StoreInv'
  <2>1. job[w].body \in Body
    BY <1>1, <1>14 DEF PutTruncate, TypeInv, JobInv
  <2>2. /\ pc'[w] = "write" /\ job' = job /\ store'[job[w].body] = "partial"
        /\ pc[w] = "truncate" /\ \A v \in Worker \ {w} : pc'[v] = pc[v]
    BY <1>1, <1>14, <2>1 DEF PutTruncate, Goto, TypeInv, TypeOK
  <2> QED
    BY <1>5, <1>8, <2>2
<1>15. ASSUME NEW w \in Worker, PutWrite(w)
       PROVE  StoreInv'
  <2>1. job[w].body \in Body /\ pc[w] = "write"
    BY <1>1, <1>15 DEF PutWrite, TypeInv, JobInv
  <2>2. store'[job[w].body] = "whole"
    BY <1>1, <1>15, <2>1 DEF PutWrite, TypeInv, TypeOK
  <2>3. CASE Return(w)
    BY <1>9, <2>3
  <2>4. CASE /\ Goto(w, "append") \/ Goto(w, "lookup")
             /\ job[w].op = "create" \/ job[w].body = job[w].rec.memory.cid
    <3>1. job[w].body = job[w].rec.memory.cid
      BY <1>5, <2>1, <2>4
    <3>2. /\ pc'[w] \in {"append", "lookup"} /\ job' = job
          /\ \A v \in Worker \ {w} : pc'[v] = pc[v]
      BY <1>1, <2>4 DEF Goto, TypeInv, TypeOK
    <3> QED
      BY <1>8, <2>2, <3>1, <3>2
  <2> QED
    BY <1>15, <2>3, <2>4 DEF PutWrite
<1>16. ASSUME NEW w \in Worker, LookUp(w)
       PROVE  StoreInv'
  <2>1. CASE Return(w)
    BY <1>9, <2>1
  <2>2. CASE Goto(w, "append")
    <3>1. /\ pc'[w] = "append" /\ job' = job /\ store' = store /\ pc[w] = "lookup"
          /\ \A v \in Worker \ {w} : pc'[v] = pc[v]
      BY <1>1, <1>16, <2>2 DEF LookUp, Goto, TypeInv, TypeOK
    <3> QED
      BY <1>5, <1>8, <3>1
  <2> QED
    BY <1>16, <2>1, <2>2 DEF LookUp
<1>17. ASSUME NEW w \in Worker, FetchForVerify(w) \/ FetchForExport(w)
       PROVE  StoreInv'
  <2>1. CASE Return(w)
    BY <1>9, <2>1
  <2>2. CASE ~Return(w)
    <3>1. /\ pc'[w] \in {"has", "read"}
          /\ \A v \in Worker \ {w} : pc'[v] = pc[v] /\ job'[v] = job[v]
      BY <1>1, <1>17, <2>2 DEF FetchForVerify, FetchForExport, TypeInv, TypeOK
    <3> QED
      BY <1>7, <1>8, <3>1
  <2> QED
    BY <2>1, <2>2
<1>18. ASSUME NEW w \in Worker, AppendRecord(w) \/ HasContent(w) \/ ReadContent(w) \/ Fail(w)
       PROVE  StoreInv'
  BY <1>9, <1>18 DEF AppendRecord, HasContent, ReadContent, Fail
<1>19. CASE UNCHANGED vars
  <2>1. \A w \in Worker : Own(w)'
    BY <1>6, <1>19 DEF vars
  <2> QED
    BY <1>1, <1>4, <2>1 DEF StoreInv
<1> QED
  BY <1>11, <1>12, <1>13, <1>14, <1>15, <1>16, <1>17, <1>18, <1>19 DEF Next, Proceed

(* Whatever line the ledger holds, in whatever order requests interleave   *)
(* and die, the content its memory object names has been stored.           *)
THEOREM LocalCoreContentBeforeRecord == Spec => []ContentBeforeRecord
<1>1. Init => StoreInv
  BY TypeInvInit DEF Init, StoreInv, ContentBeforeRecord, EmptyFile
<1>2. StoreInv => ContentBeforeRecord
  BY DEF StoreInv
<1> QED
  BY <1>1, <1>2, StoreInvStep, PTL DEF Spec

-----------------------------------------------------------------------------
(* What is answered: acknowledgements, records and verdicts, and when the  *)
(* files are damaged.                                                      *)

(* A ledger that still parses takes no answer back.  The strengthening: a  *)
(* worker that has fetched a record and awaits its content holds what      *)
(* ledger.get would still answer.                                          *)
Answered == {v.record : v \in verdicts} \cup {b.record : b \in bundles}

AckedFound ==
  Parses(ledger) => \A e \in acked : Get(ledger, e.memory_id) # None

HeldCurrent ==
  Parses(ledger) =>
    \A w \in Worker :
      pc[w] \in {"has", "read"} => Get(ledger, job[w].id) = job[w].rec

AnswerInv == TypeInv /\ AckedFound /\ AnswersStable /\ HeldCurrent

(* An acknowledgement names a record that the ledger holds.                *)
LEMMA AckedFoundStep ==
  ASSUME AnswerInv, [Next]_vars
  PROVE  AckedFound'
<1> SUFFICES ASSUME Parses(ledger'), NEW e \in acked'
             PROVE  Get(ledger', e.memory_id) # None
  BY DEF AckedFound
<1>1. TypeInv /\ TypeInv' /\ ledger \in Files(Record) /\ ledger' \in Files(Record)
  BY TypeInvStep DEF AnswerInv, TypeInv, TypeOK
<1>2. /\ Parses(ledger)
      /\ \A id : Get(ledger, id) # None => Get(ledger', id) = Get(ledger, id)
  BY <1>1, AnswersStay
<1>3. CASE e \in acked
  BY <1>2, <1>3 DEF AnswerInv, AckedFound
<1>4. ASSUME NEW w \in Worker, LookUp(w), e \notin acked
      PROVE  Get(ledger', e.memory_id) # None
  <2> DEFINE found == Get(ledger, job[w].id)
  <2>1. found # None /\ e = found.entry /\ ledger' = ledger
    BY <1>4 DEF LookUp
  <2>2. found.entry.memory_id = job[w].id
    BY <1>1, <2>1, GetFacts
  <2> QED
    BY <2>1, <2>2
<1>5. ASSUME NEW w \in Worker, AppendRecord(w), e \notin acked
      PROVE  Get(ledger', e.memory_id) # None
  <2> DEFINE r == job[w].rec
  <2>1. /\ r \in Record /\ e = r.entry
        /\ ledger' = AppendLine(ledger, r)
    BY <1>1, <1>5 DEF AppendRecord, TypeInv, JobInv
  <2>2. ledger'.lines = Append(ledger.lines, r)
    BY <1>1, <2>1, ParsedAppendLine
  <2> HIDE DEF r
  <2>3. Get(ledger', e.memory_id) =
          IF Get(ledger, e.memory_id) = None /\ r.entry.memory_id = e.memory_id
            THEN r ELSE Get(ledger, e.memory_id)
    BY <1>1, <1>2, <2>1, <2>2, GetAfterAppend
  <2> QED
    BY <2>1, <2>3, SentinelAssumption
<1>6. CASE ~ \E w \in Worker : LookUp(w) \/ AppendRecord(w)
  <2>1. acked' = acked
    BY <1>6 DEF Next, Create, Import, Query, Start, Proceed, PutTruncate, PutWrite,
       FetchForVerify, HasContent, FetchForExport, ReadContent, Fail, vars
  <2> QED
    BY <1>3, <2>1
<1> QED
  BY <1>3, <1>4, <1>5, <1>6

(* A step leaves the pc and the locals of a worker alone, takes it to      *)
(* another await than those of a query that has fetched, or is the fetch.  *)
LEMMA OthersStay ==
  ASSUME TypeOK, [Next]_vars, NEW w \in Worker
  PROVE  \/ pc'[w] = pc[w] /\ job'[w] = job[w]
         \/ pc'[w] \notin {"has", "read"}
         \/ FetchForVerify(w) \/ FetchForExport(w)
<1> USE DEF TypeOK
<1>1. CASE UNCHANGED vars
  BY <1>1 DEF vars
<1>2. ASSUME NEW v \in Worker,
             \E j : Start(v, j, "truncate") \/ Start(v, j, "fetch")
      PROVE  (pc'[w] = pc[w] /\ job'[w] = job[w]) \/ pc'[w] \notin {"has", "read"}
  BY <1>2 DEF Start
<1>3. ASSUME NEW v \in Worker,
             Return(v) \/ Goto(v, "write") \/ Goto(v, "lookup") \/ Goto(v, "append")
      PROVE  (pc'[w] = pc[w] /\ job'[w] = job[w]) \/ pc'[w] \notin {"has", "read"}
  BY <1>3 DEF Return, Goto
<1>4. ASSUME NEW v \in Worker, FetchForVerify(v) \/ FetchForExport(v), v # w
      PROVE  pc'[w] = pc[w] /\ job'[w] = job[w]
  BY <1>4 DEF FetchForVerify, FetchForExport, Return
<1>5. ASSUME NEW v \in Worker,
             \/ \E c \in Content, i \in Input, k \in Key : Create(v, c, i, k)
             \/ \E b \in bundles \cup ForeignBundle : Import(v, b)
             \/ \E op \in {"verify", "export"}, id \in KnownIds : Query(v, op, id)
      PROVE  \E j : Start(v, j, "truncate") \/ Start(v, j, "fetch")
  BY <1>5 DEF Create, Import, Query
<1>6. ASSUME NEW v \in Worker,
             \/ PutTruncate(v) \/ PutWrite(v) \/ LookUp(v) \/ AppendRecord(v)
             \/ HasContent(v) \/ ReadContent(v) \/ Fail(v)
      PROVE  Return(v) \/ Goto(v, "write") \/ Goto(v, "lookup") \/ Goto(v, "append")
  BY <1>6 DEF PutTruncate, PutWrite, LookUp, AppendRecord, HasContent, ReadContent, Fail
<1> QED
  BY <1>1, <1>2, <1>3, <1>4, <1>5, <1>6 DEF Next, Proceed

(* A record that a query has fetched stays the answer while it is held.    *)
LEMMA HeldCurrentStep ==
  ASSUME AnswerInv, [Next]_vars
  PROVE  HeldCurrent'
<1> SUFFICES ASSUME Parses(ledger'), NEW w \in Worker, pc'[w] \in {"has", "read"}
             PROVE  Get(ledger', job'[w].id) = job'[w].rec
  BY DEF HeldCurrent
<1>1. TypeInv /\ ledger \in Files(Record)
  BY DEF AnswerInv, TypeInv, TypeOK
<1>2. /\ Parses(ledger)
      /\ \A id : Get(ledger, id) # None => Get(ledger', id) = Get(ledger, id)
  BY <1>1, AnswersStay
<1>3. CASE pc'[w] = pc[w] /\ job'[w] = job[w]
  <2>1. Get(ledger, job[w].id) = job[w].rec /\ job[w].rec \in Record
    BY <1>1, <1>2, <1>3 DEF AnswerInv, HeldCurrent, TypeInv, JobInv
  <2> QED
    BY <1>2, <1>3, <2>1, SentinelAssumption
<1>4. CASE FetchForVerify(w) \/ FetchForExport(w)
  <2> DEFINE found == Get(ledger, job[w].id)
  <2>1. pc \in [Worker -> Await] /\ job[w] \in Job /\ job \in [Worker -> Job]
    BY <1>1 DEF TypeInv, TypeOK
  <2>2. ~Return(w)
    BY <2>1 DEF Return
  <2>3. ledger' = ledger /\ job' = [job EXCEPT ![w].rec = found]
    BY <1>4, <2>2 DEF FetchForVerify, FetchForExport
  <2>4. job'[w] = [job[w] EXCEPT !.rec = found]
    BY <2>1, <2>3
  <2>5. job'[w].rec = found /\ job'[w].id = job[w].id
    BY <2>1, <2>4 DEF Job
  <2> QED
    BY <2>3, <2>5
<1>5. CASE ~(FetchForVerify(w) \/ FetchForExport(w))
  BY <1>1, <1>3, <1>5, OthersStay DEF TypeInv
<1> QED
  BY <1>4, <1>5

(* A query answers with the record that ledger.get answers at that moment. *)
LEMMA AnsweredStep ==
  ASSUME AnswerInv, [Next]_vars, Parses(ledger), NEW r \in Answered' \ Answered
  PROVE  r \in Record /\ Get(ledger, r.entry.memory_id) = r
<1>1. TypeInv /\ ledger \in Files(Record)
  BY DEF AnswerInv, TypeInv, TypeOK
<1>2. ASSUME NEW w \in Worker, HasContent(w) \/ ReadContent(w)
      PROVE  r \in Record /\ Get(ledger, r.entry.memory_id) = r
  <2>1. r = job[w].rec /\ pc[w] \in {"has", "read"}
    BY <1>2 DEF HasContent, ReadContent, Answered
  <2> QED
    BY <1>1, <2>1 DEF AnswerInv, HeldCurrent, TypeInv, JobInv
<1>3. ASSUME NEW w \in Worker, FetchForVerify(w)
      PROVE  r \in Record /\ Get(ledger, r.entry.memory_id) = r
  <2> DEFINE found == Get(ledger, job[w].id)
  <2>1. r = found /\ found # None
    BY <1>3 DEF FetchForVerify, Answered
  <2>2. found \in Record /\ found.entry.memory_id = job[w].id
    BY <1>1, <2>1, GetFacts
  <2> QED
    BY <2>1, <2>2
<1>4. CASE ~ \E w \in Worker : HasContent(w) \/ ReadContent(w) \/ FetchForVerify(w)
  <2>1. verdicts' = verdicts /\ bundles' = bundles
    BY <1>4 DEF Next, Create, Import, Query, Start, Proceed, PutTruncate, PutWrite,
       LookUp, AppendRecord, FetchForExport, Fail, vars
  <2> QED
    BY <2>1 DEF Answered
<1> QED
  BY <1>2, <1>3, <1>4

LEMMA AnswerInvStep ==
  ASSUME AnswerInv, [Next]_vars
  PROVE  AnswerInv'
<1>1. TypeInv'
  BY TypeInvStep DEF AnswerInv
<1>2. AnswersStable'
  <2> SUFFICES ASSUME Parses(ledger'), NEW r \in Answered'
               PROVE  Get(ledger', r.entry.memory_id) = r
    BY DEF AnswersStable, Answered
  <2>1. /\ Parses(ledger)
        /\ \A id : Get(ledger, id) # None => Get(ledger', id) = Get(ledger, id)
    BY AnswersStay DEF AnswerInv
  <2>2. r \in Record
    BY <1>1 DEF TypeInv, TypeOK, Answered, Bundle
  <2>3. Get(ledger, r.entry.memory_id) = r
    BY <2>1, AnsweredStep DEF AnswerInv, AnswersStable, Answered
  <2> QED
    BY <2>1, <2>2, <2>3, SentinelAssumption
<1> QED
  BY <1>1, <1>2, AckedFoundStep, HeldCurrentStep DEF AnswerInv

LEMMA AnswerInvInit == Init => AnswerInv
<1> SUFFICES ASSUME Init PROVE AnswerInv
  OBVIOUS
<1>1. acked = {} /\ verdicts = {} /\ bundles = {} /\ \A w \in Worker : pc[w] = "idle"
  BY DEF Init
<1> QED
  BY <1>1, TypeInvInit DEF AnswerInv, AckedFound, AnswersStable, HeldCurrent

(* The record verify or export has once answered with stays the record of  *)
(* its id (ledger.get finds the first line, append only adds behind it).   *)
THEOREM LocalCoreAnswersStable == Spec => []AnswersStable
<1>1. AnswerInv => AnswersStable
  BY DEF AnswerInv
<1> QED
  BY <1>1, AnswerInvInit, AnswerInvStep, PTL DEF Spec

-----------------------------------------------------------------------------
(* Soundness of what is recorded, as far as bundles from other nodes are   *)
(* honest.  Sound(r): the entry and the hash of r were derived from its    *)
(* memory object.  Every record on its way into the ledger, in it, or held *)
(* by a query is sound, because create derives the entry and import checks *)
(* the hash; an exported bundle at least keeps the entry.                  *)
Sound(r) ==
  r.entry = EntryOf(r.memory) /\ r.memory.canonical_hash = HashOf(r.memory)

EntryFor(h) == [memory_id |-> h, canonical_hash |-> h, content_cid |-> h[1]]

JobsSound ==
  \A w \in Worker :
    /\ pc[w] \notin {"idle", "fetch"} => Sound(job[w].rec)
    /\ pc[w] = "has" => store[job[w].rec.memory.cid] # "absent"

LedgerSound ==
  \A k \in DOMAIN ledger.lines :
    ledger.lines[k] # Garbled => Sound(ledger.lines[k])

BundlesHonest == \A b \in bundles : b.record.entry = EntryOf(b.record.memory)

AckedDerived == \A e \in acked : e = EntryFor(e.memory_id)

SoundInv ==
  /\ StoreInv
  /\ NoFalseAlarm
  /\ HonestBundles => JobsSound /\ LedgerSound /\ BundlesHonest /\ AckedDerived

(* What ledger.get answers is sound, and its content is stored.            *)
LEMMA GetSound ==
  ASSUME SoundInv, HonestBundles, NEW id, Get(ledger, id) # None
  PROVE  /\ Get(ledger, id) \in Record /\ Sound(Get(ledger, id))
         /\ Get(ledger, id).entry.memory_id = id
         /\ store[Get(ledger, id).memory.cid] # "absent"
<1>1. ledger \in Files(Record)
  BY DEF SoundInv, StoreInv, TypeInv, TypeOK
<1>2. PICK k \in DOMAIN ledger.lines :
        Get(ledger, id) = ledger.lines[k] /\ ledger.lines[k].entry.memory_id = id
  BY <1>1, GetFacts
<1>3. Get(ledger, id) \in Record
  BY <1>1, GetFacts
<1> QED
  BY <1>2, <1>3, SentinelAssumption DEF SoundInv, LedgerSound, StoreInv, ContentBeforeRecord

(* The entry of a sound record is determined by its memory_id.             *)
LEMMA SoundEntry ==
  ASSUME NEW r, Sound(r)
  PROVE  r.entry = EntryFor(r.entry.memory_id)
  BY DEF Sound, EntryFor, EntryOf, HashOf

LEMMA JobsSoundStep ==
  ASSUME SoundInv, HonestBundles, [Next]_vars
  PROVE  JobsSound'
<1> SUFFICES ASSUME NEW w \in Worker
             PROVE  /\ pc'[w] \notin {"idle", "fetch"} => Sound(job'[w].rec)
                    /\ pc'[w] = "has" => store'[job'[w].rec.memory.cid] # "absent"
  BY DEF JobsSound, Sound, EntryOf, HashOf
<1>1. TypeInv /\ TypeOK /\ JobsSound
  BY DEF SoundInv, StoreInv, TypeInv
<1>2. \A b \in Body : store[b] # "absent" => store'[b] # "absent"
  BY <1>1, StoredStays
<1>3. \A r \in Record : r.memory.cid \in Body
  BY DEF Record, Memory
<1>4. CASE pc'[w] = pc[w] /\ job'[w] = job[w]
  <2>1. pc[w] = "has" => job[w].rec \in Record
    BY <1>1 DEF TypeInv, JobInv
  <2> QED
    BY <1>1, <1>2, <1>3, <1>4, <2>1 DEF JobsSound
<1>5. CASE FetchForVerify(w) \/ FetchForExport(w)
  <2> DEFINE found == Get(ledger, job[w].id)
  <2>1. CASE Return(w)
    BY <1>1, <2>1 DEF Return, TypeOK
  <2>2. CASE ~Return(w)
    <3>1. found # None /\ store' = store /\ job' = [job EXCEPT ![w].rec = found]
      BY <1>5, <2>2 DEF FetchForVerify, FetchForExport
    <3>2. job[w] \in Job /\ job \in [Worker -> Job]
      BY <1>1 DEF TypeOK
    <3>3. job'[w].rec = found
      BY <3>1, <3>2 DEF Job
    <3> QED
      BY <3>1, <3>3, GetSound
  <2> QED
    BY <2>1, <2>2
<1>6. CASE ~(FetchForVerify(w) \/ FetchForExport(w)) /\ pc'[w] \notin {"has", "read"}
  <2> SUFFICES ASSUME pc'[w] \notin {"idle", "fetch"} PROVE Sound(job'[w].rec)
    BY <1>6
  <2>1. ASSUME NEW c \in Content, NEW i \in Input, NEW k \in Key, Create(w, c, i, k)
        PROVE  Sound(job'[w].rec)
    <3>1. job'[w].rec = RecordOf(c, i, k)
      BY <1>1, <2>1 DEF Create, Start, TypeOK
    <3> QED
      BY <3>1 DEF RecordOf, Sound, EntryOf, HashOf
  <2>2. ASSUME NEW b \in bundles \cup ForeignBundle, Import(w, b)
        PROVE  Sound(job'[w].rec)
    <3>1. job'[w].rec = b.record /\ Admissible(b)
      BY <1>1, <2>2 DEF Import, Start, TypeOK
    <3>2. b.record.entry = EntryOf(b.record.memory)
      BY DEF SoundInv, BundlesHonest, HonestBundles
    <3> QED
      BY <3>1, <3>2 DEF Sound, Admissible
  <2>3. CASE job'[w] = job[w] /\ pc[w] \notin {"idle", "fetch"}
    BY <1>1, <2>3 DEF JobsSound
  <2>4. CASE \E v \in Worker : \/ PutTruncate(v) \/ PutWrite(v) \/ LookUp(v)
                               \/ AppendRecord(v) \/ HasContent(v) \/ ReadContent(v)
                               \/ Fail(v)
    <3>1. PICK v \in Worker :
            \/ Return(v)
            \/ /\ Goto(v, "write") \/ Goto(v, "lookup") \/ Goto(v, "append")
               /\ pc[v] \notin {"idle", "fetch"}
      BY <2>4 DEF PutTruncate, PutWrite, LookUp, AppendRecord, HasContent, ReadContent,
         Fail
    <3> QED
      BY <1>1, <1>4, <2>3, <3>1 DEF Return, Goto, TypeOK
  <2>5. CASE \E v \in Worker : FetchForVerify(v) \/ FetchForExport(v)
    BY <1>1, <1>4, <1>6, <2>5 DEF FetchForVerify, FetchForExport, Return, TypeOK
  <2>6. ASSUME NEW v \in Worker, NEW op, NEW id, Query(v, op, id)
        PROVE  Sound(job'[w].rec)
    BY <1>1, <1>4, <2>6 DEF Query, Start, TypeOK
  <2>7. ASSUME NEW v \in Worker \ {w}, NEW j, NEW await, Start(v, j, await)
        PROVE  Sound(job'[w].rec)
    BY <1>1, <1>4, <2>7 DEF Start, TypeOK
  <2>8. CASE UNCHANGED vars
    BY <1>4, <2>8 DEF vars
  <2>9. \A v \in Worker :
          /\ \A c, i, k : Create(v, c, i, k) => \E j, await : Start(v, j, await)
          /\ \A b : Import(v, b) => \E j, await : Start(v, j, await)
    BY DEF Create, Import
  <2> QED
    BY <2>1, <2>2, <2>4, <2>5, <2>6, <2>7, <2>8, <2>9 DEF Next, Proceed
<1> QED
  BY <1>1, <1>4, <1>5, <1>6, OthersStay

LEMMA LedgerSoundStep ==
  ASSUME SoundInv, HonestBundles, [Next]_vars
  PROVE  LedgerSound'
<1> SUFFICES ASSUME NEW k \in DOMAIN ledger'.lines, ledger'.lines[k] # Garbled
             PROVE  Sound(ledger'.lines[k])
  BY DEF LedgerSound, Sound, EntryOf, HashOf
<1>1. TypeInv
  BY DEF SoundInv, StoreInv
<1> QED
  BY <1>1, LinesOrigin DEF SoundInv, LedgerSound, JobsSound

(* What create and import acknowledge is the entry of a sound record.      *)
LEMMA AckedDerivedStep ==
  ASSUME SoundInv, HonestBundles, [Next]_vars
  PROVE  AckedDerived'
<1> SUFFICES ASSUME NEW e \in acked' \ acked
             PROVE  e = EntryFor(e.memory_id)
  BY DEF SoundInv, AckedDerived, EntryFor
<1>1. ASSUME NEW w \in Worker, LookUp(w)
      PROVE  e = EntryFor(e.memory_id)
  <2> DEFINE found == Get(ledger, job[w].id)
  <2>1. found # None /\ e = found.entry
    BY <1>1 DEF LookUp
  <2> QED
    BY <2>1, GetSound, SoundEntry
<1>2. ASSUME NEW w \in Worker, AppendRecord(w)
      PROVE  e = EntryFor(e.memory_id)
  <2>1. e = job[w].rec.entry /\ Sound(job[w].rec)
    BY <1>2 DEF AppendRecord, SoundInv, JobsSound
  <2> QED
    BY <2>1, SoundEntry
<1>3. CASE ~ \E w \in Worker : LookUp(w) \/ AppendRecord(w)
  BY <1>3 DEF Next, Create, Import, Query, Start, Proceed, PutTruncate, PutWrite,
     FetchForVerify, HasContent, FetchForExport, ReadContent, Fail, vars
<1> QED
  BY <1>1, <1>2, <1>3

LEMMA BundlesHonestStep ==
  ASSUME SoundInv, HonestBundles, [Next]_vars
  PROVE  BundlesHonest'
<1> SUFFICES ASSUME NEW b \in bundles' \ bundles
             PROVE  b.record.entry = EntryOf(b.record.memory)
  BY DEF SoundInv, BundlesHonest, EntryOf, HashOf
<1>1. ASSUME NEW w \in Worker, ReadContent(w)
      PROVE  b.record.entry = EntryOf(b.record.memory)
  BY <1>1 DEF ReadContent, SoundInv, JobsSound, Sound
<1>2. CASE ~ \E w \in Worker : ReadContent(w)
  BY <1>2 DEF Next, Create, Import, Query, Start, Proceed, PutTruncate, PutWrite,
     LookUp, AppendRecord, FetchForVerify, HasContent, FetchForExport, Fail, vars
<1> QED
  BY <1>1, <1>2

(* A sound record whose content is stored passes every check but possibly  *)
(* that of the signature.                                                  *)
LEMMA NoFalseAlarmStep ==
  ASSUME SoundInv, HonestBundles, [Next]_vars, NEW v \in verdicts' \ verdicts
  PROVE  LET m == v.record.memory IN
         \/ v.code = "ok"
         \/ v.code = "PRODUCER_KEY_MISSING" /\ KeyRef[m.input] = None
         \/ /\ v.code = "SIGNATURE_VERIFICATION_FAILED"
            /\ m.signed # <<HashOf(m), KeyRef[m.input]>>
<1> DEFINE goal == LET m == v.record.memory IN
                   \/ v.code = "ok"
                   \/ v.code = "PRODUCER_KEY_MISSING" /\ KeyRef[m.input] = None
                   \/ /\ v.code = "SIGNATURE_VERIFICATION_FAILED"
                      /\ m.signed # <<HashOf(m), KeyRef[m.input]>>
<1>1. ASSUME NEW w \in Worker, FetchForVerify(w)
      PROVE  goal
  <2> DEFINE found == Get(ledger, job[w].id)
  <2>1. found # None /\ found.entry.canonical_hash # found.memory.canonical_hash
    BY <1>1 DEF FetchForVerify
  <2>2. Sound(found)
    BY <2>1, GetSound
  <2> QED
    BY <2>1, <2>2 DEF Sound, EntryOf
<1>2. ASSUME NEW w \in Worker, HasContent(w)
      PROVE  goal
  <2> DEFINE r == job[w].rec
  <2>1. Sound(r) /\ store[r.memory.cid] # "absent"
    BY <1>2 DEF HasContent, SoundInv, JobsSound
  <2>2. r.entry.content_cid = r.memory.cid
    BY <2>1 DEF Sound, EntryOf
  <2>3. v = [record |-> r, code |-> Verdict(r, TRUE)]
    BY <1>2, <2>1, <2>2 DEF HasContent
  <2> QED
    BY <2>1, <2>2, <2>3 DEF Verdict, Sound
<1>3. CASE ~ \E w \in Worker : FetchForVerify(w) \/ HasContent(w)
  BY <1>3 DEF Next, Create, Import, Query, Start, Proceed, PutTruncate, PutWrite,
     LookUp, AppendRecord, FetchForExport, ReadContent, Fail, vars
<1> QED
  BY <1>1, <1>2, <1>3

LEMMA SoundInvStep ==
  ASSUME SoundInv, [Next]_vars
  PROVE  SoundInv'
<1>1. StoreInv'
  BY StoreInvStep DEF SoundInv
<1>2. NoFalseAlarm'
  BY NoFalseAlarmStep DEF SoundInv, NoFalseAlarm, HonestBundles, EntryOf, HashOf
<1> QED
  BY <1>1, <1>2, JobsSoundStep, LedgerSoundStep, BundlesHonestStep, AckedDerivedStep
     DEF SoundInv, HonestBundles, EntryOf, HashOf

LEMMA SoundInvInit == Init => SoundInv
<1> SUFFICES ASSUME Init PROVE SoundInv
  OBVIOUS
<1>1. StoreInv
  BY TypeInvInit DEF Init, StoreInv, ContentBeforeRecord, EmptyFile
<1> QED
  BY <1>1 DEF Init, SoundInv, NoFalseAlarm, JobsSound, LedgerSound, BundlesHonest,
     AckedDerived, EmptyFile

(* Verify reports nothing missing or mismatched that was recorded here or  *)
(* came in honest bundles, and refuses a signature only where the key that *)
(* producer.key_ref names did not sign.                                    *)
THEOREM LocalCoreNoFalseAlarm == Spec => []NoFalseAlarm
<1>1. SoundInv => NoFalseAlarm
  BY DEF SoundInv
<1> QED
  BY <1>1, SoundInvInit, SoundInvStep, PTL DEF Spec

(* Every memory that a create or an import has been answered for is found  *)
(* by its id while the ledger parses; with the very entry that was         *)
(* answered, if bundles are honest.                                        *)
THEOREM LocalCoreAckedReadable == Spec => []AckedReadable
<1>1. AnswerInv /\ SoundInv => AckedReadable
  <2> SUFFICES ASSUME AnswerInv, SoundInv, Parses(ledger), NEW e \in acked
               PROVE  /\ Get(ledger, e.memory_id) # None
                      /\ HonestBundles => Get(ledger, e.memory_id).entry = e
    BY DEF AckedReadable
  <2>1. Get(ledger, e.memory_id) # None
    BY DEF AnswerInv, AckedFound
  <2>2. ASSUME HonestBundles
        PROVE  Get(ledger, e.memory_id).entry = e
    <3>1. e = EntryFor(e.memory_id)
      BY <2>2 DEF SoundInv, AckedDerived
    <3> QED
      BY <2>1, <2>2, <3>1, GetSound, SoundEntry
  <2> QED
    BY <2>1, <2>2
<1> QED
  BY <1>1, AnswerInvInit, AnswerInvStep, SoundInvInit, SoundInvStep, PTL DEF Spec

-----------------------------------------------------------------------------
(* Damage.  The strengthening of DamageNeedsFailure is its type only.      *)
DamageInv == TypeInv /\ DamageNeedsFailure

LEMMA LedgerUndamaged ==
  ASSUME DamageInv, [Next]_vars, failures' = 0
  PROVE  Parses(ledger') /\ ~ledger'.open
<1>1. TypeInv /\ ledger \in Files(Record) /\ failures \in Nat
  BY BoundAssumption DEF DamageInv, TypeInv, TypeOK
<1>2. CASE ledger' = ledger /\ failures' = failures
  BY <1>2 DEF DamageInv, DamageNeedsFailure
<1>3. ASSUME NEW w \in Worker, AppendRecord(w)
      PROVE  Parses(ledger') /\ ~ledger'.open
  <2>1. Parses(ledger) /\ ~ledger.open
    BY <1>3 DEF AppendRecord, DamageInv, DamageNeedsFailure
  <2>2. job[w].rec \in Record /\ job[w].rec # Garbled
    BY <1>1, <1>3, SentinelAssumption DEF AppendRecord, TypeInv, JobInv
  <2>3. ledger' = [lines |-> Append(ledger.lines, job[w].rec), open |-> FALSE]
    BY <1>3, <2>1 DEF AppendRecord, AppendLine
  <2>4. ledger.lines \in Seq(Record)
    BY <1>1, <2>1, ListedType
  <2> QED
    BY <2>1, <2>2, <2>3, <2>4, AppendFacts DEF Parses
<1>4. ASSUME NEW w \in Worker, Fail(w)
      PROVE  FALSE
  BY <1>1, <1>4 DEF Fail
<1>5. CASE ~ \E w \in Worker : AppendRecord(w) \/ Fail(w)
  <2>1. ledger' = ledger /\ failures' = failures
    BY <1>5 DEF Next, Create, Import, Query, Start, Proceed, PutTruncate, PutWrite,
       LookUp, FetchForVerify, HasContent, FetchForExport, ReadContent, vars
  <2> QED
    BY <1>2, <2>1
<1> QED
  BY <1>3, <1>4, <1>5

(* A worker about to write stays there until it writes or fails.           *)
LEMMA StandsAtWrite ==
  ASSUME TypeOK, [Next]_vars, NEW w \in Worker, pc[w] = "write",
         ~PutWrite(w), ~Fail(w)
  PROVE  pc'[w] = pc[w] /\ job'[w] = job[w]
<1> USE DEF TypeOK
<1>1. CASE UNCHANGED vars
  BY <1>1 DEF vars
<1>2. ASSUME NEW v \in Worker, NEW j, NEW await, Start(v, j, await)
      PROVE  pc'[w] = pc[w] /\ job'[w] = job[w]
  BY <1>2 DEF Start
<1>3. ASSUME NEW v \in Worker,
             \/ \E c \in Content, i \in Input, k \in Key : Create(v, c, i, k)
             \/ \E b \in bundles \cup ForeignBundle : Import(v, b)
             \/ \E op \in {"verify", "export"}, id \in KnownIds : Query(v, op, id)
      PROVE  \E j, await : Start(v, j, await)
  BY <1>3 DEF Create, Import, Query
<1>4. ASSUME NEW v \in Worker, v # w,
             Return(v) \/ Goto(v, "write") \/ Goto(v, "lookup") \/ Goto(v, "append")
      PROVE  pc'[w] = pc[w] /\ job'[w] = job[w]
  BY <1>4 DEF Return, Goto
<1>5. ASSUME NEW v \in Worker, FetchForVerify(v) \/ FetchForExport(v)
      PROVE  pc'[w] = pc[w] /\ job'[w] = job[w]
  BY <1>5 DEF FetchForVerify, FetchForExport, Return
<1>6. ASSUME NEW v \in Worker,
             \/ PutTruncate(v) \/ PutWrite(v) \/ LookUp(v) \/ AppendRecord(v)
             \/ HasContent(v) \/ ReadContent(v) \/ Fail(v)
      PROVE  /\ v # w
             /\ Return(v) \/ Goto(v, "write") \/ Goto(v, "lookup") \/ Goto(v, "append")
  BY <1>6 DEF PutTruncate, PutWrite, LookUp, AppendRecord, HasContent, ReadContent, Fail
<1> QED
  BY <1>1, <1>2, <1>3, <1>4, <1>5, <1>6 DEF Next, Proceed

(* Without failures a partial content file has a writer, and goes on       *)
(* having one until it is whole.                                           *)
LEMMA PartialHasWriter ==
  ASSUME DamageInv, [Next]_vars, failures' = 0, NEW b \in Body, store'[b] = "partial"
  PROVE  \E w \in Worker : pc'[w] = "write" /\ job'[w].body = b
<1>1. TypeInv /\ TypeOK /\ failures \in Nat
  BY BoundAssumption DEF DamageInv, TypeInv, TypeOK
<1>2. ASSUME NEW w \in Worker, Fail(w)
      PROVE  FALSE
  BY <1>1, <1>2 DEF Fail
<1>3. ASSUME NEW w \in Worker, PutTruncate(w)
      PROVE  \E v \in Worker : pc'[v] = "write" /\ job'[v].body = b
  <2>1. pc'[w] = "write" /\ job' = job
    BY <1>1, <1>3 DEF PutTruncate, Goto, TypeOK
  <2>2. CASE job[w].body = b
    BY <2>1, <2>2
  <2>3. CASE job[w].body # b
    <3>1. store[b] = "partial" /\ failures = 0
      BY <1>1, <1>3, <2>3 DEF PutTruncate, TypeOK
    <3>2. PICK v \in Worker : pc[v] = "write" /\ job[v].body = b
      BY <3>1 DEF DamageInv, DamageNeedsFailure
    <3> QED
      BY <1>1, <1>3, <2>1, <3>2 DEF PutTruncate, Goto, TypeOK
  <2> QED
    BY <2>2, <2>3
<1>4. CASE ~ \E w \in Worker : PutTruncate(w) \/ Fail(w)
  <2>1. /\ failures' = failures
        /\ \/ store' = store
           \/ \E w \in Worker :
                PutWrite(w) /\ store' = [store EXCEPT ![job[w].body] = "whole"]
    BY <1>4 DEF Next, Create, Import, Query, Start, Proceed, PutWrite, LookUp,
       AppendRecord, FetchForVerify, HasContent, FetchForExport, ReadContent, vars
  <2>2. store[b] = "partial"
    BY <1>1, <2>1 DEF TypeOK
  <2>3. PICK w \in Worker : pc[w] = "write" /\ job[w].body = b
    BY <2>1, <2>2 DEF DamageInv, DamageNeedsFailure
  <2>4. ~PutWrite(w)
    BY <1>1, <2>3 DEF PutWrite, TypeOK
  <2>5. pc'[w] = pc[w] /\ job'[w] = job[w]
    BY <1>1, <1>4, <2>3, <2>4, StandsAtWrite
  <2> QED
    BY <2>3, <2>5
<1> QED
  BY <1>2, <1>3, <1>4

(* As long as no write has failed, the ledger parses and a content file is *)
(* partial only while a request is writing it.                             *)
THEOREM LocalCoreDamageNeedsFailure == Spec => []DamageNeedsFailure
<1>1. Init => DamageInv
  BY TypeInvInit DEF Init, DamageInv, DamageNeedsFailure, EmptyFile, Parses
<1>2. DamageInv /\ [Next]_vars => DamageInv'
  BY TypeInvStep, LedgerUndamaged, PartialHasWriter DEF DamageInv, DamageNeedsFailure
<1>3. DamageInv => DamageNeedsFailure
  BY DEF DamageInv
<1> QED
  BY <1>1, <1>2, <1>3, PTL DEF Spec

-----------------------------------------------------------------------------
(* LocalCore implements the write-once archive.  A step that touches the   *)
(* ledger maps to Write when its record is the first of its id, to Lose    *)
(* when it spoils the ledger, and otherwise to Promise or a stutter.       *)
Known == [id \in Hash |-> Get(ledger, id)]
Promised == {e.memory_id : e \in acked}

LEMMA UnreadableKnowsNothing ==
  ASSUME NEW f \in Files(Record), ~Parses(f)
  PROVE  \A id : Get(f, id) = None
  BY GetFacts

(* What a step that writes r to the ledger does to the answers.            *)
LEMMA AppendMaps ==
  ASSUME NEW f \in Files(Record), NEW r \in Record,
         NEW g \in {AppendLine(f, r)} \cup CutAppend(f, r)
  PROVE  LET id == r.entry.memory_id
             K  == [h \in Hash |-> Get(f, h)]
             L  == [h \in Hash |-> Get(g, h)]
         IN  /\ id \in Hash
             /\ \/ L = K /\ Parses(g) = Parses(f)
                \/ /\ Parses(f) /\ Parses(g)
                   /\ K[id] = None
                   /\ L[id] \in Record
                   /\ L = [K EXCEPT ![id] = L[id]]
                \/ Parses(f) /\ ~Parses(g) /\ L = [h \in Hash |-> None]
<1> DEFINE id == r.entry.memory_id
           K  == [h \in Hash |-> Get(f, h)]
           L  == [h \in Hash |-> Get(g, h)]
<1>1. id \in Hash
  BY DEF Record, Entry
<1>2. g \in Files(Record)
  BY AppendLineType, CutAppendType
<1>3. CASE ~Parses(g)
  <2>1. L = [h \in Hash |-> None]
    BY <1>2, <1>3, UnreadableKnowsNothing
  <2>2. ~Parses(f) => K = [h \in Hash |-> None]
    BY UnreadableKnowsNothing
  <2>3. CASE Parses(f)
    BY <1>1, <1>3, <2>1, <2>3
  <2>4. CASE ~Parses(f)
    <3>1. L = K
      BY <2>1, <2>2, <2>4
    <3>2. Parses(g) = Parses(f)
      BY <1>3, <2>4 DEF Parses
    <3> QED
      BY <1>1, <3>1, <3>2
  <2> QED
    BY <2>3, <2>4
<1>4. CASE Parses(g)
  <2>1. Parses(f) /\ (g.lines = f.lines \/ g.lines = Append(f.lines, r))
    BY <1>4, ParsedAppend
  <2>2. CASE g.lines = f.lines
    <3>1. \A h : Get(g, h) = Get(f, h)
      BY <1>4, <2>1, <2>2 DEF Get, Listed
    <3> QED
      BY <1>1, <1>4, <2>1, <3>1
  <2>3. CASE g.lines = Append(f.lines, r)
    <3>1. \A h : Get(g, h) = IF Get(f, h) = None /\ id = h THEN r ELSE Get(f, h)
      BY <1>2, <2>1, <2>3, GetAfterAppend
    <3>2. CASE Get(f, id) = None
      <4>1. L[id] = r /\ K[id] = None
        BY <1>1, <3>1, <3>2
      <4>2. L = [K EXCEPT ![id] = L[id]]
        BY <1>1, <3>1, <3>2
      <4> QED
        BY <1>1, <1>4, <2>1, <4>1, <4>2
    <3>3. CASE Get(f, id) # None
      <4>1. L = K
        BY <3>1, <3>3
      <4> QED
        BY <1>1, <1>4, <2>1, <4>1
    <3> QED
      BY <3>2, <3>3
  <2> QED
    BY <2>1, <2>2, <2>3
<1> QED
  BY <1>3, <1>4

LEMMA ArchiveStep ==
  ASSUME AnswerInv, DamageInv, [Next]_vars
  PROVE  [A!Next]_(A!vars)
<1> DEFINE Lost == ~Parses(ledger)
<1>1. TypeInv /\ ledger \in Files(Record) /\ failures \in 0 .. MaxFailures
  BY DEF AnswerInv, TypeInv, TypeOK
<1>2. CASE ledger' = ledger /\ acked' = acked
  BY <1>2 DEF A!vars
<1>3. ASSUME NEW w \in Worker, LookUp(w), acked' # acked
      PROVE  A!Next
  <2> DEFINE found == Get(ledger, job[w].id)
  <2>1. found # None /\ acked' = acked \cup {found.entry} /\ ledger' = ledger
    BY <1>3 DEF LookUp
  <2>2. found.entry.memory_id = job[w].id /\ found \in Record
    BY <1>1, <2>1, GetFacts
  <2>3. PICK id \in Hash : id = job[w].id
    BY <2>2 DEF Record, Entry
  <2>4. Promised' = Promised \cup {id}
    BY <2>1, <2>2, <2>3 DEF Promised
  <2>5. A!Promise(id)
    BY <2>1, <2>3, <2>4 DEF A!Promise, Promised
  <2> QED
    BY <2>5 DEF A!Next
<1>4. ASSUME NEW w \in Worker, AppendRecord(w) \/ Fail(w), ledger' # ledger \/ acked' # acked
      PROVE  [A!Next]_(A!vars)
  <2> DEFINE r == job[w].rec
  <2>1. /\ r \in Record
        /\ ledger' \in {AppendLine(ledger, r)} \cup CutAppend(ledger, r)
        /\ \/ Fail(w) /\ acked' = acked
           \/ AppendRecord(w) /\ acked' = acked \cup {r.entry}
    BY <1>1, <1>4 DEF AppendRecord, Fail, TypeInv, JobInv
  <2> PICK id \in Hash : id = r.entry.memory_id
    BY <2>1 DEF Record, Entry
  <2>2. Promised' = Promised \/ Promised' = Promised \cup {id}
    BY <2>1 DEF Promised
  <2>3. Promised' # Promised => ledger' = AppendLine(ledger, r)
    BY <2>1 DEF AppendRecord, Promised
  <2>4. \/ Known' = Known /\ Parses(ledger') = Parses(ledger)
        \/ /\ Parses(ledger) /\ Parses(ledger')
           /\ Known[id] = None
           /\ Known'[id] \in Record
           /\ Known' = [Known EXCEPT ![id] = Known'[id]]
        \/ Parses(ledger) /\ ~Parses(ledger') /\ Known' = [h \in Hash |-> None]
    BY <1>1, <2>1, AppendMaps DEF Known
  <2>5. CASE Known' = Known /\ Parses(ledger') = Parses(ledger)
    <3>1. CASE Promised' = Promised
      BY <2>5, <3>1 DEF A!vars, Known, Promised
    <3>2. CASE Promised' # Promised
      <4>1. Promised' = Promised \cup {id}
        BY <2>2, <3>2
      <4>2. Lost \/ Known[id] # None
        <5>1. SUFFICES ASSUME Parses(ledger) PROVE Get(ledger, id) # None
          BY DEF Known
        <5>2. ledger'.lines = Append(ledger.lines, r) /\ ledger' \in Files(Record)
          BY <1>1, <2>1, <2>3, <2>5, <3>2, <5>1, ParsedAppendLine, AppendLineType
        <5>3. Get(ledger', id) # None
          BY <1>1, <2>1, <5>1, <5>2, GetAfterAppend, SentinelAssumption
        <5>4. Get(ledger', id) = Get(ledger, id)
          BY <2>4, <2>5 DEF Known
        <5> QED
          BY <5>3, <5>4
      <4>3. A!Promise(id)
        BY <2>5, <4>1, <4>2 DEF A!Promise, Known, Promised
      <4> QED
        BY <4>3 DEF A!Next
    <3> QED
      BY <3>1, <3>2
  <2>6. CASE /\ Parses(ledger) /\ Parses(ledger')
             /\ Known[id] = None
             /\ Known'[id] \in Record
             /\ Known' = [Known EXCEPT ![id] = Known'[id]]
    <3>1. A!Write(id)
      BY <2>2, <2>6 DEF A!Write, Known, Promised
    <3> QED
      BY <3>1 DEF A!Next
  <2>7. CASE Parses(ledger) /\ ~Parses(ledger') /\ Known' = [h \in Hash |-> None]
    <3>1. MaxFailures > 0
      <4>1. failures' # 0
        BY <2>7, LedgerUndamaged
      <4>2. failures' \in 0 .. MaxFailures
        BY TypeInvStep, <1>1 DEF TypeInv, TypeOK
      <4> QED
        BY <4>1, <4>2, BoundAssumption
    <3>2. A!Lose
      BY <2>2, <2>4, <2>7, <3>1 DEF A!Lose, Known, Promised
    <3> QED
      BY <3>2 DEF A!Next
  <2> QED
    BY <2>4, <2>5, <2>6, <2>7
<1>5. CASE ~ \E w \in Worker : LookUp(w) \/ AppendRecord(w) \/ Fail(w)
  <2>1. ledger' = ledger /\ acked' = acked
    BY <1>5 DEF Next, Create, Import, Query, Start, Proceed, PutTruncate, PutWrite,
       FetchForVerify, HasContent, FetchForExport, ReadContent, vars
  <2> QED
    BY <1>2, <2>1
<1>6. ASSUME NEW w \in Worker, LookUp(w), acked' = acked
      PROVE  ledger' = ledger
  BY <1>6 DEF LookUp
<1> QED
  BY <1>2, <1>3, <1>4, <1>5, <1>6

(* However requests interleave and die, readers see a write-once archive:  *)
(* the first record of an id stays, acknowledged ids are known, and unless *)
(* a write fails nothing is lost.                                          *)
THEOREM LocalCoreImplementsArchive == Spec => ImplementsArchive
<1>1. Init => A!Init
  <2> SUFFICES ASSUME Init PROVE A!Init
    OBVIOUS
  <2>1. ledger = EmptyFile /\ acked = {}
    BY DEF Init
  <2>2. Parses(ledger) /\ \A id : Get(ledger, id) = None
    BY <2>1 DEF EmptyFile, Parses, Get, Listed, LinesOf
  <2> QED
    BY <2>1, <2>2 DEF A!Init
<1>2. Init => DamageInv
  BY TypeInvInit DEF Init, DamageInv, DamageNeedsFailure, EmptyFile, Parses
<1>3. DamageInv /\ [Next]_vars => DamageInv'
  BY TypeInvStep, LedgerUndamaged, PartialHasWriter DEF DamageInv, DamageNeedsFailure
<1> QED
  BY <1>1, <1>2, <1>3, AnswerInvInit, AnswerInvStep, ArchiveStep, PTL
     DEF Spec, ImplementsArchive, A!Spec

=============================================================================
