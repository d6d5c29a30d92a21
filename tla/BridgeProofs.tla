---------------------------- MODULE BridgeProofs ----------------------------
(* Theorems about Bridge for every number of relayers, mirror accounts,    *)
(* anchors, blocks and crashes.                                            *)
EXTENDS Bridge, JsonlFileProofs, FiniteSetTheorems

RP == INSTANCE RelayProofs WITH source <- [lines |-> <<>>, open |-> FALSE], MaxSource <- 0

USE EnvelopeAssumption, BoundAssumption

-----------------------------------------------------------------------------
(* The theorems about Relay are about the relay of Bridge.                 *)
LEMMA SameType == RP!TypeOK <=> R!TypeOK
  BY DEF RP!TypeOK, R!TypeOK, RP!Checkpoints, R!Checkpoints, RP!Call, R!Call,
         RP!Files, R!Files

LEMMA SameStart ==
  ASSUME NEW r, NEW s
  PROVE  R!Start(r, s) => RP!Start(r, s)
  BY DEF RP!Start, R!Start, RP!Goto, R!Goto

LEMMA SameRun ==
  ASSUME NEW r
  PROVE  R!Proceed(r) \/ R!Crash(r) => RP!Proceed(r) \/ RP!Crash(r)
<1>1. R!Finish(r) => RP!Finish(r)
  BY DEF RP!Finish, R!Finish, RP!Exit, R!Exit, RP!Goto, R!Goto
<1>2. R!LoadCheckpoint(r) => RP!LoadCheckpoint(r)
  BY DEF RP!LoadCheckpoint, R!LoadCheckpoint, RP!Exit, R!Exit, RP!Goto, R!Goto,
         RP!Advance, R!Advance, RP!CurrentId, R!CurrentId, RP!Current, R!Current
<1>3. R!WriteRecord(r) => RP!WriteRecord(r)
  BY DEF RP!WriteRecord, R!WriteRecord, RP!Goto, R!Goto, RP!AppendOpen, R!AppendOpen,
         RP!AppendLine, R!AppendLine, RP!GlueToLast, R!GlueToLast,
         RP!CurrentId, R!CurrentId, RP!Current, R!Current
<1>4. R!WriteNewline(r) => RP!WriteNewline(r)
  BY DEF RP!WriteNewline, R!WriteNewline, RP!Goto, R!Goto
<1>5. R!TruncateCheckpoint(r) => RP!TruncateCheckpoint(r)
  BY DEF RP!TruncateCheckpoint, R!TruncateCheckpoint, RP!Goto, R!Goto,
         RP!Unreadable, R!Unreadable
<1>6. R!SaveCheckpoint(r) => RP!SaveCheckpoint(r)
  BY DEF RP!SaveCheckpoint, R!SaveCheckpoint, RP!Goto, R!Goto, RP!Saved, R!Saved,
         RP!Unreadable, R!Unreadable, RP!Advance, R!Advance,
         RP!CurrentId, R!CurrentId, RP!Current, R!Current,
         RP!Cardinality, R!Cardinality
<1>7. R!Crash(r) => RP!Crash(r)
  BY DEF RP!Crash, R!Crash, RP!Exit, R!Exit, RP!Goto, R!Goto,
         RP!Unreadable, R!Unreadable, RP!CutAppend, R!CutAppend,
         RP!AppendOpen, R!AppendOpen, RP!AppendLine, R!AppendLine,
         RP!GlueToLast, R!GlueToLast, RP!Current, R!Current
<1> QED
  BY <1>1, <1>2, <1>3, <1>4, <1>5, <1>6, <1>7 DEF RP!Proceed, R!Proceed

(* What a step of a running relay does to its batch and to the sink.       *)
LEMMA RunEffect ==
  ASSUME R!TypeOK, NEW r \in Relayer, R!Proceed(r) \/ R!Crash(r)
  PROVE  /\ batch' = batch \/ batch' = [batch EXCEPT ![r] = <<>>]
         /\ \/ sink'.lines = sink.lines
            \/ sink' = AppendOpen(sink, Garbled)
            \/ /\ cursor[r] \in DOMAIN batch[r]
               /\ sink' = AppendOpen(sink, batch[r][cursor[r]])
<1>1. pc[r] \notin {"idle", "load"} => cursor[r] \in DOMAIN batch[r]
  BY DEF R!TypeOK
<1>2. sink \in [lines : Seq(Envelope \cup {Garbled}), open : BOOLEAN]
  BY DEF R!TypeOK, R!Files
<1>3. \A x : R!AppendOpen(sink, x) = AppendOpen(sink, x)
  BY DEF R!AppendOpen, AppendOpen, R!AppendLine, AppendLine, R!GlueToLast, GlueToLast
<1>4. CASE R!Finish(r)
  BY <1>4 DEF R!Finish, R!Exit
<1>5. CASE R!LoadCheckpoint(r)
  BY <1>5 DEF R!LoadCheckpoint, R!Exit, R!Advance
<1>6. CASE R!WriteRecord(r)
  BY <1>1, <1>3, <1>6 DEF R!WriteRecord, R!Current
<1>7. CASE R!WriteNewline(r)
  <2>1. sink' = [sink EXCEPT !.open = FALSE] /\ batch' = batch
    BY <1>7 DEF R!WriteNewline
  <2> QED
    BY <1>2, <2>1
<1>8. CASE R!TruncateCheckpoint(r)
  BY <1>8 DEF R!TruncateCheckpoint
<1>9. CASE R!SaveCheckpoint(r)
  BY <1>9 DEF R!SaveCheckpoint, R!Advance
<1>10. CASE R!Crash(r)
  <2>1. batch' = [batch EXCEPT ![r] = <<>>]
    BY <1>10 DEF R!Crash, R!Exit
  <2>2. CASE pc[r] = "write"
    <3>1. sink' \in R!CutAppend(sink, R!Current(r))
      BY <1>10, <2>2 DEF R!Crash
    <3> QED
      BY <1>1, <1>3, <2>1, <2>2, <3>1 DEF R!CutAppend, R!Current
  <2>3. CASE pc[r] # "write"
    BY <1>10, <2>1, <2>3 DEF R!Crash
  <2> QED
    BY <2>2, <2>3
<1> QED
  BY <1>4, <1>5, <1>6, <1>7, <1>8, <1>9, <1>10 DEF R!Proceed

(* A line of the sink after an append was there, is garbled, or is new.    *)
LEMMA AppendOpenLines ==
  ASSUME NEW f \in Files(Envelope), NEW x \in Envelope \cup {Garbled},
         NEW k \in DOMAIN AppendOpen(f, x).lines
  PROVE  \/ AppendOpen(f, x).lines[k] \in {Garbled, x}
         \/ k \in DOMAIN f.lines /\ AppendOpen(f, x).lines[k] = f.lines[k]
<1>1. f.lines \in Seq(Envelope \cup {Garbled})
  BY DEF Files
<1>2. CASE f.open
  <2>1. AppendOpen(f, x).lines = GlueToLast(f)
    BY <1>2 DEF AppendOpen, AppendLine
  <2>2. /\ GlueToLast(f) \in Seq(Envelope \cup {Garbled})
        /\ Len(GlueToLast(f)) = Len(f.lines)
        /\ \A j \in 1 .. Len(f.lines) :
             GlueToLast(f)[j] = IF j = Len(f.lines) THEN Garbled ELSE f.lines[j]
    BY GlueFacts
  <2>3. k \in 1 .. Len(f.lines)
    BY <2>1, <2>2
  <2> QED
    BY <1>1, <2>1, <2>2, <2>3
<1>3. CASE ~f.open
  <2>1. AppendOpen(f, x).lines = Append(f.lines, x)
    BY <1>3 DEF AppendOpen, AppendLine
  <2>2. /\ DOMAIN Append(f.lines, x) = DOMAIN f.lines \cup {Len(f.lines) + 1}
        /\ Append(f.lines, x)[Len(f.lines) + 1] = x
        /\ \A j \in DOMAIN f.lines : Append(f.lines, x)[j] = f.lines[j]
    BY <1>1, AppendFacts
  <2> QED
    BY <2>1, <2>2
<1> QED
  BY <1>2, <1>3

-----------------------------------------------------------------------------
(* Why the poll gives the relay what the registry says: each finalized     *)
(* block holds its events' anchors, an anchor goes by its own id, and what *)
(* is registered stays as it is.                                           *)
Registry == UNION {[S -> Envelope] : S \in SUBSET MemoryId}
Block == [events : Seq(Envelope), anchors : Registry]

ChainInv ==
  /\ blocks \in Seq(Block)
  /\ \A id \in Registered : IdOf[anchors[id]] = id
  /\ \A k \in DOMAIN building : IdOf[building[k]] \in Registered
  /\ \A b \in DOMAIN blocks :
       /\ \A k \in DOMAIN blocks[b].events :
            IdOf[blocks[b].events[k]] \in DOMAIN blocks[b].anchors
       /\ \A id \in DOMAIN blocks[b].anchors :
            id \in Registered /\ blocks[b].anchors[id] = anchors[id]

TypeInv == TypeOK /\ ChainInv

(* The batch of a block: one envelope per event, all as registered.        *)
LEMMA BatchFacts ==
  ASSUME TypeInv, NEW b \in DOMAIN blocks
  PROVE  /\ BatchOf(b) \in Seq(Envelope)
         /\ \A k \in DOMAIN BatchOf(b) : Holds(BatchOf(b)[k])
<1>1. blocks[b] \in Block
  BY DEF TypeInv, ChainInv
<1>2. blocks[b].events \in Seq(Envelope)
  BY <1>1 DEF Block
<1>3. ASSUME NEW k \in DOMAIN blocks[b].events
      PROVE  /\ BatchOf(b)[k] \in Envelope
             /\ Holds(BatchOf(b)[k])
  <2> DEFINE id == IdOf[blocks[b].events[k]]
  <2>1. id \in DOMAIN blocks[b].anchors
    BY DEF TypeInv, ChainInv
  <2>2. id \in Registered /\ blocks[b].anchors[id] = anchors[id]
    BY <2>1 DEF TypeInv, ChainInv
  <2>3. BatchOf(b)[k] = anchors[id]
    BY <2>2 DEF BatchOf
  <2>4. anchors[id] \in Envelope /\ IdOf[anchors[id]] = id
    BY <2>2 DEF TypeInv, TypeOK, ChainInv
  <2> QED
    BY <2>2, <2>3, <2>4 DEF Holds
<1>4. DOMAIN BatchOf(b) = 1 .. Len(blocks[b].events)
  BY <1>2 DEF BatchOf
<1>5. DOMAIN blocks[b].events = 1 .. Len(blocks[b].events) /\ Len(blocks[b].events) \in Nat
  BY <1>2
<1>6. BatchOf(b) \in [1 .. Len(blocks[b].events) -> Envelope]
  BY <1>3, <1>4, <1>5 DEF BatchOf
<1> QED
  BY <1>3, <1>4, <1>5, <1>6

LEMMA LookedAt ==
  ASSUME TypeInv, NEW r \in Relayer, Looks(r)
  PROVE  poll[r] \in DOMAIN blocks
  BY DEF TypeInv, TypeOK, ChainInv, Looks

(* The relay keeps its types in every step of Bridge.                      *)
LEMMA RelayTypeKept ==
  ASSUME R!TypeOK, UNCHANGED relay
  PROVE  R!TypeOK'
  BY DEF relay, R!TypeOK

LEMMA RelayTypeStep ==
  ASSUME TypeInv, [Next]_vars
  PROVE  R!TypeOK'
<1>1. R!TypeOK
  BY DEF TypeInv, TypeOK
<1>2. ASSUME NEW r \in Relayer, Take(r)
      PROVE  R!TypeOK'
  <2>1. BatchOf(poll[r]) \in Seq(Envelope)
    BY <1>2, BatchFacts, LookedAt DEF Take
  <2>2. RP!Start(r, BatchOf(poll[r]))
    BY <1>2, SameStart DEF Take
  <2>3. RP!TypeOK'
    BY <1>1, <2>1, <2>2, SameType, RP!StartType
  <2> QED
    BY <2>3, SameType, PTL
<1>3. ASSUME NEW r \in Relayer, Relaying(r)
      PROVE  R!TypeOK'
  <2>1. RP!TypeOK'
    BY <1>1, <1>3, SameType, SameRun, RP!RunType DEF Relaying
  <2> QED
    BY <2>1, SameType, PTL
<1>4. ASSUME NEW r \in Relayer, Interrupt(r)
      PROVE  R!TypeOK'
  BY <1>1, <1>4 DEF Interrupt, R!TypeOK
<1>5. CASE UNCHANGED relay
  BY <1>1, <1>5, RelayTypeKept
<1>6. ASSUME Next, ~UNCHANGED relay
      PROVE  \E r \in Relayer : Take(r) \/ Relaying(r) \/ Interrupt(r)
  BY <1>6 DEF Next, Register, Seal, Subscribe, Pass, GiveUp, Prepare,
              SetConsumptionStatus, SkipGarbled, Send
<1> QED
  BY <1>2, <1>3, <1>4, <1>5, <1>6 DEF vars

(* What is registered stays registered, as it is.                          *)
LEMMA HoldsStep ==
  ASSUME [Next]_vars, NEW e, Holds(e)
  PROVE  IdOf[e] \in Registered' /\ anchors'[IdOf[e]] = e
<1> USE DEF Holds, Registered
<1>1. ASSUME NEW d \in Envelope, Register(d)
      PROVE  IdOf[e] \in Registered' /\ anchors'[IdOf[e]] = e
  BY <1>1 DEF Register, Insertable
<1>2. ASSUME Next, anchors' # anchors
      PROVE  \E d \in Envelope : Register(d)
  BY <1>2 DEF Next, Seal, Subscribe, Pass, GiveUp, Take, Interrupt, Relaying, Prepare,
              SetConsumptionStatus, SkipGarbled, Send, chain
<1> QED
  BY <1>1, <1>2 DEF vars, chain

LEMMA ChainStep ==
  ASSUME TypeInv, [Next]_vars
  PROVE  ChainInv'
<1> USE DEF Registered
<1>1. ASSUME NEW e \in Envelope, Register(e)
      PROVE  ChainInv'
  <2>1. /\ IdOf[e] \notin DOMAIN anchors
        /\ anchors' = [id \in DOMAIN anchors \cup {IdOf[e]} |->
                         IF id = IdOf[e] THEN e ELSE anchors[id]]
        /\ building' = Append(building, e)
        /\ blocks' = blocks
    BY <1>1 DEF Register, Insertable
  <2>2. /\ \A id \in DOMAIN anchors : id \in DOMAIN anchors' /\ anchors'[id] = anchors[id]
        /\ \A id \in DOMAIN anchors' : IdOf[anchors'[id]] = id
    BY <2>1 DEF TypeInv, ChainInv
  <2>3. \A k \in DOMAIN building' : IdOf[building'[k]] \in DOMAIN anchors'
    <3>1. /\ DOMAIN building' = DOMAIN building \cup {Len(building) + 1}
          /\ building'[Len(building) + 1] = e
          /\ \A k \in DOMAIN building : building'[k] = building[k]
      BY <2>1, AppendFacts DEF TypeInv, TypeOK
    <3> QED
      BY <2>1, <2>2, <3>1 DEF TypeInv, ChainInv
  <2> QED
    BY <2>1, <2>2, <2>3 DEF TypeInv, ChainInv
<1>2. CASE Seal
  <2> DEFINE new == [events |-> building, anchors |-> anchors]
  <2>1. blocks' = Append(blocks, new) /\ building' = <<>> /\ anchors' = anchors
    BY <1>2 DEF Seal
  <2>2. new \in Block
    BY DEF TypeInv, TypeOK, Block, Registry
  <2>3. /\ blocks' \in Seq(Block)
        /\ DOMAIN blocks' = DOMAIN blocks \cup {Len(blocks) + 1}
        /\ blocks'[Len(blocks) + 1] = new
        /\ \A b \in DOMAIN blocks : blocks'[b] = blocks[b]
    BY <2>1, <2>2, AppendFacts DEF TypeInv, ChainInv
  <2>4. \A b \in DOMAIN blocks' :
          /\ \A k \in DOMAIN blocks'[b].events :
               IdOf[blocks'[b].events[k]] \in DOMAIN blocks'[b].anchors
          /\ \A id \in DOMAIN blocks'[b].anchors :
               id \in DOMAIN anchors' /\ blocks'[b].anchors[id] = anchors'[id]
    BY <2>1, <2>3 DEF TypeInv, ChainInv
  <2> QED
    BY <2>1, <2>3, <2>4 DEF TypeInv, ChainInv
<1>3. CASE anchors' = anchors /\ building' = building /\ blocks' = blocks
  BY <1>3 DEF TypeInv, ChainInv
<1>4. ASSUME Next, ~(anchors' = anchors /\ building' = building /\ blocks' = blocks)
      PROVE  Seal \/ \E e \in Envelope : Register(e)
  BY <1>4 DEF Next, Subscribe, Pass, GiveUp, Take, Interrupt, Relaying, Prepare,
              SetConsumptionStatus, SkipGarbled, Send, chain
<1> QED
  BY <1>1, <1>2, <1>3, <1>4 DEF vars, chain

(* The other variables of Bridge keep their types: those of the chain, of  *)
(* the poll, of the operator and of the mirror program.                    *)
LEMMA ChainTypeStep ==
  ASSUME TypeInv, [Next]_vars
  PROVE  /\ Registered' \subseteq MemoryId
         /\ anchors' \in [Registered' -> Envelope]
         /\ count' \in 0 .. CountLimit
         /\ building' \in Seq(Envelope)
         /\ \A b \in DOMAIN blocks' : blocks'[b].events \in Seq(Envelope)
         /\ alike' \in BOOLEAN
<1> USE DEF Registered
<1> DEFINE Typed == /\ DOMAIN anchors' \subseteq MemoryId
                    /\ anchors' \in [DOMAIN anchors' -> Envelope]
                    /\ count' \in 0 .. CountLimit
                    /\ building' \in Seq(Envelope)
                    /\ alike' \in BOOLEAN
<1>1. ASSUME NEW e \in Envelope, Register(e)
      PROVE  Typed
  <2>1. IdOf[e] \in MemoryId
    OBVIOUS
  <2>2. building' \in Seq(Envelope)
    BY <1>1 DEF Register, TypeInv, TypeOK
  <2>3. count' \in 0 .. CountLimit
    BY <1>1 DEF Register, Counted, TypeInv, TypeOK
  <2>4. anchors' = [id \in DOMAIN anchors \cup {IdOf[e]} |->
                      IF id = IdOf[e] THEN e ELSE anchors[id]]
    BY <1>1 DEF Register
  <2>5. DOMAIN anchors' \subseteq MemoryId /\ anchors' \in [DOMAIN anchors' -> Envelope]
    BY <2>1, <2>4 DEF TypeInv, TypeOK
  <2> QED
    BY <1>1, <2>2, <2>3, <2>5 DEF Register, TypeInv, TypeOK
<1>2. ASSUME Seal
      PROVE  Typed
  <2>1. <<>> \in Seq(Envelope)
    OBVIOUS
  <2> QED
    BY <1>2, <2>1 DEF Seal, TypeInv, TypeOK
<1>3. ASSUME UNCHANGED <<anchors, count, building, alike>>
      PROVE  Typed
  BY <1>3 DEF TypeInv, TypeOK
<1>4. ASSUME Next, ~UNCHANGED <<anchors, count, building, alike>>
      PROVE  Seal \/ \E e \in Envelope : Register(e)
  BY <1>4 DEF Next, Subscribe, Pass, GiveUp, Take, Interrupt, Relaying, Prepare,
              SetConsumptionStatus, SkipGarbled, Send, chain
<1>5. Typed
  BY <1>1, <1>2, <1>3, <1>4 DEF vars, chain
<1>6. \A b \in DOMAIN blocks' : blocks'[b].events \in Seq(Envelope)
  <2>1. blocks' \in Seq(Block)
    BY ChainStep DEF ChainInv
  <2>2. \A b \in DOMAIN blocks' : blocks'[b] \in Block
    BY <2>1
  <2> QED
    BY <2>2 DEF Block
<1> QED
  BY <1>5, <1>6

LEMMA PollTypeStep ==
  ASSUME TypeInv, [Next]_vars
  PROVE  poll' \in [Relayer -> Nat] /\ watched' \subseteq DOMAIN blocks'
<1>1. blocks \in Seq(Block) /\ watched \subseteq DOMAIN blocks /\ poll \in [Relayer -> Nat]
  BY DEF TypeInv, ChainInv, TypeOK
<1>2. ASSUME NEW r \in Relayer, Subscribe(r)
      PROVE  poll' \in [Relayer -> Nat] /\ watched' \subseteq DOMAIN blocks'
  BY <1>1, <1>2 DEF Subscribe, chain
<1>3. ASSUME NEW r \in Relayer, Pass(r) \/ GiveUp(r) \/ Take(r)
      PROVE  poll' \in [Relayer -> Nat] /\ watched' \subseteq DOMAIN blocks'
  <2>1. poll[r] \in DOMAIN blocks
    BY <1>3, LookedAt DEF Pass, GiveUp, Take
  <2> QED
    BY <1>1, <1>3, <2>1 DEF Pass, GiveUp, Take, chain
<1>4. ASSUME NEW r \in Relayer, Interrupt(r)
      PROVE  poll' \in [Relayer -> Nat] /\ watched' \subseteq DOMAIN blocks'
  BY <1>1, <1>4 DEF Interrupt, chain
<1>5. CASE Seal
  <2>1. blocks' = Append(blocks, [events |-> building, anchors |-> anchors])
        /\ UNCHANGED watching
    BY <1>5 DEF Seal
  <2>2. [events |-> building, anchors |-> anchors] \in Block
    BY DEF TypeInv, TypeOK, Block, Registry, Registered
  <2>3. DOMAIN blocks \subseteq DOMAIN blocks'
    BY <1>1, <2>1, <2>2, AppendFacts
  <2> QED
    BY <1>1, <2>1, <2>3 DEF watching
<1>6. CASE UNCHANGED watching /\ blocks' = blocks
  BY <1>1, <1>6 DEF watching
<1>7. ASSUME Next, ~(UNCHANGED watching /\ blocks' = blocks)
      PROVE  Seal \/ \E r \in Relayer :
               Subscribe(r) \/ (Pass(r) \/ GiveUp(r) \/ Take(r)) \/ Interrupt(r)
  BY <1>7 DEF Next, Register, Relaying, Prepare, SetConsumptionStatus, SkipGarbled, Send,
              chain, watching
<1> QED
  BY <1>2, <1>3, <1>4, <1>5, <1>6, <1>7 DEF vars, chain

(* The line that the operator takes is an anchor.                          *)
LEMMA ReadableLine ==
  ASSUME TypeInv, Readable(next)
  PROVE  next \in DOMAIN sink.lines /\ sink.lines[next] \in Envelope
<1>1. sink.lines \in Seq(Envelope \cup {Garbled})
  BY DEF TypeInv, TypeOK, R!TypeOK, R!Files
<1>2. next \in DOMAIN sink.lines /\ sink.lines[next] # Garbled
  BY <1>1 DEF TypeInv, TypeOK, Readable
<1> QED
  BY <1>1, <1>2

LEMMA MirrorTypeStep ==
  ASSUME TypeInv, [Next]_vars
  PROVE  /\ next' \in Nat \ {0}
         /\ sending' \in Transaction \cup {None}
         /\ outbox' \subseteq Transaction
         /\ accounts' \in [Account -> MirrorAccount \cup {None}]
         /\ retries' \in 0 .. MaxRetries
         /\ statusLost' \in BOOLEAN
<1> DEFINE Typed == /\ next' \in Nat \ {0}
                    /\ sending' \in Transaction \cup {None}
                    /\ outbox' \subseteq Transaction
                    /\ accounts' \in [Account -> MirrorAccount \cup {None}]
                    /\ retries' \in 0 .. MaxRetries
                    /\ statusLost' \in BOOLEAN
<1>1. ASSUME NEW a \in Account, Prepare(a)
      PROVE  Typed
  <2>1. [account |-> a, anchor |-> sink.lines[next]] \in Transaction
    BY <1>1, ReadableLine DEF Prepare, Transaction
  <2> QED
    BY <1>1, <2>1 DEF Prepare, TypeInv, TypeOK
<1>2. CASE SkipGarbled
  BY <1>2 DEF SkipGarbled, TypeInv, TypeOK
<1>3. CASE Send
  <2>1. next' \in Nat \ {0} /\ retries' \in 0 .. MaxRetries /\ sending' = None
    BY <1>3 DEF Send, Answered, Again, TypeInv, TypeOK
  <2>2. CASE Upsert(sending.account, sending.anchor)
    <3>1. sending \in Transaction
      BY <1>3 DEF Send, TypeInv, TypeOK
    <3>2. sending.account \in Account
          /\ [anchor |-> sending.anchor, status |-> 0] \in MirrorAccount
      BY <3>1 DEF Transaction, MirrorAccount
    <3>3. accounts' \in [Account -> MirrorAccount \cup {None}] /\ statusLost' \in BOOLEAN
      BY <2>2, <3>2 DEF Upsert, TypeInv, TypeOK
    <3> QED
      BY <1>3, <2>1, <3>3 DEF Send, TypeInv, TypeOK
  <2>3. CASE UNCHANGED <<accounts, statusLost>>
    BY <1>3, <2>1, <2>3 DEF Send, TypeInv, TypeOK
  <2> QED
    BY <1>3, <2>2, <2>3 DEF Send
<1>4. ASSUME NEW a \in Account, NEW s \in Status, SetConsumptionStatus(a, s)
      PROVE  Typed
  <2>1. accounts[a] \in MirrorAccount
    BY <1>4 DEF SetConsumptionStatus, TypeInv, TypeOK
  <2>2. [accounts[a] EXCEPT !.status = s] \in MirrorAccount
    BY <2>1 DEF MirrorAccount
  <2>3. accounts' = [accounts EXCEPT ![a] = [accounts[a] EXCEPT !.status = s]]
    BY <1>4 DEF SetConsumptionStatus
  <2>4. accounts' \in [Account -> MirrorAccount \cup {None}]
    BY <2>2, <2>3 DEF TypeInv, TypeOK
  <2> QED
    BY <1>4, <2>4 DEF SetConsumptionStatus, TypeInv, TypeOK
<1>5. CASE UNCHANGED mirror
  BY <1>5 DEF mirror, TypeInv, TypeOK
<1>6. ASSUME Next, ~UNCHANGED mirror
      PROVE  \/ SkipGarbled
             \/ Send
             \/ \E a \in Account :
                  Prepare(a) \/ \E s \in Status : SetConsumptionStatus(a, s)
  BY <1>6 DEF Next, Register, Seal, Subscribe, Pass, GiveUp, Take, Interrupt, Relaying
<1> QED
  BY <1>1, <1>2, <1>3, <1>4, <1>5, <1>6 DEF vars

LEMMA TypeInit == Init => TypeInv
<1> SUFFICES ASSUME Init PROVE TypeInv
  OBVIOUS
<1>1. <<>> \in Seq(Envelope) /\ <<>> \in Seq(Envelope \cup {Garbled}) /\ <<>> \in Seq(Block)
  OBVIOUS
<1>2. R!TypeOK
  BY <1>1 DEF Init, R!Init, R!TypeOK, R!Files, R!EmptyFile, R!Checkpoints, R!Unreadable,
              R!Call
<1>3. Registered = {} /\ anchors \in [Registered -> Envelope]
  BY DEF Init, Registered
<1>4. TypeOK
  <2>1. /\ count \in 0 .. CountLimit
        /\ building \in Seq(Envelope)
        /\ \A b \in DOMAIN blocks : blocks[b].events \in Seq(Envelope)
        /\ alike \in BOOLEAN
    BY <1>1 DEF Init
  <2>2. poll \in [Relayer -> Nat] /\ watched \subseteq DOMAIN blocks
    BY DEF Init
  <2>3. next \in Nat \ {0} /\ retries \in 0 .. MaxRetries
    BY DEF Init
  <2>4. statusLost \in BOOLEAN
    BY DEF Init
  <2>5. /\ sending \in Transaction \cup {None}
        /\ outbox \subseteq Transaction
        /\ accounts \in [Account -> MirrorAccount \cup {None}]
    BY DEF Init
  <2> QED
    BY <1>2, <1>3, <2>1, <2>2, <2>3, <2>4, <2>5 DEF TypeOK
<1>5. ChainInv
  BY <1>1, <1>3 DEF Init, ChainInv
<1> QED
  BY <1>4, <1>5 DEF TypeInv

LEMMA TypeStep ==
  ASSUME TypeInv, [Next]_vars
  PROVE  TypeInv'
<1>1. TypeOK'
  BY RelayTypeStep, ChainTypeStep, PollTypeStep, MirrorTypeStep DEF TypeOK
<1> QED
  BY <1>1, ChainStep DEF TypeInv

(* Every variable of Bridge keeps its type: whatever is registered, polled,*)
(* relayed and sent, and whatever dies meanwhile.                          *)
THEOREM BridgeTypeCorrect == Spec => []TypeOK
<1>1. TypeInv => TypeOK
  BY DEF TypeInv
<1> QED
  BY <1>1, TypeInit, TypeStep, PTL DEF Spec

-----------------------------------------------------------------------------
(* Why the mirror is faithful: on its way from the registry to a mirror    *)
(* account every anchor is one that the registry holds, in the batch of a  *)
(* run, on a line of the sink and in the transaction that is being sent.   *)
BatchInv == \A r \in Relayer : \A k \in DOMAIN batch[r] : Holds(batch[r][k])

SinkInv ==
  \A k \in DOMAIN sink.lines : sink.lines[k] # Garbled => Holds(sink.lines[k])

AccountInv ==
  /\ sending # None => Holds(sending.anchor)
  /\ \A a \in Account : accounts[a] # None => Holds(accounts[a].anchor)

FaithInv == BatchInv /\ SinkInv /\ AccountInv

LEMMA BatchStep ==
  ASSUME TypeInv, FaithInv, [Next]_vars
  PROVE  BatchInv'
<1>1. ASSUME NEW r \in Relayer, Take(r)
      PROVE  BatchInv'
  <2>1. batch' = [batch EXCEPT ![r] = BatchOf(poll[r])] /\ poll[r] \in DOMAIN blocks
    BY <1>1, LookedAt DEF Take, R!Start
  <2>2. \A k \in DOMAIN BatchOf(poll[r]) : Holds(BatchOf(poll[r])[k])
    BY <2>1, BatchFacts
  <2>3. \A q \in Relayer : \A k \in DOMAIN batch'[q] : Holds(batch'[q][k])
    BY <2>1, <2>2 DEF FaithInv, BatchInv, TypeInv, TypeOK, R!TypeOK
  <2>4. anchors' = anchors
    BY <1>1 DEF Take, chain
  <2> QED
    BY <2>3, <2>4 DEF BatchInv, Holds, Registered
<1>2. ASSUME NEW r \in Relayer, Relaying(r)
      PROVE  BatchInv'
  <2>1. batch' = batch \/ batch' = [batch EXCEPT ![r] = <<>>]
    BY <1>2, RunEffect DEF Relaying, TypeInv, TypeOK
  <2>2. \A q \in Relayer : batch'[q] = batch[q] \/ batch'[q] = <<>>
    BY <2>1 DEF TypeInv, TypeOK, R!TypeOK
  <2>3. anchors' = anchors
    BY <1>2 DEF Relaying, chain
  <2> QED
    BY <2>2, <2>3 DEF FaithInv, BatchInv, Holds, Registered
<1>3. CASE batch' = batch
  BY <1>3, HoldsStep DEF FaithInv, BatchInv, Holds
<1>4. ASSUME Next, batch' # batch
      PROVE  \E r \in Relayer : Take(r) \/ Relaying(r)
  BY <1>4 DEF Next, Register, Seal, Subscribe, Pass, GiveUp, Interrupt, Prepare,
              SetConsumptionStatus, SkipGarbled, Send, relay
<1> QED
  BY <1>1, <1>2, <1>3, <1>4 DEF vars, relay

LEMMA SinkStep ==
  ASSUME TypeInv, FaithInv, [Next]_vars
  PROVE  SinkInv'
<1>1. ASSUME NEW k \in DOMAIN sink'.lines, sink'.lines[k] # Garbled
      PROVE  Holds(sink'.lines[k])
  <2>1. sink \in Files(Envelope)
    BY DEF TypeInv, TypeOK, R!TypeOK, R!Files, Files
  <2>2. CASE sink'.lines = sink.lines
    BY <1>1, <2>2 DEF FaithInv, SinkInv
  <2>3. ASSUME NEW r \in Relayer, Relaying(r), sink'.lines # sink.lines
        PROVE  Holds(sink'.lines[k])
    <3>1. \/ sink' = AppendOpen(sink, Garbled)
          \/ /\ cursor[r] \in DOMAIN batch[r]
             /\ sink' = AppendOpen(sink, batch[r][cursor[r]])
      BY <2>3, RunEffect DEF Relaying, TypeInv, TypeOK
    <3>2. CASE sink' = AppendOpen(sink, Garbled)
      <4>1. k \in DOMAIN sink.lines /\ sink'.lines[k] = sink.lines[k]
        BY <1>1, <2>1, <3>2, AppendOpenLines
      <4> QED
        BY <1>1, <4>1 DEF FaithInv, SinkInv
    <3>3. CASE /\ cursor[r] \in DOMAIN batch[r]
               /\ sink' = AppendOpen(sink, batch[r][cursor[r]])
      <4>1. Holds(batch[r][cursor[r]]) /\ batch[r][cursor[r]] \in Envelope
        BY <3>3 DEF FaithInv, BatchInv, TypeInv, TypeOK, R!TypeOK
      <4>2. \/ sink'.lines[k] = batch[r][cursor[r]]
            \/ k \in DOMAIN sink.lines /\ sink'.lines[k] = sink.lines[k]
        BY <1>1, <2>1, <3>3, <4>1, AppendOpenLines
      <4> QED
        BY <1>1, <4>1, <4>2 DEF FaithInv, SinkInv
    <3> QED
      BY <3>1, <3>2, <3>3
  <2>4. ASSUME Next, sink' # sink
        PROVE  \E r \in Relayer : Relaying(r)
    BY <2>4 DEF Next, Register, Seal, Subscribe, Pass, GiveUp, Take, R!Start, Interrupt,
                Prepare, SetConsumptionStatus, SkipGarbled, Send, relay
  <2> QED
    BY <2>2, <2>3, <2>4 DEF vars, relay
<1>2. \A k \in DOMAIN sink'.lines : sink'.lines[k] # Garbled =>
        /\ IdOf[sink'.lines[k]] \in Registered'
        /\ anchors'[IdOf[sink'.lines[k]]] = sink'.lines[k]
  BY <1>1, HoldsStep
<1> QED
  BY <1>2 DEF SinkInv, Holds

LEMMA AccountStep ==
  ASSUME TypeInv, FaithInv, [Next]_vars
  PROVE  AccountInv'
<1>1. ASSUME NEW a \in Account, Prepare(a)
      PROVE  AccountInv'
  <2>1. Holds(sink.lines[next])
    BY <1>1, ReadableLine DEF Prepare, Readable, FaithInv, SinkInv
  <2>2. sending' = [account |-> a, anchor |-> sink.lines[next]] /\ UNCHANGED <<chain, accounts>>
    BY <1>1 DEF Prepare
  <2> QED
    BY <2>1, <2>2 DEF chain, FaithInv, AccountInv, Holds, Registered
<1>2. CASE Send
  <2>1. sending' = None /\ UNCHANGED chain /\ sending # None
    BY <1>2 DEF Send, Answered, Again
  <2>2. Holds(sending.anchor)
    BY <2>1 DEF FaithInv, AccountInv
  <2>3. \A a \in Account :
          \/ accounts'[a] = accounts[a]
          \/ accounts'[a] = [anchor |-> sending.anchor, status |-> 0]
    BY <1>2 DEF Send, Upsert, TypeInv, TypeOK
  <2>4. \A a \in Account : accounts'[a] # None => Holds(accounts'[a].anchor)
    BY <2>2, <2>3 DEF FaithInv, AccountInv
  <2> QED
    BY <2>1, <2>4 DEF chain, AccountInv, Holds, Registered
<1>3. ASSUME NEW a \in Account, NEW s \in Status, SetConsumptionStatus(a, s)
      PROVE  AccountInv'
  <2>1. accounts[a] \in MirrorAccount /\ accounts[a] # None
    BY <1>3 DEF SetConsumptionStatus, TypeInv, TypeOK
  <2>2. accounts' = [accounts EXCEPT ![a] = [accounts[a] EXCEPT !.status = s]]
    BY <1>3 DEF SetConsumptionStatus
  <2>3. accounts'[a].anchor = accounts[a].anchor
    BY <2>1, <2>2 DEF MirrorAccount, TypeInv, TypeOK
  <2>4. \A b \in Account : b # a => accounts'[b] = accounts[b]
    BY <2>2 DEF TypeInv, TypeOK
  <2>5. \A b \in Account : accounts'[b] # None => Holds(accounts'[b].anchor)
    BY <2>1, <2>3, <2>4 DEF FaithInv, AccountInv
  <2> QED
    BY <1>3, <2>5 DEF SetConsumptionStatus, chain, FaithInv, AccountInv, Holds, Registered
<1>4. CASE UNCHANGED <<sending, accounts>>
  BY <1>4, HoldsStep DEF FaithInv, AccountInv, Holds
<1>5. ASSUME Next, ~UNCHANGED <<sending, accounts>>
      PROVE  \/ Send
             \/ \E a \in Account :
                  Prepare(a) \/ \E s \in Status : SetConsumptionStatus(a, s)
  BY <1>5 DEF Next, Register, Seal, Subscribe, Pass, GiveUp, Take, Interrupt, Relaying,
              SkipGarbled, mirror
<1> QED
  BY <1>1, <1>2, <1>3, <1>4, <1>5 DEF vars, mirror

LEMMA FaithInit == Init => FaithInv
<1> SUFFICES ASSUME Init PROVE FaithInv
  OBVIOUS
<1>1. /\ batch = [r \in Relayer |-> <<>>]
      /\ sink.lines = <<>>
      /\ sending = None
      /\ accounts = [a \in Account |-> None]
  BY DEF Init, R!Init, R!EmptyFile
<1> QED
  BY <1>1 DEF FaithInv, BatchInv, SinkInv, AccountInv

(* Whatever dies or is repeated between the chains, what the sink and the  *)
(* mirror accounts hold is what the registry holds.                        *)
THEOREM BridgeMirrorFaithful == Spec => []MirrorFaithful
<1>1. FaithInv => MirrorFaithful
  BY DEF FaithInv, SinkInv, AccountInv, MirrorFaithful
<1>2. TypeInv /\ FaithInv /\ [Next]_vars => FaithInv'
  BY BatchStep, SinkStep, AccountStep DEF FaithInv
<1> QED
  BY <1>1, <1>2, TypeInit, TypeStep, FaithInit, PTL DEF Spec

-----------------------------------------------------------------------------
(* A transaction is in the outbox while it is being sent.                  *)
OutboxInv ==
  /\ sending # None => sending \in outbox
  /\ OutboxFirst

LEMMA OutboxStep ==
  ASSUME TypeInv, OutboxInv, [Next]_vars
  PROVE  OutboxInv'
<1>1. ASSUME NEW a \in Account, Prepare(a)
      PROVE  OutboxInv'
  BY <1>1 DEF Prepare, OutboxInv, OutboxFirst
<1>2. CASE Send
  <2>1. sending' = None /\ sending # None /\ outbox' = outbox
    BY <1>2 DEF Send, Answered, Again
  <2>2. sending \in Transaction
    BY <2>1 DEF TypeInv, TypeOK
  <2>3. sending = [account |-> sending.account, anchor |-> sending.anchor]
    BY <2>2 DEF Transaction
  <2>4. \A a \in Account :
          \/ accounts'[a] = accounts[a]
          \/ /\ a = sending.account
             /\ accounts'[a] = [anchor |-> sending.anchor, status |-> 0]
    BY <1>2 DEF Send, Upsert, TypeInv, TypeOK
  <2> QED
    BY <2>1, <2>3, <2>4 DEF OutboxInv, OutboxFirst
<1>3. ASSUME NEW a \in Account, NEW s \in Status, SetConsumptionStatus(a, s)
      PROVE  OutboxInv'
  <2>1. accounts[a] \in MirrorAccount /\ accounts[a] # None
    BY <1>3 DEF SetConsumptionStatus, TypeInv, TypeOK
  <2>2. accounts' = [accounts EXCEPT ![a] = [accounts[a] EXCEPT !.status = s]]
        /\ UNCHANGED <<sending, outbox>>
    BY <1>3 DEF SetConsumptionStatus
  <2>3. accounts'[a].anchor = accounts[a].anchor
    BY <2>1, <2>2 DEF MirrorAccount, TypeInv, TypeOK
  <2>4. \A b \in Account : b # a => accounts'[b] = accounts[b]
    BY <2>2 DEF TypeInv, TypeOK
  <2> QED
    BY <2>1, <2>2, <2>3, <2>4 DEF OutboxInv, OutboxFirst
<1>4. CASE UNCHANGED <<sending, outbox, accounts>>
  BY <1>4 DEF OutboxInv, OutboxFirst
<1>5. ASSUME Next, ~UNCHANGED <<sending, outbox, accounts>>
      PROVE  \/ Send
             \/ \E a \in Account :
                  Prepare(a) \/ \E s \in Status : SetConsumptionStatus(a, s)
  BY <1>5 DEF Next, Register, Seal, Subscribe, Pass, GiveUp, Take, Interrupt, Relaying,
              SkipGarbled, mirror
<1> QED
  BY <1>1, <1>2, <1>3, <1>4, <1>5 DEF vars, mirror

(* Nothing reaches the mirror program that the outbox does not show.       *)
THEOREM BridgeOutboxFirst == Spec => []OutboxFirst
<1>1. Init => OutboxInv
  BY DEF Init, OutboxInv, OutboxFirst
<1>2. OutboxInv => OutboxFirst
  BY DEF OutboxInv
<1> QED
  BY <1>1, <1>2, TypeInit, TypeStep, OutboxStep, PTL DEF Spec

-----------------------------------------------------------------------------
(* Every registration counts one, until the counter is full.               *)
CountInv == IsFiniteSet(Registered) /\ CountAgrees

LEMMA CountStep ==
  ASSUME TypeInv, CountInv, [Next]_vars
  PROVE  CountInv'
<1>1. ASSUME NEW e \in Envelope, Register(e)
      PROVE  CountInv'
  <2>1. /\ Registered' = Registered \cup {IdOf[e]}
        /\ IdOf[e] \notin Registered
        /\ count' = Counted(count)
    BY <1>1 DEF Register, Insertable, Registered
  <2>2. /\ IsFiniteSet(Registered')
        /\ Cardinality(Registered') = Cardinality(Registered) + 1
        /\ Cardinality(Registered) \in Nat
    BY <2>1, FS_AddElement, FS_CardinalityType DEF CountInv
  <2> QED
    BY <2>1, <2>2 DEF CountInv, CountAgrees, Counted
<1>2. CASE UNCHANGED <<anchors, count>>
  BY <1>2 DEF CountInv, CountAgrees, Registered
<1>3. ASSUME Next, ~UNCHANGED <<anchors, count>>
      PROVE  \E e \in Envelope : Register(e)
  BY <1>3 DEF Next, Seal, Subscribe, Pass, GiveUp, Take, Interrupt, Relaying, Prepare,
              SetConsumptionStatus, SkipGarbled, Send, chain
<1> QED
  BY <1>1, <1>2, <1>3 DEF vars, chain

(* The pallet's counter is the number of its anchors, or u64::MAX.         *)
THEOREM BridgeCountAgrees == Spec => []CountAgrees
<1>1. Init => CountInv
  <2>1. Init => Registered = {} /\ count = 0
    BY DEF Init, Registered
  <2> QED
    BY <2>1, FS_EmptySet DEF CountInv, CountAgrees
<1>2. CountInv => CountAgrees
  BY DEF CountInv
<1> QED
  BY <1>1, <1>2, TypeInit, TypeStep, CountStep, PTL DEF Spec
-----------------------------------------------------------------------------
(* What Relay shows of the checkpoint and of the cursors holds here too.   *)
LEMMA WriteInvKept ==
  ASSUME RP!WriteInv, UNCHANGED <<sink, checkpoint, pc, batch, cursor, seen, written>>,
         RP!TypeOK'
  PROVE  RP!WriteInv'
  BY DEF RP!WriteInv, RP!CheckpointAfterWrite, RP!RunInv, RP!CurrentId, RP!Current

LEMMA InitWrites == Init => RP!WriteInv
<1> SUFFICES ASSUME Init PROVE RP!WriteInv
  OBVIOUS
<1>1. RP!TypeOK
  BY TypeInit, SameType DEF TypeInv, TypeOK
<1>2. /\ checkpoint.ids = {}
      /\ \A r \in Relayer : /\ pc[r] = "idle" /\ batch[r] = <<>>
                           /\ cursor[r] = 1 /\ seen[r] = {}
  BY DEF Init, R!Init, R!Unreadable
<1> QED
  BY <1>1, <1>2 DEF RP!WriteInv, RP!CheckpointAfterWrite, RP!RunInv

LEMMA WriteInvStep ==
  ASSUME TypeInv, RP!WriteInv, [Next]_vars
  PROVE  RP!WriteInv'
<1>1. ASSUME NEW r \in Relayer, Take(r)
      PROVE  RP!WriteInv'
  <2>1. BatchOf(poll[r]) \in Seq(Envelope)
    BY <1>1, BatchFacts, LookedAt DEF Take
  <2>2. RP!Start(r, BatchOf(poll[r]))
    BY <1>1, SameStart DEF Take
  <2> QED
    BY <2>1, <2>2, RP!StartWrites
<1>2. ASSUME NEW r \in Relayer, Relaying(r)
      PROVE  RP!WriteInv'
  BY <1>2, SameRun, RP!RunWrites DEF Relaying
<1>3. RP!TypeOK'
  <2>1. R!TypeOK'
    BY RelayTypeStep
  <2> QED
    BY <2>1, SameType, PTL
<1>4. CASE UNCHANGED <<sink, checkpoint, pc, batch, cursor, seen, written>>
  BY <1>3, <1>4, WriteInvKept
<1>5. ASSUME Next, ~UNCHANGED <<sink, checkpoint, pc, batch, cursor, seen, written>>
      PROVE  \E r \in Relayer : Take(r) \/ Relaying(r)
  BY <1>5 DEF Next, Register, Seal, Subscribe, Pass, GiveUp, Interrupt, Prepare,
              SetConsumptionStatus, SkipGarbled, Send, relay
<1> QED
  BY <1>1, <1>2, <1>4, <1>5 DEF vars, relay

(* Why a block that a poll has looked at is relayed: the checkpoint of a   *)
(* relayer alone is always readable when it is loaded, so that its run     *)
(* goes through the whole batch, and what is not in the batch is written.  *)
Loadable(r) ==
  /\ checkpoint.state # "garbled"
  /\ checkpoint.state = "empty" <=> pc[r] = "save"
  /\ pc[r] = "idle" => batch[r] = <<>>

WatchInv(r) ==
  /\ Loadable(r)
  /\ \A b \in watched :
       Due(b) => Ids(blocks[b].events) \subseteq written \cup Ids(batch[r])

PollInv == crashes = 0 => \A r \in Relayer : Relayer = {r} => WatchInv(r)

(* A run that goes on ends only when it has written its batch.             *)
LEMMA RunGoesThrough ==
  ASSUME RP!WriteInv, NEW r \in Relayer, Loadable(r), R!Proceed(r)
  PROVE  /\ Loadable(r)'
         /\ written \subseteq written'
         /\ \/ batch'[r] = batch[r]
            \/ batch'[r] = <<>> /\ Ids(batch[r]) \subseteq written'
<1>1. R!TypeOK
  BY SameType DEF RP!WriteInv
<1>2. pc \in [Relayer -> R!Call] /\ batch \in [Relayer -> Seq(Envelope)]
      /\ cursor[r] \in Nat
  BY <1>1 DEF R!TypeOK
<1>3. CASE R!Finish(r)
  <2>1. /\ cursor[r] > Len(batch[r]) /\ pc[r] = "load"
        /\ pc'[r] = "idle" /\ batch'[r] = <<>>
        /\ UNCHANGED <<checkpoint, written>>
    BY <1>2, <1>3 DEF R!Finish, R!Exit, R!Goto
  <2>2. \A k \in DOMAIN batch[r] : IdOf[batch[r][k]] \in written
    BY <1>2, <2>1 DEF RP!WriteInv, RP!RunInv
  <2> QED
    BY <2>1, <2>2 DEF Ids, Loadable
<1>4. CASE R!LoadCheckpoint(r)
  <2>1. pc[r] = "load" /\ UNCHANGED <<checkpoint, written>>
    BY <1>4 DEF R!LoadCheckpoint
  <2>2. checkpoint.state \notin {"empty", "garbled"}
    BY <2>1 DEF Loadable
  <2>3. pc'[r] \in {"load", "write"} /\ batch' = batch
    BY <1>2, <1>4, <2>2 DEF R!LoadCheckpoint, R!Advance, R!Goto
  <2> QED
    BY <2>1, <2>2, <2>3 DEF Loadable
<1>5. CASE R!WriteRecord(r)
  <2>1. /\ pc[r] = "write" /\ pc'[r] = "newline" /\ UNCHANGED <<checkpoint, batch>>
        /\ written \subseteq written'
    BY <1>2, <1>5 DEF R!WriteRecord, R!Goto
  <2> QED
    BY <2>1 DEF Loadable
<1>6. CASE R!WriteNewline(r)
  <2>1. /\ pc[r] = "newline" /\ pc'[r] = "truncate"
        /\ UNCHANGED <<checkpoint, batch, written>>
    BY <1>2, <1>6 DEF R!WriteNewline, R!Goto
  <2> QED
    BY <2>1 DEF Loadable
<1>7. CASE R!TruncateCheckpoint(r)
  <2>1. /\ pc'[r] = "save" /\ checkpoint'.state = "empty" /\ UNCHANGED <<batch, written>>
    BY <1>2, <1>7 DEF R!TruncateCheckpoint, R!Goto, R!Unreadable
  <2> QED
    BY <2>1 DEF Loadable
<1>8. CASE R!SaveCheckpoint(r)
  <2>1. pc[r] = "save" /\ pc'[r] = "load" /\ UNCHANGED <<batch, written>>
    BY <1>2, <1>8 DEF R!SaveCheckpoint, R!Advance, R!Goto
  <2>2. checkpoint'.state = "saved"
    BY <1>8, <2>1 DEF R!SaveCheckpoint, R!Saved, Loadable
  <2> QED
    BY <2>1, <2>2 DEF Loadable
<1> QED
  BY <1>3, <1>4, <1>5, <1>6, <1>7, <1>8 DEF R!Proceed

(* The ids of a block's batch are those of its events.                     *)
LEMMA BatchIds ==
  ASSUME TypeInv, NEW b \in DOMAIN blocks
  PROVE  Ids(BatchOf(b)) = Ids(blocks[b].events)
<1>1. DOMAIN BatchOf(b) = DOMAIN blocks[b].events
  BY DEF BatchOf
<1>2. ASSUME NEW k \in DOMAIN blocks[b].events
      PROVE  IdOf[BatchOf(b)[k]] = IdOf[blocks[b].events[k]]
  <2> DEFINE id == IdOf[blocks[b].events[k]]
  <2>1. id \in DOMAIN blocks[b].anchors
    BY DEF TypeInv, ChainInv
  <2>2. id \in Registered /\ blocks[b].anchors[id] = anchors[id]
    BY <2>1 DEF TypeInv, ChainInv
  <2> QED
    BY <2>2 DEF BatchOf, TypeInv, ChainInv
<1> QED
  BY <1>1, <1>2 DEF Ids

(* A finalized block stays as it is.                                       *)
LEMMA BlocksKept ==
  ASSUME TypeInv, [Next]_vars, NEW b \in DOMAIN blocks
  PROVE  blocks'[b] = blocks[b] /\ alike' = alike
<1>1. CASE Seal
  <2>1. blocks \in Seq(Block) /\ [events |-> building, anchors |-> anchors] \in Block
    BY DEF TypeInv, ChainInv, TypeOK, Block, Registry, Registered
  <2> QED
    BY <1>1, <2>1, AppendFacts DEF Seal
<1>2. CASE UNCHANGED <<blocks, alike>>
  BY <1>2
<1>3. ASSUME Next, ~UNCHANGED <<blocks, alike>>
      PROVE  Seal
  BY <1>3 DEF Next, Register, Subscribe, Pass, GiveUp, Take, Interrupt, Relaying, Prepare,
              SetConsumptionStatus, SkipGarbled, Send, chain
<1> QED
  BY <1>1, <1>2, <1>3 DEF vars, chain

LEMMA PollStep ==
  ASSUME TypeInv, RP!WriteInv, PollInv, [Next]_vars
  PROVE  PollInv'
<1> SUFFICES ASSUME crashes' = 0, NEW r \in Relayer, Relayer = {r}
             PROVE  WatchInv(r)'
  BY DEF PollInv
<1>1. crashes = 0 /\ ~R!Crash(r) /\ ~Interrupt(r)
  <2>1. crashes \in Nat
    BY DEF TypeInv, TypeOK, R!TypeOK
  <2>2. R!Crash(r) \/ Interrupt(r) => crashes' = crashes + 1
    BY DEF R!Crash, Interrupt
  <2>3. R!Proceed(r) => crashes' = crashes
    BY DEF R!Proceed, R!Finish, R!LoadCheckpoint, R!WriteRecord, R!WriteNewline,
           R!TruncateCheckpoint, R!SaveCheckpoint
  <2>4. \/ R!Crash(r) \/ Interrupt(r) \/ R!Proceed(r)
        \/ crashes' = crashes
    BY DEF Next, Register, Seal, Subscribe, Pass, GiveUp, Take, R!Start, Relaying, Prepare,
           SetConsumptionStatus, SkipGarbled, Send, relay, vars
  <2> QED
    BY <2>1, <2>2, <2>3, <2>4
<1>2. WatchInv(r)
  BY <1>1 DEF PollInv
<1>3. \A b \in DOMAIN blocks : Due(b)' = Due(b) /\ blocks'[b] = blocks[b]
  BY BlocksKept DEF Due, Decodes
<1>4. watched \subseteq DOMAIN blocks /\ batch \in [Relayer -> Seq(Envelope)]
      /\ pc \in [Relayer -> R!Call]
  BY DEF TypeInv, TypeOK, R!TypeOK
<1>5. CASE UNCHANGED <<checkpoint, pc, batch, written, watched>>
  BY <1>2, <1>3, <1>4, <1>5 DEF WatchInv, Loadable, Ids
<1>6. CASE Pass(r) \/ GiveUp(r)
  <2>1. /\ watched' = watched \cup {poll[r]}
        /\ UNCHANGED <<checkpoint, pc, batch, written>>
        /\ poll[r] \in DOMAIN blocks
    BY <1>6, LookedAt DEF Pass, GiveUp, relay
  <2>2. poll[r] \in Nat
    BY DEF TypeInv, TypeOK
  <2>3. ~Due(poll[r])
    BY <1>6, <2>2 DEF Pass, GiveUp, Passes, Due
  <2> QED
    BY <1>2, <1>3, <1>4, <2>1, <2>3 DEF WatchInv, Loadable, Ids
<1>7. CASE Take(r)
  <2>1. /\ poll[r] \in DOMAIN blocks
        /\ pc[r] = "idle" /\ pc'[r] = "load" /\ batch'[r] = BatchOf(poll[r])
        /\ watched' = watched \cup {poll[r]}
        /\ UNCHANGED <<checkpoint, written>>
    BY <1>4, <1>7, LookedAt DEF Take, R!Start, R!Goto
  <2>2. Loadable(r)'
    BY <1>2, <2>1 DEF WatchInv, Loadable
  <2>3. Ids(batch[r]) = {}
    BY <1>2, <2>1 DEF WatchInv, Loadable, Ids
  <2>4. Ids(blocks[poll[r]].events) = Ids(batch'[r])
    BY <2>1, BatchIds
  <2>5. \A b \in watched' :
          Due(b)' => Ids(blocks'[b].events) \subseteq written' \cup Ids(batch'[r])
    <3> SUFFICES ASSUME NEW b \in watched', Due(b)'
                 PROVE  Ids(blocks'[b].events) \subseteq written' \cup Ids(batch'[r])
      OBVIOUS
    <3>1. CASE b = poll[r]
      BY <1>3, <2>1, <2>4, <3>1
    <3>2. CASE b \in watched
      <4>1. Due(b) /\ blocks'[b] = blocks[b]
        BY <1>3, <1>4, <3>2
      <4>2. Ids(blocks[b].events) \subseteq written
        BY <1>2, <2>3, <3>2, <4>1 DEF WatchInv
      <4> QED
        BY <2>1, <4>1, <4>2
    <3> QED
      BY <2>1, <3>1, <3>2
  <2> QED
    BY <2>2, <2>5 DEF WatchInv, Ids
<1>8. CASE Relaying(r)
  <2>1. R!Proceed(r) /\ watched' = watched
    BY <1>1, <1>8 DEF Relaying, watching
  <2>2. /\ Loadable(r)'
        /\ written \subseteq written'
        /\ \/ batch'[r] = batch[r]
           \/ batch'[r] = <<>> /\ Ids(batch[r]) \subseteq written'
    BY <1>2, <2>1, RunGoesThrough DEF WatchInv
  <2>3. \A b \in watched' :
          Due(b)' => Ids(blocks'[b].events) \subseteq written' \cup Ids(batch'[r])
    <3> SUFFICES ASSUME NEW b \in watched, Due(b)
                 PROVE  Ids(blocks[b].events) \subseteq written' \cup Ids(batch'[r])
      BY <1>3, <1>4, <2>1
    <3>1. Ids(blocks[b].events) \subseteq written \cup Ids(batch[r])
      BY <1>2 DEF WatchInv
    <3> QED
      BY <2>2, <3>1
  <2> QED
    BY <2>2, <2>3 DEF WatchInv, Ids
<1>9. ASSUME Next, ~UNCHANGED <<checkpoint, pc, batch, written, watched>>
      PROVE  (Pass(r) \/ GiveUp(r)) \/ Take(r) \/ Relaying(r)
  BY <1>1, <1>9 DEF Next, Register, Seal, Subscribe, Prepare, SetConsumptionStatus,
                    SkipGarbled, Send, relay, watching
<1> QED
  BY <1>5, <1>6, <1>7, <1>8, <1>9 DEF vars, relay, watching

(* With one relayer, every due block that a poll has looked at is relayed  *)
(* whole when no run is under way, unless something has died.              *)
THEOREM BridgeWatchedIsRelayed == Spec => []WatchedIsRelayed
<1>1. Init => RP!WriteInv /\ PollInv
  <2> SUFFICES ASSUME Init PROVE RP!WriteInv /\ PollInv
    OBVIOUS
  <2>1. RP!WriteInv
    BY InitWrites
  <2>2. /\ checkpoint.state = "absent" /\ watched = {}
        /\ \A r \in Relayer : pc[r] = "idle" /\ batch[r] = <<>>
    BY DEF Init, R!Init, R!Unreadable
  <2> QED
    BY <2>1, <2>2 DEF PollInv, WatchInv, Loadable
<1>2. TypeInv /\ PollInv => WatchedIsRelayed
  <2> SUFFICES ASSUME TypeInv, PollInv, NEW b \in watched, R!Alone, Due(b),
                      crashes = 0, \A r \in Relayer : pc[r] = "idle"
               PROVE  Ids(blocks[b].events) \subseteq written
    <3>1. TypeInv => (crashes > 0 <=> crashes # 0)
      BY DEF TypeInv, TypeOK, R!TypeOK
    <3> QED
      BY <3>1 DEF WatchedIsRelayed
  <2>1. PICK r \in Relayer : Relayer = {r}
    BY DEF R!Alone
  <2>2. WatchInv(r) /\ batch[r] = <<>>
    BY <2>1 DEF PollInv, WatchInv, Loadable
  <2> QED
    BY <2>2 DEF WatchInv, Ids
<1> QED
  BY <1>1, <1>2, TypeInit, TypeStep, WriteInvStep, PollStep, PTL DEF Spec

-----------------------------------------------------------------------------
(* Why a status is lost only to a repetition.  As long as nothing has      *)
(* died, a relayer alone writes every memory once: the ids on the lines of *)
(* the sink are those of the checkpoint, with the current one from its     *)
(* write to its save, and no line stays open but while a newline is due.   *)
Shown(r) ==
  IF pc[r] = "save" THEN seen[r] \cup {R!CurrentId(r)}
  ELSE IF pc[r] \in {"newline", "truncate"} THEN checkpoint.ids \cup {R!CurrentId(r)}
  ELSE checkpoint.ids

OnceOnly(lines) ==
  \A j, k \in DOMAIN lines : IdOf[lines[j]] = IdOf[lines[k]] => j = k

OnceInv(r) ==
  /\ Loadable(r)
  /\ sink.open => pc[r] = "newline"
  /\ pc[r] \in {"write", "newline", "truncate"} =>
       seen[r] = checkpoint.ids /\ R!CurrentId(r) \notin checkpoint.ids
  /\ \A k \in DOMAIN sink.lines :
       sink.lines[k] \in Envelope /\ IdOf[sink.lines[k]] \in Shown(r)
  /\ OnceOnly(sink.lines)

(* As long as nothing is sent again either, the operator has sent the lines*)
(* before the next one, each once, and no other memory has an account.     *)
SentInv ==
  /\ sending # None => next \in DOMAIN sink.lines /\ sending.anchor = sink.lines[next]
  /\ \A a \in Account : accounts[a] # None =>
       \E k \in DOMAIN sink.lines :
         k < next /\ IdOf[sink.lines[k]] = IdOf[accounts[a].anchor]
  /\ ~statusLost

RepeatInv ==
  /\ crashes = 0 => \A r \in Relayer : Relayer = {r} => OnceInv(r)
  /\ crashes = 0 /\ retries = 0 /\ R!Alone => SentInv

(* A run writes a memory that is on no line yet, on a line of its own.     *)
LEMMA OnceRun ==
  ASSUME RP!WriteInv, NEW r \in Relayer, OnceInv(r), R!Proceed(r)
  PROVE  /\ OnceInv(r)'
         /\ \A k \in DOMAIN sink.lines :
              k \in DOMAIN sink'.lines /\ sink'.lines[k] = sink.lines[k]
<1> DEFINE Kept == \A k \in DOMAIN sink.lines :
                     k \in DOMAIN sink'.lines /\ sink'.lines[k] = sink.lines[k]
<1>1. R!TypeOK
  BY SameType DEF RP!WriteInv
<1>2. /\ pc \in [Relayer -> R!Call] /\ batch \in [Relayer -> Seq(Envelope)]
      /\ seen \in [Relayer -> SUBSET MemoryId]
  BY <1>1 DEF R!TypeOK
<1>3. Loadable(r) /\ Loadable(r)'
  BY RunGoesThrough DEF OnceInv
<1>4. ASSUME UNCHANGED <<sink, checkpoint>>, pc[r] \notin {"newline", "truncate", "save"},
             pc'[r] \in {"idle", "load"}
      PROVE  OnceInv(r)' /\ Kept
  <2>1. Shown(r)' = Shown(r)
    BY <1>4 DEF Shown
  <2> QED
    BY <1>3, <1>4, <2>1 DEF OnceInv, OnceOnly
<1>5. CASE R!Finish(r)
  BY <1>2, <1>4, <1>5 DEF R!Finish, R!Exit, R!Goto
<1>6. CASE R!LoadCheckpoint(r)
  <2>1. CASE R!Exit(r) \/ R!Advance(r)
    BY <1>2, <1>4, <1>6, <2>1 DEF R!LoadCheckpoint, R!Exit, R!Advance, R!Goto
  <2>2. CASE /\ checkpoint.state \in {"absent", "saved"}
             /\ R!CurrentId(r) \notin checkpoint.ids
             /\ seen' = [seen EXCEPT ![r] = checkpoint.ids]
             /\ R!Goto(r, "write")
             /\ UNCHANGED <<batch, cursor>>
    <3>1. /\ pc[r] = "load" /\ pc'[r] = "write" /\ seen'[r] = checkpoint.ids
          /\ UNCHANGED <<sink, checkpoint>> /\ R!CurrentId(r)' = R!CurrentId(r)
      BY <1>2, <1>6, <2>2 DEF R!LoadCheckpoint, R!Goto, R!CurrentId, R!Current
    <3>2. Shown(r)' = Shown(r)
      BY <3>1 DEF Shown
    <3> QED
      BY <1>3, <2>2, <3>1, <3>2 DEF OnceInv, OnceOnly
  <2> QED
    BY <1>6, <2>1, <2>2 DEF R!LoadCheckpoint
<1>7. CASE R!WriteRecord(r)
  <2> DEFINE e == R!Current(r)
  <2>1. /\ pc[r] = "write" /\ pc'[r] = "newline" /\ UNCHANGED <<seen, checkpoint>>
        /\ R!CurrentId(r)' = R!CurrentId(r) /\ sink' = R!AppendOpen(sink, e)
    BY <1>2, <1>7 DEF R!WriteRecord, R!Goto, R!CurrentId, R!Current
  <2>2. ~sink.open /\ seen[r] = checkpoint.ids /\ R!CurrentId(r) \notin checkpoint.ids
    BY <2>1 DEF OnceInv
  <2>3. e \in Envelope /\ R!CurrentId(r) = IdOf[e]
    <3>1. batch[r] \in Seq(Envelope) /\ cursor[r] \in Nat \ {0}
      BY <1>1 DEF R!TypeOK
    <3>2. cursor[r] <= Len(batch[r])
      BY <1>1, <2>1 DEF R!TypeOK
    <3>3. batch[r][cursor[r]] \in Envelope
      BY <3>1, <3>2
    <3> QED
      BY <3>3 DEF R!Current, R!CurrentId
  <2>4. sink'.lines = Append(sink.lines, e)
    BY <2>1, <2>2 DEF R!AppendOpen, R!AppendLine
  <2>5. sink.lines \in Seq(Envelope \cup {Garbled})
    BY <1>1 DEF R!TypeOK, R!Files
  <2>6. /\ DOMAIN sink'.lines = DOMAIN sink.lines \cup {Len(sink.lines) + 1}
        /\ sink'.lines[Len(sink.lines) + 1] = e
        /\ \A k \in DOMAIN sink.lines : sink'.lines[k] = sink.lines[k]
    BY <2>4, <2>5, AppendFacts
  <2>7. /\ Shown(r)' = Shown(r) \cup {IdOf[e]}
        /\ IdOf[e] \notin Shown(r)
    BY <2>1, <2>2, <2>3 DEF Shown
  <2>8. \A k \in DOMAIN sink'.lines :
          sink'.lines[k] \in Envelope /\ IdOf[sink'.lines[k]] \in Shown(r)'
    BY <2>3, <2>6, <2>7 DEF OnceInv
  <2>9. OnceOnly(sink'.lines)
    BY <2>6, <2>7 DEF OnceInv, OnceOnly
  <2> QED
    BY <1>3, <2>1, <2>2, <2>6, <2>8, <2>9 DEF OnceInv
<1>8. CASE R!WriteNewline(r)
  <2>1. /\ pc[r] = "newline" /\ pc'[r] = "truncate" /\ UNCHANGED <<seen, checkpoint>>
        /\ R!CurrentId(r)' = R!CurrentId(r)
        /\ sink' = [sink EXCEPT !.open = FALSE]
    BY <1>2, <1>8 DEF R!WriteNewline, R!Goto, R!CurrentId, R!Current
  <2>2. sink'.lines = sink.lines /\ ~sink'.open
    BY <1>1, <2>1 DEF R!TypeOK, R!Files
  <2>3. Shown(r)' = Shown(r)
    BY <2>1 DEF Shown
  <2> QED
    BY <1>3, <2>1, <2>2, <2>3 DEF OnceInv, OnceOnly
<1>9. CASE R!TruncateCheckpoint(r)
  <2>1. /\ pc[r] = "truncate" /\ pc'[r] = "save" /\ UNCHANGED <<seen, sink>>
        /\ R!CurrentId(r)' = R!CurrentId(r)
    BY <1>2, <1>9 DEF R!TruncateCheckpoint, R!Goto, R!CurrentId, R!Current
  <2>2. Shown(r)' = Shown(r)
    BY <2>1 DEF Shown, OnceInv
  <2> QED
    BY <1>3, <2>1, <2>2 DEF OnceInv, OnceOnly
<1>10. CASE R!SaveCheckpoint(r)
  <2>1. pc[r] = "save" /\ pc'[r] = "load" /\ UNCHANGED <<seen, sink>>
    BY <1>2, <1>10 DEF R!SaveCheckpoint, R!Advance, R!Goto
  <2>2. checkpoint' = R!Saved(seen[r] \cup {R!CurrentId(r)})
    BY <1>3, <1>10, <2>1 DEF R!SaveCheckpoint, Loadable
  <2>3. Shown(r)' = Shown(r)
    BY <2>1, <2>2 DEF Shown, R!Saved
  <2> QED
    BY <1>3, <2>1, <2>3 DEF OnceInv, OnceOnly
<1> QED
  BY <1>5, <1>6, <1>7, <1>8, <1>9, <1>10 DEF R!Proceed

(* What has died or was repeated stays counted.                            *)
LEMMA FailuresCounted ==
  ASSUME TypeInv, [Next]_vars
  PROVE  /\ crashes' = 0 => crashes = 0 /\ \A r \in Relayer : ~R!Crash(r) /\ ~Interrupt(r)
         /\ retries' = 0 => retries = 0
<1>1. crashes \in Nat /\ retries \in Nat
  BY DEF TypeInv, TypeOK, R!TypeOK
<1>2. \A r \in Relayer : R!Crash(r) \/ Interrupt(r) => crashes' = crashes + 1
  BY DEF R!Crash, Interrupt
<1>3. \A r \in Relayer : R!Proceed(r) => crashes' = crashes
  BY DEF R!Proceed, R!Finish, R!LoadCheckpoint, R!WriteRecord, R!WriteNewline,
         R!TruncateCheckpoint, R!SaveCheckpoint
<1>4. \/ \E r \in Relayer : R!Crash(r) \/ Interrupt(r) \/ R!Proceed(r)
      \/ crashes' = crashes
  BY DEF Next, Register, Seal, Subscribe, Pass, GiveUp, Take, R!Start, Relaying, Prepare,
         SetConsumptionStatus, SkipGarbled, Send, relay, vars
<1>5. retries' = retries \/ retries' = retries + 1
  BY DEF Next, Register, Seal, Subscribe, Pass, GiveUp, Take, Interrupt, Relaying, Prepare,
         SetConsumptionStatus, SkipGarbled, Send, Answered, Again, mirror, vars
<1> QED
  BY <1>1, <1>2, <1>3, <1>4, <1>5

(* As long as nothing has died, the lines of the sink stay as they are.    *)
LEMMA OnceStep ==
  ASSUME TypeInv, RP!WriteInv, [Next]_vars, crashes' = 0,
         NEW r \in Relayer, Relayer = {r}, OnceInv(r)
  PROVE  /\ OnceInv(r)'
         /\ \A k \in DOMAIN sink.lines :
              k \in DOMAIN sink'.lines /\ sink'.lines[k] = sink.lines[k]
<1>1. ~R!Crash(r) /\ ~Interrupt(r)
  BY FailuresCounted
<1>2. CASE Take(r)
  <2>1. /\ pc[r] = "idle" /\ pc'[r] = "load" /\ UNCHANGED <<sink, checkpoint>>
    BY <1>2 DEF Take, R!Start, R!Goto, TypeInv, TypeOK, R!TypeOK
  <2>2. Loadable(r)' /\ Shown(r)' = Shown(r)
    BY <2>1 DEF OnceInv, Loadable, Shown
  <2> QED
    BY <2>1, <2>2 DEF OnceInv, OnceOnly
<1>3. CASE Relaying(r)
  BY <1>1, <1>3, OnceRun DEF Relaying
<1>4. CASE UNCHANGED <<sink, checkpoint, pc, batch, cursor, seen>>
  BY <1>4 DEF OnceInv, OnceOnly, Loadable, Shown, R!CurrentId, R!Current
<1>5. ASSUME Next, ~UNCHANGED <<sink, checkpoint, pc, batch, cursor, seen>>
      PROVE  Take(r) \/ Relaying(r)
  BY <1>1, <1>5 DEF Next, Register, Seal, Subscribe, Pass, GiveUp, Prepare,
                    SetConsumptionStatus, SkipGarbled, Send, relay
<1> QED
  BY <1>2, <1>3, <1>4, <1>5 DEF vars, relay

LEMMA SentStep ==
  ASSUME TypeInv, [Next]_vars, retries' = 0, SentInv, OnceOnly(sink.lines),
         \A k \in DOMAIN sink.lines :
           k \in DOMAIN sink'.lines /\ sink'.lines[k] = sink.lines[k]
  PROVE  SentInv'
<1>1. next \in Nat \ {0} /\ retries \in Nat
  BY DEF TypeInv, TypeOK
<1>2. DOMAIN sink.lines \subseteq Nat
  BY DEF TypeInv, TypeOK, R!TypeOK, R!Files
<1>3. ASSUME NEW a \in Account, Prepare(a)
      PROVE  SentInv'
  <2>1. /\ sending' = [account |-> a, anchor |-> sink.lines[next]]
        /\ UNCHANGED <<sink, next, accounts, statusLost>>
    BY <1>3 DEF Prepare, relay
  <2>2. next \in DOMAIN sink.lines
    BY <1>3, ReadableLine DEF Prepare
  <2> QED
    BY <2>1, <2>2 DEF SentInv
<1>4. CASE SkipGarbled
  <2>1. UNCHANGED <<sink, sending, accounts, statusLost>> /\ next' = next + 1 /\ sending = None
    BY <1>4 DEF SkipGarbled, relay
  <2> QED
    BY <1>1, <1>2, <2>1 DEF SentInv
<1>5. CASE Send
  <2>1. /\ sending # None /\ sending' = None /\ next' = next + 1
        /\ UNCHANGED sink
    BY <1>1, <1>5 DEF Send, Answered, Again, relay
  <2>2. next \in DOMAIN sink.lines /\ sending.anchor = sink.lines[next]
    BY <2>1 DEF SentInv
  <2>3. CASE UNCHANGED <<accounts, statusLost>>
    BY <1>1, <1>2, <2>1, <2>3 DEF SentInv
  <2>4. CASE Upsert(sending.account, sending.anchor)
    <3> DEFINE a == sending.account
               e == sending.anchor
    <3>1. a \in Account
      BY <2>1 DEF TypeInv, TypeOK, Transaction
    <3>2. accounts[a] = None
      <4> SUFFICES ASSUME accounts[a] # None PROVE FALSE
        OBVIOUS
      <4>1. IdOf[accounts[a].anchor] = IdOf[e]
        BY <2>4 DEF Upsert, Matches
      <4>2. PICK k \in DOMAIN sink.lines :
              k < next /\ IdOf[sink.lines[k]] = IdOf[accounts[a].anchor]
        BY <3>1 DEF SentInv
      <4>3. k = next
        BY <2>2, <4>1, <4>2 DEF OnceOnly
      <4> QED
        BY <1>1, <4>2, <4>3
    <3>3. ~statusLost'
      BY <2>4, <3>2 DEF Upsert, SentInv
    <3>4. \A b \in Account : b # a => accounts'[b] = accounts[b]
      BY <2>4 DEF Upsert, TypeInv, TypeOK
    <3>5. accounts'[a].anchor = e
      BY <2>4, <3>1 DEF Upsert, TypeInv, TypeOK
    <3>6. \A b \in Account : accounts'[b] # None =>
            \E k \in DOMAIN sink.lines :
              k < next' /\ IdOf[sink.lines[k]] = IdOf[accounts'[b].anchor]
      <4>1. ASSUME NEW b \in Account, accounts'[b] # None, b # a
            PROVE  \E k \in DOMAIN sink.lines :
                     k < next' /\ IdOf[sink.lines[k]] = IdOf[accounts'[b].anchor]
        BY <1>1, <1>2, <2>1, <3>4, <4>1 DEF SentInv
      <4>2. next < next'
        BY <1>1, <2>1
      <4>3. \E k \in DOMAIN sink.lines :
              k < next' /\ IdOf[sink.lines[k]] = IdOf[accounts'[a].anchor]
        BY <2>2, <3>5, <4>2
      <4> QED
        BY <4>1, <4>3
    <3> QED
      BY <2>1, <3>3, <3>6 DEF SentInv
  <2> QED
    BY <1>5, <2>3, <2>4 DEF Send
<1>6. ASSUME NEW a \in Account, NEW s \in Status, SetConsumptionStatus(a, s)
      PROVE  SentInv'
  <2>1. accounts[a] \in MirrorAccount /\ accounts[a] # None
    BY <1>6 DEF SetConsumptionStatus, TypeInv, TypeOK
  <2>2. accounts' = [accounts EXCEPT ![a] = [accounts[a] EXCEPT !.status = s]]
        /\ UNCHANGED <<sink, next, sending, statusLost>>
    BY <1>6 DEF SetConsumptionStatus, relay
  <2>3. accounts'[a].anchor = accounts[a].anchor
    BY <2>1, <2>2 DEF MirrorAccount, TypeInv, TypeOK
  <2>4. \A b \in Account : b # a => accounts'[b] = accounts[b]
    BY <2>2 DEF TypeInv, TypeOK
  <2> QED
    BY <2>1, <2>2, <2>3, <2>4 DEF SentInv
<1>7. CASE UNCHANGED <<next, sending, accounts, statusLost>>
  BY <1>7 DEF SentInv
<1>8. ASSUME Next, ~UNCHANGED <<next, sending, accounts, statusLost>>
      PROVE  \/ SkipGarbled
             \/ Send
             \/ \E a \in Account :
                  Prepare(a) \/ \E s \in Status : SetConsumptionStatus(a, s)
  BY <1>8 DEF Next, Register, Seal, Subscribe, Pass, GiveUp, Take, Interrupt, Relaying,
              mirror
<1> QED
  BY <1>3, <1>4, <1>5, <1>6, <1>7, <1>8 DEF vars, mirror

LEMMA RepeatStep ==
  ASSUME TypeInv, RP!WriteInv, RepeatInv, [Next]_vars
  PROVE  RepeatInv'
<1>1. ASSUME crashes' = 0, NEW r \in Relayer, Relayer = {r}
      PROVE  /\ OnceInv(r) /\ OnceInv(r)'
             /\ \A k \in DOMAIN sink.lines :
                  k \in DOMAIN sink'.lines /\ sink'.lines[k] = sink.lines[k]
  <2>1. OnceInv(r)
    BY <1>1, FailuresCounted DEF RepeatInv
  <2> QED
    BY <1>1, <2>1, OnceStep
<1>2. ASSUME crashes' = 0, retries' = 0, R!Alone
      PROVE  SentInv'
  <2>1. PICK r \in Relayer : Relayer = {r}
    BY <1>2 DEF R!Alone
  <2>2. SentInv /\ OnceOnly(sink.lines)
    BY <1>1, <1>2, <2>1, FailuresCounted DEF RepeatInv, OnceInv
  <2> QED
    BY <1>1, <1>2, <2>1, <2>2, SentStep
<1> QED
  BY <1>1, <1>2 DEF RepeatInv, R!Alone

(* With one relayer, a consumption status goes back to 0 only where some   *)
(* poll or run was killed, or a record was sent again after an error.      *)
THEOREM BridgeStatusLostNeedsRepeat == Spec => []StatusLostNeedsRepeat
<1>1. Init => RP!WriteInv /\ RepeatInv
  <2> SUFFICES ASSUME Init PROVE RP!WriteInv /\ RepeatInv
    OBVIOUS
  <2>1. RP!WriteInv
    BY InitWrites
  <2>2. /\ checkpoint.state = "absent" /\ sink.lines = <<>> /\ ~sink.open
        /\ \A r \in Relayer : pc[r] = "idle" /\ batch[r] = <<>>
        /\ sending = None /\ ~statusLost
        /\ \A a \in Account : accounts[a] = None
    BY DEF Init, R!Init, R!Unreadable, R!EmptyFile
  <2>3. \A r \in Relayer : OnceInv(r)
    BY <2>2 DEF OnceInv, OnceOnly, Loadable
  <2>4. SentInv
    BY <2>2 DEF SentInv
  <2> QED
    BY <2>1, <2>3, <2>4 DEF RepeatInv
<1>2. TypeInv /\ RepeatInv => StatusLostNeedsRepeat
  <2>1. TypeInv => (crashes > 0 <=> crashes # 0) /\ (retries > 0 <=> retries # 0)
    BY DEF TypeInv, TypeOK, R!TypeOK
  <2> QED
    BY <2>1 DEF RepeatInv, SentInv, StatusLostNeedsRepeat
<1> QED
  BY <1>1, <1>2, TypeInit, TypeStep, WriteInvStep, RepeatStep, PTL DEF Spec
=============================================================================
