---------------------------- MODULE RelayProofs ----------------------------
(* Theorems about Relay for every number of relayers, anchors and crashes. *)
EXTENDS Relay, JsonlFileProofs, FiniteSetTheorems

USE EnvelopeAssumption, BoundAssumption

-----------------------------------------------------------------------------
(* Exit, Advance and the steps that stay inside a run keep the types.      *)
LEMMA ExitType ==
  ASSUME TypeOK, NEW r \in Relayer, Exit(r)
  PROVE  /\ pc' \in [Relayer -> Call]
         /\ batch' \in [Relayer -> Seq(Envelope)]
         /\ cursor' \in [Relayer -> Nat \ {0}]
         /\ seen' \in [Relayer -> SUBSET MemoryId]
         /\ \A q \in Relayer :
              pc'[q] \notin {"idle", "load"} => cursor'[q] <= Len(batch'[q])
<1>1. <<>> \in Seq(Envelope)
  OBVIOUS
<1> QED
  BY <1>1 DEF TypeOK, Exit, Goto, Call

(* While an envelope is relayed, it is one and its id is a memory id.      *)
LEMMA CurrentType ==
  ASSUME TypeOK, NEW r \in Relayer, cursor[r] <= Len(batch[r])
  PROVE  Current(r) \in Envelope /\ CurrentId(r) \in MemoryId
<1>1. batch[r] \in Seq(Envelope) /\ cursor[r] \in 1 .. Len(batch[r])
  BY DEF TypeOK
<1>2. batch[r][cursor[r]] \in Envelope
  BY <1>1
<1> QED
  BY <1>2 DEF Current, CurrentId

(* The type invariant is inductive: a run starts, a run goes on or dies.   *)
LEMMA StartType ==
  ASSUME TypeOK, NEW r \in Relayer, NEW s \in Seq(Envelope), Start(r, s)
  PROVE  TypeOK'
  BY DEF TypeOK, Start, Goto, Call

LEMMA RunType ==
  ASSUME TypeOK, NEW r \in Relayer, Proceed(r) \/ Crash(r)
  PROVE  TypeOK'
<1> USE DEF Call
<1>1. CASE Finish(r)
  BY <1>1, ExitType DEF TypeOK, Finish
<1>2. CASE LoadCheckpoint(r)
  <2>1. CASE Exit(r)
    BY <1>2, <2>1, ExitType DEF TypeOK, LoadCheckpoint
  <2>2. CASE Advance(r) /\ UNCHANGED seen
    BY <1>2, <2>2 DEF TypeOK, LoadCheckpoint, Advance, Goto
  <2>3. CASE /\ seen' = [seen EXCEPT ![r] = checkpoint.ids]
             /\ Goto(r, "write")
             /\ UNCHANGED <<batch, cursor>>
    <3>1. checkpoint.ids \subseteq MemoryId
      BY DEF TypeOK, Checkpoints
    <3> QED
      BY <1>2, <2>3, <3>1 DEF TypeOK, LoadCheckpoint, Goto
  <2> QED
    BY <1>2, <2>1, <2>2, <2>3 DEF LoadCheckpoint
<1>3. CASE WriteRecord(r)
  <2>1. Current(r) \in Envelope /\ CurrentId(r) \in MemoryId
    BY <1>3, CurrentType DEF TypeOK, WriteRecord
  <2>2. sink' \in Files(Envelope)
    <3>1. AppendOpen(sink, Current(r)) \in Files(Envelope)
      BY <2>1, AppendLineType DEF TypeOK
    <3> QED
      BY <1>3, <3>1 DEF WriteRecord
  <2> QED
    BY <1>3, <2>1, <2>2 DEF TypeOK, WriteRecord, Goto
<1>4. CASE WriteNewline(r)
  BY <1>4 DEF TypeOK, WriteNewline, Goto, Files
<1>5. CASE TruncateCheckpoint(r)
  BY <1>5 DEF TypeOK, TruncateCheckpoint, Goto, Unreadable, Checkpoints
<1>6. CASE SaveCheckpoint(r)
  <2>1. CurrentId(r) \in MemoryId
    BY <1>6, CurrentType DEF TypeOK, SaveCheckpoint
  <2>2. seen[r] \cup {CurrentId(r)} \subseteq MemoryId
    BY <2>1 DEF TypeOK
  <2>3. checkpoint' \in Checkpoints
    BY <1>6, <2>2 DEF SaveCheckpoint, Saved, Unreadable, Checkpoints
  <2> QED
    BY <1>6, <2>3 DEF TypeOK, SaveCheckpoint, Advance, Goto
<1>7. CASE Crash(r)
  <2>1. sink' \in Files(Envelope)
    <3>1. CASE pc[r] = "write"
      <4>1. Current(r) \in Envelope
        BY <3>1, CurrentType DEF TypeOK
      <4> QED
        BY <1>7, <3>1, <4>1, CutAppendType DEF TypeOK, Crash
    <3>2. CASE pc[r] # "write"
      BY <1>7, <3>2 DEF TypeOK, Crash
    <3> QED
      BY <3>1, <3>2
  <2>2. checkpoint' \in Checkpoints
    BY <1>7 DEF TypeOK, Crash, Checkpoints, Unreadable
  <2>3. crashes' \in 0 .. MaxCrashes
    BY <1>7 DEF TypeOK, Crash
  <2> QED
    BY <1>7, <2>1, <2>2, <2>3, ExitType DEF TypeOK, Crash
<1> QED
  BY <1>1, <1>2, <1>3, <1>4, <1>5, <1>6, <1>7 DEF Proceed

(* What a run reads from the source are anchors.                           *)
LEMMA SourceLines ==
  ASSUME TypeOK
  PROVE  /\ Parses(source) => source.lines \in Seq(Envelope)
         /\ \A e \in Envelope : <<e>> \in Seq(Envelope)
<1>1. source.lines \in Seq(Envelope \cup {Garbled})
  BY DEF TypeOK, Files
<1> QED
  BY <1>1 DEF Parses

LEMMA TypeStep ==
  ASSUME TypeOK, [Next]_vars
  PROVE  TypeOK'
<1>1. ASSUME NEW e \in Envelope, Publish(e)
      PROVE  TypeOK'
  <2>1. source' \in Files(Envelope)
    BY <1>1, AppendLineType, CutAppendType DEF TypeOK, Publish
  <2> QED
    BY <1>1, <2>1 DEF TypeOK, Publish
<1>2. CASE UNCHANGED vars
  BY <1>2 DEF TypeOK, vars
<1>3. \A e \in Envelope : <<e>> \in Seq(Envelope)
  OBVIOUS
<1>4. Parses(source) => source.lines \in Seq(Envelope)
  BY SourceLines
<1> QED
  BY <1>1, <1>2, <1>3, <1>4, StartType, RunType DEF Next, RelaySource, RelayFile

LEMMA TypeInit == Init => TypeOK
<1>1. <<>> \in Seq(Envelope) /\ <<>> \in Seq(Envelope \cup {Garbled})
  OBVIOUS
<1> QED
  BY <1>1 DEF Init, TypeOK, Files, EmptyFile, Checkpoints, Unreadable, Call

(* Every variable keeps its type in every behaviour of the relayer.        *)
THEOREM RelayTypeCorrect == Spec => []TypeOK
  BY TypeInit, TypeStep, PTL DEF Spec

-----------------------------------------------------------------------------
(* Why the checkpoint never runs ahead of the sink: a run only knows ids   *)
(* that were in the checkpoint, hence written; it adds the current one     *)
(* after writing it; and it starts at its first envelope.                  *)
RunInv(q) ==
  /\ seen[q] \subseteq written
  /\ pc[q] \in {"newline", "truncate", "save"} => CurrentId(q) \in written
  /\ \A k \in DOMAIN batch[q] : k < cursor[q] => IdOf[batch[q][k]] \in written
  /\ pc[q] = "idle" => cursor[q] = 1

WriteInv ==
  /\ TypeOK
  /\ CheckpointAfterWrite
  /\ \A q \in Relayer : RunInv(q)

(* A step of r that leaves the other runs alone and forgets no written id  *)
(* keeps what the invariant says of the other runs.                        *)
LEMMA OthersKeep ==
  ASSUME WriteInv, NEW r \in Relayer, written \subseteq written',
         \A q \in Relayer \ {r} :
           /\ pc'[q] = pc[q] /\ batch'[q] = batch[q]
           /\ cursor'[q] = cursor[q] /\ seen'[q] = seen[q]
  PROVE  \A q \in Relayer \ {r} : RunInv(q)'
  BY DEF WriteInv, RunInv, CurrentId, Current

(* A step in which r's run ends.                                           *)
LEMMA ExitKeeps ==
  ASSUME WriteInv, NEW r \in Relayer, Exit(r), written' = written
  PROVE  \A q \in Relayer : RunInv(q)'
<1>1. /\ pc'[r] = "idle" /\ batch'[r] = <<>> /\ cursor'[r] = 1 /\ seen'[r] = {}
      /\ \A q \in Relayer \ {r} :
           /\ pc'[q] = pc[q] /\ batch'[q] = batch[q]
           /\ cursor'[q] = cursor[q] /\ seen'[q] = seen[q]
  BY DEF WriteInv, TypeOK, Exit, Goto
<1>2. RunInv(r)'
  BY <1>1 DEF RunInv
<1> QED
  BY <1>1, <1>2, OthersKeep

(* A step in which r moves on past an envelope whose id is written.        *)
LEMMA AdvanceKeeps ==
  ASSUME WriteInv, NEW r \in Relayer, Advance(r), written' = written,
         UNCHANGED seen, CurrentId(r) \in written
  PROVE  \A q \in Relayer : RunInv(q)'
<1>1. /\ pc'[r] = "load" /\ batch'[r] = batch[r] /\ cursor'[r] = cursor[r] + 1
      /\ \A q \in Relayer \ {r} :
           /\ pc'[q] = pc[q] /\ batch'[q] = batch[q]
           /\ cursor'[q] = cursor[q] /\ seen'[q] = seen[q]
  BY DEF WriteInv, TypeOK, Advance, Goto
<1>2. \A k \in DOMAIN batch[r] : k < cursor[r] + 1 => k < cursor[r] \/ k = cursor[r]
  BY DEF WriteInv, TypeOK
<1>3. \A k \in DOMAIN batch'[r] : k < cursor'[r] => IdOf[batch'[r][k]] \in written'
  BY <1>1, <1>2 DEF WriteInv, RunInv, CurrentId, Current
<1>4. RunInv(r)'
  BY <1>1, <1>3 DEF WriteInv, RunInv
<1> QED
  BY <1>1, <1>4, OthersKeep

(* A step inside the relaying of one envelope.                             *)
LEMMA GotoKeeps ==
  ASSUME WriteInv, NEW r \in Relayer, NEW call \in Call \ {"idle"},
         Goto(r, call), UNCHANGED <<batch, cursor>>, written \subseteq written',
         \A q \in Relayer \ {r} : seen'[q] = seen[q],
         seen'[r] \subseteq written',
         call \in {"newline", "truncate", "save"} => CurrentId(r) \in written'
  PROVE  \A q \in Relayer : RunInv(q)'
<1>1. /\ pc'[r] = call /\ batch'[r] = batch[r] /\ cursor'[r] = cursor[r]
      /\ \A q \in Relayer \ {r} :
           /\ pc'[q] = pc[q] /\ batch'[q] = batch[q]
           /\ cursor'[q] = cursor[q] /\ seen'[q] = seen[q]
  BY DEF WriteInv, TypeOK, Goto
<1>2. CurrentId(r)' = CurrentId(r)
  BY DEF CurrentId, Current
<1>3. RunInv(r)'
  BY <1>1, <1>2 DEF WriteInv, RunInv
<1> QED
  BY <1>1, <1>3, OthersKeep

LEMMA WriteInvInit == Init => WriteInv
  BY TypeInit DEF Init, WriteInv, CheckpointAfterWrite, RunInv, Unreadable

(* A run starts; it goes on or dies.                                       *)
LEMMA StartWrites ==
  ASSUME WriteInv, NEW r \in Relayer, NEW s \in Seq(Envelope), Start(r, s)
  PROVE  WriteInv'
<1>1. /\ pc'[r] = "load" /\ cursor'[r] = 1 /\ seen'[r] = seen[r]
      /\ \A q \in Relayer \ {r} :
           /\ pc'[q] = pc[q] /\ batch'[q] = batch[q]
           /\ cursor'[q] = cursor[q] /\ seen'[q] = seen[q]
  BY DEF WriteInv, TypeOK, RunInv, Start, Goto
<1>2. batch'[r] = s
  BY DEF WriteInv, TypeOK, Start
<1>3. RunInv(r)'
  BY <1>1, <1>2 DEF WriteInv, RunInv, Start
<1>4. TypeOK'
  BY StartType DEF WriteInv
<1> QED
  BY <1>1, <1>3, <1>4, OthersKeep DEF WriteInv, Start, CheckpointAfterWrite

LEMMA RunWrites ==
  ASSUME WriteInv, NEW r \in Relayer, Proceed(r) \/ Crash(r)
  PROVE  WriteInv'
<1> USE DEF Call
<1>0. TypeOK'
  BY RunType DEF WriteInv
<1>1. CASE Finish(r)
  BY <1>0, <1>1, ExitKeeps DEF Finish, WriteInv, CheckpointAfterWrite
<1>2. CASE LoadCheckpoint(r)
  <2>0. CheckpointAfterWrite' /\ written' = written
    BY <1>2 DEF LoadCheckpoint, WriteInv, CheckpointAfterWrite
  <2>1. CASE Exit(r)
    BY <1>0, <2>0, <2>1, ExitKeeps DEF WriteInv
  <2>2. CASE CurrentId(r) \in checkpoint.ids /\ Advance(r) /\ UNCHANGED seen
    <3>1. CurrentId(r) \in written
      BY <2>2 DEF WriteInv, CheckpointAfterWrite
    <3> QED
      BY <1>0, <2>0, <2>2, <3>1, AdvanceKeeps DEF WriteInv
  <2>3. CASE /\ seen' = [seen EXCEPT ![r] = checkpoint.ids]
             /\ Goto(r, "write")
             /\ UNCHANGED <<batch, cursor>>
    <3>1. /\ \A q \in Relayer \ {r} : seen'[q] = seen[q]
          /\ seen'[r] \subseteq written'
      BY <2>0, <2>3 DEF WriteInv, TypeOK, CheckpointAfterWrite
    <3> QED
      BY <1>0, <2>0, <2>3, <3>1, GotoKeeps DEF WriteInv
  <2> QED
    BY <1>2, <2>1, <2>2, <2>3 DEF LoadCheckpoint
<1>3. CASE WriteRecord(r)
  <2>1. /\ CurrentId(r) \in written' /\ written \subseteq written'
        /\ UNCHANGED <<batch, cursor, seen, checkpoint>> /\ Goto(r, "newline")
    BY <1>3 DEF WriteRecord
  <2>2. seen'[r] \subseteq written'
    BY <2>1 DEF WriteInv, RunInv
  <2> QED
    BY <1>0, <2>1, <2>2, GotoKeeps DEF WriteInv, CheckpointAfterWrite
<1>4. CASE WriteNewline(r) \/ TruncateCheckpoint(r)
  <2>1. CurrentId(r) \in written /\ seen[r] \subseteq written
    BY <1>4 DEF WriteInv, RunInv, WriteNewline, TruncateCheckpoint
  <2>2. /\ written' = written /\ UNCHANGED <<batch, cursor, seen>>
        /\ Goto(r, "truncate") \/ Goto(r, "save")
    BY <1>4 DEF WriteNewline, TruncateCheckpoint
  <2>3. CheckpointAfterWrite'
    BY <1>4 DEF WriteInv, CheckpointAfterWrite, WriteNewline,
       TruncateCheckpoint, Unreadable
  <2> QED
    BY <1>0, <2>1, <2>2, <2>3, GotoKeeps DEF WriteInv
<1>5. CASE SaveCheckpoint(r)
  <2>1. CurrentId(r) \in written /\ seen[r] \subseteq written
    BY <1>5 DEF WriteInv, RunInv, SaveCheckpoint
  <2>2. CheckpointAfterWrite'
    BY <1>5, <2>1 DEF SaveCheckpoint, CheckpointAfterWrite, Saved, Unreadable
  <2> QED
    BY <1>0, <1>5, <2>1, <2>2, AdvanceKeeps DEF WriteInv, SaveCheckpoint
<1>6. CASE Crash(r)
  <2>1. CheckpointAfterWrite'
    BY <1>6 DEF WriteInv, CheckpointAfterWrite, Crash, Unreadable
  <2> QED
    BY <1>0, <1>6, <2>1, ExitKeeps DEF WriteInv, Crash
<1> QED
  BY <1>1, <1>2, <1>3, <1>4, <1>5, <1>6 DEF Proceed

LEMMA WriteInvStep ==
  ASSUME WriteInv, [Next]_vars
  PROVE  WriteInv'
<1>0. TypeOK'
  BY TypeStep DEF WriteInv
<1>1. ASSUME NEW e \in Envelope, Publish(e)
      PROVE  WriteInv'
  BY <1>0, <1>1 DEF WriteInv, Publish, CheckpointAfterWrite, RunInv,
     CurrentId, Current
<1>2. CASE UNCHANGED vars
  BY <1>0, <1>2 DEF WriteInv, CheckpointAfterWrite, RunInv, CurrentId, Current, vars
<1>3. /\ Parses(source) => source.lines \in Seq(Envelope)
      /\ \A e \in Envelope : <<e>> \in Seq(Envelope)
  BY SourceLines DEF WriteInv
<1> QED
  BY <1>1, <1>2, <1>3, StartWrites, RunWrites DEF Next, RelaySource, RelayFile

(* However many runs overlap and die, the checkpoint names an id only      *)
(* after its record was written to the sink, and no run passes over an     *)
(* envelope whose id was not.                                              *)
THEOREM RelayWritesBeforeCheckpoint == Spec => []WrittenFirst
<1>1. WriteInv => WrittenFirst
  BY DEF WriteInv, RunInv, NothingSkippedUnwritten, WrittenFirst
<1> QED
  BY <1>1, WriteInvInit, WriteInvStep, PTL DEF Spec

-----------------------------------------------------------------------------
(* Why a relayer that is alone and never crashes is replay-safe.  Confirmed*)
(* is what the checkpoint holds, or is about to hold again while its file  *)
(* is empty; the sink holds exactly those ids and the one being relayed.   *)
Relaying == {"write", "newline", "truncate", "save"}
Confirmed(r) == IF pc[r] = "save" THEN seen[r] ELSE checkpoint.ids
Mirrored == {IdOf[sink.lines[k]] : k \in DOMAIN sink.lines}

AloneInv(r) ==
  /\ pc[r] \in {"write", "newline", "truncate"} => seen[r] = checkpoint.ids
  /\ pc[r] = "save" <=> checkpoint.state = "empty"
  /\ checkpoint.state # "garbled"
  /\ checkpoint.state = "empty" => checkpoint.ids = {}
  /\ sink.open = TRUE <=> pc[r] = "newline"
  /\ \A k \in DOMAIN sink.lines : sink.lines[k] # Garbled
  /\ \A j, k \in DOMAIN sink.lines :
       j # k => IdOf[sink.lines[j]] # IdOf[sink.lines[k]]
  /\ pc[r] \in Relaying => CurrentId(r) \notin Confirmed(r)
  /\ Mirrored = IF pc[r] \in {"newline", "truncate", "save"}
                THEN Confirmed(r) \cup {CurrentId(r)} ELSE Confirmed(r)

ReplayInv ==
  /\ TypeOK
  /\ crashes = 0 => \A r \in Relayer : Relayer = {r} => AloneInv(r)

LEMMA ReplayInvInit == Init => ReplayInv
<1> SUFFICES ASSUME Init, NEW r \in Relayer
             PROVE  AloneInv(r)
  BY TypeInit DEF ReplayInv
<1>1. sink.lines = <<>> /\ sink.open = FALSE /\ DOMAIN sink.lines = {}
  BY DEF Init, EmptyFile
<1>2. pc[r] = "idle" /\ checkpoint.state = "absent" /\ checkpoint.ids = {}
  BY DEF Init, Unreadable
<1>3. Mirrored = {} /\ Confirmed(r) = {}
  BY <1>1, <1>2 DEF Mirrored, Confirmed
<1> QED
  BY <1>1, <1>2, <1>3 DEF AloneInv, Relaying

LEMMA ReplayInvStep ==
  ASSUME ReplayInv, [Next]_vars
  PROVE  ReplayInv'
<1> USE DEF Call, Relaying
<1>0. TypeOK'
  BY TypeStep DEF ReplayInv
<1> SUFFICES ASSUME crashes' = 0, NEW r \in Relayer, Relayer = {r}
             PROVE  AloneInv(r)'
  BY <1>0 DEF ReplayInv
<1>1. TypeOK /\ \A q \in Relayer : q = r
  BY DEF ReplayInv
<1>2. crashes = 0 /\ ~Crash(r)
  BY <1>1 DEF TypeOK, Next, Publish, Proceed, RelaySource, RelayFile, Start, Finish,
     LoadCheckpoint, WriteRecord, WriteNewline, TruncateCheckpoint,
     SaveCheckpoint, Crash, vars
<1>3. AloneInv(r)
  BY <1>2 DEF ReplayInv
<1>4. ASSUME UNCHANGED <<sink, checkpoint, pc, seen>>,
             pc[r] \in Relaying => CurrentId(r)' = CurrentId(r)
      PROVE  AloneInv(r)'
  BY <1>3, <1>4 DEF AloneInv, Confirmed, Mirrored
<1>5. ASSUME UNCHANGED <<sink, checkpoint>>, pc'[r] \in {"idle", "load"},
             pc[r] \in {"idle", "load"}
      PROVE  AloneInv(r)'
  BY <1>3, <1>5 DEF AloneInv, Confirmed, Mirrored
<1>6. CASE \E e \in Envelope : Publish(e)
  BY <1>4, <1>6 DEF Publish, CurrentId, Current
<1>7. CASE \E s \in Seq(Envelope) : Start(r, s)
  BY <1>1, <1>5, <1>7 DEF Start, Goto, TypeOK
<1>8. CASE Finish(r)
  BY <1>1, <1>5, <1>8 DEF Finish, Exit, Goto, TypeOK
<1>9. CASE LoadCheckpoint(r)
  <2>1. CASE Exit(r) \/ Advance(r)
    BY <1>1, <1>5, <1>9, <2>1 DEF LoadCheckpoint, Exit, Advance, Goto, TypeOK
  <2>2. CASE /\ CurrentId(r) \notin checkpoint.ids
             /\ seen' = [seen EXCEPT ![r] = checkpoint.ids]
             /\ Goto(r, "write")
             /\ UNCHANGED <<batch, cursor>>
    <3>1. /\ pc[r] = "load" /\ pc'[r] = "write" /\ seen'[r] = checkpoint.ids
          /\ UNCHANGED <<sink, checkpoint>> /\ CurrentId(r)' = CurrentId(r)
      BY <1>1, <1>9, <2>2 DEF LoadCheckpoint, Goto, TypeOK, CurrentId, Current
    <3> QED
      BY <1>3, <2>2, <3>1 DEF AloneInv, Confirmed, Mirrored
  <2> QED
    BY <1>9, <2>1, <2>2 DEF LoadCheckpoint
<1>10. CASE WriteRecord(r)
  <2>1. /\ pc[r] = "write" /\ pc'[r] = "newline" /\ seen'[r] = seen[r]
        /\ UNCHANGED checkpoint /\ CurrentId(r)' = CurrentId(r)
    BY <1>1, <1>10 DEF WriteRecord, Goto, TypeOK, CurrentId, Current
  <2>2. Current(r) \in Envelope
    BY <1>1, <2>1, CurrentType DEF TypeOK
  <2>3. sink.lines \in Seq(Envelope \cup {Garbled}) /\ sink.open = FALSE
    BY <1>1, <1>3, <2>1 DEF TypeOK, Files, AloneInv
  <2>4. sink'.lines = Append(sink.lines, Current(r)) /\ sink'.open = TRUE
    BY <1>10, <2>3 DEF WriteRecord, AppendOpen, AppendLine
  <2>5. /\ DOMAIN sink'.lines = DOMAIN sink.lines \cup {Len(sink.lines) + 1}
        /\ Len(sink.lines) + 1 \notin DOMAIN sink.lines
        /\ sink'.lines[Len(sink.lines) + 1] = Current(r)
        /\ \A k \in DOMAIN sink.lines : sink'.lines[k] = sink.lines[k]
    BY <2>2, <2>3, <2>4
  <2>6. Mirrored' = Mirrored \cup {CurrentId(r)}
    BY <2>5 DEF Mirrored, CurrentId
  <2>7. Mirrored = checkpoint.ids /\ CurrentId(r) \notin Mirrored
    BY <1>3, <2>1 DEF AloneInv, Confirmed
  <2>8. \A j, k \in DOMAIN sink'.lines :
          j # k => IdOf[sink'.lines[j]] # IdOf[sink'.lines[k]]
    BY <1>3, <2>5, <2>7 DEF AloneInv, Mirrored, CurrentId
  <2>9. \A k \in DOMAIN sink'.lines : sink'.lines[k] # Garbled
    BY <1>3, <2>2, <2>5 DEF AloneInv
  <2>10. sink'.open = TRUE <=> pc'[r] = "newline"
    BY <2>1, <2>4
  <2>11. Confirmed(r)' = checkpoint.ids
    BY <2>1 DEF Confirmed
  <2> QED
    BY <1>3, <2>1, <2>6, <2>7, <2>8, <2>9, <2>10, <2>11 DEF AloneInv
<1>11. CASE WriteNewline(r)
  <2>1. /\ pc[r] = "newline" /\ pc'[r] = "truncate" /\ seen' = seen
        /\ UNCHANGED checkpoint /\ CurrentId(r)' = CurrentId(r)
        /\ sink'.lines = sink.lines /\ sink'.open = FALSE
    BY <1>1, <1>11 DEF WriteNewline, Goto, TypeOK, CurrentId, Current, Files
  <2>2. Mirrored' = Mirrored /\ Confirmed(r)' = Confirmed(r)
    BY <2>1 DEF Mirrored, Confirmed
  <2> QED
    BY <1>3, <2>1, <2>2 DEF AloneInv
<1>12. CASE TruncateCheckpoint(r)
  <2>1. /\ pc[r] = "truncate" /\ pc'[r] = "save" /\ seen' = seen
        /\ UNCHANGED sink /\ CurrentId(r)' = CurrentId(r)
        /\ checkpoint' = Unreadable("empty")
    BY <1>1, <1>12 DEF TruncateCheckpoint, Goto, TypeOK, CurrentId, Current, Unreadable
  <2>2. checkpoint'.state = "empty" /\ checkpoint'.ids = {}
    BY <2>1 DEF Unreadable
  <2>3. Mirrored' = Mirrored /\ Confirmed(r)' = Confirmed(r)
    BY <1>3, <2>1 DEF Mirrored, Confirmed, AloneInv
  <2> QED
    BY <1>3, <2>1, <2>2, <2>3 DEF AloneInv
<1>13. CASE SaveCheckpoint(r)
  <2>1. /\ pc[r] = "save" /\ pc'[r] = "load" /\ UNCHANGED <<sink, seen>>
    BY <1>1, <1>13 DEF SaveCheckpoint, Advance, Goto, TypeOK
  <2>2. checkpoint' = Saved(seen[r] \cup {CurrentId(r)})
    BY <1>3, <1>13, <2>1 DEF SaveCheckpoint, AloneInv
  <2> QED
    BY <1>3, <2>1, <2>2 DEF AloneInv, Confirmed, Mirrored, Saved
<1>14. CASE UNCHANGED vars
  BY <1>4, <1>14 DEF vars, CurrentId, Current
<1>15. /\ Parses(source) => source.lines \in Seq(Envelope)
       /\ \A e \in Envelope : <<e>> \in Seq(Envelope)
  BY <1>1, SourceLines
<1> QED
  BY <1>1, <1>2, <1>6, <1>7, <1>8, <1>9, <1>10, <1>11, <1>12, <1>13, <1>14, <1>15
  DEF Next, Proceed, RelaySource, RelayFile

(* A relayer that is alone and does not crash writes no memory_id twice,   *)
(* and every id in its checkpoint is on a line of the sink that parses.    *)
THEOREM RelayReplaySafeAlone == Spec => []ReplaySafeAlone
<1>1. ReplayInv => ReplaySafeAlone
  <2> SUFFICES ASSUME ReplayInv, crashes = 0, NEW r \in Relayer, Relayer = {r}
               PROVE  NoReplay /\ Lost = {}
    BY DEF ReplaySafeAlone, Alone
  <2>1. AloneInv(r) /\ TypeOK
    BY DEF ReplayInv
  <2>2. NoReplay
    BY <2>1 DEF AloneInv, NoReplay
  <2>3. checkpoint.ids \subseteq Mirrored
    <3>1. CASE pc[r] = "save"
      BY <2>1, <3>1 DEF AloneInv
    <3>2. CASE pc[r] # "save"
      BY <2>1, <3>2 DEF AloneInv, Confirmed
    <3> QED
      BY <3>1, <3>2
  <2> QED
    BY <2>1, <2>2, <2>3 DEF Lost, InSink, Mirrored, AloneInv
<1> QED
  BY <1>1, ReplayInvInit, ReplayInvStep, PTL DEF Spec

-----------------------------------------------------------------------------
(* What a relayer that is alone loses and repeats.  Accounted is what the  *)
(* lines of the sink stand for: the ids of the checkpoint, and the current *)
(* one once it is written; Missing are those of them that a reader of the  *)
(* sink does not find.  A crash either loses an id between its write and   *)
(* its checkpoint, or leaves a line that is a fragment or lacks the        *)
(* newline: the next record is glued to it and makes no line of its own,   *)
(* so that it is missing but costs no line.  Nothing that is checkpointed  *)
(* was on that line.  A checkpoint that does not parse stops every later   *)
(* run.                                                                    *)
Readable == checkpoint.state \in {"absent", "saved"}

Kept(r) ==
  IF pc[r] = "save" THEN seen[r] \cup {CurrentId(r)}
  ELSE IF pc[r] \in {"newline", "truncate"} THEN checkpoint.ids \cup {CurrentId(r)}
  ELSE checkpoint.ids

Missing(r) == Kept(r) \ InSink

Accounted(r) ==
  IF pc[r] \in {"save", "newline", "truncate"} \/ Readable THEN Kept(r) ELSE written

LastLine == sink.lines[Len(sink.lines)]
OpenLineInv == sink.open => LastLine = Garbled \/ IdOf[LastLine] \notin checkpoint.ids

LinesInv(r) ==
  /\ pc[r] \in {"write", "newline", "truncate"} =>
       Readable /\ seen[r] = checkpoint.ids /\ CurrentId(r) \notin checkpoint.ids
  /\ pc[r] = "save" => checkpoint.state = "empty"
  /\ ~Readable => checkpoint.ids = {}
  /\ pc[r] \in {"truncate", "save"} => ~sink.open
  /\ OpenLineInv
  /\ Len(sink.lines) + Cardinality(Missing(r)) <= Cardinality(Accounted(r)) + crashes

AccountInv ==
  /\ WriteInv
  /\ IsFiniteSet(written)
  /\ \A r \in Relayer : Relayer = {r} => LinesInv(r)

(* What is accounted for has been written, and what is missing is part of  *)
(* it.                                                                     *)
LEMMA AccountedWritten ==
  ASSUME WriteInv, IsFiniteSet(written), NEW r \in Relayer
  PROVE  /\ Accounted(r) \subseteq written
         /\ IsFiniteSet(Accounted(r)) /\ IsFiniteSet(checkpoint.ids)
         /\ Cardinality(Accounted(r)) \in Nat /\ Cardinality(written) \in Nat
         /\ Cardinality(Accounted(r)) <= Cardinality(written)
         /\ IsFiniteSet(Missing(r)) /\ Cardinality(Missing(r)) \in Nat
<1>1. Accounted(r) \subseteq written /\ Missing(r) \subseteq written
  BY DEF WriteInv, RunInv, CheckpointAfterWrite, Accounted, Kept, Missing
<1>2. checkpoint.ids \subseteq written
  BY DEF WriteInv, CheckpointAfterWrite
<1> QED
  BY <1>1, <1>2, FS_Subset, FS_CardinalityType

(* What a record or a part of one does to the sink: on a line of its own   *)
(* it hides no other; on an open line it hides only what was there.        *)
LEMMA SinkWrite ==
  ASSUME TypeOK, NEW e \in Envelope, sink' \in {AppendOpen(sink, e)} \cup CutAppend(sink, e)
  PROVE  /\ Len(sink.lines) \in Nat /\ Len(sink'.lines) \in Nat
         /\ Len(sink'.lines) <= Len(sink.lines) + 1
         /\ ~sink.open => InSink \subseteq InSink'
         /\ ~sink.open /\ sink' = AppendOpen(sink, e) => IdOf[e] \in InSink'
         /\ sink.open => Len(sink'.lines) = Len(sink.lines)
         /\ sink.open => \A id \in InSink :
              id \in InSink' \/ (LastLine # Garbled /\ IdOf[LastLine] = id)
         /\ sink' = sink \/ LastLine' \in {Garbled, e}
<1>0. sink \in Files(Envelope) /\ sink.lines \in Seq(Envelope \cup {Garbled})
  BY DEF TypeOK, Files
<1>1. /\ Len(sink.lines) \in Nat /\ Len(sink'.lines) \in Nat
      /\ Len(sink'.lines) <= Len(sink.lines) + 1
  BY <1>0, AppendLength
<1>2. sink' = sink => InSink' = InSink /\ LastLine' = LastLine
  BY DEF InSink, LastLine
<1>3. ASSUME NEW x \in {Garbled, e}, sink' = AppendOpen(sink, x), ~sink.open
      PROVE  /\ InSink \subseteq InSink' /\ LastLine' = x
             /\ x = e => IdOf[e] \in InSink'
  <2>1. x \in Envelope \cup {Garbled} /\ sink'.lines = Append(sink.lines, x)
    BY <1>3 DEF AppendOpen, AppendLine
  <2>2. /\ DOMAIN sink'.lines = DOMAIN sink.lines \cup {Len(sink.lines) + 1}
        /\ sink'.lines[Len(sink.lines) + 1] = x
        /\ Len(sink'.lines) = Len(sink.lines) + 1
        /\ \A k \in DOMAIN sink.lines : sink'.lines[k] = sink.lines[k]
    BY <1>0, <2>1
  <2> QED
    BY <2>2 DEF InSink, LastLine
<1>4. ASSUME NEW x \in {Garbled, e}, sink' = AppendOpen(sink, x), sink.open
      PROVE  /\ Len(sink'.lines) = Len(sink.lines) /\ LastLine' = Garbled
             /\ \A id \in InSink :
                  id \in InSink' \/ (LastLine # Garbled /\ IdOf[LastLine] = id)
  <2>1. sink'.lines = GlueToLast(sink)
    BY <1>4 DEF AppendOpen, AppendLine
  <2>2. /\ sink'.lines \in Seq(Envelope \cup {Garbled})
        /\ Len(sink'.lines) = Len(sink.lines)
        /\ \A k \in 1 .. Len(sink.lines) :
             sink'.lines[k] = IF k = Len(sink.lines) THEN Garbled ELSE sink.lines[k]
    BY <1>0, <2>1, GlueFacts
  <2>3. DOMAIN sink'.lines = 1 .. Len(sink.lines) /\ DOMAIN sink.lines = 1 .. Len(sink.lines)
    BY <1>0, <2>2
  <2>4. sink.lines # <<>> /\ Len(sink.lines) \in 1 .. Len(sink.lines)
    BY <1>0, <1>4 DEF Files
  <2>5. ASSUME NEW id \in InSink, LastLine = Garbled \/ IdOf[LastLine] # id
        PROVE  id \in InSink'
    <3>1. PICK k \in DOMAIN sink.lines : sink.lines[k] # Garbled /\ IdOf[sink.lines[k]] = id
      BY DEF InSink
    <3>2. k # Len(sink.lines)
      BY <2>5, <3>1 DEF LastLine
    <3>3. sink'.lines[k] = sink.lines[k] /\ k \in DOMAIN sink'.lines
      BY <2>2, <2>3, <3>1, <3>2
    <3> QED
      BY <3>1, <3>3 DEF InSink
  <2> QED
    BY <2>2, <2>4, <2>5 DEF LastLine
<1>5. sink' = sink \/ \E x \in {Garbled, e} : sink' = AppendOpen(sink, x)
  BY DEF CutAppend
<1> QED
  BY <1>1, <1>2, <1>3, <1>4, <1>5

LEMMA AccountInvInit == Init => AccountInv
<1> SUFFICES ASSUME Init PROVE AccountInv
  OBVIOUS
<1>1. written = {} /\ IsFiniteSet(written) /\ crashes = 0
  BY FS_EmptySet DEF Init
<1>2. Len(sink.lines) = 0 /\ sink.open = FALSE
  BY DEF Init, EmptyFile
<1>3. ASSUME NEW r \in Relayer
      PROVE  LinesInv(r)
  <2>1. pc[r] = "idle" /\ checkpoint.ids = {} /\ Readable
    BY DEF Init, Unreadable, Readable
  <2>2. Accounted(r) = {} /\ Missing(r) = {}
    BY <2>1 DEF Accounted, Kept, Missing
  <2> QED
    BY <1>1, <1>2, <2>1, <2>2, FS_EmptySet DEF LinesInv, OpenLineInv
<1> QED
  BY <1>1, <1>3, WriteInvInit DEF AccountInv

LEMMA AccountInvStep ==
  ASSUME AccountInv, [Next]_vars
  PROVE  AccountInv'
<1> USE DEF Call
<1>1. WriteInv /\ WriteInv' /\ TypeOK /\ TypeOK'
  BY WriteInvStep DEF AccountInv, WriteInv
<1>2. IsFiniteSet(written')
  <2>1. written' = written \/ \E r \in Relayer : written' = written \cup {CurrentId(r)}
    BY DEF Next, Publish, Proceed, RelaySource, RelayFile, Start, Finish, LoadCheckpoint,
       WriteRecord, WriteNewline, TruncateCheckpoint, SaveCheckpoint, Crash, vars
  <2> QED
    BY <2>1, FS_AddElement DEF AccountInv
<1> SUFFICES ASSUME NEW r \in Relayer, Relayer = {r}
             PROVE  LinesInv(r)'
  BY <1>1, <1>2 DEF AccountInv
<1>3. LinesInv(r) /\ \A q \in Relayer : q = r
  BY DEF AccountInv
<1>4. /\ IsFiniteSet(checkpoint.ids) /\ Cardinality(Accounted(r)) \in Nat
      /\ Cardinality(Accounted(r)) <= Cardinality(written) /\ Cardinality(written) \in Nat
      /\ IsFiniteSet(Missing(r)) /\ Cardinality(Missing(r)) \in Nat
  BY <1>1, AccountedWritten DEF AccountInv
<1>5. crashes \in Nat /\ Len(sink.lines) \in Nat
  BY <1>1 DEF TypeOK, Files
<1>6. ASSUME UNCHANGED <<sink, checkpoint, pc, seen, written, crashes>>,
             CurrentId(r)' = CurrentId(r) \/ pc[r] \in {"idle", "load"}
      PROVE  LinesInv(r)'
  BY <1>3, <1>6 DEF LinesInv, OpenLineInv, LastLine, Accounted, Kept, Missing, InSink, Readable
<1>7. ASSUME UNCHANGED <<sink, checkpoint, written>>, pc'[r] \in {"idle", "load"},
             pc[r] \in {"idle", "load"}, crashes' = crashes \/ crashes' = crashes + 1
      PROVE  LinesInv(r)'
  <2>1. /\ Accounted(r)' = Accounted(r) /\ Missing(r)' = Missing(r)
        /\ Readable' = Readable /\ OpenLineInv' = OpenLineInv
    BY <1>7 DEF Accounted, Kept, Missing, InSink, Readable, OpenLineInv, LastLine
  <2> QED
    BY <1>3, <1>4, <1>5, <1>7, <2>1 DEF LinesInv
<1>8. CASE \E e \in Envelope : Publish(e)
  BY <1>6, <1>8 DEF Publish, CurrentId, Current
<1>9. CASE \E s \in Seq(Envelope) : Start(r, s)
  BY <1>1, <1>7, <1>9 DEF Start, Goto, TypeOK
<1>10. CASE Finish(r)
  BY <1>1, <1>7, <1>10 DEF Finish, Exit, Goto, TypeOK
<1>11. CASE LoadCheckpoint(r)
  <2>1. CASE Exit(r) \/ Advance(r)
    BY <1>1, <1>7, <1>11, <2>1 DEF LoadCheckpoint, Exit, Advance, Goto, TypeOK
  <2>2. CASE /\ checkpoint.state \in {"absent", "saved"}
             /\ CurrentId(r) \notin checkpoint.ids
             /\ seen' = [seen EXCEPT ![r] = checkpoint.ids]
             /\ Goto(r, "write")
             /\ UNCHANGED <<batch, cursor>>
    <3>1. /\ pc[r] = "load" /\ pc'[r] = "write" /\ seen'[r] = checkpoint.ids
          /\ UNCHANGED <<sink, checkpoint, written, crashes>> /\ CurrentId(r)' = CurrentId(r)
      BY <1>1, <1>11, <2>2 DEF LoadCheckpoint, Goto, TypeOK, CurrentId, Current
    <3>2. /\ Accounted(r)' = Accounted(r) /\ Missing(r)' = Missing(r)
          /\ OpenLineInv' = OpenLineInv
      BY <3>1 DEF Accounted, Kept, Missing, InSink, Readable, OpenLineInv, LastLine
    <3> QED
      BY <1>3, <2>2, <3>1, <3>2 DEF LinesInv, Readable
  <2> QED
    BY <1>11, <2>1, <2>2 DEF LoadCheckpoint
<1>12. CASE WriteRecord(r)
  <2>1. /\ pc[r] = "write" /\ pc'[r] = "newline" /\ seen'[r] = seen[r]
        /\ UNCHANGED <<checkpoint, crashes>> /\ CurrentId(r)' = CurrentId(r)
        /\ sink' = AppendOpen(sink, Current(r))
    BY <1>1, <1>12 DEF WriteRecord, Goto, TypeOK, CurrentId, Current
  <2>2. Current(r) \in Envelope
    BY <1>1, <2>1, CurrentType DEF TypeOK
  <2>3. /\ Len(sink'.lines) \in Nat /\ Len(sink'.lines) <= Len(sink.lines) + 1
        /\ ~sink.open => InSink \subseteq InSink' /\ CurrentId(r) \in InSink'
        /\ sink.open => Len(sink'.lines) = Len(sink.lines)
        /\ sink.open => \A id \in InSink :
             id \in InSink' \/ (LastLine # Garbled /\ IdOf[LastLine] = id)
        /\ sink' = sink \/ LastLine' \in {Garbled, Current(r)}
    BY <1>1, <2>1, <2>2, SinkWrite DEF CurrentId
  <2>4. /\ Readable /\ seen[r] = checkpoint.ids /\ CurrentId(r) \notin checkpoint.ids
        /\ OpenLineInv
        /\ Len(sink.lines) + Cardinality(Missing(r)) <= Cardinality(Accounted(r)) + crashes
    BY <1>3, <2>1 DEF LinesInv
  <2>5. /\ Accounted(r) = checkpoint.ids /\ Accounted(r)' = checkpoint.ids \cup {CurrentId(r)}
        /\ Missing(r) = checkpoint.ids \ InSink
        /\ Missing(r)' = (checkpoint.ids \cup {CurrentId(r)}) \ InSink'
    BY <2>1, <2>4 DEF Accounted, Kept, Missing
  <2>6. Cardinality(checkpoint.ids \cup {CurrentId(r)}) = Cardinality(checkpoint.ids) + 1
    BY <1>4, <2>4, FS_AddElement
  <2>7. Cardinality(Accounted(r)') = Cardinality(Accounted(r)) + 1
    BY <2>5, <2>6
  <2>8. OpenLineInv'
    BY <2>1, <2>3, <2>4 DEF OpenLineInv, CurrentId, LastLine
  <2>9. Len(sink'.lines) + Cardinality(Missing(r)') <= Cardinality(Accounted(r)') + crashes
    <3>1. CASE ~sink.open
      <4>1. Missing(r)' \subseteq Missing(r)
        BY <2>3, <2>5, <3>1
      <4>2. Cardinality(Missing(r)') \in Nat /\ Cardinality(Missing(r)') <= Cardinality(Missing(r))
        BY <1>4, <4>1, FS_Subset, FS_CardinalityType
      <4> QED
        BY <1>4, <1>5, <2>3, <2>4, <2>7, <4>2
    <3>2. CASE sink.open
      <4>1. Missing(r)' \subseteq Missing(r) \cup {CurrentId(r)}
        BY <2>3, <2>4, <2>5, <3>2 DEF OpenLineInv
      <4>2. /\ IsFiniteSet(Missing(r) \cup {CurrentId(r)})
            /\ Cardinality(Missing(r) \cup {CurrentId(r)}) \in
                 {Cardinality(Missing(r)), Cardinality(Missing(r)) + 1}
        BY <1>4, FS_AddElement
      <4>3. /\ Cardinality(Missing(r)') \in Nat
            /\ Cardinality(Missing(r)') <= Cardinality(Missing(r) \cup {CurrentId(r)})
        BY <4>1, <4>2, FS_Subset, FS_CardinalityType
      <4>4. Cardinality(Missing(r)') <= Cardinality(Missing(r)) + 1
        BY <1>4, <4>2, <4>3
      <4>5. Len(sink'.lines) = Len(sink.lines)
        BY <2>3, <3>2
      <4> QED
        BY <1>4, <1>5, <2>4, <2>7, <4>3, <4>4, <4>5
    <3> QED
      BY <3>1, <3>2
  <2> QED
    BY <2>1, <2>4, <2>8, <2>9 DEF LinesInv, Readable
<1>13. CASE WriteNewline(r)
  <2>1. /\ pc[r] = "newline" /\ pc'[r] = "truncate" /\ seen' = seen
        /\ UNCHANGED <<checkpoint, written, crashes>> /\ CurrentId(r)' = CurrentId(r)
        /\ sink'.lines = sink.lines /\ sink'.open = FALSE
    BY <1>1, <1>13 DEF WriteNewline, Goto, TypeOK, CurrentId, Current, Files
  <2>2. Accounted(r)' = Accounted(r) /\ Missing(r)' = Missing(r) /\ Readable' = Readable
    BY <2>1 DEF Accounted, Kept, Missing, InSink, Readable
  <2> QED
    BY <1>3, <2>1, <2>2 DEF LinesInv, OpenLineInv
<1>14. CASE TruncateCheckpoint(r)
  <2>1. /\ pc[r] = "truncate" /\ pc'[r] = "save" /\ seen' = seen
        /\ UNCHANGED <<sink, written, crashes>> /\ CurrentId(r)' = CurrentId(r)
        /\ checkpoint'.state = "empty" /\ checkpoint'.ids = {}
    BY <1>1, <1>14 DEF TruncateCheckpoint, Goto, TypeOK, CurrentId, Current, Unreadable
  <2>2. Accounted(r)' = Accounted(r) /\ Missing(r)' = Missing(r) /\ ~sink.open
    BY <1>3, <2>1 DEF LinesInv, Accounted, Kept, Missing, InSink
  <2> QED
    BY <1>3, <2>1, <2>2 DEF LinesInv, OpenLineInv
<1>15. CASE SaveCheckpoint(r)
  <2>1. pc[r] = "save" /\ pc'[r] = "load" /\ UNCHANGED <<sink, seen, written, crashes>>
    BY <1>1, <1>15 DEF SaveCheckpoint, Advance, Goto, TypeOK
  <2>2. checkpoint' = Saved(seen[r] \cup {CurrentId(r)})
    BY <1>3, <1>15, <2>1 DEF SaveCheckpoint, LinesInv
  <2>3. /\ Accounted(r)' = Accounted(r) /\ Missing(r)' = Missing(r)
        /\ Readable' /\ ~sink.open
    BY <1>3, <2>1, <2>2 DEF LinesInv, Accounted, Kept, Missing, InSink, Readable, Saved
  <2> QED
    BY <1>3, <2>1, <2>3 DEF LinesInv, OpenLineInv
<1>16. CASE Crash(r)
  <2>0. pc'[r] = "idle" /\ written' = written /\ crashes' = crashes + 1
    BY <1>1, <1>16 DEF Crash, Exit, Goto, TypeOK
  <2>1. Len(sink.lines) + Cardinality(Missing(r)) <= Cardinality(Accounted(r)) + crashes
    BY <1>3 DEF LinesInv
  <2>2. CASE pc[r] = "load"
    BY <1>7, <1>16, <2>0, <2>2 DEF Crash
  <2>3. CASE pc[r] = "write"
    <3>1. /\ sink' \in CutAppend(sink, Current(r)) /\ checkpoint' = checkpoint
          /\ Current(r) \in Envelope
      BY <1>1, <1>16, <2>3, CurrentType DEF Crash, TypeOK
    <3>2. /\ Len(sink'.lines) \in Nat /\ Len(sink'.lines) <= Len(sink.lines) + 1
          /\ ~sink.open => InSink \subseteq InSink'
          /\ sink.open => Len(sink'.lines) = Len(sink.lines)
          /\ sink.open => \A id \in InSink :
               id \in InSink' \/ (LastLine # Garbled /\ IdOf[LastLine] = id)
          /\ sink' = sink \/ LastLine' \in {Garbled, Current(r)}
      BY <1>1, <3>1, SinkWrite
    <3>3. OpenLineInv /\ CurrentId(r) \notin checkpoint.ids /\ Readable
      BY <1>3, <2>3 DEF LinesInv
    <3>4. /\ Accounted(r)' = Accounted(r) /\ Missing(r)' \subseteq Missing(r)
          /\ Readable'
      BY <2>0, <2>3, <3>1, <3>2, <3>3 DEF Accounted, Kept, Missing, Readable, OpenLineInv
    <3>5. OpenLineInv'
      BY <3>1, <3>2, <3>3 DEF OpenLineInv, CurrentId, LastLine
    <3>6. Cardinality(Missing(r)') \in Nat /\ Cardinality(Missing(r)') <= Cardinality(Missing(r))
      BY <1>4, <3>4, FS_Subset, FS_CardinalityType
    <3>7. Len(sink'.lines) + Cardinality(Missing(r)') <= Cardinality(Accounted(r)') + crashes'
      BY <1>4, <1>5, <2>0, <2>1, <3>2, <3>4, <3>6
    <3> QED
      BY <2>0, <3>4, <3>5, <3>7 DEF LinesInv
  <2>4. CASE pc[r] \in {"newline", "truncate"}
    <3>1. sink' = sink /\ checkpoint' = checkpoint
      BY <1>16, <2>4 DEF Crash
    <3>2. Readable /\ CurrentId(r) \notin checkpoint.ids /\ OpenLineInv
      BY <1>3, <2>4 DEF LinesInv
    <3>3. /\ Accounted(r)' = checkpoint.ids
          /\ Accounted(r) = checkpoint.ids \cup {CurrentId(r)}
          /\ Missing(r)' \subseteq Missing(r)
          /\ OpenLineInv' /\ Readable'
      BY <2>0, <2>4, <3>1, <3>2
      DEF Accounted, Kept, Missing, InSink, Readable, OpenLineInv, LastLine
    <3>4. /\ Cardinality(checkpoint.ids \cup {CurrentId(r)}) = Cardinality(checkpoint.ids) + 1
          /\ Cardinality(checkpoint.ids) \in Nat
      BY <1>4, <3>2, FS_AddElement, FS_CardinalityType
    <3>5. Cardinality(Accounted(r)) = Cardinality(Accounted(r)') + 1
      BY <3>3, <3>4
    <3>6. Cardinality(Missing(r)') \in Nat /\ Cardinality(Missing(r)') <= Cardinality(Missing(r))
      BY <1>4, <3>3, FS_Subset, FS_CardinalityType
    <3>7. Len(sink'.lines) + Cardinality(Missing(r)') <= Cardinality(Accounted(r)') + crashes'
      BY <1>4, <1>5, <2>0, <2>1, <3>1, <3>3, <3>4, <3>5, <3>6
    <3> QED
      BY <2>0, <3>3, <3>7 DEF LinesInv
  <2>5. CASE pc[r] = "save"
    <3>1. /\ sink' = sink /\ ~sink.open
          /\ checkpoint'.state \in {"empty", "garbled"} /\ checkpoint'.ids = {}
      BY <1>3, <1>16, <2>5 DEF Crash, LinesInv, Unreadable, Readable
    <3>2. Accounted(r)' = written /\ Missing(r)' = {} /\ ~Readable'
      BY <2>0, <3>1 DEF Accounted, Kept, Missing, Readable
    <3>3. Len(sink'.lines) + Cardinality(Missing(r)') <= Cardinality(Accounted(r)') + crashes'
      BY <1>4, <1>5, <2>0, <2>1, <3>1, <3>2, FS_EmptySet
    <3> QED
      BY <2>0, <3>1, <3>2, <3>3 DEF LinesInv, OpenLineInv
  <2>6. pc[r] \in Call \ {"idle"}
    BY <1>1, <1>16 DEF Crash, TypeOK
  <2> QED
    BY <2>2, <2>3, <2>4, <2>5, <2>6
<1>17. CASE UNCHANGED vars
  BY <1>6, <1>17 DEF vars, CurrentId, Current
<1>18. /\ Parses(source) => source.lines \in Seq(Envelope)
       /\ \A e \in Envelope : <<e>> \in Seq(Envelope)
  BY <1>1, SourceLines
<1> QED
  BY <1>3, <1>8, <1>9, <1>10, <1>11, <1>12, <1>13, <1>14, <1>15, <1>16, <1>17, <1>18
  DEF Next, Proceed, RelaySource, RelayFile

(* A relayer that is alone repeats or loses records only where it died,    *)
(* one line for each death.                                                *)
THEOREM RelayCrashCostsOneLine == Spec => []CrashCostsOneLine
<1>1. AccountInv => CrashCostsOneLine
  <2> SUFFICES ASSUME AccountInv, NEW r \in Relayer, Relayer = {r}
               PROVE  Len(sink.lines) + Cardinality(Lost) <= Cardinality(written) + crashes
    BY DEF CrashCostsOneLine, Alone
  <2>1. /\ Len(sink.lines) + Cardinality(Missing(r)) <= Cardinality(Accounted(r)) + crashes
        /\ Lost \subseteq Missing(r)
    BY DEF AccountInv, LinesInv, Lost, Missing, Kept, Readable
  <2>2. /\ Cardinality(Accounted(r)) \in Nat /\ Cardinality(written) \in Nat
        /\ Cardinality(Accounted(r)) <= Cardinality(written)
        /\ IsFiniteSet(Missing(r)) /\ Cardinality(Missing(r)) \in Nat
    BY AccountedWritten DEF AccountInv
  <2>3. Cardinality(Lost) \in Nat /\ Cardinality(Lost) <= Cardinality(Missing(r))
    BY <2>1, <2>2, FS_Subset, FS_CardinalityType
  <2>4. crashes \in Nat /\ Len(sink.lines) \in Nat
    BY DEF AccountInv, WriteInv, TypeOK, Files
  <2> QED
    BY <2>1, <2>2, <2>3, <2>4
<1> QED
  BY <1>1, AccountInvInit, AccountInvStep, PTL DEF Spec

=============================================================================
