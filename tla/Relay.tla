------------------------------- MODULE Relay -------------------------------
(***************************************************************************)
(* The local relay pipeline of rust/polana-relayer: one-shot runs of       *)
(* relay-anchor-source and relay-memory that copy anchors to a JSONL       *)
(* mirror sink and note every mirrored memory_id in checkpoint.json.       *)
(*                                                                         *)
(* A run may die at any point and be started again by its operator, and    *)
(* nothing keeps two runs on the same files apart.  A step of the model is *)
(* one system call on a file: writeln! to an unbuffered File is two writes *)
(* (the line, its newline), fs::write is an open with O_TRUNC and a write. *)
(*                                                                         *)
(* Abstracted: an anchor is an Envelope of which only the memory_id is     *)
(* looked at; its Borsh instruction and preview are functions of it.  A    *)
(* source that is not there yet is an empty one: no run gets anywhere.     *)
(***************************************************************************)
EXTENDS JsonlFile, FiniteSets

CONSTANTS
  Relayer,     \* relayer processes that may run at the same time
  Envelope,    \* anchors
  MemoryId,
  IdOf,        \* [Envelope -> MemoryId]
  MaxSource,   \* bound: lines of the source
  MaxSink,     \* bound: no run is started on a sink of that many lines
  MaxCrashes   \* bound: runs that die or hit a failing write

ASSUME EnvelopeAssumption ==
  IdOf \in [Envelope -> MemoryId] /\ Garbled \notin Envelope
ASSUME BoundAssumption ==
  MaxSource \in Nat /\ MaxSink \in Nat /\ MaxCrashes \in Nat

VARIABLES
  source,      \* anchor-source.jsonl: the anchors published so far
  sink,        \* mirror-sink.jsonl
  checkpoint,  \* checkpoint.json: [state, ids]
  pc,          \* [Relayer -> the system call it makes next]
  batch,       \* [Relayer -> the anchors its run was started with]
  cursor,      \* [Relayer -> position in batch]
  seen,        \* [Relayer -> the ids of the checkpoint it loaded]
  written,     \* ids of which a whole record has been written to the sink
  crashes      \* crashes so far

vars == <<source, sink, checkpoint, pc, batch, cursor, seen, written, crashes>>

Call == {"idle", "load", "write", "newline", "truncate", "save"}

(* "empty" is a truncated file, "garbled" one that serde_json refuses;     *)
(* neither holds ids.                                                      *)
Checkpoints == [state : {"absent", "empty", "garbled", "saved"},
                ids   : SUBSET MemoryId]

Unreadable(state) == [state |-> state, ids |-> {}]
Saved(ids) == [state |-> "saved", ids |-> ids]

Current(r) == batch[r][cursor[r]]
CurrentId(r) == IdOf[Current(r)]

Init ==
  /\ source = EmptyFile
  /\ sink = EmptyFile
  /\ checkpoint = Unreadable("absent")
  /\ pc = [r \in Relayer |-> "idle"]
  /\ batch = [r \in Relayer |-> <<>>]
  /\ cursor = [r \in Relayer |-> 1]
  /\ seen = [r \in Relayer |-> {}]
  /\ written = {}
  /\ crashes = 0

Goto(r, call) == pc' = [pc EXCEPT ![r] = call]

(* The process is gone, and its memory with it.                            *)
Exit(r) ==
  /\ Goto(r, "idle")
  /\ batch' = [batch EXCEPT ![r] = <<>>]
  /\ cursor' = [cursor EXCEPT ![r] = 1]
  /\ seen' = [seen EXCEPT ![r] = {}]

-----------------------------------------------------------------------------
(* External: somebody appends an anchor to the source (the Chain A         *)
(* stand-in), and may stop half way.                                       *)
Publish(e) ==
  /\ Len(source.lines) < MaxSource
  /\ source' \in {AppendLine(source, e)} \cup CutAppend(source, e)
  /\ UNCHANGED <<sink, checkpoint, pc, batch, cursor, seen, written, crashes>>

(* A run starts: the whole input is read before anything is relayed.       *)
Start(r, anchors) ==
  /\ pc[r] = "idle"
  /\ Len(sink.lines) < MaxSink
  /\ Goto(r, "load")
  /\ batch' = [batch EXCEPT ![r] = anchors]
  /\ UNCHANGED <<source, sink, checkpoint, cursor, seen, written, crashes>>

(* One line of the source that does not parse, wherever it stands, ends    *)
(* the run with an error before anything is relayed.                       *)
RelaySource(r) == Parses(source) /\ Start(r, source.lines)

RelayFile(r, e) == Start(r, <<e>>)

(* The source has no more envelopes: the outcomes are printed.             *)
Finish(r) ==
  /\ pc[r] = "load"
  /\ cursor[r] > Len(batch[r])
  /\ Exit(r)
  /\ UNCHANGED <<source, sink, checkpoint, written, crashes>>

(* Mutant of Advance: the source and the loop both move the cursor.        *)
AdvanceTwice(r) ==
  /\ Goto(r, "load")
  /\ cursor' = [cursor EXCEPT ![r] = @ + 2]
  /\ UNCHANGED batch

(* On to the next envelope of the batch.                                   *)
Advance(r) ==
  /\ Goto(r, "load")
  /\ cursor' = [cursor EXCEPT ![r] = @ + 1]
  /\ UNCHANGED batch

(* Mutants of LoadCheckpoint: a new envelope is noted without being        *)
(* written; nothing is ever skipped.                                       *)
LoadThenSave(r) ==
  /\ pc[r] = "load"
  /\ cursor[r] <= Len(batch[r])
  /\ checkpoint.state \in {"absent", "saved"}
  /\ seen' = [seen EXCEPT ![r] = checkpoint.ids]
  /\ Goto(r, "truncate")
  /\ UNCHANGED <<batch, cursor, source, sink, checkpoint, written, crashes>>

LoadNeverSkips(r) ==
  /\ pc[r] = "load"
  /\ cursor[r] <= Len(batch[r])
  /\ checkpoint.state \in {"absent", "saved"}
  /\ seen' = [seen EXCEPT ![r] = checkpoint.ids]
  /\ Goto(r, "write")
  /\ UNCHANGED <<batch, cursor, source, sink, checkpoint, written, crashes>>

(* The checkpoint is read anew for every envelope.  A file that is there   *)
(* and does not parse ends the run with an error.                          *)
LoadCheckpoint(r) ==
  /\ pc[r] = "load"
  /\ cursor[r] <= Len(batch[r])
  /\ \/ /\ checkpoint.state \in {"empty", "garbled"}
        /\ Exit(r)
     \/ /\ checkpoint.state \in {"absent", "saved"}
        /\ CurrentId(r) \in checkpoint.ids      \* skipped
        /\ Advance(r)
        /\ UNCHANGED seen
     \/ /\ checkpoint.state \in {"absent", "saved"}
        /\ CurrentId(r) \notin checkpoint.ids
        /\ seen' = [seen EXCEPT ![r] = checkpoint.ids]
        /\ Goto(r, "write")
        /\ UNCHANGED <<batch, cursor>>
  /\ UNCHANGED <<source, sink, checkpoint, written, crashes>>

(* append_instruction_record: the record, then its newline.  Between the   *)
(* two the line is open, for this run's crash and for any other's write.   *)
WriteRecord(r) ==
  /\ pc[r] = "write"
  /\ sink' = AppendOpen(sink, Current(r))
  /\ written' = written \cup {CurrentId(r)}
  /\ Goto(r, "newline")
  /\ UNCHANGED <<source, checkpoint, batch, cursor, seen, crashes>>

WriteNewline(r) ==
  /\ pc[r] = "newline"
  /\ sink' = [sink EXCEPT !.open = FALSE]
  /\ Goto(r, "truncate")
  /\ UNCHANGED <<source, checkpoint, batch, cursor, seen, written, crashes>>

(* save_checkpoint.                                                        *)
TruncateCheckpoint(r) ==
  /\ pc[r] = "truncate"
  /\ checkpoint' = Unreadable("empty")
  /\ Goto(r, "save")
  /\ UNCHANGED <<source, sink, batch, cursor, seen, written, crashes>>

(* Mutants of SaveCheckpoint: only the new id is kept; the record is noted *)
(* instead of its memory_id.                                               *)
SaveOnlyNew(r) ==
  /\ pc[r] = "save"
  /\ checkpoint' = Saved({CurrentId(r)})
  /\ Advance(r)
  /\ UNCHANGED <<source, sink, seen, written, crashes>>

SaveRecord(r) ==
  /\ pc[r] = "save"
  /\ checkpoint' = Saved(seen[r] \cup {Current(r)})
  /\ Advance(r)
  /\ UNCHANGED <<source, sink, seen, written, crashes>>

(* The write starts at offset 0 of what the file holds by then.  Another   *)
(* run may have filled it since our truncate: a longer text shows behind   *)
(* ours.  Ids all have the same length, so the set with more ids is longer.*)
SaveCheckpoint(r) ==
  LET ids == seen[r] \cup {CurrentId(r)} IN
  /\ pc[r] = "save"
  /\ checkpoint' \in
       IF checkpoint.state = "garbled" THEN {Saved(ids), Unreadable("garbled")}
       ELSE IF /\ checkpoint.state = "saved"
               /\ Cardinality(checkpoint.ids) > Cardinality(ids)
         THEN {Unreadable("garbled")}
       ELSE {Saved(ids)}
  /\ Advance(r)
  /\ UNCHANGED <<source, sink, seen, written, crashes>>

(* The run dies, or a write it makes fails after some bytes.               *)
Crash(r) ==
  /\ pc[r] # "idle"
  /\ crashes < MaxCrashes
  /\ crashes' = crashes + 1
  /\ \/ /\ pc[r] = "write"
        /\ sink' \in CutAppend(sink, Current(r))
        /\ UNCHANGED checkpoint
     \/ /\ pc[r] = "save"
        /\ checkpoint' \in {checkpoint, Unreadable("garbled")}
        /\ UNCHANGED sink
     \/ /\ pc[r] \notin {"write", "save"}
        /\ UNCHANGED <<sink, checkpoint>>
  /\ Exit(r)
  /\ UNCHANGED <<source, written>>

-----------------------------------------------------------------------------
Proceed(r) ==
  \/ Finish(r) \/ LoadCheckpoint(r)
  \/ WriteRecord(r) \/ WriteNewline(r)
  \/ TruncateCheckpoint(r) \/ SaveCheckpoint(r)

Next ==
  \/ \E e \in Envelope : Publish(e)
  \/ \E r \in Relayer :
       \/ RelaySource(r)
       \/ \E e \in Envelope : RelayFile(r, e)
       \/ Proceed(r)
       \/ Crash(r)

Spec == Init /\ [][Next]_vars

(* A run that is not killed goes on, and the operator runs                 *)
(* relay-anchor-source again and again, other commands in between or not.  *)
FairSpec ==
  /\ Spec
  /\ \A r \in Relayer : WF_vars(Proceed(r)) /\ SF_vars(RelaySource(r))

-----------------------------------------------------------------------------
(* Every variable has its type, and a cursor points at an envelope while   *)
(* one is being relayed.                                                   *)
TypeOK ==
  /\ source \in Files(Envelope)
  /\ sink \in Files(Envelope)
  /\ checkpoint \in Checkpoints
  /\ pc \in [Relayer -> Call]
  /\ batch \in [Relayer -> Seq(Envelope)]
  /\ cursor \in [Relayer -> Nat \ {0}]
  /\ seen \in [Relayer -> SUBSET MemoryId]
  /\ written \subseteq MemoryId
  /\ crashes \in 0 .. MaxCrashes
  /\ \A r \in Relayer : pc[r] \notin {"idle", "load"} => cursor[r] <= Len(batch[r])

(* The checkpoint never runs ahead of the sink: whatever runs overlap or   *)
(* die, an id is in it only after a whole record of that id was written.   *)
CheckpointAfterWrite == checkpoint.ids \subseteq written

(* A run passes over no envelope: behind its cursor every id has been      *)
(* written, by this run, an earlier or a concurrent one.                   *)
NothingSkippedUnwritten ==
  \A r \in Relayer : \A k \in DOMAIN batch[r] :
    k < cursor[r] => IdOf[batch[r][k]] \in written

(* Writing comes first: neither the checkpoint nor a run's cursor leaves   *)
(* behind an id that has not been written.                                 *)
WrittenFirst == CheckpointAfterWrite /\ NothingSkippedUnwritten

(* No memory_id is on two lines of the sink.                               *)
NoReplay ==
  \A j, k \in DOMAIN sink.lines :
    /\ j # k
    /\ sink.lines[j] # Garbled
    /\ sink.lines[k] # Garbled
    => IdOf[sink.lines[j]] # IdOf[sink.lines[k]]

(* The ids that are on a line of the sink that parses.                     *)
InSink ==
  {IdOf[sink.lines[k]] : k \in {j \in DOMAIN sink.lines : sink.lines[j] # Garbled}}

(* Ids that every later run skips, though no reader of the sink finds them.*)
Lost == checkpoint.ids \ InSink

(* One relayer that never crashes is replay-safe: the sink holds each      *)
(* checkpointed id, on one line that parses.                               *)
Alone == \E r \in Relayer : Relayer = {r}
ReplaySafeAlone ==
  Alone /\ crashes = 0 => NoReplay /\ Lost = {}

(* A crash of a relayer on its own costs one line: beyond one line per id  *)
(* there are at most as many as crashes, be they fragments or repeats, and *)
(* where a record was lost, glued to what a crash had left, there is one   *)
(* less of these.                                                          *)
CrashCostsOneLine ==
  Alone => Len(sink.lines) + Cardinality(Lost) <= Cardinality(written) + crashes

(* Every published anchor comes to be on a line of the sink that parses,   *)
(* and stays there, however often runs die before - with these exceptions: *)
(* a run died between the truncate and the write of the checkpoint (such a *)
(* file stops every later run at its first envelope); the publisher left a *)
(* line that does not parse (the source stops every later run); or a run   *)
(* died inside a line and the anchor was glued to it: it is checkpointed   *)
(* and lost.  CrashCostsOneLine bounds how many are.                       *)
TornCheckpoint ==
  /\ checkpoint.state \in {"empty", "garbled"}
  /\ \A r \in Relayer : pc[r] # "save"

MirroredUnlessTorn ==
  \A e \in Envelope :
    (\E k \in DOMAIN source.lines : source.lines[k] = e) ~>
      [](\/ IdOf[e] \in InSink
         \/ IdOf[e] \in Lost /\ crashes > 0
         \/ TornCheckpoint
         \/ ~Parses(source))
=============================================================================
