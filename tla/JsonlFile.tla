----------------------------- MODULE JsonlFile -----------------------------
(***************************************************************************)
(* A file of JSON lines that is only ever appended to: the memory ledger   *)
(* of packages/ledger, and on the Rust side the anchor source, the mirror  *)
(* sink and the outbox of polana-relayer.                                  *)
(*                                                                         *)
(* An append is one write of "<record>\n".  It either completes or stops   *)
(* after a proper prefix (disk full, power loss).  What a prefix leaves    *)
(* behind matters to the NEXT append, which continues on the same line:    *)
(* the file is therefore its lines and whether the last one is still open  *)
(* (not ended by a newline).                                               *)
(***************************************************************************)
EXTENDS Naturals, Sequences

CONSTANT Garbled        \* a line that JSON.parse / serde_json refuses

EmptyFile == [lines |-> <<>>, open |-> FALSE]

Files(R) == {f \in [lines : Seq(R \cup {Garbled}), open : BOOLEAN] :
               f.open => f.lines # <<>>}

(* The last line with more bytes glued to it: no record any more.          *)
GlueToLast(f) == [f.lines EXCEPT ![Len(f.lines)] = Garbled]

(* Mutant of AppendLine: the newline is forgotten.                         *)
AppendNoNewline(f, r) ==
  [lines |-> IF f.open THEN GlueToLast(f) ELSE Append(f.lines, r),
   open  |-> TRUE]

(* A whole line is written.  On an open line it only completes the garble. *)
AppendLine(f, r) ==
  [lines |-> IF f.open THEN GlueToLast(f) ELSE Append(f.lines, r),
   open  |-> FALSE]

(* The record is written, its newline not yet.                             *)
AppendOpen(f, r) == [lines |-> AppendLine(f, r).lines, open |-> TRUE]

(* What an append of r that stops half way may leave: nothing, a fragment, *)
(* or the whole record without its newline.                                *)
CutAppend(f, r) == {f, AppendOpen(f, Garbled), AppendOpen(f, r)}

Parses(f) == \A k \in DOMAIN f.lines : f.lines[k] # Garbled

=============================================================================
