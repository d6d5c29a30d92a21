-------------------------- MODULE JsonlFileProofs --------------------------
(* What the appends of JsonlFile return, for the proofs about its users.   *)
EXTENDS JsonlFile, SequenceTheorems, WellFoundedInduction, TLAPS

(* Glueing bytes to the last line keeps the number of lines and touches    *)
(* only the last (packages/ledger append, polana-relayer writeln!).        *)
LEMMA GlueFacts ==
  ASSUME NEW R, NEW f \in Files(R)
  PROVE  /\ GlueToLast(f) \in Seq(R \cup {Garbled})
         /\ Len(GlueToLast(f)) = Len(f.lines)
         /\ \A k \in 1 .. Len(f.lines) :
              GlueToLast(f)[k] = IF k = Len(f.lines) THEN Garbled ELSE f.lines[k]
<1> DEFINE s == f.lines
           S == R \cup {Garbled}
<1>1. s \in Seq(S)
  BY DEF Files
<1>2. Garbled \in S
  OBVIOUS
<1>3. CASE Len(s) = 0
  <2>1. DOMAIN s = {} /\ Len(s) \notin DOMAIN s
    BY <1>1, <1>3
  <2>2. [s EXCEPT ![Len(s)] = Garbled] = s
    BY <2>1, <1>1
  <2>3. GlueToLast(f) = s
    BY <2>2 DEF GlueToLast
  <2>4. 1 .. Len(s) = {}
    BY <1>3
  <2> HIDE DEF s, S
  <2>5. s \in Seq(S) /\ GlueToLast(f) = s /\ f.lines = s /\ 1 .. Len(s) = {} /\ S = R \cup {Garbled}
    BY <1>1, <2>3, <2>4 DEF s, S
  <2> QED
    BY <2>5
<1>4. CASE Len(s) # 0
  <2>1. Len(s) \in 1 .. Len(s)
    BY <1>1, <1>4
  <2> HIDE DEF s, S
  <2>2. /\ [s EXCEPT ![Len(s)] = Garbled] \in Seq(S)
        /\ Len([s EXCEPT ![Len(s)] = Garbled]) = Len(s)
        /\ \A k \in 1 .. Len(s) :
             [s EXCEPT ![Len(s)] = Garbled][k] = IF k = Len(s) THEN Garbled ELSE s[k]
    BY <1>1, <1>2, <2>1, ExceptSeq
  <2> QED
    BY <2>2 DEF GlueToLast, s, S
<1> QED
  BY <1>3, <1>4

(* An open line is a line, and glueing garbles it.                         *)
LEMMA GlueGarbles ==
  ASSUME NEW R, NEW f \in Files(R), f.open
  PROVE  /\ GlueToLast(f) # <<>>
         /\ \E k \in DOMAIN GlueToLast(f) : GlueToLast(f)[k] = Garbled
<1>1. f.lines \in Seq(R \cup {Garbled}) /\ f.lines # <<>>
  BY DEF Files
<1>2. Len(f.lines) \in 1 .. Len(f.lines)
  BY <1>1
<1>3. /\ GlueToLast(f) \in Seq(R \cup {Garbled})
      /\ Len(GlueToLast(f)) = Len(f.lines)
      /\ GlueToLast(f)[Len(f.lines)] = Garbled
  BY <1>2, GlueFacts
<1>4. DOMAIN GlueToLast(f) = 1 .. Len(f.lines)
  BY <1>3
<1> QED
  BY <1>2, <1>3, <1>4

(* A new last line leaves the lines before it where they are.              *)
LEMMA AppendFacts ==
  ASSUME NEW S, NEW s \in Seq(S), NEW x \in S
  PROVE  /\ Append(s, x) \in Seq(S)
         /\ Append(s, x) # <<>>
         /\ DOMAIN Append(s, x) = DOMAIN s \cup {Len(s) + 1}
         /\ Append(s, x)[Len(s) + 1] = x
         /\ \A k \in DOMAIN s : k < Len(s) + 1 /\ Append(s, x)[k] = s[k]
  OBVIOUS

(* An append, its newline written or not yet, yields a file of the same    *)
(* kind of records; even the append of a fragment does.                    *)
LEMMA AppendLineType ==
  ASSUME NEW R, NEW f \in Files(R), NEW r \in R \cup {Garbled}
  PROVE  AppendLine(f, r) \in Files(R) /\ AppendOpen(f, r) \in Files(R)
<1> DEFINE lines == IF f.open THEN GlueToLast(f) ELSE Append(f.lines, r)
<1>1. f.lines \in Seq(R \cup {Garbled})
  BY DEF Files
<1>2. Append(f.lines, r) \in Seq(R \cup {Garbled}) /\ Append(f.lines, r) # <<>>
  BY <1>1, AppendFacts
<1>3. lines \in Seq(R \cup {Garbled}) /\ lines # <<>>
  BY <1>2, GlueFacts, GlueGarbles
<1>4. /\ AppendLine(f, r) = [lines |-> lines, open |-> FALSE]
      /\ AppendOpen(f, r) = [lines |-> lines, open |-> TRUE]
  BY DEF AppendLine, AppendOpen
<1> HIDE DEF lines
<1>5. /\ [lines |-> lines, open |-> FALSE] \in Files(R)
      /\ [lines |-> lines, open |-> TRUE] \in Files(R)
  BY <1>3 DEF Files
<1> QED
  BY <1>4, <1>5

(* So does an append stopped half way.                                     *)
LEMMA CutAppendType ==
  ASSUME NEW R, NEW f \in Files(R), NEW r \in R, NEW g \in CutAppend(f, r)
  PROVE  g \in Files(R)
  BY AppendLineType DEF CutAppend

(* An append after which the file parses found a file that parses, and     *)
(* either changed no line or put its record on a line of its own behind    *)
(* the others: a garbled line never goes away.                             *)
LEMMA ParsedAppend ==
  ASSUME NEW R, NEW f \in Files(R), NEW r \in R,
         NEW g \in {AppendLine(f, r)} \cup CutAppend(f, r), Parses(g)
  PROVE  /\ Parses(f)
         /\ g.lines = f.lines \/ g.lines = Append(f.lines, r)
<1>1. f.lines \in Seq(R \cup {Garbled})
  BY DEF Files
<1>2. ~(g.lines = GlueToLast(f) /\ f.open)
  BY GlueGarbles DEF Parses
<1>3. g.lines # Append(f.lines, Garbled)
  BY <1>1, AppendFacts DEF Parses
<1>4. g.lines = f.lines \/ g.lines = Append(f.lines, r)
  <2>1. CASE g = AppendLine(f, r)
    BY <1>2, <2>1 DEF AppendLine
  <2>2. CASE g \in CutAppend(f, r)
    BY <1>2, <1>3, <2>2 DEF CutAppend, AppendOpen, AppendLine
  <2> QED
    BY <2>1, <2>2
<1>5. CASE g.lines = f.lines
  BY <1>4, <1>5 DEF Parses
<1>6. CASE g.lines = Append(f.lines, r)
  BY <1>1, <1>4, <1>6, AppendFacts DEF Parses
<1> QED
  BY <1>4, <1>5, <1>6

(* A completed append that the file survives ends with its record.         *)
LEMMA ParsedAppendLine ==
  ASSUME NEW R, NEW f \in Files(R), NEW r \in R, Parses(AppendLine(f, r))
  PROVE  AppendLine(f, r).lines = Append(f.lines, r)
  BY GlueGarbles DEF AppendLine, Parses

(* An append adds at most one line, and so does one that stops half way.   *)
LEMMA AppendLength ==
  ASSUME NEW R, NEW f \in Files(R), NEW r \in R,
         NEW g \in {AppendOpen(f, r)} \cup CutAppend(f, r)
  PROVE  Len(f.lines) \in Nat /\ Len(g.lines) \in Nat /\ Len(g.lines) <= Len(f.lines) + 1
<1>1. f.lines \in Seq(R \cup {Garbled}) /\ Len(f.lines) \in Nat
  BY DEF Files
<1>2. \A x \in R \cup {Garbled} : Len(Append(f.lines, x)) = Len(f.lines) + 1
  BY <1>1
<1>3. Len(GlueToLast(f)) = Len(f.lines)
  BY GlueFacts
<1>4. g = f \/ \E x \in R \cup {Garbled} : g.lines \in {GlueToLast(f), Append(f.lines, x)}
  BY DEF CutAppend, AppendOpen, AppendLine
<1> QED
  BY <1>1, <1>2, <1>3, <1>4

(* A set of line numbers that is not empty has a least one.                *)
LEMMA LeastIndex ==
  ASSUME NEW T \in SUBSET Nat, T # {}
  PROVE  \E k \in T : \A j \in T : k <= j
<1>1. \E x \in T : \A y \in T : ~(<<y, x>> \in OpToRel(<, Nat))
  <2> DEFINE R == OpToRel(<, Nat)
  <2>1. IsWellFoundedOn(R, Nat)
    BY NatLessThanWellFounded
  <2> HIDE DEF R
  <2>2. \E x \in T : \A y \in T : ~(<<y, x>> \in R)
    BY <2>1, WFMin
  <2> QED
    BY <2>2 DEF R
<1>2. \A x, y \in Nat : ~(<<y, x>> \in OpToRel(<, Nat)) => x <= y
  BY DEF OpToRel
<1> QED
  BY <1>1, <1>2
=============================================================================
