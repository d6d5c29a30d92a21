------------------------------ MODULE MCRelay ------------------------------
(* Small instances of Relay for TLC.                                       *)
EXTENDS Relay, TLC

CONSTANTS a1, a2, b1,   \* anchors: two of memory a, one of memory b
          a, b

MCIdOf == [e \in Envelope |-> IF e = b1 THEN b ELSE a]

Symmetry == Permutations(Relayer)
=============================================================================
