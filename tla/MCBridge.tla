------------------------------ MODULE MCBridge ------------------------------
(* Small instances of Bridge for TLC.                                      *)
EXTENDS Bridge, TLC

CONSTANTS a1, a2, b1, c1,   \* anchors: two of memory a, one of b, one of c
          a, b, c

MCIdOf == [e \in Envelope |-> IF e = b1 THEN b ELSE IF e = c1 THEN c ELSE a]
=============================================================================
