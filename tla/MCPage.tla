------------------------------- MODULE MCPage -------------------------------
(* Small instances of Page for TLC.                                        *)
EXTENDS Page, TLC

(* Tabs are alike, and so are memories: no liveness is checked under this. *)
MCSymmetry == Permutations(Tab) \cup Permutations(Memory)
=============================================================================
