--------------------------- MODULE MCIntrCondWait ---------------------------
(* Instances of IntrCondWait for TLC.                                      *)
EXTENDS IntrCondWait, TLC

Symmetry == Permutations(Waiters) \cup Permutations(Posters)
=============================================================================
