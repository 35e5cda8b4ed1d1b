---------------------------- MODULE MCTaskGroups ----------------------------
(* Instances of TaskGroups for TLC.                                        *)
EXTENDS TaskGroups, TLC

Symmetry == Permutations(Threads) \cup Permutations(Tags) \cup Permutations(Objs) \cup Permutations(Names)
=============================================================================
