------------------------------ MODULE MCPager ------------------------------
(* Instances of Pager for TLC.                                             *)
EXTENDS Pager, TLC

\* The paging thread is at most three messages behind.
Bounded == Len(msgs) <= 3

Symmetry == Permutations(Users)
============================================================================
