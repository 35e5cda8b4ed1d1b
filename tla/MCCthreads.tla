----------------------------- MODULE MCCthreads -----------------------------
(* The instance of Cthreads for TLC; the temporal properties of its run     *)
(* leave no room for symmetry.                                              *)
EXTENDS Cthreads
=============================================================================
