------------------------------ MODULE MCCprocs ------------------------------
(* Instances of Cprocs for TLC; its liveness property leaves no room for    *)
(* symmetry.                                                                *)
EXTENDS Cprocs
=============================================================================
