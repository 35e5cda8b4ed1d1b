--------------------------- MODULE MCObjectHandler ---------------------------
(* Instances of ObjectHandler for TLC.                                     *)
EXTENDS ObjectHandler, TLC
==============================================================================
