--------------------------- MODULE MCActiveObjects ---------------------------
(* Instances of ActiveObjects for TLC.                                     *)
EXTENDS ActiveObjects
==============================================================================
