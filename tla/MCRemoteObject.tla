--------------------------- MODULE MCRemoteObject ---------------------------
(* Instances of RemoteObject for TLC; the temporal properties of its runs   *)
(* leave no room for symmetry.                                              *)
EXTENDS RemoteObject
=============================================================================
