---------------------------- MODULE MCTaskEvents ----------------------------
(* Instances of TaskEvents for TLC.                                        *)
EXTENDS TaskEvents, TLC

\* A task with a parent that has a parent.
CONSTANTS root, mid, kid
MCParent == root :> root @@ mid :> root @@ kid :> mid

\* A child's emulation reports that it stopped or that it exited: other statuses
\* take the way of the second.
Bounded == \A s \in Senders : pc[s] = "chld" => my[s].event \in {"stopped", "exited"}

Symmetry == Permutations(Senders)
=============================================================================
