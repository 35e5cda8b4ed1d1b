----------------------------- MODULE MCPipeNet -----------------------------
(* Instances of PipeNet for TLC.                                           *)
EXTENDS PipeNet, TLC

\* Runs are followed until the queue is broken.  They have an interrupt or
\* disconnections, not both; disconnections only while the limit is as it was, and
\* an interrupt only while it is not negative.
Bounded ==
    /\ ~broken
    /\ disconnects > 0 => posts = 0 /\ qmax = InitialQmax
    /\ posts > 0 => qmax >= 0

MCQmaxes == {1, -1}

Symmetry == Permutations(Servers)
=============================================================================
