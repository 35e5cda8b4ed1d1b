----------------------------- MODULE MCStreams -----------------------------
(* Instances of Streams for TLC.                                           *)
EXTENDS Streams

\* Requests that wait for all, wait for something, only probe, do not wait;
\* one larger than maximum_xfer, one for nothing.
MCCalls ==
    {[op |-> op, mode |-> {"WAIT", "TRUNCATE"}, num |-> 2] : op \in {"read", "write"}}
    \cup {[op |-> op, mode |-> {"WAIT"}, num |-> 2] : 
              op \in {"getbytes", "putbytes", "getrec", "putrec"}}
    \cup {[op |-> "read1rec", mode |-> {"WAIT", "PROBE"}, num |-> 1],
          [op |-> "putbytes", mode |-> {}, num |-> 0],
          [op |-> "write", mode |-> {}, num |-> 3],
          [op |-> "read1rec", mode |-> {"WAIT"}, num |-> 1],
          [op |-> "putrec", mode |-> {}, num |-> 1]}

\* Blocks with room, with an offset, longer than asked for, empty at either end.
MCInputs == {<< <<2, 0, 1>> >>, << <<1, 0, 1>>, <<2, 1, 1>> >>, << <<3, 0, 3>> >>,
             << <<2, 0, 0>>, <<1, 0, 1>> >>, << <<1, 0, 1>>, <<2, 0, 0>>, <<2, 0, 2>> >>}

Symmetry == Permutations(Readers)
=============================================================================
