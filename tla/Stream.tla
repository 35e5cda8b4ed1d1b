------------------------------- MODULE Stream -------------------------------
(***************************************************************************)
(* What a byte or record stream promises: a bounded first-in first-out     *)
(* queue.  Items are numbered as they are put; they leave from the front,  *)
(* in order, once each, whether they are read or flushed.                  *)
(***************************************************************************)
EXTENDS Naturals, Sequences

CONSTANT Limit          \* how many items the queue may hold

VARIABLES items, next \* the queue; how many items were ever put

vars == <<items, next>>

Init == items = <<>> /\ next = 0

Put(n) == /\ Len(items) + n <= Limit
          /\ items' = items \o [i \in 1..n |-> next + i]
          /\ next' = next + n

Take(n) == /\ items' = SubSeq(items, n + 1, Len(items))
           /\ UNCHANGED next

Next == \/ \E n \in 1..Limit : Put(n)
        \/ \E n \in 1..Len(items) : Take(n)

Spec == Init /\ [][Next]_vars
=============================================================================
