----------------------------- MODULE Condition -----------------------------
(***************************************************************************)
(* What a C Threads condition variable promises its users: condition_wait  *)
(* gives up the mutex and joins the condition's FIFO in one step, a signal *)
(* releases exactly the longest waiter, a broadcast releases every waiter, *)
(* and a thread leaves condition_wait only after it was released and only  *)
(* with the mutex.  There are no spurious wakeups and no lost ones.        *)
(***************************************************************************)
EXTENDS Naturals, Sequences, Functions

CONSTANTS Threads,   \* the threads (cprocs) that use the mutex
          Conds,     \* the condition variables used with that mutex
          NoThread   \* nobody: the mutex is free

VARIABLES owner,     \* who has the mutex, or NoThread
          waiters,   \* waiters[c]: the threads queued on c, oldest first
          inWait     \* the threads that are inside condition_wait

vars == <<owner, waiters, inWait>>

Queued(t) == \E c \in Conds : t \in Range(waiters[c])

Init == /\ owner = NoThread
        /\ waiters = [c \in Conds |-> <<>>]
        /\ inWait = {}

Lock(t) == /\ owner = NoThread
           /\ t \notin inWait
           /\ owner' = t
           /\ UNCHANGED <<waiters, inWait>>

Unlock(t) == /\ owner = t
             /\ owner' = NoThread
             /\ UNCHANGED <<waiters, inWait>>

\* Release and enqueue are one step: no signal can fall between them.
Wait(t, c) == /\ owner = t
              /\ owner' = NoThread
              /\ waiters' = [waiters EXCEPT ![c] = Append(@, t)]
              /\ inWait' = inWait \cup {t}

Signal(c) == /\ waiters[c] # <<>>
             /\ waiters' = [waiters EXCEPT ![c] = Tail(@)]
             /\ UNCHANGED <<owner, inWait>>

Broadcast(c) == /\ waiters[c] # <<>>
                /\ waiters' = [waiters EXCEPT ![c] = <<>>]
                /\ UNCHANGED <<owner, inWait>>

\* A released waiter returns, with the mutex.
Resume(t) == /\ t \in inWait
             /\ ~Queued(t)
             /\ owner = NoThread
             /\ owner' = t
             /\ inWait' = inWait \ {t}
             /\ UNCHANGED waiters

Next == \/ \E t \in Threads : Lock(t) \/ Unlock(t) \/ Resume(t)
        \/ \E t \in Threads, c \in Conds : Wait(t, c)
        \/ \E c \in Conds : Signal(c) \/ Broadcast(c)

Spec == Init /\ [][Next]_vars
=============================================================================
