------------------------------ MODULE Cthreads ------------------------------
(***************************************************************************)
(* The C Threads package above the synchronisation layer                   *)
(* (lib/threads/cthreads.c, MTHREAD): fork, join, detach and exit of       *)
(* cthreads, the pool of cprocs that execute them, the free list of        *)
(* cthread structures, and the state a child of a UNIX fork() starts from. *)
(*                                                                         *)
(* A section under cthread_lock, t->lock or cthread_free_lock is one step: *)
(* everything it touches is protected by that lock.  Conditions are those  *)
(* of module Condition: waiters in FIFO order, a signal with nobody        *)
(* waiting does nothing, a released waiter competes for the mutex.         *)
(*                                                                         *)
(* The client is arbitrary but legal: each cthread handle is joined or     *)
(* detached at most once, and a thread joins only threads forked after it. *)
(***************************************************************************)
EXTENDS Naturals, Sequences, FiniteSets, Functions

CONSTANTS Cprocs,     \* the kernel threads that can be created
          Slots,      \* the addresses malloc can return for a struct cthread
          First,      \* the cproc of the initial thread
          MaxForks,   \* bound on calls of cthread_fork
          MaxUnixForks, \* bound on calls of fork()
          Limits,     \* the values given to cthread_set_limit
          None        \* no cthread, no result

Invocations == 0..MaxForks   \* 0 is the main thread

ASSUME ConstAssumption ==
    /\ First \in Cprocs /\ IsFiniteSet(Cprocs) /\ IsFiniteSet(Slots)
    /\ Cardinality(Cprocs) > MaxForks /\ Cardinality(Slots) > MaxForks
    /\ None \notin Slots \cup Invocations
    /\ MaxForks \in Nat /\ MaxUnixForks \in Nat /\ Limits \subseteq Nat

VARIABLES cthreads,      \* queue of cthreads to execute
          needed,        \* cprocs waiting on cthread_needed
          idle,          \* cprocs waiting on cthread_idle
          n_cprocs, n_cthreads, max_cprocs,
          free_cthreads, \* the free list, as a stack
          heap,          \* structures malloc'd and not freed
          tstate,        \* t->state: a set of flags
          done,          \* cprocs waiting on t->done
          result,        \* t->result
          inv,           \* which fork a structure serves (history)
          pc,            \* where each cproc is
          cur,           \* the cthread a cproc executes (p->incarnation)
          arg,           \* the cthread it joins or detaches
          want,          \* the fork it means by that (history)
          handle,        \* the cthread_t the client holds for each fork
          joined,        \* what cthread_join returned for each fork (history)
          forks, unixforks

vars == <<cthreads, needed, idle, n_cprocs, n_cthreads, max_cprocs,
          free_cthreads, heap, tstate, done, result, inv, pc, cur, arg,
          want, handle, joined, forks, unixforks>>
counts == <<n_cprocs, n_cthreads, max_cprocs>>
client == <<want, handle, joined, forks, unixforks>>

Pcs == {"none", "lock", "needed", "run", "f_signal", "returned", "r_free",
        "r_signal", "r_count", "d_free", "join", "j_wait", "j_woken",
        "j_free", "x_lock", "x_wait", "exited"}
Flags == {"T_MAIN", "T_RETURNED", "T_DETACHED"}

Alive == \A p \in Cprocs : pc[p] # "exited"

Goto(p, to) == pc' = [pc EXCEPT ![p] = to]

\* An address malloc returns; which one makes no difference.
Malloc(used) == CHOOSE t \in Slots : t \notin used

Init == /\ cthreads = <<>> /\ needed = <<>> /\ idle = <<>>
        /\ n_cprocs = 1 /\ n_cthreads = 1 /\ max_cprocs = 0
        /\ free_cthreads = <<>>
        /\ LET s == Malloc({}) IN
              /\ heap = {s}
              /\ tstate = [t \in Slots |-> IF t = s THEN {"T_MAIN"} ELSE {}]
              /\ inv = [t \in Slots |-> IF t = s THEN 0 ELSE None]
              /\ cur = [p \in Cprocs |-> IF p = First THEN s ELSE None]
        /\ done = [t \in Slots |-> <<>>]
        /\ result = [t \in Slots |-> None]
        /\ pc = [p \in Cprocs |-> IF p = First THEN "run" ELSE "none"]
        /\ arg = [p \in Cprocs |-> None] /\ want = [p \in Cprocs |-> None]
        /\ handle = [i \in Invocations |-> None]
        /\ joined = [i \in Invocations |-> None]
        /\ forks = 0 /\ unixforks = 0

-----------------------------------------------------------------------------
(* cthread_fork                                                            *)

\* cthread_alloc: the top of the free list, or a new structure.
Allocate(t) == IF free_cthreads # <<>>
               THEN /\ t = Head(free_cthreads)
                    /\ free_cthreads' = Tail(free_cthreads)
                    /\ UNCHANGED heap
               ELSE /\ t = Malloc(heap)
                    /\ heap' = heap \cup {t}
                    /\ UNCHANGED free_cthreads

\* Mutated form: the test is made with the count before the increment.
NeedCprocLate == /\ n_cthreads > n_cprocs
                 /\ max_cprocs = 0 \/ n_cprocs < max_cprocs

\* ++n_cthreads > n_cprocs, and the limit allows one more.
NeedCproc == /\ n_cthreads + 1 > n_cprocs
             /\ max_cprocs = 0 \/ n_cprocs < max_cprocs

Fork(p, t) ==
    /\ pc[p] = "run"
    /\ forks < MaxForks
    /\ Allocate(t)
    /\ tstate' = [tstate EXCEPT ![t] = {}]
    /\ done' = [done EXCEPT ![t] = <<>>]
    /\ result' = [result EXCEPT ![t] = None]
    /\ inv' = [inv EXCEPT ![t] = forks + 1]
    /\ cthreads' = Append(cthreads, t)
    /\ n_cthreads' = n_cthreads + 1
    /\ \/ /\ NeedCproc
          /\ n_cprocs' = n_cprocs + 1
          /\ \E q \in Cprocs :
                /\ pc[q] = "none"
                /\ pc' = [pc EXCEPT ![p] = "f_signal", ![q] = "lock"]
       \/ /\ ~NeedCproc
          /\ UNCHANGED n_cprocs
          /\ Goto(p, "f_signal")
    /\ forks' = forks + 1
    /\ handle' = [handle EXCEPT ![forks + 1] = t]
    /\ UNCHANGED <<needed, idle, max_cprocs, cur, arg, want, joined, unixforks>>

\* condition_signal(&cthread_needed), after cthread_lock was released.
ForkSignal(p) ==
    /\ pc[p] = "f_signal"
    /\ IF needed = <<>>
       THEN Goto(p, "run") /\ UNCHANGED needed
       ELSE /\ pc' = [pc EXCEPT ![p] = "run", ![Head(needed)] = "lock"]
            /\ needed' = Tail(needed)
    /\ UNCHANGED <<cthreads, idle, counts, free_cthreads, heap, tstate, done,
                   result, inv, cur, arg, client>>

-----------------------------------------------------------------------------
(* cthread_body                                                            *)

\* Mutated form: goes to sleep without signalling cthread_idle.
TurnSilent(p, pcs) ==
    IF cthreads # <<>>
    THEN /\ cthreads' = Tail(cthreads)
         /\ cur' = [cur EXCEPT ![p] = Head(cthreads)]
         /\ pc' = [pcs EXCEPT ![p] = "run"]
         /\ UNCHANGED <<needed, idle>>
    ELSE /\ needed' = Append(needed, p)
         /\ cur' = [cur EXCEPT ![p] = None]
         /\ pc' = [pcs EXCEPT ![p] = "needed"]
         /\ UNCHANGED <<cthreads, idle>>

\* One turn of the loop, with cthread_lock held and the other cprocs at pcs.
Turn(p, pcs) ==
    IF cthreads # <<>>
    THEN /\ cthreads' = Tail(cthreads)
         /\ cur' = [cur EXCEPT ![p] = Head(cthreads)]
         /\ pc' = [pcs EXCEPT ![p] = "run"]
         /\ UNCHANGED <<needed, idle>>
    ELSE /\ needed' = Append(needed, p)
         /\ cur' = [cur EXCEPT ![p] = None]
         /\ IF idle = <<>>
            THEN pc' = [pcs EXCEPT ![p] = "needed"] /\ UNCHANGED idle
            ELSE /\ pc' = [pcs EXCEPT ![p] = "needed", ![Head(idle)] = "x_lock"]
                 /\ idle' = Tail(idle)
         /\ UNCHANGED cthreads

\* A new cproc, or one released from cthread_needed, gets cthread_lock.
BodyLoop(p) ==
    /\ pc[p] = "lock"
    /\ Turn(p, pc)
    /\ UNCHANGED <<counts, free_cthreads, heap, tstate, done, result, inv, arg, client>>

\* The thread's function returns or calls cthread_exit.
Finish(p) ==
    /\ pc[p] = "run"
    /\ result' = [result EXCEPT ![cur[p]] = inv[cur[p]]]
    /\ Goto(p, IF "T_MAIN" \in tstate[cur[p]] THEN "x_lock" ELSE "returned")
    /\ UNCHANGED <<cthreads, needed, idle, counts, free_cthreads, heap, tstate,
                   done, inv, cur, arg, client>>

\* Under t->lock: detached threads free themselves, others become joinable.
Returned(p) ==
    /\ pc[p] = "returned"
    /\ IF "T_DETACHED" \in tstate[cur[p]]
       THEN Goto(p, "r_free") /\ UNCHANGED tstate
       ELSE /\ tstate' = [tstate EXCEPT ![cur[p]] = @ \cup {"T_RETURNED"}]
            /\ Goto(p, "r_signal")
    /\ UNCHANGED <<cthreads, needed, idle, counts, free_cthreads, heap, done,
                   result, inv, cur, arg, client>>

\* cthread_free(t), from the body, from cthread_detach or from cthread_join.
Free(p, from, t, to) ==
    /\ pc[p] = from
    /\ free_cthreads' = <<t>> \o free_cthreads
    /\ Goto(p, to)
    /\ UNCHANGED <<cthreads, needed, idle, counts, heap, tstate, done, result,
                   inv, cur, arg, client>>

\* condition_signal(&t->done), after t->lock was released: by now t may have
\* been joined, freed and given to another fork.
ReturnSignal(p) ==
    /\ pc[p] = "r_signal"
    /\ LET w == done[cur[p]] IN
       IF w = <<>>
       THEN Goto(p, "r_count") /\ UNCHANGED done
       ELSE /\ pc' = [pc EXCEPT ![p] = "r_count", ![Head(w)] = "j_woken"]
            /\ done' = [done EXCEPT ![cur[p]] = Tail(w)]
    /\ UNCHANGED <<cthreads, needed, idle, counts, free_cthreads, heap, tstate,
                   result, inv, cur, arg, client>>

\* Mutated form: does not count the finished thread out.
ReturnUncounted(p) ==
    /\ pc[p] = "r_count"
    /\ Turn(p, pc)
    /\ UNCHANGED <<counts, free_cthreads, heap, tstate, done, result, inv, arg, client>>

\* n_cthreads -= 1 and the next turn, in one section under cthread_lock.
ReturnCount(p) ==
    /\ pc[p] = "r_count"
    /\ n_cthreads' = n_cthreads - 1
    /\ Turn(p, pc)
    /\ UNCHANGED <<n_cprocs, max_cprocs, free_cthreads, heap, tstate, done,
                   result, inv, arg, client>>

-----------------------------------------------------------------------------
(* cthread_detach, cthread_join                                            *)

\* Under t->lock: a thread that has returned is freed here, another frees itself.
Detach(p, i) ==
    /\ pc[p] = "run"
    /\ handle[i] # None
    /\ handle' = [handle EXCEPT ![i] = None]
    /\ arg' = [arg EXCEPT ![p] = handle[i]] /\ want' = [want EXCEPT ![p] = i]
    /\ IF "T_RETURNED" \in tstate[handle[i]]
       THEN Goto(p, "d_free") /\ UNCHANGED tstate
       ELSE /\ tstate' = [tstate EXCEPT ![handle[i]] = @ \cup {"T_DETACHED"}]
            /\ UNCHANGED pc
    /\ UNCHANGED <<cthreads, needed, idle, counts, free_cthreads, heap, done,
                   result, inv, cur, joined, forks, unixforks>>

Join(p, i) ==
    /\ pc[p] = "run"
    /\ handle[i] # None
    /\ i > inv[cur[p]]
    /\ handle' = [handle EXCEPT ![i] = None]
    /\ arg' = [arg EXCEPT ![p] = handle[i]] /\ want' = [want EXCEPT ![p] = i]
    /\ Goto(p, "join")
    /\ UNCHANGED <<cthreads, needed, idle, counts, free_cthreads, heap, tstate,
                   done, result, inv, cur, joined, forks, unixforks>>

\* Mutated form: "if" in place of "while", any wakeup counts as the return.
JoinTestOnce(p) ==
    /\ pc[p] \in {"join", "j_woken"}
    /\ LET t == arg[p] IN
       IF "T_RETURNED" \in tstate[t] \/ pc[p] = "j_woken"
       THEN /\ joined' = [joined EXCEPT ![want[p]] = result[t]]
            /\ Goto(p, "j_free")
            /\ UNCHANGED done
       ELSE /\ done' = [done EXCEPT ![t] = Append(@, p)]
            /\ Goto(p, "j_wait")
            /\ UNCHANGED joined
    /\ UNCHANGED <<cthreads, needed, idle, counts, free_cthreads, heap, tstate,
                   result, inv, cur, arg, want, handle, forks, unixforks>>

\* while (!(t->state & T_RETURNED)) condition_wait(...), then the result.
JoinTest(p) ==
    /\ pc[p] \in {"join", "j_woken"}
    /\ LET t == arg[p] IN
       IF "T_RETURNED" \in tstate[t]
       THEN /\ joined' = [joined EXCEPT ![want[p]] = result[t]]
            /\ Goto(p, "j_free")
            /\ UNCHANGED done
       ELSE /\ done' = [done EXCEPT ![t] = Append(@, p)]
            /\ Goto(p, "j_wait")
            /\ UNCHANGED joined
    /\ UNCHANGED <<cthreads, needed, idle, counts, free_cthreads, heap, tstate,
                   result, inv, cur, arg, want, handle, forks, unixforks>>

-----------------------------------------------------------------------------
(* cthread_exit of the main thread, cthread_set_limit                      *)

ExitMain(p) ==
    /\ pc[p] = "x_lock"
    /\ IF n_cthreads > 1
       THEN idle' = Append(idle, p) /\ Goto(p, "x_wait")
       ELSE Goto(p, "exited") /\ UNCHANGED idle
    /\ UNCHANGED <<cthreads, needed, counts, free_cthreads, heap, tstate, done,
                   result, inv, cur, arg, client>>

SetLimit(p, n) ==
    /\ pc[p] = "run"
    /\ max_cprocs' = n
    /\ UNCHANGED <<cthreads, needed, idle, n_cprocs, n_cthreads, free_cthreads,
                   heap, tstate, done, result, inv, pc, cur, arg, client>>

-----------------------------------------------------------------------------
(* The child of a UNIX fork(): cthread_fork_prepare took cthread_lock and  *)
(* cthread_free_lock, the kernel copied the task with only the caller in   *)
(* it, and cthread_fork_child rebuilds the package around that thread.     *)

ForkChild(p) ==
    /\ pc[p] = "run"
    /\ unixforks < MaxUnixForks
    /\ unixforks' = unixforks + 1
    /\ needed' = <<>> /\ idle' = <<>> /\ cthreads' = <<>> /\ free_cthreads' = <<>>
    /\ heap' = heap \ (Range(cthreads) \cup Range(free_cthreads))
    /\ max_cprocs' = 0 /\ n_cprocs' = 1 /\ n_cthreads' = 1
    /\ tstate' = [tstate EXCEPT ![cur[p]] = {"T_MAIN"}]
    /\ pc' = [q \in Cprocs |-> IF q = p THEN "run" ELSE "none"]
    /\ cur' = [q \in Cprocs |-> IF q = p THEN cur[p] ELSE None]
    /\ arg' = [q \in Cprocs |-> None] /\ want' = [q \in Cprocs |-> None]
    /\ handle' = [i \in Invocations |-> None]
    /\ UNCHANGED <<done, result, inv, joined, forks>>

-----------------------------------------------------------------------------
BodyStep(p) == \/ BodyLoop(p) \/ Returned(p) \/ ReturnSignal(p) \/ ReturnCount(p)
               \/ Free(p, "r_free", cur[p], "r_count")

LibraryStep(p) == \/ BodyStep(p) \/ ForkSignal(p) \/ JoinTest(p) \/ ExitMain(p)
                  \/ Free(p, "d_free", arg[p], "run")
                  \/ Free(p, "j_free", arg[p], "run")

ClientStep(p) == \/ \E t \in Slots : Fork(p, t)
                 \/ \E i \in Invocations : Join(p, i) \/ Detach(p, i)
                 \/ \E n \in Limits : SetLimit(p, n)
                 \/ Finish(p)
                 \/ ForkChild(p)

Next == Alive /\ \E p \in Cprocs : LibraryStep(p) \/ ClientStep(p)

Spec == Init /\ [][Next]_vars

\* Every runnable kernel thread runs, and every thread's function returns.
Fairness == \A p \in Cprocs : WF_vars(Alive /\ LibraryStep(p))
                              /\ WF_vars(Alive /\ Finish(p))

FairSpec == Spec /\ Fairness

-----------------------------------------------------------------------------
(* Properties.                                                             *)

\* Type invariant of the package's variables.
TypeOK ==
    /\ cthreads \in Seq(Slots) /\ free_cthreads \in Seq(Slots)
    /\ needed \in Seq(Cprocs) /\ idle \in Seq(Cprocs)
    /\ n_cprocs \in 1..Cardinality(Cprocs) /\ n_cthreads \in 1..(MaxForks + 1)
    /\ max_cprocs \in Limits \cup {0}
    /\ heap \subseteq Slots
    /\ tstate \in [Slots -> SUBSET Flags]
    /\ done \in [Slots -> Seq(Cprocs)]
    /\ result \in [Slots -> Invocations \cup {None}]
    /\ inv \in [Slots -> Invocations \cup {None}]
    /\ pc \in [Cprocs -> Pcs]
    /\ cur \in [Cprocs -> Slots \cup {None}] /\ arg \in [Cprocs -> Slots \cup {None}]
    /\ want \in [Cprocs -> Invocations \cup {None}]
    /\ handle \in [Invocations -> Slots \cup {None}]
    /\ joined \in [Invocations -> Invocations \cup {None}]
    /\ forks \in 0..MaxForks /\ unixforks \in 0..MaxUnixForks

\* cthread_join returns what the thread it was called for returned, although
\* the condition_signal(&t->done) of an earlier user of the same structure may
\* wake the joiner: the signal is given after t->lock is released, when t may
\* have been joined, freed and reused.
JoinGetsResult == \A p \in Cprocs : pc[p] = "j_free" => joined[want[p]] = want[p]

\* A structure goes onto the free list once, and only when nobody will use it
\* as a cthread any more: it is not queued, not executing, not about to be
\* joined or detached.  (A late signaller may still look at its done queue.)
FreeListSound ==
    /\ IsInjective(free_cthreads)
    /\ \A t \in Range(free_cthreads) :
          /\ t \notin Range(cthreads)
          /\ \A i \in Invocations : handle[i] # t
          /\ \A p \in Cprocs :
                /\ cur[p] = t => pc[p] \in {"r_signal", "r_count"}
                /\ arg[p] = t => pc[p] \notin {"join", "j_wait", "j_woken", "j_free", "d_free"}

\* n_cthreads, on which the main thread's exit and the creation of cprocs
\* depend, is the number of threads queued plus the number being executed.
CountExact ==
    n_cthreads = Len(cthreads) + Cardinality({p \in Cprocs : pc[p] \notin {"none", "lock", "needed"}})

\* While a thread is queued and a cproc sleeps on cthread_needed, somebody is
\* on the way to the queue or to waking a sleeper: cthread_fork's signal,
\* given after cthread_lock is released, is never the one that gets lost.
NoStrandedWork ==
    cthreads # <<>> /\ needed # <<>> =>
        \E p \in Cprocs : pc[p] \in {"lock", "f_signal", "returned", "r_free",
                                     "r_signal", "r_count"}

\* The main thread's exit() finds no thread queued or executing.
ExitLast ==
    \A p \in Cprocs : pc[p] = "exited" =>
        /\ cthreads = <<>>
        /\ \A q \in Cprocs \ {p} : pc[q] \in {"none", "lock", "needed"}

\* While no limit on cprocs is set every forked thread is eventually executed,
\* even if all threads before it wait in cthread_join.
EveryForkRuns ==
    [](max_cprocs = 0) => \A i \in Invocations :
        (\E t \in Range(cthreads) : inv[t] = i) ~> ~(\E t \in Range(cthreads) : inv[t] = i)

\* The main thread that has called cthread_exit eventually exits, once every
\* other thread has returned: the cthread_idle signal that matters is not lost.
\* (It is gone, too, in the child of another thread's fork(); and with a limit
\* on cprocs a thread it waits for may never run.)
MainExits ==
    [](max_cprocs = 0) => \A p \in Cprocs : pc[p] \in {"x_lock", "x_wait"} ~> pc[p] \in {"exited", "none"}

\* The package's bookkeeping holds together at every step, whoever is between an
\* unlock and the signal after it: structures are freed once and only when
\* nobody uses them, the count of threads is exact, no queued thread is
\* stranded by cthread_fork's late signal, and exit() comes last.
Bookkeeping == TypeOK /\ FreeListSound /\ CountExact /\ NoStrandedWork /\ ExitLast
=============================================================================
