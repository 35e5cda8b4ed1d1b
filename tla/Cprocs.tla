------------------------------- MODULE Cprocs -------------------------------
(***************************************************************************)
(* The C Threads synchronisation layer (lib/threads/cprocs.c and sync.c,   *)
(* built MTHREAD with SCHED_HINT 0): a mutex, the conditions used with it, *)
(* and the spin / yield / block protocol between condition_wait and        *)
(* cproc_continue.  One action is one access to shared memory that another *)
(* thread can observe, or one kernel call.                                 *)
(*                                                                         *)
(* Each thread runs an arbitrary client that makes at most MaxOps calls:   *)
(* it locks and unlocks the mutex, waits while holding it, and signals or  *)
(* broadcasts with or without it.                                          *)
(***************************************************************************)
EXTENDS Naturals, Sequences, Functions

CONSTANTS Threads,   \* the cprocs
          Conds,     \* the condition variables used with the mutex
          NoThread,  \* a free lock
          MaxOps     \* bound on the calls each thread makes

ASSUME ThreadAssumption == NoThread \notin Threads
ASSUME CondAssumption == Conds # {}
ASSUME OpsAssumption == MaxOps \in Nat

VARIABLES mutex,     \* m->lock: its holder, or NoThread
          c_lock,    \* c->lock, the spin lock of each condition
          queue,     \* c->queue, oldest first
          state,     \* p->state
          port,      \* messages queued on p->wait_port, whose qlimit is 1
          pc,        \* where the thread is in the library
          cond,      \* the argument c of the call in progress
          todo,      \* cprocs this signaller has dequeued and must continue
          target,    \* argument p of the cproc_continue in progress
          old_state, \* local of cproc_continue
          ops        \* calls made so far

vars == <<mutex, c_lock, queue, state, port, pc, cond, todo, target,
          old_state, ops>>

RUNNING  == "RUNNING"
SPINNING == "SPINNING"
BLOCKED  == "BLOCKED"
CprocStates == {RUNNING, SPINNING, BLOCKED}

\* A cproc between its enqueue and the ASSERT that precedes the re-lock.
AsleepPcs   == {"w_unlock", "w_spin", "w_lock2", "w_recheck", "w_block",
                "w_receive"}
WaitPcs     == {"w_lock", "w_enqueue"} \cup AsleepPcs \cup {"w_relock"}
ContinuePcs == {"c_next", "c_read", "c_set", "c_unlock", "c_send"}
SignalPcs   == {"s_test", "s_lock", "s_dequeue", "b_test", "b_lock", "b_take"}
Pcs == {"idle", "held"} \cup WaitPcs \cup ContinuePcs \cup SignalPcs

\* The places at which a thread is inside a spin_lock(&c->lock) section.
LockedPcs == {"w_enqueue", "w_recheck", "w_block", "s_dequeue", "b_take",
              "c_read", "c_set", "c_unlock"}

Queued(t) == \E c \in Conds : t \in Range(queue[c])

Init == /\ mutex = NoThread
        /\ c_lock = [c \in Conds |-> NoThread]
        /\ queue = [c \in Conds |-> <<>>]
        /\ state = [t \in Threads |-> RUNNING]
        /\ port = [t \in Threads |-> 0]
        /\ pc = [t \in Threads |-> "idle"]
        /\ cond = [t \in Threads |-> CHOOSE c \in Conds : TRUE]
        /\ todo = [t \in Threads |-> <<>>]
        /\ target = [t \in Threads |-> NoThread]
        /\ old_state = [t \in Threads |-> RUNNING]
        /\ ops = [t \in Threads |-> 0]

Goto(t, to) == pc' = [pc EXCEPT ![t] = to]

\* A call returns to the client, who still has the mutex it came with.
Return(t) == Goto(t, IF mutex = t THEN "held" ELSE "idle")

\* spin_lock: the test-and-set that succeeds; a failed one changes nothing.
SpinLock(t, from, to) ==
    /\ pc[t] = from
    /\ c_lock[cond[t]] = NoThread
    /\ c_lock' = [c_lock EXCEPT ![cond[t]] = t]
    /\ Goto(t, to)

SpinUnlock(t) == c_lock' = [c_lock EXCEPT ![cond[t]] = NoThread]

-----------------------------------------------------------------------------
(* The client.                                                             *)

CountCall(t) == /\ ops[t] < MaxOps
                /\ ops' = [ops EXCEPT ![t] = @ + 1]

\* mutex_lock, and mutex_wait_lock until its mutex_try_lock succeeds.
MutexLock(t) ==
    /\ pc[t] = "idle"
    /\ mutex = NoThread
    /\ CountCall(t)
    /\ mutex' = t
    /\ Goto(t, "held")
    /\ UNCHANGED <<c_lock, queue, state, port, cond, todo, target, old_state>>

MutexUnlock(t) ==
    /\ pc[t] = "held"
    /\ mutex' = NoThread
    /\ Goto(t, "idle")
    /\ UNCHANGED <<c_lock, queue, state, port, cond, todo, target, old_state, ops>>

\* The client calls condition_wait (with the mutex), or one of the macros
\* condition_signal and condition_broadcast (with or without it).
Call(t, c, from, to) ==
    /\ pc[t] \in from
    /\ CountCall(t)
    /\ cond' = [cond EXCEPT ![t] = c]
    /\ Goto(t, to)
    /\ UNCHANGED <<mutex, c_lock, queue, state, port, todo, target, old_state>>

-----------------------------------------------------------------------------
(* condition_wait(c, m)                                                    *)

WaitLock(t) ==
    /\ SpinLock(t, "w_lock", "w_enqueue")
    /\ UNCHANGED <<mutex, queue, state, port, cond, todo, target, old_state, ops>>

\* Mutated form: cthread_queue_preq in place of cthread_queue_enq.
WaitEnqueuePreq(t) ==
    /\ pc[t] = "w_enqueue"
    /\ state' = [state EXCEPT ![t] = SPINNING]
    /\ queue' = [queue EXCEPT ![cond[t]] = <<t>> \o @]
    /\ SpinUnlock(t)
    /\ Goto(t, "w_unlock")
    /\ UNCHANGED <<mutex, port, cond, todo, target, old_state, ops>>

WaitEnqueue(t) ==
    /\ pc[t] = "w_enqueue"
    /\ state' = [state EXCEPT ![t] = SPINNING]
    /\ queue' = [queue EXCEPT ![cond[t]] = Append(@, t)]
    /\ SpinUnlock(t)
    /\ Goto(t, "w_unlock")
    /\ UNCHANGED <<mutex, port, cond, todo, target, old_state, ops>>

WaitMutexUnlock(t) ==
    /\ pc[t] = "w_unlock"
    /\ mutex' = NoThread
    /\ Goto(t, "w_spin")
    /\ UNCHANGED <<c_lock, queue, state, port, cond, todo, target, old_state, ops>>

\* The busy-wait and yield loops: reads of p->state without the spin lock.
\* The reads before the last one change nothing.
WaitSpin(t) ==
    /\ pc[t] = "w_spin"
    /\ Goto(t, IF state[t] = RUNNING THEN "w_relock" ELSE "w_lock2")
    /\ UNCHANGED <<mutex, c_lock, queue, state, port, cond, todo, target,
                   old_state, ops>>

WaitLock2(t) ==
    /\ SpinLock(t, "w_lock2", "w_recheck")
    /\ UNCHANGED <<mutex, queue, state, port, cond, todo, target, old_state, ops>>

\* Mutated form: blocks without the second look at p->state.
WaitRecheckSkipped(t) ==
    /\ pc[t] = "w_recheck"
    /\ Goto(t, "w_block")
    /\ UNCHANGED <<mutex, c_lock, queue, state, port, cond, todo, target,
                   old_state, ops>>

\* "Check again to avoid race."
WaitRecheck(t) ==
    /\ pc[t] = "w_recheck"
    /\ \/ /\ state[t] = RUNNING
          /\ SpinUnlock(t)
          /\ Goto(t, "w_relock")
       \/ /\ state[t] # RUNNING
          /\ Goto(t, "w_block")
          /\ UNCHANGED c_lock
    /\ UNCHANGED <<mutex, queue, state, port, cond, todo, target, old_state, ops>>

WaitBlock(t) ==
    /\ pc[t] = "w_block"
    /\ state' = [state EXCEPT ![t] = BLOCKED]
    /\ SpinUnlock(t)
    /\ Goto(t, "w_receive")
    /\ UNCHANGED <<mutex, queue, port, cond, todo, target, old_state, ops>>

\* Mutated form: the receive has a timeout.
WaitReceiveOnce(t) ==
    /\ pc[t] = "w_receive"
    /\ port' = [port EXCEPT ![t] = 0]
    /\ Goto(t, "w_relock")
    /\ UNCHANGED <<mutex, c_lock, queue, state, cond, todo, target, old_state, ops>>

WaitReceive(t) ==
    /\ pc[t] = "w_receive"
    /\ port[t] = 1
    /\ port' = [port EXCEPT ![t] = 0]
    /\ Goto(t, "w_relock")
    /\ UNCHANGED <<mutex, c_lock, queue, state, cond, todo, target, old_state, ops>>

WaitRelock(t) ==
    /\ pc[t] = "w_relock"
    /\ mutex = NoThread
    /\ mutex' = t
    /\ Goto(t, "held")
    /\ UNCHANGED <<c_lock, queue, state, port, cond, todo, target, old_state, ops>>

-----------------------------------------------------------------------------
(* condition_signal and condition_broadcast, cond_signal, cond_broadcast.  *)

\* The macros read c->queue.head without the spin lock and may do nothing.
SignalTest(t, from, to) ==
    /\ pc[t] = from
    /\ IF queue[cond[t]] = <<>> THEN Return(t) ELSE Goto(t, to)
    /\ UNCHANGED <<mutex, c_lock, queue, state, port, cond, todo, target,
                   old_state, ops>>

SignalLock(t, from, to) ==
    /\ SpinLock(t, from, to)
    /\ UNCHANGED <<mutex, queue, state, port, cond, todo, target, old_state, ops>>

SignalDequeue(t) ==
    /\ pc[t] = "s_dequeue"
    /\ LET q == queue[cond[t]] IN
       \/ /\ q = <<>>
          /\ UNCHANGED <<queue, todo>>
       \/ /\ q # <<>>
          /\ todo' = [todo EXCEPT ![t] = <<Head(q)>>]
          /\ queue' = [queue EXCEPT ![cond[t]] = Tail(q)]
    /\ SpinUnlock(t)
    /\ Goto(t, "c_next")
    /\ UNCHANGED <<mutex, state, port, cond, target, old_state, ops>>

BroadcastTake(t) ==
    /\ pc[t] = "b_take"
    /\ todo' = [todo EXCEPT ![t] = queue[cond[t]]]
    /\ queue' = [queue EXCEPT ![cond[t]] = <<>>]
    /\ SpinUnlock(t)
    /\ Goto(t, "c_next")
    /\ UNCHANGED <<mutex, state, port, cond, target, old_state, ops>>

SignalReturn(t) ==
    /\ pc[t] = "c_next"
    /\ todo[t] = <<>>
    /\ Return(t)
    /\ UNCHANGED <<mutex, c_lock, queue, state, port, cond, todo, target,
                   old_state, ops>>

\* Mutated form: cproc_continue without spin_lock(&c->lock).
ContinueLockDropped(t) ==
    /\ todo[t] # <<>>
    /\ pc[t] = "c_next"
    /\ Goto(t, "c_read")
    /\ UNCHANGED <<mutex, c_lock, queue, state, port, cond, todo, target,
                   old_state, ops>>

\* cproc_continue(p, c) for the first cproc still to do.
ContinueLock(t) ==
    /\ todo[t] # <<>>
    /\ SpinLock(t, "c_next", "c_read")
    /\ UNCHANGED <<mutex, queue, state, port, cond, todo, target, old_state, ops>>

ContinueRead(t) ==
    /\ pc[t] = "c_read"
    /\ target' = [target EXCEPT ![t] = Head(todo[t])]
    /\ old_state' = [old_state EXCEPT ![t] = state[Head(todo[t])]]
    /\ Goto(t, "c_set")
    /\ UNCHANGED <<mutex, c_lock, queue, state, port, cond, todo, ops>>

ContinueSet(t) ==
    /\ pc[t] = "c_set"
    /\ state' = [state EXCEPT ![target[t]] = RUNNING]
    /\ todo' = [todo EXCEPT ![t] = Tail(@)]
    /\ Goto(t, "c_unlock")
    /\ UNCHANGED <<mutex, c_lock, queue, port, cond, target, old_state, ops>>

\* Mutated form: sends the wakeup message to a spinning cproc too.
ContinueUnlockAlwaysSends(t) ==
    /\ pc[t] = "c_unlock"
    /\ SpinUnlock(t)
    /\ Goto(t, "c_send")
    /\ UNCHANGED <<mutex, queue, state, port, cond, todo, target, old_state, ops>>

ContinueUnlock(t) ==
    /\ pc[t] = "c_unlock"
    /\ SpinUnlock(t)
    /\ Goto(t, IF old_state[t] = BLOCKED THEN "c_send" ELSE "c_next")
    /\ UNCHANGED <<mutex, queue, state, port, cond, todo, target, old_state, ops>>

\* MACH_SEND_TIMEOUT with timeout 0: a full port makes the send a no-op.
ContinueSend(t) ==
    /\ pc[t] = "c_send"
    /\ port' = [port EXCEPT ![target[t]] = 1]
    /\ Goto(t, "c_next")
    /\ UNCHANGED <<mutex, c_lock, queue, state, cond, todo, target, old_state, ops>>

-----------------------------------------------------------------------------
WaitStep(t) == \/ WaitLock(t) \/ WaitEnqueue(t) \/ WaitMutexUnlock(t)
               \/ WaitSpin(t) \/ WaitLock2(t) \/ WaitRecheck(t)
               \/ WaitBlock(t) \/ WaitReceive(t) \/ WaitRelock(t)

SignalStep(t) == \/ SignalTest(t, "s_test", "s_lock")
                 \/ SignalTest(t, "b_test", "b_lock")
                 \/ SignalLock(t, "s_lock", "s_dequeue")
                 \/ SignalLock(t, "b_lock", "b_take")
                 \/ SignalDequeue(t) \/ BroadcastTake(t) \/ SignalReturn(t)
                 \/ ContinueLock(t) \/ ContinueRead(t) \/ ContinueSet(t)
                 \/ ContinueUnlock(t) \/ ContinueSend(t)

ClientStep(t) == \/ MutexLock(t) \/ MutexUnlock(t)
                 \/ \E c \in Conds : \/ Call(t, c, {"held"}, "w_lock")
                                     \/ Call(t, c, {"idle", "held"}, "s_test")
                                     \/ Call(t, c, {"idle", "held"}, "b_test")

Next == \E t \in Threads : WaitStep(t) \/ SignalStep(t) \/ ClientStep(t)

\* The kernel runs every runnable thread, and a client gives back the mutex.
Fairness == \A t \in Threads : /\ WF_vars(WaitStep(t))
                               /\ WF_vars(SignalStep(t))
                               /\ WF_vars(MutexUnlock(t))

Spec == Init /\ [][Next]_vars

FairSpec == Spec /\ Fairness

-----------------------------------------------------------------------------
(* Properties.                                                             *)

\* Type invariant of the synchronisation state of cprocs.c.
TypeOK == /\ mutex \in Threads \cup {NoThread}
          /\ c_lock \in [Conds -> Threads \cup {NoThread}]
          /\ queue \in [Conds -> Seq(Threads)]
          /\ state \in [Threads -> CprocStates]
          /\ port \in [Threads -> {0, 1}]
          /\ pc \in [Threads -> Pcs]
          /\ cond \in [Threads -> Conds]
          /\ todo \in [Threads -> Seq(Threads)]
          /\ target \in [Threads -> Threads \cup {NoThread}]
          /\ old_state \in [Threads -> CprocStates]
          /\ ops \in [Threads -> 0..MaxOps]

\* No stray wakeups: a message is on p->wait_port only while p is blocked in
\* condition_wait's mach_msg_receive and has been marked RUNNING.  A message
\* left over from one wait would end a later wait of p that nobody signalled.
NoStrayWakeup ==
    \A t \in Threads : port[t] = 1 => pc[t] = "w_receive" /\ state[t] = RUNNING

\* The ASSERT before condition_wait takes the mutex again, and more: a thread
\* that is about to leave condition_wait is RUNNING and is on no queue and in
\* no signaller's hands, so nobody will touch it again for this wait.
LeavesWaitReleased ==
    \A t \in Threads :
        pc[t] = "w_relock" =>
            /\ state[t] = RUNNING
            /\ ~Queued(t)
            /\ \A s \in Threads : t \notin Range(todo[s])

\* Somebody still has to wake t: it is queued, or a signaller has dequeued it.
Claimed(t) == \/ t \in Range(queue[cond[t]])
              \/ \E s \in Threads : cond[s] = cond[t] /\ t \in Range(todo[s])

\* The message that will wake t is on its way or on its port.
WakeupSent(t) == \/ port[t] = 1
                 \/ \E s \in Threads : /\ pc[s] \in {"c_unlock", "c_send"}
                                       /\ old_state[s] = BLOCKED
                                       /\ target[s] = t

\* No lost wakeups: a thread asleep in condition_wait and not yet marked
\* RUNNING is on its condition's queue or in the hands of a signaller of that
\* condition, and one that is RUNNING but already committed to receiving a
\* message has that message under way.
NoLostWakeup ==
    \A t \in Threads :
        /\ pc[t] \in AsleepPcs /\ state[t] # RUNNING => Claimed(t)
        /\ pc[t] = "w_receive" /\ state[t] = RUNNING => WakeupSent(t)

\* A thread taken off the queue by a signal or a broadcast eventually returns
\* from condition_wait with the mutex, whether it was spinning, yielding, about
\* to block or blocked when it was signalled.
WokenReturns ==
    \A t \in Threads :
        pc[t] \in AsleepPcs /\ ~Queued(t) ~> pc[t] = "held"

\* condition_wait, signal and broadcast implement the abstract condition
\* variable: the release of the mutex counts from the enqueue on.
Abs == INSTANCE Condition
         WITH owner <- IF mutex \in Threads /\ pc[mutex] = "w_unlock"
                       THEN NoThread ELSE mutex,
              waiters <- queue,
              inWait <- {t \in Threads : pc[t] \in AsleepPcs \cup {"w_relock"}}

\* Every behaviour of the spin/yield/block protocol is one of the atomic, FIFO
\* condition variable of module Condition, with no spurious or lost wakeup.
AbsSpec == Abs!Spec
=============================================================================
