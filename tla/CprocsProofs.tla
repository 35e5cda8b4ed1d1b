---------------------------- MODULE CprocsProofs ----------------------------
(***************************************************************************)
(* Proofs about module Cprocs, for any number of threads and conditions:   *)
(* the inductive invariant IInv of the wait/continue protocol, from which  *)
(* NoStrayWakeup, LeavesWaitReleased and NoLostWakeup follow, and the      *)
(* refinement of the abstract condition variable of module Condition.      *)
(***************************************************************************)
EXTENDS Cprocs, TLAPS

-----------------------------------------------------------------------------
(* Facts about the elements of a queue, a sequence without repetitions.    *)

\* The elements of a sequence over S are in S.
LEMMA RangeType == ASSUME NEW S, NEW q \in Seq(S) PROVE Range(q) \subseteq S
  BY DEF Range

\* An initialised queue (cthread_queue_init) has no elements.
LEMMA RangeEmpty == Range(<<>>) = {} /\ IsInjective(<<>>)
  BY DEF Range, IsInjective

\* A queue of one cproc, what cond_signal hands to cproc_continue.
LEMMA RangeSingle == ASSUME NEW x PROVE Range(<<x>>) = {x} /\ IsInjective(<<x>>)
  BY DEF Range, IsInjective

\* cthread_queue_enq adds its element, and repeats none if that was new.
LEMMA RangeAppend ==
    ASSUME NEW S, NEW q \in Seq(S), NEW x \in S
    PROVE  /\ Range(Append(q, x)) = Range(q) \cup {x}
           /\ IsInjective(q) /\ x \notin Range(q) => IsInjective(Append(q, x))
  <1>1. /\ DOMAIN q = 1..Len(q) /\ Len(q) \in Nat
        /\ DOMAIN Append(q, x) = 1..(Len(q) + 1)
        /\ \A i \in 1..Len(q) : Append(q, x)[i] = q[i]
        /\ Append(q, x)[Len(q) + 1] = x
    OBVIOUS
  <1>2. Range(Append(q, x)) = Range(q) \cup {x}
    BY <1>1 DEF Range
  <1>3. IsInjective(q) /\ x \notin Range(q) => IsInjective(Append(q, x))
    BY <1>1 DEF Range, IsInjective
  <1> QED BY <1>2, <1>3

\* cthread_queue_deq of a nonempty queue takes out exactly its head.
LEMMA RangeTail ==
    ASSUME NEW S, NEW q \in Seq(S), q # <<>>
    PROVE  /\ Head(q) \in S
           /\ Tail(q) \in Seq(S)
           /\ Range(q) = {Head(q)} \cup Range(Tail(q))
           /\ IsInjective(q) => Head(q) \notin Range(Tail(q)) /\ IsInjective(Tail(q))
  <1>1. /\ Len(q) \in Nat \ {0} /\ DOMAIN q = 1..Len(q)
        /\ Head(q) = q[1]
        /\ Tail(q) \in Seq(S)
        /\ DOMAIN Tail(q) = 1..(Len(q) - 1)
        /\ \A i \in 1..(Len(q) - 1) : Tail(q)[i] = q[i + 1]
    OBVIOUS
  <1>2. ASSUME NEW y \in Range(q), y # Head(q) PROVE y \in Range(Tail(q))
    <2>1. PICK i \in 1..Len(q) : q[i] = y BY <1>1, <1>2 DEF Range
    <2>2. i - 1 \in 1..(Len(q) - 1) /\ Tail(q)[i - 1] = y BY <1>1, <1>2, <2>1
    <2> QED BY <1>1, <2>2 DEF Range
  <1>3. Range(Tail(q)) \subseteq Range(q) /\ Head(q) \in Range(q)
    BY <1>1 DEF Range
  <1>4. IsInjective(q) => Head(q) \notin Range(Tail(q)) /\ IsInjective(Tail(q))
    BY <1>1 DEF Range, IsInjective
  <1> QED BY <1>1, <1>2, <1>3, <1>4

-----------------------------------------------------------------------------
(* The inductive invariant.                                                *)

\* Whoever is inside a spin_lock(&c->lock) section holds that lock.
LockInv == \A t \in Threads : pc[t] \in LockedPcs => c_lock[cond[t]] = t

\* Who holds the mutex, as far as the place in the code tells.
MutexInv == \A t \in Threads :
    /\ pc[t] \in {"held", "w_lock", "w_enqueue", "w_unlock"} => mutex = t
    /\ pc[t] \in {"idle", "w_relock"} \cup (AsleepPcs \ {"w_unlock"}) => mutex # t

\* A cproc's state follows from its place, except while it is asleep.
StateInv == \A t \in Threads :
    /\ pc[t] \notin AsleepPcs => state[t] = RUNNING
    /\ pc[t] = "w_block" => state[t] = SPINNING
    /\ pc[t] = "w_receive" => state[t] \in {BLOCKED, RUNNING}
    /\ state[t] = BLOCKED => pc[t] = "w_receive"

\* A queued cproc is asleep on that condition and not yet continued.
QueueInv == \A c \in Conds : \A t \in Range(queue[c]) :
    cond[t] = c /\ pc[t] \in AsleepPcs /\ state[t] # RUNNING

QueueUnique == \A c \in Conds : IsInjective(queue[c])

\* The same for a cproc in a signaller's hands, which is on no queue.
TodoInv == \A s \in Threads : \A t \in Range(todo[s]) :
    /\ cond[t] = cond[s] /\ pc[t] \in AsleepPcs /\ state[t] # RUNNING
    /\ t \notin Range(queue[cond[s]])

TodoUnique == \A s \in Threads :
    /\ IsInjective(todo[s])
    /\ \A r \in Threads \ {s} : Range(todo[s]) \cap Range(todo[r]) = {}

TodoPc == \A s \in Threads :
    /\ todo[s] # <<>> => pc[s] \in ContinuePcs
    /\ pc[s] \in {"c_read", "c_set"} => todo[s] # <<>>
    /\ pc[s] = "c_set" => /\ target[s] = Head(todo[s])
                          /\ old_state[s] = state[target[s]]
    /\ pc[s] = "c_send" => old_state[s] = BLOCKED

Sending(s) == pc[s] \in {"c_unlock", "c_send"} /\ old_state[s] = BLOCKED

\* The addressee of a wakeup message still to be sent waits for exactly it.
SendInv == \A s \in Threads : Sending(s) =>
    /\ target[s] \in Threads
    /\ pc[target[s]] = "w_receive"
    /\ state[target[s]] = RUNNING
    /\ port[target[s]] = 0

SendUnique == \A s, r \in Threads :
    Sending(s) /\ Sending(r) /\ target[s] = target[r] => s = r

IInv == /\ TypeOK
        /\ LockInv
        /\ MutexInv
        /\ StateInv
        /\ QueueInv
        /\ QueueUnique
        /\ TodoInv
        /\ TodoUnique
        /\ TodoPc
        /\ SendInv
        /\ SendUnique
        /\ NoStrayWakeup
        /\ NoLostWakeup
\* Queues and signallers hold cprocs.
LEMMA ElementTypes == ASSUME TypeOK
                      PROVE  /\ \A c \in Conds : Range(queue[c]) \subseteq Threads
                             /\ \A s \in Threads : Range(todo[s]) \subseteq Threads
  BY RangeType DEF TypeOK

\* The cproc that cproc_continue works on is one the signaller dequeued.
LEMMA HeadOfTodo ==
    ASSUME IInv, NEW s \in Threads, todo[s] # <<>>
    PROVE  /\ Head(todo[s]) \in Threads
           /\ Head(todo[s]) \in Range(todo[s])
           /\ Tail(todo[s]) \in Seq(Threads)
           /\ Range(todo[s]) = {Head(todo[s])} \cup Range(Tail(todo[s]))
           /\ Head(todo[s]) \notin Range(Tail(todo[s]))
           /\ IsInjective(Tail(todo[s]))
  <1>1. todo[s] \in Seq(Threads) /\ IsInjective(todo[s])
    BY DEF IInv, TypeOK, TodoUnique
  <1> QED BY <1>1, RangeTail

\* Leaving the critical section of c->lock disturbs nobody else's.
LEMMA SpinUnlockInv ==
    ASSUME NEW t \in Threads, NEW b \in Pcs \ LockedPcs, TypeOK, LockInv,
           pc[t] \in LockedPcs, SpinUnlock(t), cond' = cond,
           pc' = [pc EXCEPT ![t] = b]
    PROVE  LockInv'
  <1> SUFFICES ASSUME NEW u \in Threads, pc'[u] \in LockedPcs
               PROVE  c_lock'[cond[u]] = u
    BY DEF LockInv
  <1>1. u # t /\ pc[u] \in LockedPcs BY DEF TypeOK
  <1>2. c_lock[cond[u]] = u /\ c_lock[cond[t]] = t BY <1>1 DEF LockInv
  <1>3. cond[u] # cond[t] BY <1>1, <1>2
  <1> QED BY <1>2, <1>3 DEF SpinUnlock, TypeOK

-----------------------------------------------------------------------------
(* Steps that only move a thread's control.                                *)

\* The part of the invariant that speaks of queues, signallers and messages.
QInv == /\ StateInv /\ QueueInv /\ QueueUnique /\ TodoInv /\ TodoUnique
        /\ TodoPc /\ SendInv /\ SendUnique /\ NoStrayWakeup /\ NoLostWakeup

\* Thread t moves to b and may begin a call on another condition; the queues,
\* the cproc states and the wait ports stay as they are.
ControlStep(t, b) ==
    /\ pc' = [pc EXCEPT ![t] = b]
    /\ UNCHANGED <<queue, state, port, todo, target, old_state>>
    /\ \A u \in Threads \ {t} : cond'[u] = cond[u]
    /\ cond'[t] = cond[t] \/ pc[t] \in {"idle", "held"}
    /\ pc[t] \in AsleepPcs => b \in AsleepPcs \/ state[t] = RUNNING
    /\ b \in AsleepPcs => pc[t] \in AsleepPcs
    /\ "w_receive" \notin {pc[t], b}
    /\ b = "w_block" => state[t] = SPINNING
    /\ todo[t] # <<>> => b \in ContinuePcs
    /\ b = "c_read" => todo[t] # <<>>
    /\ pc[t] \notin {"c_unlock", "c_send"}
    /\ b \notin {"c_set", "c_unlock", "c_send"}

\* A control step keeps the protocol's invariant: no queue or message changes,
\* and t leaves its wait only if it has been marked RUNNING.
LEMMA ControlStepInv ==
    ASSUME NEW t \in Threads, NEW b \in Pcs, IInv, TypeOK', ControlStep(t, b)
    PROVE  QInv'
  <1> USE DEF RUNNING, SPINNING, BLOCKED
  <1>1. StateInv'
    BY DEF IInv, TypeOK, StateInv, ControlStep, AsleepPcs
  <1>2. QueueInv' /\ QueueUnique'
    <2>1. QueueUnique' BY DEF IInv, QueueUnique, ControlStep
    <2>2. ASSUME NEW c \in Conds, NEW u \in Range(queue[c])
          PROVE  cond'[u] = c /\ pc'[u] \in AsleepPcs /\ state[u] # RUNNING
      <3>1. u \in Threads BY ElementTypes DEF IInv
      <3>2. cond[u] = c /\ pc[u] \in AsleepPcs /\ state[u] # RUNNING
        BY DEF IInv, QueueInv
      <3> QED BY <3>1, <3>2 DEF IInv, TypeOK, ControlStep, AsleepPcs
    <2> QED BY <2>1, <2>2 DEF QueueInv, ControlStep
  <1>3. TodoInv' /\ TodoUnique'
    <2>1. TodoUnique' BY DEF IInv, TodoUnique, ControlStep
    <2>2. ASSUME NEW s \in Threads, NEW u \in Range(todo[s])
          PROVE  /\ cond'[u] = cond'[s] /\ pc'[u] \in AsleepPcs
                 /\ u \notin Range(queue[cond'[s]]) /\ state[u] # RUNNING
      <3>1. u \in Threads BY ElementTypes DEF IInv
      <3>2. todo[s] # <<>> /\ pc[s] \in ContinuePcs
        BY RangeEmpty DEF IInv, TodoPc
      <3>3. cond'[s] = cond[s] BY <3>2 DEF ControlStep, ContinuePcs
      <3> QED BY <3>1, <3>3, ZenonT(40) DEF IInv, TypeOK, TodoInv, ControlStep, AsleepPcs
    <2> QED BY <2>1, <2>2 DEF TodoInv, ControlStep
  <1>4. TodoPc'
    BY DEF IInv, TypeOK, TodoPc, ControlStep, ContinuePcs
  <1>5. SendInv' /\ SendUnique' /\ NoStrayWakeup'
    BY DEF IInv, TypeOK, SendInv, SendUnique, NoStrayWakeup, Sending, ControlStep
  <1>6. NoLostWakeup'
    <2> SUFFICES ASSUME NEW u \in Threads
                 PROVE  /\ pc'[u] \in AsleepPcs /\ state[u] # RUNNING => Claimed(u)'
                        /\ pc'[u] = "w_receive" /\ state[u] = RUNNING => WakeupSent(u)'
      BY DEF NoLostWakeup, ControlStep
    <2>1. ASSUME pc'[u] \in AsleepPcs, state[u] # RUNNING PROVE Claimed(u)'
      <3>1. pc[u] \in AsleepPcs /\ cond'[u] = cond[u]
        BY <2>1 DEF IInv, TypeOK, ControlStep, AsleepPcs
      <3>2. Claimed(u) BY <2>1, <3>1 DEF IInv, NoLostWakeup
      <3>3. CASE u \in Range(queue[cond[u]])
        BY <3>1, <3>3 DEF Claimed, ControlStep
      <3>4. CASE \E s \in Threads : cond[s] = cond[u] /\ u \in Range(todo[s])
        <4>1. PICK s \in Threads : cond[s] = cond[u] /\ u \in Range(todo[s]) BY <3>4
        <4>2. pc[s] \in ContinuePcs BY <4>1, RangeEmpty DEF IInv, TodoPc
        <4>3. cond'[s] = cond[s] BY <4>2 DEF ControlStep, ContinuePcs
        <4> QED BY <3>1, <4>1, <4>3 DEF Claimed, ControlStep
      <3> QED BY <3>2, <3>3, <3>4 DEF Claimed
    <2>2. ASSUME pc'[u] = "w_receive", state[u] = RUNNING PROVE WakeupSent(u)'
      <3>1. WakeupSent(u)
        BY <2>2 DEF IInv, TypeOK, ControlStep, NoLostWakeup
      <3> QED BY <3>1 DEF IInv, TypeOK, TodoPc, WakeupSent, ControlStep
    <2> QED BY <2>1, <2>2
  <1> QED BY <1>1, <1>2, <1>3, <1>4, <1>5, <1>6 DEF QInv


\* The actions that are control steps.
LEMMA ControlActionInv ==
    ASSUME NEW t \in Threads, IInv,
           \/ MutexLock(t) \/ MutexUnlock(t)
           \/ \E c \in Conds : \/ Call(t, c, {"held"}, "w_lock")
                               \/ Call(t, c, {"idle", "held"}, "s_test")
                               \/ Call(t, c, {"idle", "held"}, "b_test")
           \/ WaitLock(t) \/ WaitMutexUnlock(t) \/ WaitSpin(t) \/ WaitLock2(t)
           \/ WaitRecheck(t) \/ WaitRelock(t)
           \/ SignalTest(t, "s_test", "s_lock") \/ SignalTest(t, "b_test", "b_lock")
           \/ SignalLock(t, "s_lock", "s_dequeue") \/ SignalLock(t, "b_lock", "b_take")
           \/ SignalReturn(t) \/ ContinueLock(t)
    PROVE  IInv'
  <1> USE ThreadAssumption, OpsAssumption
          DEF RUNNING, SPINNING, BLOCKED, AsleepPcs, ContinuePcs, LockedPcs,
              WaitPcs, SignalPcs, Pcs, CprocStates, Goto
  <1>1. CASE MutexLock(t)
    <2>1. TypeOK' /\ pc'[t] \in Pcs BY <1>1 DEF IInv, TypeOK, MutexLock, CountCall
    <2>2. LockInv' /\ MutexInv'
      BY <1>1 DEF IInv, TypeOK, LockInv, MutexInv, MutexLock, CountCall
    <2>3. ControlStep(t, pc'[t])
      BY <1>1 DEF IInv, TypeOK, StateInv, TodoPc, ControlStep, MutexLock, CountCall
    <2> QED BY <2>1, <2>2, <2>3, ControlStepInv DEF IInv, QInv
  <1>2. CASE MutexUnlock(t)
    <2>1. TypeOK' /\ pc'[t] \in Pcs BY <1>2 DEF IInv, TypeOK, MutexUnlock
    <2>2. LockInv' /\ MutexInv'
      BY <1>2 DEF IInv, TypeOK, LockInv, MutexInv, MutexUnlock
    <2>3. ControlStep(t, pc'[t])
      BY <1>2 DEF IInv, TypeOK, StateInv, TodoPc, ControlStep, MutexUnlock
    <2> QED BY <2>1, <2>2, <2>3, ControlStepInv DEF IInv, QInv
  <1>3. CASE \E c \in Conds : Call(t, c, {"held"}, "w_lock")
    <2>0. PICK c \in Conds : Call(t, c, {"held"}, "w_lock") BY <1>3
    <2>1. TypeOK' BY <2>0 DEF IInv, TypeOK, Call, CountCall
    <2>2. LockInv' /\ MutexInv'
      BY <2>0 DEF IInv, TypeOK, LockInv, MutexInv, Call
    <2>3. ControlStep(t, "w_lock")
      BY <2>0 DEF IInv, TypeOK, TodoPc, ControlStep, Call
    <2> QED BY <2>1, <2>2, <2>3, ControlStepInv DEF IInv, QInv
  <1>4. CASE \E c \in Conds : Call(t, c, {"idle", "held"}, "s_test")
    <2>0. PICK c \in Conds : Call(t, c, {"idle", "held"}, "s_test") BY <1>4
    <2>1. TypeOK' BY <2>0 DEF IInv, TypeOK, Call, CountCall
    <2>2. LockInv' /\ MutexInv'
      BY <2>0 DEF IInv, TypeOK, LockInv, MutexInv, Call
    <2>3. ControlStep(t, "s_test")
      BY <2>0 DEF IInv, TypeOK, TodoPc, ControlStep, Call
    <2> QED BY <2>1, <2>2, <2>3, ControlStepInv DEF IInv, QInv
  <1>5. CASE \E c \in Conds : Call(t, c, {"idle", "held"}, "b_test")
    <2>0. PICK c \in Conds : Call(t, c, {"idle", "held"}, "b_test") BY <1>5
    <2>1. TypeOK' BY <2>0 DEF IInv, TypeOK, Call, CountCall
    <2>2. LockInv' /\ MutexInv'
      BY <2>0 DEF IInv, TypeOK, LockInv, MutexInv, Call
    <2>3. ControlStep(t, "b_test")
      BY <2>0 DEF IInv, TypeOK, TodoPc, ControlStep, Call
    <2> QED BY <2>1, <2>2, <2>3, ControlStepInv DEF IInv, QInv
  <1>6. CASE WaitLock(t)
    <2>1. TypeOK' /\ pc'[t] \in Pcs BY <1>6 DEF IInv, TypeOK, WaitLock, SpinLock
    <2>2. LockInv' /\ MutexInv'
      BY <1>6 DEF IInv, TypeOK, LockInv, MutexInv, WaitLock, SpinLock
    <2>3. ControlStep(t, pc'[t])
      BY <1>6 DEF IInv, TypeOK, StateInv, TodoPc, ControlStep, WaitLock, SpinLock
    <2> QED BY <2>1, <2>2, <2>3, ControlStepInv DEF IInv, QInv
  <1>7. CASE WaitMutexUnlock(t)
    <2>1. TypeOK' /\ pc'[t] \in Pcs BY <1>7 DEF IInv, TypeOK, WaitMutexUnlock
    <2>2. LockInv' /\ MutexInv'
      BY <1>7 DEF IInv, TypeOK, LockInv, MutexInv, WaitMutexUnlock
    <2>3. ControlStep(t, pc'[t])
      BY <1>7 DEF IInv, TypeOK, StateInv, TodoPc, ControlStep, WaitMutexUnlock
    <2> QED BY <2>1, <2>2, <2>3, ControlStepInv DEF IInv, QInv
  <1>8. CASE WaitSpin(t)
    <2>1. TypeOK' /\ pc'[t] \in Pcs BY <1>8 DEF IInv, TypeOK, WaitSpin
    <2>2. LockInv' /\ MutexInv'
      BY <1>8 DEF IInv, TypeOK, LockInv, MutexInv, WaitSpin
    <2>3. ControlStep(t, pc'[t])
      BY <1>8 DEF IInv, TypeOK, StateInv, TodoPc, ControlStep, WaitSpin
    <2> QED BY <2>1, <2>2, <2>3, ControlStepInv DEF IInv, QInv
  <1>9. CASE WaitLock2(t)
    <2>1. TypeOK' /\ pc'[t] \in Pcs BY <1>9 DEF IInv, TypeOK, WaitLock2, SpinLock
    <2>2. LockInv' /\ MutexInv'
      BY <1>9 DEF IInv, TypeOK, LockInv, MutexInv, WaitLock2, SpinLock
    <2>3. ControlStep(t, pc'[t])
      BY <1>9 DEF IInv, TypeOK, StateInv, TodoPc, ControlStep, WaitLock2, SpinLock
    <2> QED BY <2>1, <2>2, <2>3, ControlStepInv DEF IInv, QInv
  <1>10. CASE WaitRecheck(t)
    <2>1. TypeOK' /\ pc'[t] \in Pcs BY <1>10 DEF IInv, TypeOK, WaitRecheck, SpinUnlock
    <2>2. MutexInv' BY <1>10 DEF IInv, TypeOK, MutexInv, WaitRecheck
    <2>3. LockInv'
      <3>1. CASE state[t] = RUNNING
        BY <1>10, <3>1, SpinUnlockInv DEF IInv, WaitRecheck
      <3>2. CASE state[t] # RUNNING
        BY <1>10, <3>2 DEF IInv, TypeOK, LockInv, WaitRecheck
      <3> QED BY <3>1, <3>2
    <2>4. ControlStep(t, pc'[t])
      BY <1>10, ZenonT(40) DEF IInv, TypeOK, StateInv, TodoPc, ControlStep, WaitRecheck
    <2> QED BY <2>1, <2>2, <2>3, <2>4, ControlStepInv DEF IInv, QInv
  <1>11. CASE WaitRelock(t)
    <2>1. TypeOK' /\ pc'[t] \in Pcs BY <1>11 DEF IInv, TypeOK, WaitRelock
    <2>2. LockInv' /\ MutexInv'
      BY <1>11 DEF IInv, TypeOK, LockInv, MutexInv, WaitRelock
    <2>3. ControlStep(t, pc'[t])
      BY <1>11 DEF IInv, TypeOK, StateInv, TodoPc, ControlStep, WaitRelock
    <2> QED BY <2>1, <2>2, <2>3, ControlStepInv DEF IInv, QInv
  <1>12. CASE SignalTest(t, "s_test", "s_lock")
    <2>0. PICK b \in {"held", "idle", "s_lock"} :
             /\ pc' = [pc EXCEPT ![t] = b]
             /\ b = "held" => mutex = t
             /\ b = "idle" => mutex # t
      BY <1>12 DEF SignalTest, Return
    <2>1. TypeOK' BY <1>12, <2>0 DEF IInv, TypeOK, SignalTest
    <2>2. LockInv' /\ MutexInv'
      BY <1>12, <2>0 DEF IInv, TypeOK, LockInv, MutexInv, SignalTest
    <2>3. ControlStep(t, b)
      BY <1>12, <2>0 DEF IInv, TypeOK, TodoPc, ControlStep, SignalTest
    <2> QED BY <2>0, <2>1, <2>2, <2>3, ControlStepInv DEF IInv, QInv
  <1>13. CASE SignalTest(t, "b_test", "b_lock")
    <2>0. PICK b \in {"held", "idle", "b_lock"} :
             /\ pc' = [pc EXCEPT ![t] = b]
             /\ b = "held" => mutex = t
             /\ b = "idle" => mutex # t
      BY <1>13 DEF SignalTest, Return
    <2>1. TypeOK' BY <1>13, <2>0 DEF IInv, TypeOK, SignalTest
    <2>2. LockInv' /\ MutexInv'
      BY <1>13, <2>0 DEF IInv, TypeOK, LockInv, MutexInv, SignalTest
    <2>3. ControlStep(t, b)
      BY <1>13, <2>0 DEF IInv, TypeOK, TodoPc, ControlStep, SignalTest
    <2> QED BY <2>0, <2>1, <2>2, <2>3, ControlStepInv DEF IInv, QInv
  <1>14. CASE SignalLock(t, "s_lock", "s_dequeue")
    <2>1. TypeOK' /\ pc'[t] \in Pcs BY <1>14 DEF IInv, TypeOK, SignalLock, SpinLock
    <2>2. LockInv' /\ MutexInv'
      BY <1>14 DEF IInv, TypeOK, LockInv, MutexInv, SignalLock, SpinLock
    <2>3. ControlStep(t, pc'[t])
      BY <1>14 DEF IInv, TypeOK, StateInv, TodoPc, ControlStep, SignalLock, SpinLock
    <2> QED BY <2>1, <2>2, <2>3, ControlStepInv DEF IInv, QInv
  <1>15. CASE SignalLock(t, "b_lock", "b_take")
    <2>1. TypeOK' /\ pc'[t] \in Pcs BY <1>15 DEF IInv, TypeOK, SignalLock, SpinLock
    <2>2. LockInv' /\ MutexInv'
      BY <1>15 DEF IInv, TypeOK, LockInv, MutexInv, SignalLock, SpinLock
    <2>3. ControlStep(t, pc'[t])
      BY <1>15 DEF IInv, TypeOK, StateInv, TodoPc, ControlStep, SignalLock, SpinLock
    <2> QED BY <2>1, <2>2, <2>3, ControlStepInv DEF IInv, QInv
  <1>16. CASE SignalReturn(t)
    <2>1. TypeOK' /\ pc'[t] \in Pcs BY <1>16 DEF IInv, TypeOK, SignalReturn, Return
    <2>2. LockInv' /\ MutexInv'
      BY <1>16 DEF IInv, TypeOK, LockInv, MutexInv, SignalReturn, Return
    <2>3. ControlStep(t, pc'[t])
      BY <1>16 DEF IInv, TypeOK, StateInv, TodoPc, ControlStep, SignalReturn, Return
    <2> QED BY <2>1, <2>2, <2>3, ControlStepInv DEF IInv, QInv
  <1>17. CASE ContinueLock(t)
    <2>1. TypeOK' /\ pc'[t] \in Pcs BY <1>17 DEF IInv, TypeOK, ContinueLock, SpinLock
    <2>2. LockInv' /\ MutexInv'
      BY <1>17, SMTT(30) DEF IInv, TypeOK, LockInv, MutexInv, ContinueLock, SpinLock
    <2>3. ControlStep(t, pc'[t])
      BY <1>17 DEF IInv, TypeOK, StateInv, TodoPc, ControlStep, ContinueLock, SpinLock
    <2> QED BY <2>1, <2>2, <2>3, ControlStepInv DEF IInv, QInv
  <1> QED BY <1>1, <1>2, <1>3, <1>4, <1>5, <1>6, <1>7, <1>8, <1>9, <1>10, <1>11, <1>12, <1>13, <1>14, <1>15, <1>16, <1>17

-----------------------------------------------------------------------------
(* Steps that change a queue, a cproc's state or a wait port.              *)

\* condition_wait joins the queue of its condition.
LEMMA WaitEnqueueInv == ASSUME NEW t \in Threads, IInv, WaitEnqueue(t) PROVE IInv'
  <1> USE DEF RUNNING, SPINNING, BLOCKED, AsleepPcs
  <1> USE DEF Goto
  <1>1. /\ pc[t] = "w_enqueue" /\ pc'[t] = "w_unlock"
        /\ \A u \in Threads \ {t} : pc'[u] = pc[u] /\ state'[u] = state[u]
        /\ state'[t] = SPINNING
        /\ UNCHANGED <<mutex, port, cond, todo, target, old_state, ops>>
        /\ cond[t] \in Conds /\ queue[cond[t]] \in Seq(Threads)
        /\ queue'[cond[t]] = Append(queue[cond[t]], t)
        /\ \A c \in Conds \ {cond[t]} : queue'[c] = queue[c]
    BY DEF IInv, TypeOK, WaitEnqueue
  <1>2. (\A c \in Conds : t \notin Range(queue[c]))
        /\ (\A s \in Threads : t \notin Range(todo[s]))
    BY <1>1 DEF IInv, QueueInv, TodoInv
  <1>3. /\ Range(queue'[cond[t]]) = Range(queue[cond[t]]) \cup {t}
        /\ IsInjective(queue'[cond[t]])
    BY <1>1, <1>2, RangeAppend DEF IInv, QueueUnique
  <1>4. TypeOK'
    BY <1>1, ThreadAssumption DEF IInv, TypeOK, WaitEnqueue, SpinUnlock, Pcs, WaitPcs, CprocStates
  <1>5. LockInv' /\ MutexInv'
    <2>1. LockInv' BY <1>1, SpinUnlockInv DEF IInv, WaitEnqueue, LockedPcs, Pcs, WaitPcs
    <2>2. MutexInv' BY <1>1 DEF IInv, MutexInv
    <2> QED BY <2>1, <2>2
  <1>6. StateInv'
    BY <1>1 DEF IInv, StateInv
  <1>7. QueueInv' /\ QueueUnique'
    <2>1. QueueUnique' BY <1>1, <1>3 DEF IInv, QueueUnique
    <2>2. ASSUME NEW c \in Conds, NEW u \in Range(queue'[c])
          PROVE  cond[u] = c /\ pc'[u] \in AsleepPcs /\ state'[u] # RUNNING
      <3>1. CASE u = t
        <4>1. c = cond[t] BY <1>1, <1>2, <3>1
        <4> QED BY <1>1, <3>1, <4>1
      <3>2. CASE u # t
        <4>1. u \in Range(queue[c])
          <5>1. CASE c = cond[t] BY <1>3, <3>2, <5>1
          <5>2. CASE c # cond[t] BY <1>1, <5>2
          <5> QED BY <5>1, <5>2
        <4>2. u \in Threads BY <4>1, ElementTypes DEF IInv
        <4> QED BY <1>1, <3>2, <4>1, <4>2 DEF IInv, QueueInv
      <3> QED BY <3>1, <3>2
    <2> QED BY <1>1, <2>1, <2>2 DEF QueueInv
  <1>8. TodoInv' /\ TodoUnique'
    <2>1. TodoUnique' BY <1>1 DEF IInv, TodoUnique
    <2>2. ASSUME NEW s \in Threads, NEW u \in Range(todo[s])
          PROVE  /\ cond[u] = cond[s] /\ pc'[u] \in AsleepPcs /\ state'[u] # RUNNING
                 /\ u \notin Range(queue'[cond[s]])
      <3>1. u \in Threads \ {t} /\ cond[s] \in Conds
        BY <1>2, ElementTypes DEF IInv, TypeOK
      <3> QED BY <1>1, <1>3, <3>1, ZenonT(40) DEF IInv, TodoInv
    <2> QED BY <1>1, <2>1, <2>2 DEF TodoInv
  <1>9. TodoPc'
    <2>1. ASSUME NEW s \in Threads, pc[s] = "c_set" PROVE target[s] \in Threads \ {t}
      BY <1>2, <2>1, HeadOfTodo DEF IInv, TodoPc
    <2> QED BY <1>1, <2>1 DEF IInv, TodoPc, ContinuePcs
  <1>10. SendInv' /\ SendUnique' /\ NoStrayWakeup'
    BY <1>1 DEF IInv, SendInv, SendUnique, NoStrayWakeup, Sending
  <1>11. NoLostWakeup'
    <2>1. Claimed(t)' BY <1>1, <1>3 DEF Claimed
    <2>2. ASSUME NEW u \in Threads \ {t}
          PROVE  (Claimed(u) => Claimed(u)') /\ (WakeupSent(u) => WakeupSent(u)')
      BY <1>1, <1>3 DEF Claimed, WakeupSent, IInv, TypeOK
    <2> QED BY <1>1, <2>1, <2>2 DEF IInv, NoLostWakeup
  <1> QED BY <1>4, <1>5, <1>6, <1>7, <1>8, <1>9, <1>10, <1>11 DEF IInv

\* condition_wait commits to the receive, under the lock under which it looked.
LEMMA WaitBlockInv == ASSUME NEW t \in Threads, IInv, WaitBlock(t) PROVE IInv'
  <1> USE DEF RUNNING, SPINNING, BLOCKED, AsleepPcs
  <1> USE DEF Goto
  <1>1. /\ pc[t] = "w_block" /\ pc'[t] = "w_receive"
        /\ \A u \in Threads \ {t} : pc'[u] = pc[u] /\ state'[u] = state[u]
        /\ state'[t] = BLOCKED /\ state[t] = SPINNING
        /\ UNCHANGED <<mutex, queue, port, cond, todo, target, old_state, ops>>
    BY DEF IInv, TypeOK, WaitBlock, StateInv
  <1>4. TypeOK'
    BY <1>1, ThreadAssumption DEF IInv, TypeOK, WaitBlock, SpinUnlock, Pcs, WaitPcs, CprocStates
  <1>5. LockInv' /\ MutexInv'
    <2>1. LockInv' BY <1>1, SpinUnlockInv DEF IInv, WaitBlock, LockedPcs, Pcs, WaitPcs
    <2>2. MutexInv' BY <1>1 DEF IInv, MutexInv
    <2> QED BY <2>1, <2>2
  <1>6. StateInv'
    BY <1>1 DEF IInv, StateInv
  <1>7. QueueInv' /\ QueueUnique'
    BY <1>1, ElementTypes DEF IInv, QueueInv, QueueUnique
  <1>8. TodoInv' /\ TodoUnique'
    BY <1>1, ElementTypes DEF IInv, TodoInv, TodoUnique
  <1>9. TodoPc'
    <2>1. ASSUME NEW s \in Threads, pc[s] = "c_set" PROVE target[s] \in Threads \ {t}
      <3>1. target[s] \in Threads /\ cond[target[s]] = cond[s]
        BY <2>1, HeadOfTodo DEF IInv, TodoPc, TodoInv
      <3>2. c_lock[cond[s]] = s /\ c_lock[cond[t]] = t /\ s # t
        BY <1>1, <2>1 DEF IInv, LockInv, LockedPcs
      <3> QED BY <3>1, <3>2
    <2> QED BY <1>1, <2>1 DEF IInv, TodoPc, ContinuePcs
  <1>10. SendInv' /\ SendUnique' /\ NoStrayWakeup'
    BY <1>1 DEF IInv, SendInv, SendUnique, NoStrayWakeup, Sending
  <1>11. NoLostWakeup'
    <2>1. ASSUME NEW u \in Threads
          PROVE  (Claimed(u) => Claimed(u)') /\ (WakeupSent(u) => WakeupSent(u)')
      BY <1>1 DEF Claimed, WakeupSent, IInv, TypeOK
    <2> QED BY <1>1, <2>1 DEF IInv, NoLostWakeup
  <1> QED BY <1>4, <1>5, <1>6, <1>7, <1>8, <1>9, <1>10, <1>11 DEF IInv

\* A blocked cproc takes the message of the signaller that continued it.
LEMMA WaitReceiveInv == ASSUME NEW t \in Threads, IInv, WaitReceive(t) PROVE IInv'
  <1> USE DEF RUNNING, SPINNING, BLOCKED, AsleepPcs
  <1> USE DEF Goto
  <1>1. /\ pc[t] = "w_receive" /\ pc'[t] = "w_relock"
        /\ \A u \in Threads \ {t} : pc'[u] = pc[u] /\ port'[u] = port[u]
        /\ port[t] = 1 /\ port'[t] = 0 /\ state[t] = RUNNING
        /\ UNCHANGED <<mutex, c_lock, queue, state, cond, todo, target, old_state, ops>>
    BY DEF IInv, TypeOK, WaitReceive, NoStrayWakeup
  <1>2. (\A c \in Conds : t \notin Range(queue[c]))
        /\ (\A s \in Threads : t \notin Range(todo[s]))
    BY <1>1 DEF IInv, QueueInv, TodoInv
  <1>4. TypeOK'
    BY <1>1 DEF IInv, TypeOK, WaitReceive, Pcs, WaitPcs
  <1>5. LockInv' /\ MutexInv'
    BY <1>1 DEF IInv, LockInv, MutexInv, LockedPcs
  <1>6. StateInv'
    BY <1>1 DEF IInv, StateInv
  <1>7. QueueInv' /\ QueueUnique'
    BY <1>1, <1>2, ElementTypes DEF IInv, QueueInv, QueueUnique
  <1>8. TodoInv' /\ TodoUnique'
    BY <1>1, <1>2, ElementTypes DEF IInv, TodoInv, TodoUnique
  <1>9. TodoPc'
    BY <1>1 DEF IInv, TodoPc, ContinuePcs
  <1>10. SendInv' /\ SendUnique' /\ NoStrayWakeup'
    <2>1. ASSUME NEW s \in Threads, Sending(s) PROVE target[s] # t
      BY <1>1, <2>1 DEF IInv, SendInv
    <2> QED BY <1>1, <2>1 DEF IInv, SendInv, SendUnique, NoStrayWakeup, Sending
  <1>11. NoLostWakeup'
    <2>1. ASSUME NEW u \in Threads \ {t}
          PROVE  (Claimed(u) => Claimed(u)') /\ (WakeupSent(u) => WakeupSent(u)')
      BY <1>1 DEF Claimed, WakeupSent, IInv, TypeOK
    <2> QED BY <1>1, <2>1 DEF IInv, NoLostWakeup
  <1> QED BY <1>4, <1>5, <1>6, <1>7, <1>8, <1>9, <1>10, <1>11 DEF IInv

\* cond_signal takes the oldest waiter, if there is one, into its hands.
LEMMA SignalDequeueInv == ASSUME NEW t \in Threads, IInv, SignalDequeue(t) PROVE IInv'
  <1> USE DEF RUNNING, SPINNING, BLOCKED, AsleepPcs
  <1> USE DEF Goto
  <1> DEFINE q == queue[cond[t]]
  <1>1. /\ pc[t] = "s_dequeue" /\ pc' = [pc EXCEPT ![t] = "c_next"]
        /\ SpinUnlock(t)
        /\ UNCHANGED <<mutex, state, port, cond, target, old_state, ops>>
        /\ cond[t] \in Conds /\ q \in Seq(Threads) /\ IsInjective(q)
        /\ todo[t] = <<>>
    BY DEF IInv, TypeOK, SignalDequeue, QueueUnique, TodoPc, ContinuePcs
  <1>2. LockInv' /\ MutexInv'
    <2>1. LockInv'
      BY <1>1, SpinUnlockInv DEF IInv, LockedPcs, Pcs, ContinuePcs
    <2>2. MutexInv' BY <1>1 DEF IInv, TypeOK, MutexInv
    <2> QED BY <2>1, <2>2
  <1>3. StateInv' BY <1>1 DEF IInv, TypeOK, StateInv
  <1>4. SendInv' /\ SendUnique' /\ NoStrayWakeup'
    BY <1>1 DEF IInv, TypeOK, SendInv, SendUnique, NoStrayWakeup, Sending
  <1>5. ASSUME NEW u \in Threads PROVE WakeupSent(u) => WakeupSent(u)'
    BY <1>1 DEF IInv, TypeOK, WakeupSent
  <1>6. CASE q = <<>>
    <2>1. queue' = queue /\ todo' = todo BY <1>6 DEF SignalDequeue
    <2>2. TypeOK' BY <1>1, <2>1 DEF IInv, TypeOK, SpinUnlock, Pcs, ContinuePcs
    <2>3. QueueInv' /\ QueueUnique'
      BY <1>1, <2>1, ElementTypes DEF IInv, TypeOK, QueueInv, QueueUnique
    <2>4. TodoInv' /\ TodoUnique'
      BY <1>1, <2>1, ElementTypes DEF IInv, TypeOK, TodoInv, TodoUnique
    <2>5. TodoPc' BY <1>1, <2>1 DEF IInv, TypeOK, TodoPc, ContinuePcs
    <2>6. ASSUME NEW u \in Threads PROVE Claimed(u) => Claimed(u)'
      BY <1>1, <2>1 DEF Claimed
    <2>7. NoLostWakeup' BY <1>1, <1>5, <2>6 DEF IInv, TypeOK, NoLostWakeup
    <2> QED BY <1>2, <1>3, <1>4, <2>2, <2>3, <2>4, <2>5, <2>7 DEF IInv
  <1>7. CASE q # <<>>
    <2> DEFINE p == Head(q)
    <2>1. /\ p \in Threads /\ Tail(q) \in Seq(Threads)
          /\ Range(q) = {p} \cup Range(Tail(q))
          /\ p \notin Range(Tail(q)) /\ IsInjective(Tail(q))
      BY <1>1, <1>7, RangeTail
    <2>2. /\ queue' = [queue EXCEPT ![cond[t]] = Tail(q)]
          /\ todo' = [todo EXCEPT ![t] = <<p>>]
      BY <1>7 DEF SignalDequeue
    <2>3. /\ queue'[cond[t]] = Tail(q)
          /\ \A c \in Conds \ {cond[t]} : queue'[c] = queue[c]
          /\ todo'[t] = <<p>> /\ Range(todo'[t]) = {p} /\ IsInjective(todo'[t])
          /\ \A s \in Threads \ {t} : todo'[s] = todo[s]
      BY <1>1, <2>2, RangeSingle DEF IInv, TypeOK
    <2>4. cond[p] = cond[t] /\ pc[p] \in AsleepPcs /\ state[p] # RUNNING /\ p # t
      BY <1>1, <2>1 DEF IInv, QueueInv
    <2>5. \A s \in Threads : p \notin Range(todo[s])
      BY <2>1, <2>4, <1>1 DEF IInv, TodoInv
    <2>6. TypeOK'
      <3>1. <<p>> \in Seq(Threads) BY <2>1
      <3> HIDE DEF p
      <3> QED BY <1>1, <2>1, <2>2, <3>1 DEF IInv, TypeOK, SpinUnlock, Pcs, ContinuePcs
    <2>7. QueueInv' /\ QueueUnique'
      <3>1. QueueUnique' BY <2>1, <2>3 DEF IInv, QueueUnique
      <3>2. ASSUME NEW c \in Conds, NEW u \in Range(queue'[c])
            PROVE  cond[u] = c /\ pc'[u] \in AsleepPcs /\ state[u] # RUNNING
        <4>1. u \in Range(queue[c]) BY <2>1, <2>3
        <4>2. u \in Threads BY <4>1, ElementTypes DEF IInv
        <4>3. cond[u] = c /\ pc[u] \in AsleepPcs /\ state[u] # RUNNING
          BY <4>1 DEF IInv, QueueInv
        <4> QED BY <1>1, <4>2, <4>3 DEF IInv, TypeOK
      <3> QED BY <1>1, <3>1, <3>2 DEF QueueInv
    <2>8. TodoInv'
      <3>1. ASSUME NEW s \in Threads, NEW u \in Range(todo'[s])
            PROVE  /\ cond[u] = cond[s] /\ pc'[u] \in AsleepPcs /\ state[u] # RUNNING
                   /\ u \notin Range(queue'[cond[s]])
        <4>1. CASE s = t
          <5>1. u = p BY <2>3, <4>1
          <5>2. pc'[p] \in AsleepPcs BY <1>1, <2>1, <2>4 DEF IInv, TypeOK
          <5>3. p \notin Range(queue'[cond[t]]) BY <2>1, <2>3
          <5> QED BY <2>4, <4>1, <5>1, <5>2, <5>3
        <4>2. CASE s # t
          <5>1. u \in Range(todo[s]) /\ u \in Threads /\ cond[s] \in Conds
            BY <2>3, <4>2, ElementTypes DEF IInv, TypeOK
          <5>2. /\ cond[u] = cond[s] /\ pc[u] \in AsleepPcs /\ state[u] # RUNNING
                /\ u \notin Range(queue[cond[s]])
            BY <5>1 DEF IInv, TodoInv
          <5>3. u \notin Range(queue'[cond[s]]) BY <2>1, <2>3, <5>1, <5>2
          <5>4. pc'[u] \in AsleepPcs BY <1>1, <5>1, <5>2 DEF IInv, TypeOK
          <5> QED BY <5>2, <5>3, <5>4
        <4> QED BY <4>1, <4>2
      <3> QED BY <1>1, <3>1 DEF TodoInv
    <2>9. TodoUnique'
      <3>1. ASSUME NEW s \in Threads PROVE IsInjective(todo'[s])
        BY <2>3 DEF IInv, TodoUnique
      <3>2. ASSUME NEW s \in Threads, NEW r \in Threads \ {s}
            PROVE  Range(todo'[s]) \cap Range(todo'[r]) = {}
        BY <2>3, <2>5 DEF IInv, TodoUnique
      <3> QED BY <3>1, <3>2 DEF TodoUnique
    <2>10. TodoPc'
      BY <1>1, <2>2 DEF IInv, TypeOK, TodoPc, ContinuePcs
    <2>11. ASSUME NEW u \in Threads PROVE Claimed(u) => Claimed(u)'
      <3>1. CASE u = p BY <1>1, <2>3, <2>4, <3>1 DEF Claimed
      <3>2. CASE u # p /\ u \in Range(queue[cond[u]])
        BY <1>1, <2>1, <2>3, <3>2 DEF Claimed, IInv, TypeOK
      <3>3. ASSUME NEW s \in Threads, cond[s] = cond[u], u \in Range(todo[s])
            PROVE  Claimed(u)'
        <4>1. s # t BY <1>1, <3>3, RangeEmpty
        <4> QED BY <1>1, <2>3, <3>3, <4>1 DEF Claimed
      <3> QED BY <3>1, <3>2, <3>3 DEF Claimed
    <2>12. NoLostWakeup' BY <1>1, <1>5, <2>11 DEF IInv, TypeOK, NoLostWakeup
    <2> QED BY <1>2, <1>3, <1>4, <2>6, <2>7, <2>8, <2>9, <2>10, <2>12 DEF IInv
  <1> QED BY <1>6, <1>7

\* cond_broadcast takes the whole queue into its hands.
LEMMA BroadcastTakeInv == ASSUME NEW t \in Threads, IInv, BroadcastTake(t) PROVE IInv'
  <1> USE DEF RUNNING, SPINNING, BLOCKED, AsleepPcs
  <1> USE DEF Goto
  <1> DEFINE q == queue[cond[t]]
  <1>1. /\ pc[t] = "b_take" /\ pc' = [pc EXCEPT ![t] = "c_next"]
        /\ SpinUnlock(t)
        /\ UNCHANGED <<mutex, state, port, cond, target, old_state, ops>>
        /\ cond[t] \in Conds /\ q \in Seq(Threads) /\ IsInjective(q)
        /\ todo[t] = <<>>
        /\ queue' = [queue EXCEPT ![cond[t]] = <<>>]
        /\ todo' = [todo EXCEPT ![t] = q]
    BY DEF IInv, TypeOK, BroadcastTake, QueueUnique, TodoPc, ContinuePcs
  <1>2. LockInv' /\ MutexInv'
    <2>1. LockInv'
      BY <1>1, SpinUnlockInv DEF IInv, LockedPcs, Pcs, ContinuePcs
    <2>2. MutexInv' BY <1>1 DEF IInv, TypeOK, MutexInv
    <2> QED BY <2>1, <2>2
  <1>3. /\ queue'[cond[t]] = <<>> /\ Range(queue'[cond[t]]) = {}
        /\ IsInjective(queue'[cond[t]])
        /\ \A c \in Conds \ {cond[t]} : queue'[c] = queue[c]
        /\ todo'[t] = q
        /\ \A s \in Threads \ {t} : todo'[s] = todo[s]
    BY <1>1, RangeEmpty DEF IInv, TypeOK
  <1>4. TypeOK'
    BY <1>1 DEF IInv, TypeOK, SpinUnlock, Pcs, ContinuePcs
  <1>5. StateInv' BY <1>1 DEF IInv, TypeOK, StateInv
  <1>6. SendInv' /\ SendUnique' /\ NoStrayWakeup'
    BY <1>1, SMTT(30) DEF IInv, TypeOK, SendInv, SendUnique, NoStrayWakeup, Sending
  <1>7. QueueInv' /\ QueueUnique'
    <2>1. QueueUnique' BY <1>3 DEF IInv, QueueUnique
    <2>2. ASSUME NEW c \in Conds, NEW u \in Range(queue'[c])
          PROVE  cond[u] = c /\ pc'[u] \in AsleepPcs /\ state[u] # RUNNING
      <3>1. u \in Range(queue[c]) BY <1>3
      <3>2. u \in Threads BY <3>1, ElementTypes DEF IInv
      <3>3. cond[u] = c /\ pc[u] \in AsleepPcs /\ state[u] # RUNNING
        BY <3>1 DEF IInv, QueueInv
      <3> QED BY <1>1, <3>2, <3>3 DEF IInv, TypeOK
    <2> QED BY <1>1, <2>1, <2>2 DEF QueueInv
  <1>8. \A s \in Threads : Range(todo[s]) \cap Range(q) = {}
    BY <1>1, ElementTypes DEF IInv, TodoInv, QueueInv
  <1>9. TodoInv'
    <2>1. ASSUME NEW s \in Threads, NEW u \in Range(todo'[s])
          PROVE  /\ cond[u] = cond[s] /\ pc'[u] \in AsleepPcs /\ state[u] # RUNNING
                 /\ u \notin Range(queue'[cond[s]])
      <3>1. CASE s = t
        <4>1. u \in Range(q) /\ u \in Threads BY <1>1, <1>3, <3>1, ElementTypes DEF IInv
        <4>2. cond[u] = cond[t] /\ pc[u] \in AsleepPcs /\ state[u] # RUNNING
          BY <1>1, <4>1 DEF IInv, QueueInv
        <4> QED BY <1>1, <1>3, <3>1, <4>1, <4>2 DEF IInv, TypeOK
      <3>2. CASE s # t
        <4>1. u \in Range(todo[s]) /\ u \in Threads /\ cond[s] \in Conds
          BY <1>3, <3>2, ElementTypes DEF IInv, TypeOK
        <4>2. /\ cond[u] = cond[s] /\ pc[u] \in AsleepPcs /\ state[u] # RUNNING
              /\ u \notin Range(queue[cond[s]])
          BY <4>1 DEF IInv, TodoInv
        <4>3. u \notin Range(queue'[cond[s]]) BY <1>3, <4>1, <4>2
        <4>4. pc'[u] \in AsleepPcs BY <1>1, <4>1, <4>2 DEF IInv, TypeOK
        <4> QED BY <4>2, <4>3, <4>4
      <3> QED BY <3>1, <3>2
    <2> QED BY <1>1, <2>1 DEF TodoInv
  <1>10. TodoUnique'
    <2>1. ASSUME NEW s \in Threads PROVE IsInjective(todo'[s])
      BY <1>1, <1>3 DEF IInv, TodoUnique
    <2>2. ASSUME NEW s \in Threads, NEW r \in Threads \ {s}
          PROVE  Range(todo'[s]) \cap Range(todo'[r]) = {}
      BY <1>3, <1>8 DEF IInv, TodoUnique
    <2> QED BY <2>1, <2>2 DEF TodoUnique
  <1>11. TodoPc'
    BY <1>1, <1>3 DEF IInv, TypeOK, TodoPc, ContinuePcs
  <1>12. ASSUME NEW u \in Threads PROVE Claimed(u) => Claimed(u)'
    <2>1. CASE u \in Range(queue[cond[u]]) /\ cond[u] = cond[t]
      BY <1>1, <1>3, <2>1 DEF Claimed
    <2>2. CASE u \in Range(queue[cond[u]]) /\ cond[u] # cond[t]
      BY <1>1, <1>3, <2>2 DEF Claimed, IInv, TypeOK
    <2>3. ASSUME NEW s \in Threads, cond[s] = cond[u], u \in Range(todo[s])
          PROVE  Claimed(u)'
      <3>1. s # t BY <1>1, <2>3, RangeEmpty
      <3> QED BY <1>1, <1>3, <2>3, <3>1 DEF Claimed
    <2> QED BY <2>1, <2>2, <2>3 DEF Claimed
  <1>13. ASSUME NEW u \in Threads PROVE WakeupSent(u) => WakeupSent(u)'
    BY <1>1 DEF IInv, TypeOK, WakeupSent
  <1>14. NoLostWakeup' BY <1>1, <1>12, <1>13 DEF IInv, TypeOK, NoLostWakeup
  <1> QED BY <1>2, <1>4, <1>5, <1>6, <1>7, <1>9, <1>10, <1>11, <1>14 DEF IInv

\* cproc_continue looks at the state of the cproc it wakes.
LEMMA ContinueReadInv == ASSUME NEW t \in Threads, IInv, ContinueRead(t) PROVE IInv'
  <1> USE DEF RUNNING, SPINNING, BLOCKED, AsleepPcs
  <1> USE DEF Goto
  <1> DEFINE p == Head(todo[t])
  <1>1. /\ pc[t] = "c_read" /\ pc' = [pc EXCEPT ![t] = "c_set"]
        /\ UNCHANGED <<mutex, c_lock, queue, state, port, cond, todo, ops>>
        /\ target' = [target EXCEPT ![t] = p]
        /\ old_state' = [old_state EXCEPT ![t] = state[p]]
        /\ todo[t] # <<>>
    BY DEF IInv, ContinueRead, TodoPc
  <1>2. p \in Threads BY <1>1, HeadOfTodo
  <1> HIDE DEF p
  <1>3. TypeOK' BY <1>1, <1>2 DEF IInv, TypeOK, Pcs, ContinuePcs
  <1>4. LockInv' /\ MutexInv'
    BY <1>1 DEF IInv, TypeOK, LockInv, MutexInv, LockedPcs
  <1>5. StateInv' BY <1>1 DEF IInv, TypeOK, StateInv
  <1>6. QueueInv' /\ QueueUnique'
    BY <1>1, ElementTypes, SMTT(30) DEF IInv, TypeOK, QueueInv, QueueUnique
  <1>7. TodoInv' /\ TodoUnique'
    BY <1>1, ElementTypes DEF IInv, TypeOK, TodoInv, TodoUnique
  <1>8. TodoPc'
    BY <1>1, <1>2 DEF IInv, TypeOK, TodoPc, ContinuePcs, p
  <1>9. SendInv' /\ SendUnique' /\ NoStrayWakeup'
    <2>1. ASSUME NEW s \in Threads
          PROVE  Sending(s)' => Sending(s) /\ s # t /\ target'[s] = target[s]
      BY <1>1 DEF IInv, TypeOK, Sending
    <2>2. ASSUME NEW u \in Threads, pc[u] = "w_receive" PROVE pc'[u] = "w_receive"
      BY <1>1, <2>2 DEF IInv, TypeOK
    <2> QED BY <1>1, <2>1, <2>2 DEF IInv, SendInv, SendUnique, NoStrayWakeup
  <1>10. ASSUME NEW u \in Threads
         PROVE  (Claimed(u) => Claimed(u)') /\ (WakeupSent(u) => WakeupSent(u)')
    BY <1>1 DEF IInv, TypeOK, Claimed, WakeupSent
  <1>11. NoLostWakeup' BY <1>1, <1>10 DEF IInv, TypeOK, NoLostWakeup
  <1> QED BY <1>3, <1>4, <1>5, <1>6, <1>7, <1>8, <1>9, <1>11 DEF IInv

\* cproc_continue marks that cproc RUNNING, still under c->lock.
LEMMA ContinueSetInv == ASSUME NEW t \in Threads, IInv, ContinueSet(t) PROVE IInv'
  <1> USE DEF RUNNING, SPINNING, BLOCKED, AsleepPcs
  <1> USE DEF Goto
  <1> DEFINE p == target[t]
  <1>1. /\ pc[t] = "c_set" /\ pc' = [pc EXCEPT ![t] = "c_unlock"]
        /\ UNCHANGED <<mutex, c_lock, queue, port, cond, target, old_state, ops>>
        /\ state' = [state EXCEPT ![p] = RUNNING]
        /\ todo' = [todo EXCEPT ![t] = Tail(todo[t])]
        /\ todo[t] # <<>> /\ p = Head(todo[t]) /\ old_state[t] = state[p]
    BY DEF IInv, ContinueSet, TodoPc
  <1>2. /\ p \in Threads /\ p \in Range(todo[t])
        /\ Tail(todo[t]) \in Seq(Threads)
        /\ Range(todo[t]) = {p} \cup Range(Tail(todo[t]))
        /\ p \notin Range(Tail(todo[t])) /\ IsInjective(Tail(todo[t]))
    BY <1>1, HeadOfTodo
  <1>3. /\ cond[p] = cond[t] /\ pc[p] \in AsleepPcs /\ state[p] # RUNNING /\ p # t
        /\ \A c \in Conds : p \notin Range(queue[c])
        /\ \A s \in Threads \ {t} : p \notin Range(todo[s])
    <2> HIDE DEF p
    <2>1. /\ cond[p] = cond[t] /\ pc[p] \in AsleepPcs /\ state[p] # RUNNING
          /\ p \notin Range(queue[cond[t]])
      BY <1>2 DEF IInv, TodoInv
    <2>2. p # t BY <1>1, <2>1
    <2>3. ASSUME NEW c \in Conds PROVE p \notin Range(queue[c])
      BY <2>1 DEF IInv, QueueInv
    <2>4. ASSUME NEW s \in Threads \ {t} PROVE p \notin Range(todo[s])
      BY <1>2 DEF IInv, TodoUnique
    <2> QED BY <2>1, <2>2, <2>3, <2>4
  <1> HIDE DEF p
  <1>4. /\ todo'[t] = Tail(todo[t]) /\ \A s \in Threads \ {t} : todo'[s] = todo[s]
        /\ pc'[t] = "c_unlock" /\ \A s \in Threads \ {t} : pc'[s] = pc[s]
        /\ state'[p] = RUNNING /\ \A s \in Threads \ {p} : state'[s] = state[s]
        /\ \A s \in Threads : p \notin Range(todo'[s]) /\ Range(todo'[s]) \subseteq Range(todo[s])
    BY <1>1, <1>2, <1>3 DEF IInv, TypeOK
  <1>5. TypeOK' BY <1>1, <1>2 DEF IInv, TypeOK, Pcs, ContinuePcs, CprocStates
  <1>6. LockInv' /\ MutexInv'
    BY <1>1 DEF IInv, TypeOK, LockInv, MutexInv, LockedPcs
  \* The lock keeps p from being between its second look and its block.
  <1>7. pc[p] # "w_block"
    BY <1>1, <1>2, <1>3 DEF IInv, LockInv, LockedPcs
  <1>8. StateInv' BY <1>1, <1>3, <1>4, <1>7 DEF IInv, StateInv
  <1>9. QueueInv' /\ QueueUnique'
    <2>1. QueueUnique' BY <1>1 DEF IInv, QueueUnique
    <2>2. ASSUME NEW c \in Conds, NEW u \in Range(queue[c])
          PROVE  cond[u] = c /\ pc'[u] \in AsleepPcs /\ state'[u] # RUNNING
      <3>1. u \in Threads \ {p} BY <1>3, ElementTypes DEF IInv
      <3>2. cond[u] = c /\ pc[u] \in AsleepPcs /\ state[u] # RUNNING
        BY DEF IInv, QueueInv
      <3> QED BY <1>1, <1>4, <3>1, <3>2
    <2> QED BY <1>1, <2>1, <2>2 DEF QueueInv
  <1>10. TodoInv'
    <2>1. ASSUME NEW s \in Threads, NEW u \in Range(todo'[s])
          PROVE  /\ cond[u] = cond[s] /\ pc'[u] \in AsleepPcs /\ state'[u] # RUNNING
                 /\ u \notin Range(queue[cond[s]])
      <3>1. u \in Range(todo[s]) /\ u \in Threads \ {p}
        BY <1>4, ElementTypes DEF IInv
      <3>2. /\ cond[u] = cond[s] /\ pc[u] \in AsleepPcs /\ state[u] # RUNNING
            /\ u \notin Range(queue[cond[s]])
        BY <3>1 DEF IInv, TodoInv
      <3> QED BY <1>1, <1>4, <3>1, <3>2
    <2> QED BY <1>1, <2>1 DEF TodoInv
  <1>11. TodoUnique'
    <2>1. ASSUME NEW s \in Threads PROVE IsInjective(todo'[s])
      BY <1>2, <1>4 DEF IInv, TodoUnique
    <2>2. ASSUME NEW s \in Threads, NEW r \in Threads \ {s}
          PROVE  Range(todo'[s]) \cap Range(todo'[r]) = {}
      BY <1>4 DEF IInv, TodoUnique
    <2> QED BY <2>1, <2>2 DEF TodoUnique
  <1>12. TodoPc'
    <2>1. ASSUME NEW s \in Threads \ {t}, pc[s] = "c_set"
          PROVE  target[s] \in Threads \ {p}
      BY <1>3, <2>1, HeadOfTodo DEF IInv, TodoPc
    <2> QED BY <1>1, <1>4, <2>1 DEF IInv, TodoPc, ContinuePcs
  <1>13. SendInv' /\ SendUnique' /\ NoStrayWakeup'
    <2>1. ASSUME NEW s \in Threads \ {t}
          PROVE  /\ Sending(s)' <=> Sending(s)
                 /\ Sending(s) => target[s] # p
      BY <1>1, <1>3, <1>4 DEF IInv, Sending, SendInv
    <2>2. Sending(t)' => pc[p] = "w_receive" /\ port[p] = 0
      <3>1. Sending(t)' => state[p] = BLOCKED BY <1>1 DEF Sending
      <3>2. state[p] = BLOCKED => pc[p] = "w_receive" BY <1>2 DEF IInv, StateInv
      <3>3. port[p] # 1 BY <1>2, <1>3 DEF IInv, NoStrayWakeup
      <3> QED BY <1>2, <3>1, <3>2, <3>3 DEF IInv, TypeOK
    <2>3. SendInv'
      BY <1>1, <1>2, <1>3, <1>4, <2>1, <2>2 DEF IInv, SendInv, p
    <2>4. SendUnique'
      BY <1>1, <2>1 DEF IInv, SendUnique, p
    <2>5. NoStrayWakeup'
      BY <1>1, <1>4 DEF IInv, NoStrayWakeup
    <2> QED BY <2>3, <2>4, <2>5
  <1>14. NoLostWakeup'
    <2>1. ASSUME NEW u \in Threads, u = p, pc[u] = "w_receive" PROVE WakeupSent(u)'
      <3>1. old_state[t] = BLOCKED
        BY <1>1, <1>3, <2>1 DEF IInv, StateInv
      <3> QED BY <1>1, <1>4, <2>1, <3>1 DEF WakeupSent, p
    <2>2. ASSUME NEW u \in Threads \ {p}
          PROVE  (Claimed(u) => Claimed(u)') /\ (WakeupSent(u) => WakeupSent(u)')
      BY <1>1, <1>2, <1>4 DEF Claimed, WakeupSent
    <2>3. ASSUME NEW u \in Threads
          PROVE  /\ pc'[u] \in AsleepPcs /\ state'[u] # RUNNING => Claimed(u)'
                 /\ pc'[u] = "w_receive" /\ state'[u] = RUNNING => WakeupSent(u)'
      <3>1. CASE u = p BY <1>2, <1>3, <1>4, <2>1, <3>1
      <3>2. CASE u # p BY <1>1, <1>4, <2>2, <3>2 DEF IInv, NoLostWakeup
      <3> QED BY <3>1, <3>2
    <2> QED BY <2>3 DEF NoLostWakeup
  <1> QED BY <1>5, <1>6, <1>8, <1>9, <1>10, <1>11, <1>12, <1>13, <1>14 DEF IInv

\* cproc_continue leaves c->lock, and has a message to send to a blocked cproc.
LEMMA ContinueUnlockInv == ASSUME NEW t \in Threads, IInv, ContinueUnlock(t) PROVE IInv'
  <1> USE DEF RUNNING, SPINNING, BLOCKED, AsleepPcs
  <1> USE DEF Goto
  <1>1. PICK b \in {"c_next", "c_send"} :
           /\ pc[t] = "c_unlock" /\ pc' = [pc EXCEPT ![t] = b]
           /\ b = "c_send" <=> old_state[t] = BLOCKED
           /\ SpinUnlock(t)
           /\ UNCHANGED <<mutex, queue, state, port, cond, todo, target, old_state, ops>>
    BY DEF ContinueUnlock
  <1>2. TypeOK' BY <1>1 DEF IInv, TypeOK, SpinUnlock, Pcs, ContinuePcs
  <1>3. LockInv' /\ MutexInv'
    <2>1. LockInv' BY <1>1, SpinUnlockInv DEF IInv, LockedPcs, Pcs, ContinuePcs
    <2>2. MutexInv' BY <1>1 DEF IInv, TypeOK, MutexInv
    <2> QED BY <2>1, <2>2
  <1>4. StateInv' BY <1>1 DEF IInv, TypeOK, StateInv
  <1>5. QueueInv' /\ QueueUnique'
    BY <1>1, ElementTypes DEF IInv, TypeOK, QueueInv, QueueUnique
  <1>6. TodoInv' /\ TodoUnique'
    BY <1>1, ElementTypes DEF IInv, TypeOK, TodoInv, TodoUnique
  <1>7. TodoPc' BY <1>1 DEF IInv, TypeOK, TodoPc, ContinuePcs
  <1>8. SendInv' /\ SendUnique' /\ NoStrayWakeup'
    BY <1>1 DEF IInv, TypeOK, SendInv, SendUnique, NoStrayWakeup, Sending
  <1>9. ASSUME NEW u \in Threads
        PROVE  (Claimed(u) => Claimed(u)') /\ (WakeupSent(u) => WakeupSent(u)')
    BY <1>1 DEF IInv, TypeOK, Claimed, WakeupSent
  <1>10. NoLostWakeup' BY <1>1, <1>9 DEF IInv, TypeOK, NoLostWakeup
  <1> QED BY <1>2, <1>3, <1>4, <1>5, <1>6, <1>7, <1>8, <1>10 DEF IInv

\* The wakeup message goes to a cproc that waits for it and whose port is empty.
LEMMA ContinueSendInv == ASSUME NEW t \in Threads, IInv, ContinueSend(t) PROVE IInv'
  <1> USE DEF RUNNING, SPINNING, BLOCKED, AsleepPcs
  <1> USE DEF Goto
  <1> DEFINE p == target[t]
  <1>1. /\ pc[t] = "c_send" /\ pc' = [pc EXCEPT ![t] = "c_next"]
        /\ port' = [port EXCEPT ![p] = 1]
        /\ UNCHANGED <<mutex, c_lock, queue, state, cond, todo, target, old_state, ops>>
        /\ Sending(t)
    BY DEF IInv, ContinueSend, TodoPc, Sending
  <1>2. p \in Threads /\ pc[p] = "w_receive" /\ state[p] = RUNNING /\ p # t
    BY <1>1 DEF IInv, SendInv
  <1> HIDE DEF p
  <1>3. TypeOK' BY <1>1, <1>2 DEF IInv, TypeOK, Pcs, ContinuePcs
  <1>4. LockInv' /\ MutexInv'
    BY <1>1 DEF IInv, TypeOK, LockInv, MutexInv, LockedPcs
  <1>5. StateInv' BY <1>1 DEF IInv, TypeOK, StateInv
  <1>6. QueueInv' /\ QueueUnique'
    BY <1>1, ElementTypes DEF IInv, TypeOK, QueueInv, QueueUnique
  <1>7. TodoInv' /\ TodoUnique'
    BY <1>1, ElementTypes DEF IInv, TypeOK, TodoInv, TodoUnique
  <1>8. TodoPc' BY <1>1 DEF IInv, TypeOK, TodoPc, ContinuePcs
  <1>9. SendInv' /\ SendUnique'
    <2>1. ASSUME NEW s \in Threads, Sending(s)'
          PROVE  Sending(s) /\ s # t /\ target[s] # p
      BY <1>1, <2>1 DEF IInv, TypeOK, Sending, SendUnique, p
    <2>2. SendInv'
      BY <1>1, <1>2, <2>1 DEF IInv, TypeOK, SendInv
    <2> QED BY <1>1, <2>1, <2>2 DEF IInv, SendUnique
  <1>10. NoStrayWakeup' BY <1>1, <1>2 DEF IInv, TypeOK, NoStrayWakeup
  <1>11. ASSUME NEW u \in Threads
         PROVE  (Claimed(u) => Claimed(u)') /\ (WakeupSent(u) => WakeupSent(u)')
    <2>1. Claimed(u) => Claimed(u)' BY <1>1 DEF Claimed
    <2>2. port'[p] = 1 /\ \A v \in Threads \ {p} : port'[v] = port[v]
      BY <1>1, <1>2 DEF IInv, TypeOK
    <2>3. CASE u = p BY <2>1, <2>2, <2>3 DEF WakeupSent
    <2>4. CASE u # p
      <3>1. ASSUME NEW s \in Threads, pc[s] \in {"c_unlock", "c_send"},
                   target[s] = u
            PROVE  pc'[s] = pc[s]
        BY <1>1, <2>4, <3>1 DEF IInv, TypeOK, p
      <3> QED BY <1>1, <2>1, <2>2, <2>4, <3>1 DEF WakeupSent
    <2> QED BY <2>3, <2>4
  <1>12. NoLostWakeup' BY <1>1, <1>11 DEF IInv, TypeOK, NoLostWakeup
  <1> QED BY <1>3, <1>4, <1>5, <1>6, <1>7, <1>8, <1>9, <1>10, <1>12 DEF IInv

-----------------------------------------------------------------------------
(* The theorems.                                                           *)

\* Every step of the synchronisation layer keeps the invariant.
LEMMA NextInv == IInv /\ [Next]_vars => IInv'
  <1> SUFFICES ASSUME IInv, [Next]_vars PROVE IInv'
    OBVIOUS
  <1>1. CASE UNCHANGED vars
    BY <1>1 DEF vars, IInv, TypeOK, LockInv, MutexInv, StateInv, QueueInv,
       QueueUnique, TodoInv, TodoUnique, TodoPc, SendInv, SendUnique, Sending,
       NoStrayWakeup, NoLostWakeup, Claimed, WakeupSent
  <1>2. ASSUME NEW t \in Threads, ClientStep(t) PROVE IInv'
    BY <1>2, ControlActionInv DEF ClientStep
  <1>3. ASSUME NEW t \in Threads, WaitStep(t) PROVE IInv'
    BY <1>3, ControlActionInv, WaitEnqueueInv, WaitBlockInv, WaitReceiveInv DEF WaitStep
  <1>4. ASSUME NEW t \in Threads, SignalStep(t) PROVE IInv'
    BY <1>4, ControlActionInv, SignalDequeueInv, BroadcastTakeInv, ContinueReadInv,
       ContinueSetInv, ContinueUnlockInv, ContinueSendInv DEF SignalStep
  <1> QED BY <1>1, <1>2, <1>3, <1>4 DEF Next

\* cthread_init leaves every cproc running and every queue empty.
LEMMA InitInv == Init => IInv
  <1> SUFFICES ASSUME Init PROVE IInv
    OBVIOUS
  <1> USE DEF Init, RUNNING, SPINNING, BLOCKED
  <1>1. TypeOK
    BY ThreadAssumption, OpsAssumption, CondAssumption DEF TypeOK, CprocStates, Pcs
  <1>2. LockInv /\ MutexInv /\ StateInv
    BY ThreadAssumption DEF LockInv, MutexInv, StateInv, LockedPcs, AsleepPcs
  <1>3. QueueInv /\ QueueUnique /\ TodoInv /\ TodoUnique /\ TodoPc
    BY RangeEmpty DEF QueueInv, QueueUnique, TodoInv, TodoUnique, TodoPc
  <1>4. SendInv /\ SendUnique /\ NoStrayWakeup /\ NoLostWakeup
    BY DEF SendInv, SendUnique, Sending, NoStrayWakeup, NoLostWakeup, AsleepPcs
  <1> QED BY <1>1, <1>2, <1>3, <1>4 DEF IInv

\* The inductive invariant of the wait/continue protocol of cprocs.c.
THEOREM Invariance == Spec => []IInv
  BY InitInv, NextInv, PTL DEF Spec

\* The synchronisation state of cprocs.c keeps its types.
THEOREM TypeCorrect == Spec => []TypeOK
  <1>1. IInv => TypeOK BY DEF IInv
  <1> QED BY <1>1, Invariance, PTL

\* For any number of threads and conditions, the wait port of a cproc holds a
\* message only while the cproc is blocked on it and has been continued.
THEOREM NoStray == Spec => []NoStrayWakeup
  <1>1. IInv => NoStrayWakeup BY DEF IInv
  <1> QED BY <1>1, Invariance, PTL

\* No wakeup is lost between the unlocked polls, the second look and the block.
THEOREM NoLost == Spec => []NoLostWakeup
  <1>1. IInv => NoLostWakeup BY DEF IInv
  <1> QED BY <1>1, Invariance, PTL

\* The ASSERT at the end of condition_wait holds, and nobody still has a claim
\* on the thread that passes it.
THEOREM LeavesReleased == Spec => []LeavesWaitReleased
  <1>1. IInv => LeavesWaitReleased
    BY DEF IInv, LeavesWaitReleased, StateInv, QueueInv, TodoInv, Queued, AsleepPcs
  <1> QED BY <1>1, Invariance, PTL

-----------------------------------------------------------------------------
(* The refinement.                                                         *)

AbsOwner == IF mutex \in Threads /\ pc[mutex] = "w_unlock" THEN NoThread ELSE mutex
AbsInWait == {t \in Threads : pc[t] \in AsleepPcs \cup {"w_relock"}}

\* A step that leaves the queues alone and keeps both the abstract owner and
\* the set of waiting threads is a stutter of the abstract condition variable.
LEMMA AbsStutter ==
    ASSUME queue' = queue, AbsOwner' = AbsOwner, AbsInWait' = AbsInWait
    PROVE  UNCHANGED Abs!vars
  BY DEF Abs!vars, AbsOwner, AbsInWait

\* The initial state maps to the abstract initial state.
LEMMA AbsInitial == Init => Abs!Init
  BY ThreadAssumption DEF Init, Abs!Init, AsleepPcs

\* Every step maps to a step of the abstract condition variable or a stutter.
LEMMA AbsStep == IInv /\ [Next]_vars => [Abs!Next]_Abs!vars
  <1> SUFFICES ASSUME IInv, [Next]_vars PROVE Abs!Next \/ UNCHANGED Abs!vars
    OBVIOUS
  <1> USE ThreadAssumption DEF AsleepPcs
  <1>1. CASE UNCHANGED vars
    BY <1>1, AbsStutter DEF vars, AbsOwner, AbsInWait
  <1>2. ASSUME NEW t \in Threads, MutexLock(t) PROVE Abs!Lock(t)
    BY <1>2 DEF IInv, TypeOK, MutexLock, Goto, Abs!Lock
  <1>3. ASSUME NEW t \in Threads, MutexUnlock(t) PROVE Abs!Unlock(t)
    BY <1>3 DEF IInv, TypeOK, MutexInv, MutexUnlock, Goto, Abs!Unlock
  <1>4. ASSUME NEW t \in Threads, NEW c \in Conds, c = cond[t], WaitEnqueue(t)
        PROVE  Abs!Wait(t, c)
    BY <1>4 DEF IInv, TypeOK, MutexInv, WaitEnqueue, Goto, Abs!Wait
  <1>5. ASSUME NEW t \in Threads, WaitRelock(t) PROVE Abs!Resume(t)
    <2>1. ~Abs!Queued(t)
      BY <1>5 DEF IInv, QueueInv, WaitRelock, Abs!Queued, Abs!Range, Range
    <2> QED BY <1>5, <2>1 DEF IInv, TypeOK, WaitRelock, Goto, Abs!Resume
  <1>6. ASSUME NEW t \in Threads, SignalDequeue(t)
        PROVE  Abs!Signal(cond[t]) \/ UNCHANGED Abs!vars
    <2>1. /\ pc[t] = "s_dequeue" /\ pc' = [pc EXCEPT ![t] = "c_next"]
          /\ mutex' = mutex
      BY <1>6 DEF SignalDequeue, Goto
    <2>2. AbsOwner' = AbsOwner /\ AbsInWait' = AbsInWait
      BY <2>1 DEF IInv, TypeOK, AbsOwner, AbsInWait
    <2>3. CASE queue[cond[t]] = <<>>
      BY <1>6, <2>2, <2>3, AbsStutter DEF SignalDequeue
    <2>4. CASE queue[cond[t]] # <<>>
      BY <1>6, <2>2, <2>4 DEF SignalDequeue, Abs!Signal, AbsOwner, AbsInWait
    <2> QED BY <2>3, <2>4
  <1>7. ASSUME NEW t \in Threads, BroadcastTake(t)
        PROVE  Abs!Broadcast(cond[t]) \/ UNCHANGED Abs!vars
    <2>1. /\ pc[t] = "b_take" /\ pc' = [pc EXCEPT ![t] = "c_next"]
          /\ mutex' = mutex /\ queue' = [queue EXCEPT ![cond[t]] = <<>>]
      BY <1>7 DEF BroadcastTake, Goto
    <2>2. AbsOwner' = AbsOwner /\ AbsInWait' = AbsInWait
      BY <2>1 DEF IInv, TypeOK, AbsOwner, AbsInWait
    <2>3. CASE queue[cond[t]] = <<>>
      <3>1. queue' = queue BY <2>1, <2>3 DEF IInv, TypeOK
      <3> QED BY <2>2, <3>1, AbsStutter
    <2>4. CASE queue[cond[t]] # <<>>
      BY <2>1, <2>2, <2>4 DEF Abs!Broadcast, AbsOwner, AbsInWait
    <2> QED BY <2>3, <2>4
  <1>8. ASSUME NEW t \in Threads, WaitMutexUnlock(t) PROVE UNCHANGED Abs!vars
    <2>1. queue' = queue /\ AbsOwner' = AbsOwner /\ AbsInWait' = AbsInWait
      BY <1>8 DEF IInv, TypeOK, MutexInv, WaitMutexUnlock, Goto, AbsOwner, AbsInWait
    <2> QED BY <2>1, AbsStutter
  \* The steps that change neither the mutex nor who is waiting.
  <1>9. ASSUME NEW t \in Threads, NEW b, pc' = [pc EXCEPT ![t] = b],
               mutex' = mutex, queue' = queue, "w_unlock" \notin {pc[t], b},
               pc[t] \in AsleepPcs \cup {"w_relock"} <=> b \in AsleepPcs \cup {"w_relock"}
        PROVE  UNCHANGED Abs!vars
    <2>1. AbsOwner' = AbsOwner /\ AbsInWait' = AbsInWait
      BY <1>9 DEF IInv, TypeOK, AbsOwner, AbsInWait
    <2> QED BY <1>9, <2>1, AbsStutter
  <1>10. ASSUME NEW t \in Threads, NEW c \in Conds,
                \/ Call(t, c, {"held"}, "w_lock")
                \/ Call(t, c, {"idle", "held"}, "s_test")
                \/ Call(t, c, {"idle", "held"}, "b_test")
         PROVE  UNCHANGED Abs!vars
    BY <1>9, <1>10 DEF Call, Goto
  <1>11. ASSUME NEW t \in Threads,
                \/ WaitLock(t) \/ WaitSpin(t) \/ WaitLock2(t) \/ WaitRecheck(t)
                \/ WaitBlock(t) \/ WaitReceive(t)
         PROVE  UNCHANGED Abs!vars
    BY <1>9, <1>11 DEF WaitLock, WaitSpin, WaitLock2, WaitRecheck, WaitBlock,
       WaitReceive, SpinLock, Goto
  <1>12. ASSUME NEW t \in Threads,
                \/ SignalTest(t, "s_test", "s_lock") \/ SignalTest(t, "b_test", "b_lock")
                \/ SignalLock(t, "s_lock", "s_dequeue") \/ SignalLock(t, "b_lock", "b_take")
                \/ SignalReturn(t)
         PROVE  UNCHANGED Abs!vars
    BY <1>9, <1>12 DEF SignalTest, SignalLock, SignalReturn, Return, SpinLock, Goto
  <1>13. ASSUME NEW t \in Threads,
                \/ ContinueLock(t) \/ ContinueRead(t) \/ ContinueSet(t)
                \/ ContinueUnlock(t) \/ ContinueSend(t)
         PROVE  UNCHANGED Abs!vars
    BY <1>9, <1>13 DEF ContinueLock, ContinueRead, ContinueSet, ContinueUnlock,
       ContinueSend, SpinLock, Goto
  <1>14. ASSUME NEW t \in Threads, ClientStep(t) PROVE Abs!Next \/ UNCHANGED Abs!vars
    BY <1>2, <1>3, <1>10, <1>14 DEF ClientStep, Abs!Next
  <1>15. ASSUME NEW t \in Threads, WaitStep(t) PROVE Abs!Next \/ UNCHANGED Abs!vars
    <2>1. cond[t] \in Conds BY DEF IInv, TypeOK
    <2>2. CASE WaitEnqueue(t) BY <1>4, <2>1, <2>2 DEF Abs!Next
    <2>3. CASE WaitRelock(t) BY <1>5, <2>3 DEF Abs!Next
    <2>4. CASE ~WaitEnqueue(t) /\ ~WaitRelock(t)
      BY <1>8, <1>11, <1>15, <2>4 DEF WaitStep
    <2> QED BY <2>2, <2>3, <2>4
  <1>16. ASSUME NEW t \in Threads, SignalStep(t) PROVE Abs!Next \/ UNCHANGED Abs!vars
    <2>1. cond[t] \in Conds BY DEF IInv, TypeOK
    <2> QED BY <1>6, <1>7, <1>12, <1>13, <1>16, <2>1 DEF SignalStep, Abs!Next
  <1> QED BY <1>1, <1>14, <1>15, <1>16 DEF Next

\* The spin/yield/block protocol implements the atomic FIFO condition variable.
THEOREM Refinement == Spec => AbsSpec
  BY AbsInitial, AbsStep, Invariance, PTL DEF Spec, AbsSpec, Abs!Spec
=============================================================================
