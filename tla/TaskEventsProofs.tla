-------------------------- MODULE TaskEventsProofs --------------------------
(***************************************************************************)
(* Proofs about module TaskEvents, for any number of tasks, threads and    *)
(* events: a numbered event is applied once and in order, a SIGKILL that   *)
(* returned success took, the kernel's suspend count is the task's state,  *)
(* no death goes unreported, and the two lock orders meet in one way only.  *)
(***************************************************************************)
EXTENDS TaskEvents, FiniteSetTheorems, TLAPS

-----------------------------------------------------------------------------
(* The inductive invariant.                                                *)

\* Where a thread carries an event that tm_hurtme may still act on.
Asked == {"post", "force", "hurt"}

\* The event is on its way: the task will call tm_hurtme, or a thread does.
InFlight(r) == r \in calls \/ \E s \in Senders : pc[s] \in Asked /\ my[s] = r

\* Places and what the threads' own data is there.
PlaceInv ==
    /\ \A s \in Senders : /\ pc[s] \in Asked \cup {"idle", "tell", "rpc", "chld", "chstat", "chpost"}
                          /\ pc[s] \in Asked \cup {"tell", "rpc"} => my[s] \in HurtCall
    /\ pc[Watch] \in {"idle", "dying", "say", "chld", "chstat", "chpost", "bury"}
    /\ pc[Watch] # "idle" => my[Watch].task \in Tasks
    /\ \A t \in Threads : pc[t] \in {"chld", "chstat", "chpost"} =>
           my[t].task \in Tasks /\ my[t].event \in Statuses

\* Numbers are handed out in order, and no two events of a task share one.
NumberInv ==
    /\ \A x \in Tasks : last_hurtme_id[x] <= last_tm_post_id[x] /\ last_tm_post_id[x] <= events
    /\ \A r \in HurtCall : InFlight(r) => r.id <= last_tm_post_id[r.task]
    /\ \A r, q \in HurtCall :
           InFlight(r) /\ InFlight(q) /\ r.task = q.task /\ r.id = q.id /\ r.id # 0 => r.event = q.event

\* last_hurtme_id is the newest number acted on.
AppliedInv ==
    \A x \in Tasks :
        /\ \A i \in DOMAIN applied[x] : applied[x][i] <= last_hurtme_id[x]
        /\ last_hurtme_id[x] # 0 => \E i \in DOMAIN applied[x] : applied[x][i] = last_hurtme_id[x]

\* A SIGKILL whose number was the last acted on has ended its task.
KillInv ==
    \A r \in HurtCall :
        InFlight(r) /\ r.event = "KILL" /\ r.id # 0 /\ r.id = last_hurtme_id[r.task]
            => r.task \in terminated

\* A task dies once: its notice, tm_death_watch at work on it, and its burial
\* exclude each other.
DeathInv ==
    /\ notices \cup buried \subseteq terminated /\ notices \cap buried = {}
    /\ \A x \in Tasks : state[x] = "DEAD" => x \in terminated
    /\ pc[Watch] # "idle" => /\ my[Watch].task \in terminated
                             /\ my[Watch].task \notin notices \cup buried
                             /\ state[my[Watch].task] = "DEAD"
    /\ pc[Watch] \in {"chld", "chstat", "chpost"} => Parent[my[Watch].task] # my[Watch].task
    /\ pc[Watch] = "bury" => \/ my[Watch].task \in told
                             \/ Parent[my[Watch].task] = my[Watch].task
                             \/ state[Parent[my[Watch].task]] = "DEAD"

\* Who has a task's lock between steps: a thread that stopped the task, or one
\* that serves a SIGCHLD to it; and nobody the lock of a dead task.
LockInv ==
    /\ \A s \in Senders : pc[s] \in {"tell", "rpc"} =>
           lock[my[s].task] = s /\ state[my[s].task] = "STOPPED"
    /\ \A t \in Threads : pc[t] = "chstat" =>
           lock[Parent[my[t].task]] = t /\ state[Parent[my[t].task]] # "DEAD"
    /\ \A x \in Tasks : lock[x] # None =>
           \/ lock[x] \in Senders /\ pc[lock[x]] \in {"tell", "rpc"} /\ my[lock[x]].task = x
           \/ pc[lock[x]] = "chstat" /\ Parent[my[lock[x]].task] = x

IInv == /\ TypeOK /\ SuspendExact /\ AppliedInOrder /\ KillTakes /\ DeathReported
        /\ PlaceInv /\ NumberInv /\ AppliedInv /\ KillInv /\ DeathInv /\ LockInv

-----------------------------------------------------------------------------
(* Each action preserves it.                                               *)

\* What the threads keep of a call, and how they change it, is well typed.
LEMMA MyTypes ==
    /\ Idle \in MyType /\ HurtCall \subseteq MyType
    /\ \A x \in Tasks, ev \in {"KILL", "STOP"}, n \in Ids : [task |-> x, event |-> ev, id |-> n] \in HurtCall
    /\ \A c \in HurtCall : c.task \in Tasks /\ c.event \in {"KILL", "STOP"} /\ c.id \in Ids
    /\ \A x \in Tasks : [Idle EXCEPT !.task = x] \in MyType
    /\ \A m \in MyType, e \in Statuses : [m EXCEPT !.event = e] \in MyType
  BY EventsAssumption DEF Idle, MyType, HurtCall, Ids, Statuses

\* A thread that goes to l, or is done, leaves the others alone.
LEMMA Moved ==
    ASSUME ThreadTypeOK, NEW t \in Threads, pc' = [pc EXCEPT ![t] = pc'[t]],
           pc'[t] \in {"idle", "force", "tell", "rpc", "chstat", "chpost", "bury"},
           my' = my \/ my' = [my EXCEPT ![t] = Idle]
    PROVE  /\ ThreadTypeOK' /\ my'[t] \in {my[t], Idle}
           /\ \A u \in Threads \ {t} : pc'[u] = pc[u] /\ my'[u] = my[u]
  <1>1. CASE my' = my BY <1>1 DEF ThreadTypeOK
  <1>2. CASE my' = [my EXCEPT ![t] = Idle] BY <1>2, MyTypes DEF ThreadTypeOK
  <1> QED BY <1>1, <1>2

\* Hurtful(s, x, ev) preserves the invariant.
LEMMA HurtfulKeeps ==
    ASSUME IInv, NEW s \in Senders, NEW x \in Tasks, NEW ev \in {"KILL", "STOP"}, Hurtful(s, x, ev)
    PROVE  IInv'
  <1> USE EventsAssumption DEF IInv, TaskTypeOK, ThreadTypeOK, Threads, taskvars, Goto, Hurtful
  <1>0. /\ last_tm_post_id[x] + 1 \in Ids /\ events + 1 \in Ids
        /\ my'[s] = [task |-> x, event |-> ev, id |-> last_tm_post_id[x] + 1] /\ my'[s] \in HurtCall
        /\ last_tm_post_id[x] \in Nat /\ last_hurtme_id[x] \in Nat /\ events \in Nat
        /\ last_hurtme_id[x] <= last_tm_post_id[x] /\ last_tm_post_id[x] <= events
    <2>1. /\ last_tm_post_id[x] + 1 \in Ids /\ events + 1 \in Ids
          /\ last_tm_post_id[x] \in Nat /\ last_hurtme_id[x] \in Nat /\ events \in Nat
          /\ last_hurtme_id[x] <= last_tm_post_id[x] /\ last_tm_post_id[x] <= events
      BY DEF TypeOK, NumberInv, Ids
    <2>2. my'[s] = [task |-> x, event |-> ev, id |-> last_tm_post_id[x] + 1] BY DEF TypeOK
    <2> QED BY <2>1, <2>2, MyTypes
  <1>1. TypeOK'
    <2>1. TaskTypeOK'
      BY <1>0 DEF TypeOK
    <2>2. ThreadTypeOK'
      BY <1>0, MyTypes DEF TypeOK
    <2> QED
      BY <1>0, <2>1, <2>2 DEF TypeOK
  <1>2. SuspendExact' BY DEF TypeOK, SuspendExact, PlaceInv, DeathInv, HurtCall, Asked
  <1>3. AppliedInOrder' BY DEF TypeOK, AppliedInOrder, AppliedInv, PlaceInv, HurtCall, Ids, Asked
  <1>4. KillTakes' BY DEF TypeOK, KillTakes, PlaceInv
  <1>5. DeathReported' BY DEF TypeOK, DeathReported, DeathInv, PlaceInv
  <1>6. PlaceInv' BY DEF TypeOK, PlaceInv, NumberInv, Asked, Idle, HurtCall, Ids, Statuses
  <1>7. \A r \in HurtCall : InFlight(r)' => InFlight(r) \/ r = my'[s]
    BY DEF TypeOK, InFlight, PlaceInv, Asked
  <1>8. NumberInv'
    <2>1. \A r \in HurtCall : InFlight(r) =>
             r.id \in Nat /\ r.id <= last_tm_post_id[r.task] /\ last_tm_post_id[r.task] \in Nat
      BY MyTypes DEF TypeOK, NumberInv, Ids
    <2>2. /\ last_tm_post_id' \in [Tasks -> Ids] /\ last_tm_post_id'[x] = last_tm_post_id[x] + 1
          /\ \A y \in Tasks : last_tm_post_id[y] \in Nat /\ last_tm_post_id[y] <= last_tm_post_id'[y]
      BY <1>0 DEF TypeOK, Ids
    <2>3. \A y \in Tasks : last_hurtme_id'[y] <= last_tm_post_id'[y] /\ last_tm_post_id'[y] <= events'
      BY <1>0, <2>2 DEF TypeOK, NumberInv, Ids
    <2>4. \A r \in HurtCall : InFlight(r)' => r.id <= last_tm_post_id'[r.task]
      BY <1>0, <1>7, <2>1, <2>2, MyTypes DEF Ids
    <2>5. ASSUME NEW r \in HurtCall, NEW q \in HurtCall, InFlight(r)', InFlight(q)',
                 r.task = q.task, r.id = q.id, r.id # 0
          PROVE  r.event = q.event
      <3>1. CASE InFlight(r) /\ InFlight(q) BY <2>5, <3>1 DEF NumberInv
      <3>2. CASE r = my'[s] /\ q = my'[s] BY <3>2
      <3>3. CASE InFlight(r) /\ q = my'[s] BY <1>0, <2>1, <2>5, <3>3
      <3>4. CASE InFlight(q) /\ r = my'[s] BY <1>0, <2>1, <2>5, <3>4
      <3> QED BY <1>7, <2>5, <3>1, <3>2, <3>3, <3>4
    <2> QED BY <2>3, <2>4, <2>5 DEF NumberInv
  <1>9. AppliedInv' BY DEF TypeOK, AppliedInv, PlaceInv, HurtCall, Ids, Asked
  <1>10. KillInv' BY <1>0, <1>7 DEF KillInv
  <1>11. DeathInv' BY DEF TypeOK, DeathInv, PlaceInv, Idle
  <1>12. LockInv' BY DEF TypeOK, LockInv, PlaceInv, DeathInv, Idle, HurtCall, Asked
  <1> QED BY <1>1, <1>2, <1>3, <1>4, <1>5, <1>6, <1>8, <1>9, <1>10, <1>11, <1>12

\* Posted(s) preserves the invariant.
LEMMA PostedKeeps ==
    ASSUME IInv, NEW s \in Senders, Posted(s)
    PROVE  IInv'
  <1> USE EventsAssumption DEF IInv, TaskTypeOK, ThreadTypeOK, Threads, taskvars, Goto, Posted, Return
  <1>0. /\ my[s] \in HurtCall /\ calls' \in {calls, calls \cup {my[s]}}
        /\ \/ pc' = [pc EXCEPT ![s] = "force"] /\ my' = my
           \/ pc' = [pc EXCEPT ![s] = "idle"] /\ my' = [my EXCEPT ![s] = Idle]
    BY DEF PlaceInv, Asked
  <1>0a. pc'[s] \in {"force", "idle"} /\ pc' = [pc EXCEPT ![s] = pc'[s]] BY <1>0 DEF TypeOK
  <1>0b. /\ ThreadTypeOK' /\ my'[s] \in {my[s], Idle} /\ (pc'[s] = "force" => my'[s] = my[s])
         /\ \A u \in Threads \ {s} : pc'[u] = pc[u] /\ my'[u] = my[u]
    BY <1>0, <1>0a, Moved DEF TypeOK
  <1>1. TypeOK'
    <2>1. TaskTypeOK'
      BY MyTypes DEF TypeOK, PlaceInv, NumberInv, SuspendExact, Ids, Statuses, Asked
    <2> QED BY <1>0, <1>0b, <2>1 DEF TypeOK
  <1>2. SuspendExact' BY DEF TypeOK, SuspendExact, PlaceInv, DeathInv, HurtCall, Asked
  <1>3. AppliedInOrder' BY DEF TypeOK, AppliedInOrder, AppliedInv, PlaceInv, HurtCall, Ids, Asked
  <1>4. KillTakes' BY DEF TypeOK, KillTakes, PlaceInv
  <1>5. DeathReported' BY DEF TypeOK, DeathReported, DeathInv, PlaceInv
  <1>6. PlaceInv'
    <2> HIDE DEF Posted
    <2> QED BY <1>0, <1>0a, <1>0b DEF PlaceInv, Asked, HurtCall
  <1>7. \A r \in HurtCall : InFlight(r)' => InFlight(r)
    BY DEF TypeOK, InFlight, PlaceInv, Asked
  <1>8. NumberInv' BY <1>7 DEF TypeOK, NumberInv, PlaceInv, HurtCall, Ids, Asked
  <1>9. AppliedInv' BY DEF TypeOK, AppliedInv, PlaceInv, HurtCall, Ids, Asked
  <1>10. KillInv' BY <1>7 DEF TypeOK, KillInv, HurtCall, PlaceInv, NumberInv, InFlight, Asked
  <1>11. DeathInv' BY DEF TypeOK, DeathInv, PlaceInv, Idle
  <1>12. LockInv'
    <2>1. /\ pc' \in {[pc EXCEPT ![s] = "force"], [pc EXCEPT ![s] = "idle"]}
          /\ \A t \in Threads \ {s} : my'[t] = my[t]
      BY <1>0, <1>0b DEF TypeOK
    <2>2. \A t \in Threads : pc[t] \in {"tell", "rpc", "chstat"} \/ pc'[t] \in {"tell", "rpc", "chstat"} =>
             t # s /\ pc'[t] = pc[t] /\ my'[t] = my[t]
      BY <2>1 DEF TypeOK
    <2>3. lock' = lock /\ state' = state OBVIOUS
    <2>4. \A x \in Tasks : lock[x] \in Threads \cup {None} BY DEF TypeOK
    <2> HIDE DEF Posted
    <2> QED BY <2>2, <2>3, <2>4 DEF LockInv
  <1> QED BY <1>1, <1>2, <1>3, <1>4, <1>5, <1>6, <1>8, <1>9, <1>10, <1>11, <1>12

\* Continue(s, x) preserves the invariant.
LEMMA ContinueKeeps ==
    ASSUME IInv, NEW s \in Senders, NEW x \in Tasks, Continue(s, x)
    PROVE  IInv'
  <1> USE EventsAssumption DEF IInv, TaskTypeOK, ThreadTypeOK, Threads, taskvars, Goto, Continue
  <1>1. TypeOK'
    <2>0. (IF suspended[x] > 0 THEN suspended[x] - 1 ELSE 0) \in 0..1 BY DEF TypeOK
    <2>1. TaskTypeOK'
      BY <2>0 DEF TypeOK, Statuses
    <2>2. ThreadTypeOK'
      BY DEF TypeOK
    <2> QED
      BY <2>1, <2>2 DEF TypeOK, Ids
  <1>2. SuspendExact' BY DEF TypeOK, SuspendExact, PlaceInv, DeathInv, HurtCall, Asked
  <1>3. AppliedInOrder' BY DEF TypeOK, AppliedInOrder, AppliedInv, PlaceInv, HurtCall, Ids, Asked
  <1>4. KillTakes' BY DEF TypeOK, KillTakes, PlaceInv
  <1>5. DeathReported' BY DEF TypeOK, DeathReported, DeathInv, PlaceInv
  <1>6. PlaceInv' BY DEF TypeOK, PlaceInv, NumberInv, Asked, Idle, HurtCall, Ids, Statuses
  <1>7. \A r \in HurtCall : InFlight(r)' => InFlight(r)
    BY DEF TypeOK, InFlight, PlaceInv, Asked
  <1>8. NumberInv' BY <1>7 DEF TypeOK, NumberInv, PlaceInv, HurtCall, Ids, Asked
  <1>9. AppliedInv' BY DEF TypeOK, AppliedInv, PlaceInv, HurtCall, Ids, Asked
  <1>10. KillInv' BY <1>7 DEF TypeOK, KillInv, HurtCall, PlaceInv, NumberInv, InFlight, Asked
  <1>11. DeathInv' BY DEF TypeOK, DeathInv, PlaceInv, Idle
  <1>12. LockInv' BY DEF TypeOK, LockInv, PlaceInv, DeathInv, Idle, HurtCall, Asked
  <1> QED BY <1>1, <1>2, <1>3, <1>4, <1>5, <1>6, <1>8, <1>9, <1>10, <1>11, <1>12

\* Called(s) preserves the invariant.
LEMMA CalledKeeps ==
    ASSUME IInv, NEW s \in Senders, Called(s)
    PROVE  IInv'
  <1> USE EventsAssumption DEF IInv, TaskTypeOK, ThreadTypeOK, Threads, taskvars, Goto, Called
  <1>1. TypeOK'
    <2>1. TaskTypeOK'
      BY MyTypes DEF TypeOK, PlaceInv, NumberInv, SuspendExact, Ids, Statuses, Asked
    <2>2. ThreadTypeOK'
      BY MyTypes DEF TypeOK, PlaceInv, NumberInv, Ids
    <2> QED BY <2>1, <2>2, MyTypes DEF TypeOK, PlaceInv, Ids
  <1>2. SuspendExact' BY DEF TypeOK, SuspendExact, PlaceInv, DeathInv, HurtCall, Asked
  <1>3. AppliedInOrder' BY DEF TypeOK, AppliedInOrder, AppliedInv, PlaceInv, HurtCall, Ids, Asked
  <1>4. KillTakes' BY DEF TypeOK, KillTakes, PlaceInv
  <1>5. DeathReported' BY DEF TypeOK, DeathReported, DeathInv, PlaceInv
  <1>6. PlaceInv' BY DEF TypeOK, PlaceInv, NumberInv, Asked, Idle, HurtCall, Ids, Statuses
  <1>7. \A r \in HurtCall : InFlight(r)' => InFlight(r)
    BY DEF TypeOK, InFlight, PlaceInv, Asked
  <1>8. NumberInv' BY <1>7 DEF TypeOK, NumberInv, PlaceInv, HurtCall, Ids, Asked
  <1>9. AppliedInv' BY DEF TypeOK, AppliedInv, PlaceInv, HurtCall, Ids, Asked
  <1>10. KillInv' BY <1>7 DEF TypeOK, KillInv, HurtCall, PlaceInv, NumberInv, InFlight, Asked
  <1>11. DeathInv' BY DEF TypeOK, DeathInv, PlaceInv, Idle
  <1>12. LockInv' BY DEF TypeOK, LockInv, PlaceInv, DeathInv, Idle, HurtCall, Asked
  <1> QED BY <1>1, <1>2, <1>3, <1>4, <1>5, <1>6, <1>8, <1>9, <1>10, <1>11, <1>12

\* Unasked(s, x, ev) preserves the invariant.
LEMMA UnaskedKeeps ==
    ASSUME IInv, NEW s \in Senders, NEW x \in Tasks, NEW ev \in {"KILL", "STOP"}, Unasked(s, x, ev)
    PROVE  IInv'
  <1> USE EventsAssumption DEF IInv, TaskTypeOK, ThreadTypeOK, Threads, taskvars, Goto, Unasked
  <1>0. /\ my'[s] = [task |-> x, event |-> ev, id |-> 0] /\ my'[s] \in HurtCall
        /\ events + 1 \in Ids /\ events \in Nat
    <2>1. events + 1 \in Ids /\ events \in Nat /\ 0 \in Ids BY DEF TypeOK, Ids
    <2>2. my'[s] = [task |-> x, event |-> ev, id |-> 0] BY DEF TypeOK
    <2> QED BY <2>1, <2>2, MyTypes
  <1>1. TypeOK'
    <2>1. TaskTypeOK'
      BY DEF TypeOK
    <2>2. ThreadTypeOK'
      BY <1>0, MyTypes DEF TypeOK
    <2> QED
      BY <1>0, <2>1, <2>2 DEF TypeOK
  <1>2. SuspendExact' BY DEF TypeOK, SuspendExact, PlaceInv, DeathInv, HurtCall, Asked
  <1>3. AppliedInOrder' BY DEF TypeOK, AppliedInOrder, AppliedInv, PlaceInv, HurtCall, Ids, Asked
  <1>4. KillTakes' BY DEF TypeOK, KillTakes, PlaceInv
  <1>5. DeathReported' BY DEF TypeOK, DeathReported, DeathInv, PlaceInv
  <1>6. PlaceInv' BY DEF TypeOK, PlaceInv, NumberInv, Asked, Idle, HurtCall, Ids, Statuses
  <1>7. \A r \in HurtCall : InFlight(r)' => InFlight(r) \/ r = my'[s]
    BY DEF TypeOK, InFlight, PlaceInv, Asked
  <1>8. NumberInv' BY <1>0, <1>7, MyTypes DEF TypeOK, NumberInv, Ids
  <1>9. AppliedInv' BY DEF TypeOK, AppliedInv, PlaceInv, HurtCall, Ids, Asked
  <1>10. KillInv' BY <1>0, <1>7 DEF KillInv
  <1>11. DeathInv' BY DEF TypeOK, DeathInv, PlaceInv, Idle
  <1>12. LockInv' BY DEF TypeOK, LockInv, PlaceInv, DeathInv, Idle, HurtCall, Asked
  <1> QED BY <1>1, <1>2, <1>3, <1>4, <1>5, <1>6, <1>8, <1>9, <1>10, <1>11, <1>12

\* Ignored(s) preserves the invariant.
LEMMA IgnoredKeeps ==
    ASSUME IInv, NEW s \in Senders, Ignored(s)
    PROVE  IInv'
  <1> USE EventsAssumption DEF IInv, TaskTypeOK, ThreadTypeOK, Threads, taskvars, Goto, Ignored, Return, Redundant, Succeeds
  <1>1. TypeOK'
    <2>1. TaskTypeOK'
      BY MyTypes DEF TypeOK, PlaceInv, NumberInv, SuspendExact, Ids, Statuses, Asked
    <2>2. ThreadTypeOK'
      BY MyTypes DEF TypeOK, PlaceInv, NumberInv, Ids
    <2>3. my[s] \in HurtCall /\ my[s].task \in Tasks /\ my[s].id \in Ids BY MyTypes DEF PlaceInv, Asked
    <2>4. killed' \subseteq Tasks \X Ids BY <2>3 DEF TypeOK
    <2> QED BY <2>1, <2>2, <2>4 DEF TypeOK
  <1>2. SuspendExact' BY DEF TypeOK, SuspendExact, PlaceInv, DeathInv, HurtCall, Asked
  <1>3. AppliedInOrder' BY DEF TypeOK, AppliedInOrder, AppliedInv, PlaceInv, HurtCall, Ids, Asked
  <1>4. KillTakes'
    <2>1. my[s] \in HurtCall /\ (pc[s] = "force" => InFlight(my[s])) BY DEF PlaceInv, Asked, InFlight
    <2>2. CASE pc[s] = "force" /\ my[s].event = "KILL"
      <3> DEFINE x == my[s].task  id == my[s].id
      <3>1. x \in Tasks /\ id \in Nat /\ id # 0 /\ id <= last_hurtme_id[x] /\ last_hurtme_id[x] \in Nat
        BY <2>1, MyTypes DEF TypeOK, Ids
      <3>2. x \in terminated \/ \E i \in DOMAIN applied[x] : applied[x][i] > id
        <4>1. CASE id = last_hurtme_id[x] BY <2>1, <2>2, <3>1, <4>1 DEF KillInv
        <4>2. CASE id < last_hurtme_id[x] BY <3>1, <4>2 DEF AppliedInv
        <4> QED BY <3>1, <4>1, <4>2
      <3> QED BY <2>2, <3>2 DEF KillTakes
    <2>3. CASE ~(pc[s] = "force" /\ my[s].event = "KILL") BY <2>3 DEF KillTakes
    <2> QED BY <2>2, <2>3
  <1>5. DeathReported' BY DEF TypeOK, DeathReported, DeathInv, PlaceInv
  <1>6. PlaceInv' BY DEF TypeOK, PlaceInv, NumberInv, Asked, Idle, HurtCall, Ids, Statuses
  <1>7. \A r \in HurtCall : InFlight(r)' => InFlight(r)
    BY DEF TypeOK, InFlight, PlaceInv, Asked
  <1>8. NumberInv' BY <1>7 DEF TypeOK, NumberInv, PlaceInv, HurtCall, Ids, Asked
  <1>9. AppliedInv' BY DEF TypeOK, AppliedInv, PlaceInv, HurtCall, Ids, Asked
  <1>10. KillInv' BY <1>7 DEF TypeOK, KillInv, HurtCall, PlaceInv, NumberInv, InFlight, Asked
  <1>11. DeathInv' BY DEF TypeOK, DeathInv, PlaceInv, Idle
  <1>12. LockInv' BY DEF TypeOK, LockInv, PlaceInv, DeathInv, Idle, HurtCall, Asked
  <1> QED BY <1>1, <1>2, <1>3, <1>4, <1>5, <1>6, <1>8, <1>9, <1>10, <1>11, <1>12

\* tm_hurtme past its test acts on a number newer than all it acted on before,
\* and forgets none of them.
LEMMA ActsApplied ==
    ASSUME IInv, NEW s \in Senders, Acts(s)
    PROVE  /\ AppliedInOrder' /\ AppliedInv' /\ applied' \in [Tasks -> Seq(Ids)]
           /\ \A x \in Tasks : \A i \in DOMAIN applied[x] :
                 i \in DOMAIN applied'[x] /\ applied'[x][i] = applied[x][i]
  <1> DEFINE x == my[s].task  id == my[s].id
  <1> USE DEF IInv, Acts, Redundant
  <1>1. my[s] \in HurtCall /\ x \in Tasks /\ id \in Ids BY MyTypes DEF PlaceInv
  <1>0. id \in Nat /\ last_hurtme_id[x] \in Nat BY <1>1 DEF TypeOK, TaskTypeOK, Ids
  <1>2. /\ applied \in [Tasks -> Seq(Ids)] /\ last_hurtme_id \in [Tasks -> Ids] /\ Ids \subseteq Nat
        /\ last_hurtme_id' = [last_hurtme_id EXCEPT ![x] = IF id = 0 THEN @ ELSE id]
    BY DEF TypeOK, TaskTypeOK, Ids
  <1>3. CASE id = 0
    <2>1. applied' = applied /\ last_hurtme_id' = last_hurtme_id BY <1>1, <1>2, <1>3
    <2> QED BY <1>2, <2>1 DEF AppliedInOrder, AppliedInv
  <1>4. CASE id # 0
    <2>1. applied' = [applied EXCEPT ![x] = Append(@, id)] /\ id > last_hurtme_id[x]
      BY <1>1, <1>2, <1>4, <1>0
    <2>2. \A i \in DOMAIN applied[x] : applied[x][i] \in Nat /\ applied[x][i] < id
      <3>1. applied[x] \in Seq(Ids) BY <1>1, <1>2
      <3>2. \A i \in DOMAIN applied[x] : applied[x][i] \in Ids BY <3>1
      <3>3. \A i \in DOMAIN applied[x] : applied[x][i] <= last_hurtme_id[x] BY <1>1 DEF AppliedInv
      <3>4. \A i \in DOMAIN applied[x] : applied[x][i] \in Nat BY <1>2, <3>2
      <3> HIDE DEF x, id
      <3> QED BY <1>0, <2>1, <3>3, <3>4
    <2>3. applied' \in [Tasks -> Seq(Ids)] /\ last_hurtme_id'[x] = id BY <1>1, <1>2, <1>4, <2>1
    <2>4. /\ DOMAIN applied[x] = 1..Len(applied[x]) /\ Len(applied[x]) \in Nat
          /\ DOMAIN applied'[x] = 1..(Len(applied[x]) + 1)
          /\ applied'[x][Len(applied[x]) + 1] = id
          /\ \A i \in 1..Len(applied[x]) : applied'[x][i] = applied[x][i]
      BY <1>1, <1>2, <2>1
    <2>5. \A y \in Tasks \ {x} : applied'[y] = applied[y] /\ last_hurtme_id'[y] = last_hurtme_id[y]
      BY <1>1, <1>2, <2>1
    <2>6. AppliedInOrder' BY <1>1, <2>2, <2>4, <2>5 DEF AppliedInOrder
    <2>7. AppliedInv'
      <3>1. \A i \in DOMAIN applied'[x] : applied'[x][i] <= id BY <1>0, <2>2, <2>4
      <3> QED BY <1>1, <2>3, <2>4, <2>5, <3>1 DEF AppliedInv
    <2> QED BY <2>3, <2>4, <2>5, <2>6, <2>7
  <1> QED BY <1>3, <1>4

\* HurtKill(s) preserves the invariant.
LEMMA HurtKillKeeps ==
    ASSUME IInv, NEW s \in Senders, HurtKill(s)
    PROVE  IInv'
  <1> USE EventsAssumption DEF IInv, TaskTypeOK, ThreadTypeOK, Threads, taskvars, Goto, HurtKill, Acts, Redundant, Terminate, Succeeds, Return
  <1>0. my[s] \in HurtCall /\ my[s].task \in Tasks /\ my[s].id \in Ids BY MyTypes DEF PlaceInv
  <1>1. TypeOK'
    <2>1. TaskTypeOK'
      BY <1>0 DEF TypeOK, Statuses
    <2>2. ThreadTypeOK'
      BY MyTypes DEF TypeOK
    <2>3. killed' \subseteq Tasks \X Ids BY <1>0 DEF TypeOK
    <2>4. notices' \subseteq terminated' BY DEF TypeOK
    <2> QED BY <2>1, <2>2, <2>3, <2>4, ActsApplied DEF TypeOK
  <1>2. SuspendExact' BY DEF TypeOK, SuspendExact, PlaceInv, DeathInv, HurtCall, Asked
  <1>3. AppliedInOrder' /\ AppliedInv' BY ActsApplied
  <1>4. KillTakes' BY ActsApplied DEF TypeOK, KillTakes, PlaceInv
  <1>5. DeathReported' BY DEF TypeOK, DeathReported, DeathInv, PlaceInv
  <1>6. PlaceInv' BY DEF TypeOK, PlaceInv, NumberInv, Asked, Idle, HurtCall, Ids, Statuses
  <1>7. \A r \in HurtCall : InFlight(r)' => InFlight(r)
    BY DEF TypeOK, InFlight, PlaceInv, Asked
  <1>8. NumberInv'
    <2>1. InFlight(my[s]) /\ my[s] \in HurtCall BY DEF PlaceInv, Asked, InFlight
    <2> QED BY <1>7, <2>1, MyTypes DEF TypeOK, NumberInv, Ids
  <1>10. KillInv'
    <2>1. InFlight(my[s]) /\ my[s] \in HurtCall BY DEF PlaceInv, Asked, InFlight
    <2> QED BY <1>7, <2>1, MyTypes DEF TypeOK, KillInv, NumberInv, Ids
  <1>11. DeathInv' BY DEF TypeOK, DeathInv, PlaceInv, Idle
  <1>12. LockInv' BY DEF TypeOK, LockInv, PlaceInv, DeathInv, Idle, HurtCall, Asked
  <1> QED BY <1>1, <1>2, <1>3, <1>4, <1>5, <1>6, <1>8, <1>10, <1>11, <1>12

\* HurtStop(s) preserves the invariant.
LEMMA HurtStopKeeps ==
    ASSUME IInv, NEW s \in Senders, HurtStop(s)
    PROVE  IInv'
  <1> USE EventsAssumption DEF IInv, TaskTypeOK, ThreadTypeOK, Threads, taskvars, Goto, HurtStop, Acts, Redundant, MayStop, Return
  <1>0. my[s] \in HurtCall /\ my[s].task \in Tasks /\ my[s].id \in Ids BY MyTypes DEF PlaceInv
  <1>1. TypeOK'
    <2>0. MayStop(my[s].task) =>
             (IF my[s].task \in terminated THEN suspended[my[s].task] ELSE suspended[my[s].task] + 1) \in 0..1
      BY <1>0 DEF TypeOK, SuspendExact
    <2>1. TaskTypeOK'
      <3>1. emul_status' \in [Tasks -> Statuses] /\ last_hurtme_id' \in [Tasks -> Ids]
        BY <1>0 DEF TypeOK, Statuses
      <3>2. CASE MayStop(my[s].task)
        <4> DEFINE x == my[s].task  n == IF x \in terminated THEN suspended[x] ELSE suspended[x] + 1
        <4>1. /\ suspended' = [suspended EXCEPT ![x] = n] /\ n \in 0..1
              /\ state' = [state EXCEPT ![x] = "STOPPED"] /\ lock' = [lock EXCEPT ![x] = s]
          BY <2>0, <3>2
        <4>2. /\ suspended' \in [Tasks -> 0..1] /\ lock' \in [Tasks -> Threads \cup {None}]
              /\ state' \in [Tasks -> {"RUNNING", "STOPPED", "DEAD"}]
          <5> HIDE DEF HurtStop, n
          <5> QED BY <4>1 DEF TypeOK
        <4> QED BY <3>1, <4>1, <4>2 DEF TypeOK
      <3>3. CASE ~MayStop(my[s].task) BY <3>1, <3>3 DEF TypeOK
      <3> QED BY <3>2, <3>3
    <2>2. ThreadTypeOK'
      <3>1. CASE my' = my /\ pc' = [pc EXCEPT ![s] = "tell"] BY <3>1 DEF TypeOK
      <3>2. CASE my' = [my EXCEPT ![s] = Idle] /\ pc' = [pc EXCEPT ![s] = "idle"]
        BY <3>2, MyTypes DEF TypeOK
      <3> QED BY <3>1, <3>2
    <2> QED
      BY <1>0, <2>1, <2>2, ActsApplied DEF TypeOK, Ids
  <1>2. SuspendExact' BY DEF TypeOK, SuspendExact, PlaceInv, DeathInv, HurtCall, Asked
  <1>3. AppliedInOrder' /\ AppliedInv' BY ActsApplied
  <1>4. KillTakes'
    <2>1. killed' = killed /\ terminated' = terminated OBVIOUS
    <2>2. \A k \in killed : k[1] \in Tasks BY DEF TypeOK
    <2> QED BY <2>1, <2>2, ActsApplied DEF KillTakes
  <1>0d. /\ \A x \in Tasks : state[x] = "DEAD" <=> state'[x] = "DEAD"
         /\ pc'[Watch] = pc[Watch] /\ my'[Watch] = my[Watch]
    BY <1>0 DEF TypeOK
  <1>5. DeathReported' BY <1>0d DEF TypeOK, DeathReported
  <1>6. PlaceInv'
    <2>1. \/ pc' = [pc EXCEPT ![s] = "tell"] /\ my' = my
          \/ pc' = [pc EXCEPT ![s] = "idle"] /\ my' = [my EXCEPT ![s] = Idle]
      OBVIOUS
    <2>2. pc'[s] \in {"tell", "idle"} /\ pc' = [pc EXCEPT ![s] = pc'[s]] BY <2>1 DEF TypeOK
    <2>3. /\ pc'[s] = "tell" => my'[s] = my[s]
          /\ \A u \in Threads \ {s} : pc'[u] = pc[u] /\ my'[u] = my[u]
      BY <2>1 DEF TypeOK
    <2> HIDE DEF HurtStop
    <2> QED BY <1>0, <2>2, <2>3 DEF PlaceInv, Asked
  <1>7. \A r \in HurtCall : InFlight(r)' => InFlight(r)
    BY DEF TypeOK, InFlight, PlaceInv, Asked
  <1>8. NumberInv'
    <2>1. InFlight(my[s]) /\ my[s] \in HurtCall BY DEF PlaceInv, Asked, InFlight
    <2> QED BY <1>7, <2>1, MyTypes DEF TypeOK, NumberInv, Ids
  <1>10. KillInv'
    <2>1. InFlight(my[s]) /\ my[s] \in HurtCall BY DEF PlaceInv, Asked, InFlight
    <2> QED BY <1>7, <2>1, MyTypes DEF TypeOK, KillInv, NumberInv, Ids
  <1>11. DeathInv'
    <2>1. UNCHANGED <<terminated, notices, buried, told>> OBVIOUS
    <2> HIDE DEF HurtStop
    <2> QED BY <1>0d, <2>1 DEF TypeOK, DeathInv, PlaceInv
  <1>12. LockInv'
    <2>1. CASE MayStop(my[s].task)
      <3>1. /\ lock' = [lock EXCEPT ![my[s].task] = s] /\ state' = [state EXCEPT ![my[s].task] = "STOPPED"]
            /\ pc' = [pc EXCEPT ![s] = "tell"] /\ my' = my
        BY <2>1
      <3> QED BY <1>0, <2>1, <3>1 DEF TypeOK, LockInv, PlaceInv, Asked
    <2>2. CASE ~MayStop(my[s].task)
      <3>1. lock' = lock /\ state' = state /\ pc' = [pc EXCEPT ![s] = "idle"] /\ my' = [my EXCEPT ![s] = Idle]
        BY <2>2
      <3> QED BY <2>2, <3>1 DEF TypeOK, LockInv, PlaceInv, Asked
    <2> QED BY <2>1, <2>2
  <1> QED BY <1>1, <1>2, <1>3, <1>4, <1>5, <1>6, <1>8, <1>10, <1>11, <1>12

\* Tell(s) preserves the invariant.
LEMMA TellKeeps ==
    ASSUME IInv, NEW s \in Senders, Tell(s)
    PROVE  IInv'
  <1> USE EventsAssumption DEF IInv, TaskTypeOK, ThreadTypeOK, Threads, taskvars, Goto, Tell, Return
  <1>1. TypeOK'
    <2>1. TaskTypeOK'
      BY MyTypes DEF TypeOK, PlaceInv, Ids
    <2>2. ThreadTypeOK'
      <3>1. CASE my' = my /\ pc' = [pc EXCEPT ![s] = "rpc"] BY <3>1 DEF TypeOK
      <3>2. CASE my' = [my EXCEPT ![s] = Idle] /\ pc' = [pc EXCEPT ![s] = "idle"]
        BY <3>2, MyTypes DEF TypeOK
      <3> QED BY <3>1, <3>2
    <2> QED
      BY <2>1, <2>2 DEF TypeOK
  <1>2. SuspendExact' BY DEF TypeOK, SuspendExact, PlaceInv, DeathInv, HurtCall, Asked
  <1>3. AppliedInOrder' BY DEF TypeOK, AppliedInOrder, AppliedInv, PlaceInv, HurtCall, Ids, Asked
  <1>4. KillTakes' BY DEF TypeOK, KillTakes, PlaceInv
  <1>5. DeathReported' BY DEF TypeOK, DeathReported, DeathInv, PlaceInv
  <1>6. PlaceInv'
    <2>1. \/ pc' = [pc EXCEPT ![s] = "rpc"] /\ my' = my
          \/ pc' = [pc EXCEPT ![s] = "idle"] /\ my' = [my EXCEPT ![s] = Idle]
      OBVIOUS
    <2>2. my[s] \in HurtCall BY DEF PlaceInv
    <2>3. pc'[s] \in {"rpc", "idle"} /\ pc' = [pc EXCEPT ![s] = pc'[s]] BY <2>1 DEF TypeOK
    <2>4. /\ (pc'[s] = "rpc" => my'[s] = my[s])
          /\ \A u \in Threads \ {s} : pc'[u] = pc[u] /\ my'[u] = my[u]
      BY <2>1 DEF TypeOK
    <2> HIDE DEF Tell
    <2> QED BY <2>2, <2>3, <2>4 DEF PlaceInv, Asked
  <1>7. \A r \in HurtCall : InFlight(r)' => InFlight(r)
    BY DEF TypeOK, InFlight, PlaceInv, Asked
  <1>8. NumberInv' BY <1>7 DEF TypeOK, NumberInv, PlaceInv, HurtCall, Ids, Asked
  <1>9. AppliedInv' BY DEF TypeOK, AppliedInv, PlaceInv, HurtCall, Ids, Asked
  <1>10. KillInv' BY <1>7 DEF TypeOK, KillInv, HurtCall, PlaceInv, NumberInv, InFlight, Asked
  <1>11. DeathInv' BY DEF TypeOK, DeathInv, PlaceInv, Idle
  <1>12. LockInv'
    <2>1. my[s].task \in Tasks /\ lock[my[s].task] = s BY MyTypes DEF PlaceInv, LockInv
    <2>2. CASE state[Parent[my[s].task]] # "DEAD"
      <3>1. lock' = lock /\ pc' = [pc EXCEPT ![s] = "rpc"] /\ my' = my BY <2>2
      <3> QED BY <2>1, <3>1 DEF TypeOK, LockInv
    <2>3. CASE state[Parent[my[s].task]] = "DEAD"
      <3>1. /\ lock' = [lock EXCEPT ![my[s].task] = None]
            /\ pc' = [pc EXCEPT ![s] = "idle"] /\ my' = [my EXCEPT ![s] = Idle]
        BY <2>3
      <3> QED BY <2>1, <3>1 DEF TypeOK, LockInv
    <2> QED BY <2>2, <2>3
  <1> QED BY <1>1, <1>2, <1>3, <1>4, <1>5, <1>6, <1>8, <1>9, <1>10, <1>11, <1>12

\* TellDone(s) preserves the invariant.
LEMMA TellDoneKeeps ==
    ASSUME IInv, NEW s \in Senders, TellDone(s)
    PROVE  IInv'
  <1> USE EventsAssumption DEF IInv, TaskTypeOK, ThreadTypeOK, Threads, taskvars, Goto, TellDone, Return, Answers
  <1>1. TypeOK'
    <2>1. TaskTypeOK'
      BY MyTypes DEF TypeOK, PlaceInv, NumberInv, SuspendExact, Ids, Statuses, Asked
    <2>2. ThreadTypeOK'
      BY MyTypes DEF TypeOK, PlaceInv, NumberInv, Ids
    <2> QED BY <2>1, <2>2, MyTypes DEF TypeOK, PlaceInv, Ids
  <1>2. SuspendExact' BY DEF TypeOK, SuspendExact, PlaceInv, DeathInv, HurtCall, Asked
  <1>3. AppliedInOrder' BY DEF TypeOK, AppliedInOrder, AppliedInv, PlaceInv, HurtCall, Ids, Asked
  <1>4. KillTakes' BY DEF TypeOK, KillTakes, PlaceInv
  <1>5. DeathReported' BY DEF TypeOK, DeathReported, DeathInv, PlaceInv
  <1>6. PlaceInv' BY DEF TypeOK, PlaceInv, NumberInv, Asked, Idle, HurtCall, Ids, Statuses
  <1>7. \A r \in HurtCall : InFlight(r)' => InFlight(r)
    BY DEF TypeOK, InFlight, PlaceInv, Asked
  <1>8. NumberInv' BY <1>7 DEF TypeOK, NumberInv, PlaceInv, HurtCall, Ids, Asked
  <1>9. AppliedInv' BY DEF TypeOK, AppliedInv, PlaceInv, HurtCall, Ids, Asked
  <1>10. KillInv' BY <1>7 DEF TypeOK, KillInv, HurtCall, PlaceInv, NumberInv, InFlight, Asked
  <1>11. DeathInv' BY DEF TypeOK, DeathInv, PlaceInv, Idle
  <1>12. LockInv' BY DEF TypeOK, LockInv, PlaceInv, DeathInv, Idle, HurtCall, Asked
  <1> QED BY <1>1, <1>2, <1>3, <1>4, <1>5, <1>6, <1>8, <1>9, <1>10, <1>11, <1>12

\* Exit(x) preserves the invariant.
LEMMA ExitKeeps ==
    ASSUME IInv, NEW x \in Tasks, Exit(x)
    PROVE  IInv'
  <1> USE EventsAssumption DEF IInv, TaskTypeOK, ThreadTypeOK, Threads, taskvars, Goto, Exit, Terminate
  <1>1. TypeOK'
    <2>1. TaskTypeOK' BY DEF TypeOK, Statuses
    <2>2. ThreadTypeOK'
      BY MyTypes DEF TypeOK, PlaceInv, NumberInv, Ids
    <2> QED BY <2>1, <2>2, MyTypes DEF TypeOK, PlaceInv, Ids
  <1>2. SuspendExact' BY DEF TypeOK, SuspendExact, PlaceInv, DeathInv, HurtCall, Asked
  <1>3. AppliedInOrder' BY DEF TypeOK, AppliedInOrder, AppliedInv, PlaceInv, HurtCall, Ids, Asked
  <1>4. KillTakes' BY DEF TypeOK, KillTakes, PlaceInv
  <1>5. DeathReported' BY DEF TypeOK, DeathReported, DeathInv, PlaceInv
  <1>6. PlaceInv' BY DEF TypeOK, PlaceInv, NumberInv, Asked, Idle, HurtCall, Ids, Statuses
  <1>7. \A r \in HurtCall : InFlight(r)' => InFlight(r)
    BY DEF TypeOK, InFlight, PlaceInv, Asked
  <1>8. NumberInv' BY <1>7 DEF TypeOK, NumberInv, PlaceInv, HurtCall, Ids, Asked
  <1>9. AppliedInv' BY DEF TypeOK, AppliedInv, PlaceInv, HurtCall, Ids, Asked
  <1>10. KillInv' BY <1>7 DEF TypeOK, KillInv, HurtCall, PlaceInv, NumberInv, InFlight, Asked
  <1>11. DeathInv' BY DEF TypeOK, DeathInv, PlaceInv, Idle
  <1>12. LockInv' BY DEF TypeOK, LockInv, PlaceInv, DeathInv, Idle, HurtCall, Asked
  <1> QED BY <1>1, <1>2, <1>3, <1>4, <1>5, <1>6, <1>8, <1>9, <1>10, <1>11, <1>12

\* Notified preserves the invariant.
LEMMA NotifiedKeeps ==
    ASSUME IInv, Notified
    PROVE  IInv'
  <1> USE EventsAssumption DEF IInv, TaskTypeOK, ThreadTypeOK, Threads, taskvars, Goto, Notified
  <1>1. TypeOK'
    <2>1. PICK x \in notices : /\ notices' = notices \ {x} /\ state' = [state EXCEPT ![x] = "DEAD"]
                               /\ my' = [my EXCEPT ![Watch] = [Idle EXCEPT !.task = x]]
      OBVIOUS
    <2>2. x \in Tasks BY DEF TypeOK
    <2>3. TaskTypeOK' BY <2>1, <2>2 DEF TypeOK
    <2>4. ThreadTypeOK' BY <2>1, <2>2, MyTypes DEF TypeOK
    <2> QED BY <2>1, <2>3, <2>4 DEF TypeOK
  <1>2. SuspendExact' BY DEF TypeOK, SuspendExact, PlaceInv, DeathInv, HurtCall, Asked
  <1>3. AppliedInOrder' BY DEF TypeOK, AppliedInOrder, AppliedInv, PlaceInv, HurtCall, Ids, Asked
  <1>4. KillTakes' BY DEF TypeOK, KillTakes, PlaceInv
  <1>5. DeathReported' BY DEF TypeOK, DeathReported, DeathInv, PlaceInv
  <1>6. PlaceInv' BY DEF TypeOK, PlaceInv, NumberInv, Asked, Idle, HurtCall, Ids, Statuses
  <1>7. \A r \in HurtCall : InFlight(r)' => InFlight(r)
    BY DEF TypeOK, InFlight, PlaceInv, Asked
  <1>8. NumberInv' BY <1>7 DEF TypeOK, NumberInv, PlaceInv, HurtCall, Ids, Asked
  <1>9. AppliedInv' BY DEF TypeOK, AppliedInv, PlaceInv, HurtCall, Ids, Asked
  <1>10. KillInv' BY <1>7 DEF TypeOK, KillInv, HurtCall, PlaceInv, NumberInv, InFlight, Asked
  <1>11. DeathInv' BY DEF TypeOK, DeathInv, PlaceInv, Idle
  <1>12. LockInv' BY DEF TypeOK, LockInv, PlaceInv, DeathInv, Idle, HurtCall, Asked
  <1> QED BY <1>1, <1>2, <1>3, <1>4, <1>5, <1>6, <1>8, <1>9, <1>10, <1>11, <1>12

\* Dying preserves the invariant.
LEMMA DyingKeeps ==
    ASSUME IInv, Dying
    PROVE  IInv'
  <1> USE EventsAssumption DEF IInv, TaskTypeOK, ThreadTypeOK, Threads, taskvars, Goto, Dying
  <1>1. TypeOK'
    <2>1. TaskTypeOK'
      BY MyTypes DEF TypeOK, PlaceInv, NumberInv, SuspendExact, Ids, Statuses, Asked
    <2>2. ThreadTypeOK'
      BY MyTypes DEF TypeOK, PlaceInv, NumberInv, Ids
    <2> QED BY <2>1, <2>2, MyTypes DEF TypeOK, PlaceInv, Ids
  <1>2. SuspendExact' BY DEF TypeOK, SuspendExact, PlaceInv, DeathInv, HurtCall, Asked
  <1>3. AppliedInOrder' BY DEF TypeOK, AppliedInOrder, AppliedInv, PlaceInv, HurtCall, Ids, Asked
  <1>4. KillTakes' BY DEF TypeOK, KillTakes, PlaceInv
  <1>5. DeathReported' BY DEF TypeOK, DeathReported, DeathInv, PlaceInv
  <1>6. PlaceInv' BY DEF TypeOK, PlaceInv, NumberInv, Asked, Idle, HurtCall, Ids, Statuses
  <1>7. \A r \in HurtCall : InFlight(r)' => InFlight(r)
    BY DEF TypeOK, InFlight, PlaceInv, Asked
  <1>8. NumberInv' BY <1>7 DEF TypeOK, NumberInv, PlaceInv, HurtCall, Ids, Asked
  <1>9. AppliedInv' BY DEF TypeOK, AppliedInv, PlaceInv, HurtCall, Ids, Asked
  <1>10. KillInv' BY <1>7 DEF TypeOK, KillInv, HurtCall, PlaceInv, NumberInv, InFlight, Asked
  <1>11. DeathInv' BY DEF TypeOK, DeathInv, PlaceInv, Idle
  <1>12. LockInv' BY DEF TypeOK, LockInv, PlaceInv, DeathInv, Idle, HurtCall, Asked
  <1> QED BY <1>1, <1>2, <1>3, <1>4, <1>5, <1>6, <1>8, <1>9, <1>10, <1>11, <1>12

\* Say preserves the invariant.
LEMMA SayKeeps ==
    ASSUME IInv, Say
    PROVE  IInv'
  <1> USE EventsAssumption DEF IInv, TaskTypeOK, ThreadTypeOK, Threads, taskvars, Goto, Say, Hears
  <1>1. TypeOK'
    <2>1. TaskTypeOK'
      BY MyTypes DEF TypeOK, PlaceInv, NumberInv, SuspendExact, Ids, Statuses, Asked
    <2>2. ThreadTypeOK'
      BY MyTypes DEF TypeOK, PlaceInv, NumberInv, Ids
    <2> QED BY <2>1, <2>2, MyTypes DEF TypeOK, PlaceInv, Ids
  <1>2. SuspendExact' BY DEF TypeOK, SuspendExact, PlaceInv, DeathInv, HurtCall, Asked
  <1>3. AppliedInOrder' BY DEF TypeOK, AppliedInOrder, AppliedInv, PlaceInv, HurtCall, Ids, Asked
  <1>4. KillTakes' BY DEF TypeOK, KillTakes, PlaceInv
  <1>5. DeathReported' BY DEF TypeOK, DeathReported, DeathInv, PlaceInv
  <1>6. PlaceInv' BY DEF TypeOK, PlaceInv, NumberInv, Asked, Idle, HurtCall, Ids, Statuses
  <1>7. \A r \in HurtCall : InFlight(r)' => InFlight(r)
    BY DEF TypeOK, InFlight, PlaceInv, Asked
  <1>8. NumberInv' BY <1>7 DEF TypeOK, NumberInv, PlaceInv, HurtCall, Ids, Asked
  <1>9. AppliedInv' BY DEF TypeOK, AppliedInv, PlaceInv, HurtCall, Ids, Asked
  <1>10. KillInv' BY <1>7 DEF TypeOK, KillInv, HurtCall, PlaceInv, NumberInv, InFlight, Asked
  <1>11. DeathInv' BY DEF TypeOK, DeathInv, PlaceInv, Idle
  <1>12. LockInv' BY DEF TypeOK, LockInv, PlaceInv, DeathInv, Idle, HurtCall, Asked
  <1> QED BY <1>1, <1>2, <1>3, <1>4, <1>5, <1>6, <1>8, <1>9, <1>10, <1>11, <1>12

\* ChildEvent(s, x, status) preserves the invariant.
LEMMA ChildEventKeeps ==
    ASSUME IInv, NEW s \in Senders, NEW x \in Tasks, NEW status \in Statuses, ChildEvent(s, x, status)
    PROVE  IInv'
  <1> USE EventsAssumption DEF IInv, TaskTypeOK, ThreadTypeOK, Threads, taskvars, Goto, ChildEvent
  <1>0. /\ my'[s] = [task |-> x, event |-> status, id |-> 0] /\ my'[s] \in MyType
        /\ events + 1 \in Ids /\ events \in Nat
    <2>1. events + 1 \in Ids /\ events \in Nat /\ 0 \in Ids BY DEF TypeOK, Ids
    <2>2. my'[s] = [task |-> x, event |-> status, id |-> 0] BY DEF TypeOK
    <2>3. \A n \in Ids : [task |-> x, event |-> status, id |-> n] \in MyType BY DEF MyType
    <2> QED BY <2>1, <2>2, <2>3
  <1>1. TypeOK'
    <2>1. TaskTypeOK'
      BY DEF TypeOK
    <2>2. ThreadTypeOK'
      BY <1>0, MyTypes DEF TypeOK
    <2> QED
      BY <1>0, <2>1, <2>2 DEF TypeOK
  <1>2. SuspendExact' BY DEF TypeOK, SuspendExact, PlaceInv, DeathInv, HurtCall, Asked
  <1>3. AppliedInOrder' BY DEF TypeOK, AppliedInOrder, AppliedInv, PlaceInv, HurtCall, Ids, Asked
  <1>4. KillTakes' BY DEF TypeOK, KillTakes, PlaceInv
  <1>5. DeathReported' BY DEF TypeOK, DeathReported, DeathInv, PlaceInv
  <1>6. PlaceInv' BY DEF TypeOK, PlaceInv, NumberInv, Asked, Idle, HurtCall, Ids, Statuses
  <1>7. \A r \in HurtCall : InFlight(r)' => InFlight(r)
    BY DEF TypeOK, InFlight, PlaceInv, Asked
  <1>8. NumberInv' BY <1>0, <1>7, MyTypes DEF TypeOK, NumberInv, Ids
  <1>9. AppliedInv' BY DEF TypeOK, AppliedInv, PlaceInv, HurtCall, Ids, Asked
  <1>10. KillInv' BY <1>7 DEF KillInv
  <1>11. DeathInv' BY DEF TypeOK, DeathInv, PlaceInv, Idle
  <1>12. LockInv' BY DEF TypeOK, LockInv, PlaceInv, DeathInv, Idle, HurtCall, Asked
  <1> QED BY <1>1, <1>2, <1>3, <1>4, <1>5, <1>6, <1>8, <1>9, <1>10, <1>11, <1>12

\* ChildLock(t) preserves the invariant.
LEMMA ChildLockKeeps ==
    ASSUME IInv, NEW t \in Threads, ChildLock(t)
    PROVE  IInv'
  <1> USE EventsAssumption DEF IInv, TaskTypeOK, ThreadTypeOK, Threads, taskvars, Goto, ChildLock, ChildDone, Return
  <1>0. /\ my[t].task \in Tasks /\ Parent[my[t].task] \in Tasks /\ my[t].event \in Statuses
        /\ pc'[t] \in {"chstat", "chpost", "bury", "idle"} /\ pc' = [pc EXCEPT ![t] = pc'[t]]
        /\ my' = my \/ my' = [my EXCEPT ![t] = Idle]
    BY DEF TypeOK, PlaceInv
  <1>0a. /\ ThreadTypeOK' /\ my'[t] \in {my[t], Idle}
         /\ \A u \in Threads \ {t} : pc'[u] = pc[u] /\ my'[u] = my[u]
    BY <1>0, Moved DEF TypeOK
  <1>0b. /\ pc'[t] \in {"chstat", "chpost", "bury"} => my' = my
         /\ pc'[t] = "bury" <=> t = Watch /\ pc'[t] \notin {"chstat", "chpost"}
    BY DEF TypeOK
  <1>1. TypeOK'
    <2>0. lock' \in {lock, [lock EXCEPT ![Parent[my[t].task]] = t]} BY DEF ChildDone
    <2>1. TaskTypeOK'
      <3>1. lock' \in [Tasks -> Threads \cup {None}]
        <4>1. PICK p \in Tasks : lock' \in {lock, [lock EXCEPT ![p] = t]} BY <1>0, <2>0
        <4>2. lock \in [Tasks -> Threads \cup {None}] BY DEF TypeOK
        <4> HIDE DEF ChildLock, IInv, TaskTypeOK, ThreadTypeOK
        <4> QED BY <4>1, <4>2
      <3>2. UNCHANGED <<state, emul_status, last_tm_post_id, last_hurtme_id, suspended, terminated, num_of_tasks>>
        OBVIOUS
      <3> HIDE DEF ChildLock
      <3> QED BY <3>1, <3>2 DEF TypeOK
    <2>2. ThreadTypeOK' BY <1>0a
    <2> QED BY <2>1, <2>2, MyTypes DEF TypeOK, PlaceInv, Ids
  <1>2. SuspendExact' BY DEF TypeOK, SuspendExact, PlaceInv, DeathInv, HurtCall, Asked
  <1>3. AppliedInOrder' BY DEF TypeOK, AppliedInOrder, AppliedInv, PlaceInv, HurtCall, Ids, Asked
  <1>4. KillTakes' BY DEF TypeOK, KillTakes, PlaceInv
  <1>5. DeathReported' BY DEF TypeOK, DeathReported, DeathInv, PlaceInv
  <1>6. PlaceInv'
    <2> HIDE DEF ChildLock
    <2> QED BY <1>0, <1>0a, <1>0b DEF PlaceInv, Asked
  <1>7. \A r \in HurtCall : InFlight(r)' => InFlight(r)
    <2>1. calls' = calls /\ pc[t] = "chld" OBVIOUS
    <2> HIDE DEF ChildLock, IInv, TaskTypeOK, ThreadTypeOK
    <2> QED BY <1>0, <1>0a, <2>1 DEF InFlight, Asked
  <1>8. NumberInv' BY <1>7 DEF TypeOK, NumberInv, PlaceInv, HurtCall, Ids, Asked
  <1>9. AppliedInv' BY DEF TypeOK, AppliedInv, PlaceInv, HurtCall, Ids, Asked
  <1>10. KillInv' BY <1>7 DEF TypeOK, KillInv, HurtCall, PlaceInv, NumberInv, InFlight, Asked
  <1>11. DeathInv' BY DEF TypeOK, DeathInv, PlaceInv, Idle
  <1>12. LockInv'
    <2>0. state' = state /\ pc[t] = "chld" /\ \A x \in Tasks : lock[x] \in Threads \cup {None} BY DEF TypeOK
    <2>1. CASE pc'[t] = "chstat"
      <3>1. /\ lock[Parent[my[t].task]] = None /\ lock' = [lock EXCEPT ![Parent[my[t].task]] = t]
            /\ my' = my /\ state[Parent[my[t].task]] # "DEAD"
        BY <2>1, <1>0 DEF TypeOK
      <3>2. lock'[Parent[my[t].task]] = t /\ \A x \in Tasks \ {Parent[my[t].task]} : lock'[x] = lock[x]
        BY <1>0, <3>1 DEF TypeOK
      <3> HIDE DEF ChildLock
      <3> QED BY <1>0, <1>0a, <2>0, <2>1, <3>1, <3>2, MyTypes DEF LockInv, PlaceInv
    <2>2. CASE pc'[t] # "chstat"
      <3>1. lock' = lock BY <2>2 DEF TypeOK
      <3> HIDE DEF ChildLock
      <3> QED BY <1>0, <1>0a, <2>0, <2>2, <3>1 DEF LockInv
    <2> QED BY <2>1, <2>2
  <1> QED BY <1>1, <1>2, <1>3, <1>4, <1>5, <1>6, <1>8, <1>9, <1>10, <1>11, <1>12

\* ChildStatus(t) preserves the invariant.
LEMMA ChildStatusKeeps ==
    ASSUME IInv, NEW t \in Threads, ChildStatus(t)
    PROVE  IInv'
  <1> USE EventsAssumption DEF IInv, TaskTypeOK, ThreadTypeOK, Threads, taskvars, Goto, ChildStatus
  <1>1. TypeOK'
    <2>1. TaskTypeOK'
      BY MyTypes DEF TypeOK, PlaceInv, NumberInv, SuspendExact, Ids, Statuses, Asked
    <2>2. ThreadTypeOK'
      BY MyTypes DEF TypeOK, PlaceInv, NumberInv, Ids
    <2> QED BY <2>1, <2>2, MyTypes DEF TypeOK, PlaceInv, Ids
  <1>2. SuspendExact' BY DEF TypeOK, SuspendExact, PlaceInv, DeathInv, HurtCall, Asked
  <1>3. AppliedInOrder' BY DEF TypeOK, AppliedInOrder, AppliedInv, PlaceInv, HurtCall, Ids, Asked
  <1>4. KillTakes' BY DEF TypeOK, KillTakes, PlaceInv
  <1>5. DeathReported' BY DEF TypeOK, DeathReported, DeathInv, PlaceInv
  <1>6. PlaceInv' BY DEF TypeOK, PlaceInv, NumberInv, Asked, Idle, HurtCall, Ids, Statuses
  <1>7. \A r \in HurtCall : InFlight(r)' => InFlight(r)
    BY DEF TypeOK, InFlight, PlaceInv, Asked
  <1>8. NumberInv' BY <1>7 DEF TypeOK, NumberInv, PlaceInv, HurtCall, Ids, Asked
  <1>9. AppliedInv' BY DEF TypeOK, AppliedInv, PlaceInv, HurtCall, Ids, Asked
  <1>10. KillInv' BY <1>7 DEF TypeOK, KillInv, HurtCall, PlaceInv, NumberInv, InFlight, Asked
  <1>11. DeathInv' BY DEF TypeOK, DeathInv, PlaceInv, Idle
  <1>12. LockInv' BY DEF TypeOK, LockInv, PlaceInv, DeathInv, Idle, HurtCall, Asked
  <1> QED BY <1>1, <1>2, <1>3, <1>4, <1>5, <1>6, <1>8, <1>9, <1>10, <1>11, <1>12

\* ChildPost(t) preserves the invariant.
LEMMA ChildPostKeeps ==
    ASSUME IInv, NEW t \in Threads, ChildPost(t)
    PROVE  IInv'
  <1> USE EventsAssumption DEF IInv, TaskTypeOK, ThreadTypeOK, Threads, taskvars, Goto, ChildPost, Answers, ChildDone, Return
  <1>0. /\ my[t].task \in Tasks /\ Parent[my[t].task] \in Tasks /\ my[t].event \in Statuses
        /\ pc'[t] \in {"bury", "idle"} /\ pc' = [pc EXCEPT ![t] = pc'[t]]
        /\ my' = my \/ my' = [my EXCEPT ![t] = Idle]
    BY DEF TypeOK, PlaceInv
  <1>0a. /\ ThreadTypeOK' /\ my'[t] \in {my[t], Idle}
         /\ \A u \in Threads \ {t} : pc'[u] = pc[u] /\ my'[u] = my[u]
    BY <1>0, Moved DEF TypeOK
  <1>0b. (pc'[t] = "bury" => my' = my) /\ (pc'[t] = "bury" <=> t = Watch)
    BY DEF TypeOK
  <1>1. TypeOK'
    <2>1. TaskTypeOK'
      BY MyTypes DEF TypeOK, PlaceInv, NumberInv, SuspendExact, Ids, Statuses, Asked
    <2>2. ThreadTypeOK' BY <1>0a
    <2> QED BY <2>1, <2>2, MyTypes DEF TypeOK, PlaceInv, Ids
  <1>2. SuspendExact' BY DEF TypeOK, SuspendExact, PlaceInv, DeathInv, HurtCall, Asked
  <1>3. AppliedInOrder' BY DEF TypeOK, AppliedInOrder, AppliedInv, PlaceInv, HurtCall, Ids, Asked
  <1>4. KillTakes' BY DEF TypeOK, KillTakes, PlaceInv
  <1>5. DeathReported' BY DEF TypeOK, DeathReported, DeathInv, PlaceInv
  <1>6. PlaceInv'
    <2> HIDE DEF ChildPost
    <2> QED BY <1>0, <1>0a, <1>0b DEF PlaceInv, Asked
  <1>7. \A r \in HurtCall : InFlight(r)' => InFlight(r)
    BY DEF TypeOK, InFlight, PlaceInv, Asked
  <1>8. NumberInv' BY <1>7 DEF TypeOK, NumberInv, PlaceInv, HurtCall, Ids, Asked
  <1>9. AppliedInv' BY DEF TypeOK, AppliedInv, PlaceInv, HurtCall, Ids, Asked
  <1>10. KillInv' BY <1>7 DEF TypeOK, KillInv, HurtCall, PlaceInv, NumberInv, InFlight, Asked
  <1>11. DeathInv' BY DEF TypeOK, DeathInv, PlaceInv, Idle
  <1>12. LockInv'
    <2>0. /\ lock' = lock /\ state' = state /\ pc[t] = "chpost"
          /\ \A x \in Tasks : lock[x] \in Threads \cup {None}
      BY DEF TypeOK
    <2> HIDE DEF ChildPost
    <2> QED BY <1>0, <1>0a, <2>0 DEF LockInv
  <1> QED BY <1>1, <1>2, <1>3, <1>4, <1>5, <1>6, <1>8, <1>9, <1>10, <1>11, <1>12

\* Bury preserves the invariant.
LEMMA BuryKeeps ==
    ASSUME IInv, Bury
    PROVE  IInv'
  <1> USE EventsAssumption DEF IInv, TaskTypeOK, ThreadTypeOK, Threads, taskvars, Goto, Bury, Return
  <1>1. TypeOK'
    <2>1. TaskTypeOK'
      <3>1. num_of_tasks' \in Nat BY DEF TypeOK
      <3> QED BY <3>1 DEF TypeOK
    <2>2. ThreadTypeOK'
      BY MyTypes DEF TypeOK
    <2> QED
      BY <2>1, <2>2 DEF TypeOK, PlaceInv
  <1>2. SuspendExact' BY DEF TypeOK, SuspendExact, PlaceInv, DeathInv, HurtCall, Asked
  <1>3. AppliedInOrder' BY DEF TypeOK, AppliedInOrder, AppliedInv, PlaceInv, HurtCall, Ids, Asked
  <1>4. KillTakes' BY DEF TypeOK, KillTakes, PlaceInv
  <1>5. DeathReported'
    <2> DEFINE x == my[Watch].task
    <2>1. x \in Tasks \ buried BY DEF PlaceInv, DeathInv
    <2>2. Tasks \ buried' = (Tasks \ buried) \ {x} BY DEF TypeOK
    <2>3. IsFiniteSet(Tasks \ buried) BY FS_Subset
    <2>4. Cardinality(Tasks \ buried') = Cardinality(Tasks \ buried) - 1
      <3> HIDE DEF x
      <3> QED BY <2>1, <2>2, <2>3, FS_RemoveElement
    <2>5. Cardinality(Tasks \ buried) \in Nat /\ Cardinality(Tasks \ buried') \in Nat
      BY <2>2, <2>3, FS_CardinalityType, FS_Subset
    <2> QED BY <2>4, <2>5 DEF TypeOK, DeathReported, DeathInv
  <1>6. PlaceInv' BY DEF TypeOK, PlaceInv, NumberInv, Asked, Idle, HurtCall, Ids, Statuses
  <1>7. \A r \in HurtCall : InFlight(r)' => InFlight(r)
    BY DEF TypeOK, InFlight, PlaceInv, Asked
  <1>8. NumberInv' BY <1>7 DEF TypeOK, NumberInv, PlaceInv, HurtCall, Ids, Asked
  <1>9. AppliedInv' BY DEF TypeOK, AppliedInv, PlaceInv, HurtCall, Ids, Asked
  <1>10. KillInv' BY <1>7 DEF TypeOK, KillInv, HurtCall, PlaceInv, NumberInv, InFlight, Asked
  <1>11. DeathInv' BY DEF TypeOK, DeathInv, PlaceInv, Idle
  <1>12. LockInv' BY DEF TypeOK, LockInv, PlaceInv, DeathInv, Idle, HurtCall, Asked
  <1> QED BY <1>1, <1>2, <1>3, <1>4, <1>5, <1>6, <1>8, <1>9, <1>10, <1>11, <1>12

-----------------------------------------------------------------------------
(* The theorems.                                                           *)

\* The inductive invariant holds at the start.
LEMMA InitHolds == Init => IInv
  <1> SUFFICES ASSUME Init PROVE IInv OBVIOUS
  <1> USE EventsAssumption DEF Init, Threads
  <1>1. TypeOK
    <2>1. TaskTypeOK BY FS_CardinalityType DEF TaskTypeOK, Ids, Statuses
    <2>2. ThreadTypeOK BY MyTypes DEF ThreadTypeOK
    <2> QED BY <2>1, <2>2 DEF TypeOK, Ids
  <1>2. SuspendExact /\ AppliedInOrder /\ KillTakes
    BY DEF SuspendExact, AppliedInOrder, KillTakes
  <1>3. DeathReported
    <2>1. Tasks \ buried = Tasks OBVIOUS
    <2> QED BY <2>1 DEF DeathReported
  <1>4. PlaceInv /\ NumberInv /\ KillInv
    BY DEF PlaceInv, NumberInv, KillInv, InFlight, Asked
  <1>5. AppliedInv /\ DeathInv /\ LockInv BY DEF AppliedInv, DeathInv, LockInv
  <1> QED BY <1>1, <1>2, <1>3, <1>4, <1>5 DEF IInv

\* Every step preserves it.
LEMMA NextHolds == IInv /\ [Next]_vars => IInv'
  <1> SUFFICES ASSUME IInv, [Next]_vars PROVE IInv' OBVIOUS
  <1>1. CASE Next
    <2>0. Targets \subseteq Tasks BY EventsAssumption
    <2> QED BY <1>1, <2>0, HurtfulKeeps, PostedKeeps, ContinueKeeps, CalledKeeps, UnaskedKeeps, IgnoredKeeps,
      HurtKillKeeps, HurtStopKeeps, TellKeeps, TellDoneKeeps, ExitKeeps, NotifiedKeeps,
      DyingKeeps, SayKeeps, ChildEventKeeps, ChildLockKeeps, ChildStatusKeeps, ChildPostKeeps, BuryKeeps
    DEF Next
  <1>2. CASE UNCHANGED vars
    BY <1>2 DEF vars, taskvars, IInv, TypeOK, TaskTypeOK, ThreadTypeOK, SuspendExact, AppliedInOrder,
        KillTakes, DeathReported, PlaceInv, NumberInv, InFlight, AppliedInv, KillInv, DeathInv, LockInv
  <1> QED BY <1>1, <1>2

\* The invariant behind the theorems below, for all the threads of the task master.
THEOREM Invariance == Spec => []IInv
  BY InitHolds, NextHolds, PTL DEF Spec

\* tm_hurtme acts on every numbered event at most once and in the order of the
\* numbers, and a SIGKILL that returned success ended the task or was overtaken.
THEOREM EventsAreApplied == Spec => []EventsApplied
  <1>1. IInv => EventsApplied BY DEF IInv, EventsApplied
  <1> QED BY <1>1, Invariance, PTL

\* The suspend count the kernel has is the one the state of the task says, for
\* every order of stops, continues and deaths.
THEOREM StateIsSound == Spec => []StateSound
  <1>1. IInv => StateSound BY DEF IInv, StateSound
  <1> QED BY <1>1, Invariance, PTL

\* tm_death_watch reports a child to a parent that lives before it forgets it,
\* and counts every task out once.
THEOREM DeathIsReported == Spec => []DeathReported
  <1>1. IInv => DeathReported BY DEF IInv
  <1> QED BY <1>1, Invariance, PTL

\* tm_hurtme and SIGCHLD take the locks of child and parent in opposite order.  Two
\* threads wait for each other in one way only, a SIGCHLD from a child against a stop
\* of that child; tm_death_watch is in no such pair, as it asks, with a lock in hand,
\* only for a dead task's lock, which nobody keeps.
THEOREM CyclesAreKnown == Spec => []CyclesKnown
  <1>1. ASSUME IInv PROVE CyclesKnown
    <2> USE <1>1, EventsAssumption DEF IInv, Threads
    <2>1. ASSUME pc[Watch] = "chstat" PROVE lock[my[Watch].task] = None
      <3> DEFINE x == my[Watch].task
      <3>1. x \in Tasks /\ state[x] = "DEAD" BY <2>1 DEF PlaceInv, DeathInv
      <3>2. lock[x] \in Threads \cup {None} BY <3>1 DEF TypeOK, TaskTypeOK
      <3> HIDE DEF x
      <3> QED BY <3>1, <3>2 DEF LockInv, x
    <2>2. ASSUME NEW u \in Threads, WaitsFor(u) # None
          PROVE  \/ u \in Senders /\ pc[u] = "tell" /\ my[u].task \in Tasks /\ WaitsFor(u) = Parent[my[u].task]
                 \/ pc[u] = "chstat" /\ my[u].task \in Tasks /\ WaitsFor(u) = my[u].task
      <3>1. CASE pc[u] = "tell" BY <3>1, MyTypes DEF WaitsFor, PlaceInv, Asked
      <3>2. CASE pc[u] = "chstat" BY <3>2 DEF WaitsFor, PlaceInv
      <3>3. pc[u] \in {"tell", "chstat"} BY <2>2 DEF WaitsFor
      <3> QED BY <3>1, <3>2, <3>3
    <2>3. ASSUME NEW u \in Threads, NEW x \in Tasks, lock[x] = u
          PROVE  /\ pc[u] = "tell" => my[u].task = x
                 /\ pc[u] = "chstat" => Parent[my[u].task] = x
      BY <2>3 DEF LockInv
    <2>4. ASSUME NEW s \in Threads, NEW t \in Threads, LockCycle(s, t)
          PROVE  /\ {s, t} \subseteq Senders /\ {pc[s], pc[t]} = {"tell", "chstat"}
                 /\ my[s].task = my[t].task
      <3> DEFINE x == my[s].task  y == my[t].task
      <3>0. /\ s # t /\ WaitsFor(s) # None /\ WaitsFor(t) # None
            /\ lock[WaitsFor(s)] = t /\ lock[WaitsFor(t)] = s
        BY <2>4 DEF LockCycle
      <3>1. /\ x \in Tasks /\ y \in Tasks /\ Parent[x] \in Tasks /\ Parent[y] \in Tasks
            /\ \/ s \in Senders /\ pc[s] = "tell" /\ lock[Parent[x]] = t
               \/ pc[s] = "chstat" /\ lock[x] = t
            /\ \/ t \in Senders /\ pc[t] = "tell" /\ lock[Parent[y]] = s
               \/ pc[t] = "chstat" /\ lock[y] = s
        BY <2>2, <3>0
      <3>2. CASE pc[s] = "tell" /\ pc[t] = "tell"
        <4>1. Parent[x] = y /\ Parent[y] = x BY <2>3, <3>1, <3>2
        <4> QED BY <3>0, <3>1, <3>2, <4>1
      <3>3. CASE pc[s] = "chstat" /\ pc[t] = "chstat"
        <4>1. Parent[y] = x /\ Parent[x] = y BY <2>3, <3>1, <3>3
        <4> QED BY <3>0, <3>1, <3>3, <4>1
      <3>4. CASE pc[s] = "tell" /\ pc[t] = "chstat"
        <4>1. x = y BY <2>3, <3>1, <3>4
        <4>2. t # Watch BY <2>1, <3>0, <3>1, <3>4
        <4> QED BY <3>1, <3>4, <4>1, <4>2
      <3>5. CASE pc[s] = "chstat" /\ pc[t] = "tell"
        <4>1. x = y BY <2>3, <3>1, <3>5
        <4>2. s # Watch BY <2>1, <3>0, <3>1, <3>5
        <4> QED BY <3>1, <3>5, <4>1, <4>2
      <3> QED BY <3>1, <3>2, <3>3, <3>4, <3>5
    <2> QED BY <2>1, <2>4 DEF CyclesKnown
  <1> QED BY <1>1, Invariance, PTL
=============================================================================
