----------------------------- MODULE TaskEvents -----------------------------
(***************************************************************************)
(* Events to tasks in the task master (server/tm/tm_task.cc): SIGKILL and  *)
(* SIGSTOP are first posted to the task, with a number, so that it calls   *)
(* tm_hurtme on itself, and then applied by the task master; SIGCONT; the  *)
(* SIGCHLD that tells the parent; and the death of tasks, learnt by one    *)
(* thread, tm_death_watch (tm_root.cc).  Every task has a lock; an RPC to  *)
(* a task is answered only while the task can run.                         *)
(***************************************************************************)
EXTENDS Naturals, Sequences, FiniteSets

CONSTANTS Tasks,
          Parent,       \* of each task; an initial task is its own
          Senders,      \* threads that serve tm_event_to_task and tm_hurtme
          None,
          MaxEvents,    \* bound on events sent
          Targets       \* bound: the tasks they are sent to, and those that exit

Watch == "tm_death_watch"

ASSUME EventsAssumption ==
    /\ IsFiniteSet(Tasks) /\ Parent \in [Tasks -> Tasks]
    /\ \A x, y \in Tasks : Parent[x] = y /\ Parent[y] = x => x = y
    /\ MaxEvents \in Nat /\ Targets \subseteq Tasks
    /\ Watch \notin Senders /\ None \notin Tasks \cup Senders \cup {Watch}

Threads == Senders \cup {Watch}

VARIABLES lock,       \* of each task object: the thread that has it
          state, emul_status, last_tm_post_id, last_hurtme_id,
          suspended, terminated, \* the kernel's suspend count, and the end of the task
          num_of_tasks, \* of the session
          calls,      \* calls of tm_hurtme that the tasks will make
          notices,    \* dead-name notifications yet to be handled
          pc, my,     \* each thread: its place; its task, event and number
          events,
          applied,    \* history: the numbers tm_hurtme acted on, per task
          killed,     \* history: the SIGKILLs that returned success, by task and number
          told, buried \* history: whose death the parent heard of; who is done with

taskvars == <<lock, state, emul_status, last_tm_post_id, last_hurtme_id, suspended, terminated, num_of_tasks>>
vars == <<taskvars, calls, notices, pc, my, events, applied, killed, told, buried>>

Statuses == {"default", "stopped", "killed", "exited"}
Idle == [task |-> None, event |-> "none", id |-> 0]

Init ==
    /\ lock = [x \in Tasks |-> None] /\ state = [x \in Tasks |-> "RUNNING"]
    /\ emul_status = [x \in Tasks |-> "default"]
    /\ last_tm_post_id = [x \in Tasks |-> 0] /\ last_hurtme_id = [x \in Tasks |-> 0]
    /\ suspended = [x \in Tasks |-> 0] /\ terminated = {} /\ num_of_tasks = Cardinality(Tasks)
    /\ calls = {} /\ notices = {} /\ events = 0
    /\ pc = [s \in Threads |-> "idle"] /\ my = [s \in Threads |-> Idle]
    /\ applied = [x \in Tasks |-> <<>>] /\ killed = {} /\ told = {} /\ buried = {}

Goto(s, l) == pc' = [pc EXCEPT ![s] = l]

\* The thread is done with its call.
Return(s) == Goto(s, "idle") /\ my' = [my EXCEPT ![s] = Idle]

\* task_terminate, with the notification it causes.
Terminate(x) == /\ terminated' = terminated \cup {x}
                /\ notices' = IF x \in terminated THEN notices ELSE notices \cup {x}

-----------------------------------------------------------------------------
(* tm_event_to_task_thread                                                 *)

\* SIGKILL and SIGSTOP: take a number; a task that runs is asked first.
Hurtful(s, x, ev) ==
    /\ pc[s] = "idle" /\ lock[x] = None /\ state[x] # "DEAD"
    /\ events < MaxEvents /\ events' = events + 1
    /\ last_tm_post_id' = [last_tm_post_id EXCEPT ![x] = @ + 1]
    /\ my' = [my EXCEPT ![s] = [task |-> x, event |-> ev, id |-> last_tm_post_id[x] + 1]]
    /\ Goto(s, IF state[x] = "RUNNING" THEN "post" ELSE "force")
    /\ UNCHANGED <<lock, state, emul_status, last_hurtme_id, suspended, terminated, num_of_tasks,
                   calls, notices, applied, killed, told, buried>>

\* event_post_with_timeout: it fails when the task cannot run, and a timeout
\* may fail it although the task has got the event.  Only a post that
\* succeeded is followed by tm_hurtme.
Posted(s) ==
    LET x == my[s].task IN
    /\ pc[s] = "post"
    /\ \E ok \in BOOLEAN, got \in BOOLEAN :
          /\ ok => got
          /\ got => suspended[x] = 0 /\ x \notin terminated
          /\ calls' = IF got THEN calls \cup {my[s]} ELSE calls
          /\ IF ok THEN Goto(s, "force") /\ UNCHANGED my ELSE Return(s)
    /\ UNCHANGED <<taskvars, notices, events, applied, killed, told, buried>>

\* Mutated form: the state is reset before it is asked whether to resume.
ContinueForgets(s, x) ==
    /\ pc[s] = "idle" /\ lock[x] = None /\ state[x] # "DEAD"
    /\ events < MaxEvents /\ events' = events + 1
    /\ emul_status' = [emul_status EXCEPT ![x] = "default"]
    /\ state' = [state EXCEPT ![x] = "RUNNING"]
    /\ UNCHANGED <<lock, last_tm_post_id, last_hurtme_id, suspended, terminated, num_of_tasks, calls,
                   notices, pc, my, applied, killed, told, buried>>

\* SIGCONT, with its event_post: a task that is not suspended is not resumed.
Continue(s, x) ==
    /\ pc[s] = "idle" /\ lock[x] = None /\ state[x] # "DEAD"
    /\ events < MaxEvents /\ events' = events + 1
    /\ emul_status' = [emul_status EXCEPT ![x] = "default"]
    /\ state' = [state EXCEPT ![x] = "RUNNING"]
    /\ suspended' = [suspended EXCEPT ![x] = IF @ > 0 THEN @ - 1 ELSE 0]
    /\ UNCHANGED <<lock, last_tm_post_id, last_hurtme_id, terminated, num_of_tasks, calls, notices,
                   pc, my, applied, killed, told, buried>>

-----------------------------------------------------------------------------
(* tm_hurtme                                                               *)

\* The task does as it was told, if it is quick enough; it may also hurt itself
\* unasked, with the number 0 (signal_terminate, signal_stop).
Called(s) ==
    /\ pc[s] = "idle"
    /\ \E c \in calls : my' = [my EXCEPT ![s] = c] /\ calls' = calls \ {c}
    /\ Goto(s, "hurt")
    /\ UNCHANGED <<taskvars, notices, events, applied, killed, told, buried>>

Unasked(s, x, ev) ==
    /\ pc[s] = "idle" /\ x \notin terminated /\ suspended[x] = 0
    /\ events < MaxEvents /\ events' = events + 1
    /\ my' = [my EXCEPT ![s] = [task |-> x, event |-> ev, id |-> 0]]
    /\ Goto(s, "hurt")
    /\ UNCHANGED <<taskvars, calls, notices, applied, killed, told, buried>>

\* Mutated form: the same number is acted on twice.
RedundantOnce(x, id) == id # 0 /\ id < last_hurtme_id[x]

\* "Id used to prevent redundant calls": anything not newer than the last one.
Redundant(x, id) == id # 0 /\ id <= last_hurtme_id[x]

\* The call of tm_event_to_task that ends here returns success.
Succeeds(s) == killed' = IF pc[s] = "force" /\ my[s].event = "KILL"
                         THEN killed \cup {<<my[s].task, my[s].id>>} ELSE killed

Ignored(s) ==
    /\ pc[s] \in {"hurt", "force"} /\ lock[my[s].task] = None
    /\ Redundant(my[s].task, my[s].id)
    /\ Succeeds(s) /\ Return(s)
    /\ UNCHANGED <<taskvars, calls, notices, events, applied, told, buried>>

Acts(s) ==
    LET x == my[s].task  id == my[s].id IN
    /\ pc[s] \in {"hurt", "force"} /\ lock[x] = None /\ ~Redundant(x, id)
    /\ last_hurtme_id' = [last_hurtme_id EXCEPT ![x] = IF id = 0 THEN @ ELSE id]
    /\ applied' = IF id = 0 THEN applied ELSE [applied EXCEPT ![x] = Append(@, id)]
    /\ emul_status' = [emul_status EXCEPT ![x] = IF my[s].event = "STOP" THEN "stopped" ELSE "killed"]

HurtKill(s) ==
    /\ Acts(s) /\ my[s].event = "KILL"
    /\ Terminate(my[s].task)
    /\ Succeeds(s) /\ Return(s)
    /\ UNCHANGED <<lock, state, last_tm_post_id, suspended, num_of_tasks, calls, events, told, buried>>

\* Mutated form: whoever is not stopped is stopped, the dead too.
MayStopDead(x) == state[x] # "STOPPED"

\* "It is possible that the task is stopped, don't stop twice."
MayStop(x) == state[x] = "RUNNING"

\* The lock is kept while the parent is told.
HurtStop(s) ==
    LET x == my[s].task IN
    /\ Acts(s) /\ my[s].event = "STOP"
    /\ \/ /\ MayStop(x)
          /\ suspended' = [suspended EXCEPT ![x] = IF x \in terminated THEN @ ELSE @ + 1]
          /\ state' = [state EXCEPT ![x] = "STOPPED"]
          /\ lock' = [lock EXCEPT ![x] = s]
          /\ Goto(s, "tell") /\ UNCHANGED my
       \/ ~MayStop(x) /\ Return(s) /\ UNCHANGED <<suspended, state, lock>>
    /\ UNCHANGED <<last_tm_post_id, terminated, num_of_tasks, calls, notices, events, killed, told, buried>>

\* parent->tm_event_to_task(UNIX_SIG_CHLD), which takes the parent's lock and
\* gives it back before the RPC.  An initial task is its own parent, and the
\* lock is its own.
Tell(s) ==
    LET p == Parent[my[s].task] IN
    /\ pc[s] = "tell" /\ lock[p] = None
    /\ \/ state[p] # "DEAD" /\ Goto(s, "rpc") /\ UNCHANGED <<lock, my>>
       \/ state[p] = "DEAD" /\ lock' = [lock EXCEPT ![my[s].task] = None] /\ Return(s)
    /\ UNCHANGED <<state, emul_status, last_tm_post_id, last_hurtme_id, suspended, terminated,
                   num_of_tasks, calls, notices, events, applied, killed, told, buried>>

\* event_post to a task has no timeout: it waits for a parent that is stopped.
Answers(p) == suspended[p] = 0 \/ p \in terminated

TellDone(s) ==
    /\ pc[s] = "rpc" /\ Answers(Parent[my[s].task])
    /\ lock' = [lock EXCEPT ![my[s].task] = None]
    /\ Return(s)
    /\ UNCHANGED <<state, emul_status, last_tm_post_id, last_hurtme_id, suspended, terminated,
                   num_of_tasks, calls, notices, events, applied, killed, told, buried>>

-----------------------------------------------------------------------------
(* Death: tm_deregister_task and tm_task_death, in tm_death_watch          *)

\* A task exits: its status is set, and it ends.
Exit(x) ==
    /\ x \notin terminated /\ suspended[x] = 0 /\ lock[x] = None
    /\ emul_status' = [emul_status EXCEPT ![x] = "exited"]
    /\ Terminate(x)
    /\ UNCHANGED <<lock, state, last_tm_post_id, last_hurtme_id, suspended, num_of_tasks, calls, pc, my,
                   events, applied, killed, told, buried>>

Notified ==
    /\ pc[Watch] = "idle"
    /\ \E x \in notices :
          /\ lock[x] = None
          /\ notices' = notices \ {x}
          /\ state' = [state EXCEPT ![x] = "DEAD"]
          /\ my' = [my EXCEPT ![Watch] = [Idle EXCEPT !.task = x]]
    /\ Goto(Watch, "dying")
    /\ UNCHANGED <<lock, emul_status, last_tm_post_id, last_hurtme_id, suspended, terminated,
                   num_of_tasks, calls, events, applied, killed, told, buried>>

\* "Stopped when we died, do default death".
Dying ==
    LET x == my[Watch].task IN
    /\ pc[Watch] = "dying"
    /\ emul_status' = [emul_status EXCEPT ![x] = IF @ = "stopped" THEN "default" ELSE @]
    /\ Goto(Watch, "say")
    /\ UNCHANGED <<lock, state, last_tm_post_id, last_hurtme_id, suspended, terminated, num_of_tasks,
                   calls, notices, my, events, applied, killed, told, buried>>

\* Mutated form: a stopped parent is not told.
HearsRunning(x) == Parent[x] # x /\ state[Parent[x]] = "RUNNING"

\* tm_task_not_dead, read without the lock.
Hears(x) == Parent[x] # x /\ state[Parent[x]] # "DEAD"

\* SIGCHLD to the parent, if there is one to hear it, with the status.
Say ==
    LET x == my[Watch].task IN
    /\ pc[Watch] = "say"
    /\ my' = [my EXCEPT ![Watch].event = emul_status[x]]
    /\ Goto(Watch, IF Hears(x) THEN "chld" ELSE "bury")
    /\ UNCHANGED <<taskvars, calls, notices, events, applied, killed, told, buried>>

\* The child's emulation sends its parent the SIGCHLD itself, with its pid and
\* any status.
ChildEvent(s, x, status) ==
    /\ pc[s] = "idle" /\ x \notin terminated /\ suspended[x] = 0
    /\ events < MaxEvents /\ events' = events + 1
    /\ my' = [my EXCEPT ![s] = [task |-> x, event |-> status, id |-> 0]]
    /\ Goto(s, "chld")
    /\ UNCHANGED <<taskvars, calls, notices, applied, killed, told, buried>>

\* The SIGCHLD is done with: tm_task_death goes on, an RPC returns.
ChildDone(t) == \/ t = Watch /\ Goto(t, "bury") /\ UNCHANGED my
                \/ t # Watch /\ Return(t)

\* With the parent's lock the child's is taken, to set its status again; not
\* for the status of a stopped task, nor for a pid that is no longer a task's.
ChildLock(t) ==
    LET p == Parent[my[t].task]
        found == my[t].event # "stopped" /\ my[t].task \notin buried IN
    /\ pc[t] = "chld" /\ lock[p] = None
    /\ \/ /\ state[p] # "DEAD" /\ found
          /\ lock' = [lock EXCEPT ![p] = t] /\ Goto(t, "chstat") /\ UNCHANGED my
       \/ state[p] # "DEAD" /\ ~found /\ Goto(t, "chpost") /\ UNCHANGED <<lock, my>>
       \/ state[p] = "DEAD" /\ ChildDone(t) /\ UNCHANGED lock
    /\ UNCHANGED <<state, emul_status, last_tm_post_id, last_hurtme_id, suspended, terminated,
                   num_of_tasks, calls, notices, events, applied, killed, told, buried>>

ChildStatus(t) ==
    LET x == my[t].task IN
    /\ pc[t] = "chstat" /\ lock[x] = None
    /\ emul_status' = [emul_status EXCEPT ![x] = my[t].event]
    /\ lock' = [lock EXCEPT ![Parent[x]] = None]
    /\ Goto(t, "chpost")
    /\ UNCHANGED <<state, last_tm_post_id, last_hurtme_id, suspended, terminated,
                   num_of_tasks, calls, notices, my, events, applied, killed, told, buried>>

ChildPost(t) ==
    LET x == my[t].task IN
    /\ pc[t] = "chpost" /\ Answers(Parent[x])
    /\ told' = IF t = Watch THEN told \cup {x} ELSE told
    /\ ChildDone(t)
    /\ UNCHANGED <<taskvars, calls, notices, events, applied, killed, buried>>

\* session->tasks_decrement, and the rest of tm_deregister_task.
Bury ==
    /\ pc[Watch] = "bury"
    /\ num_of_tasks' = IF num_of_tasks > 0 THEN num_of_tasks - 1 ELSE 0
    /\ buried' = buried \cup {my[Watch].task}
    /\ Return(Watch)
    /\ UNCHANGED <<lock, state, emul_status, last_tm_post_id, last_hurtme_id, suspended, terminated,
                   calls, notices, events, applied, killed, told>>

Next ==
    \/ \E s \in Senders :
          \/ \E x \in Targets : \/ Continue(s, x)
                                \/ \E ev \in {"KILL", "STOP"} : Hurtful(s, x, ev) \/ Unasked(s, x, ev)
                                \/ \E status \in Statuses : ChildEvent(s, x, status)
          \/ Posted(s) \/ Called(s) \/ Ignored(s) \/ HurtKill(s) \/ HurtStop(s) \/ Tell(s) \/ TellDone(s)
    \/ \E x \in Targets : Exit(x)
    \/ \E t \in Threads : ChildLock(t) \/ ChildStatus(t) \/ ChildPost(t)
    \/ Notified \/ Dying \/ Say \/ Bury

Spec == Init /\ [][Next]_vars

-----------------------------------------------------------------------------
(* Properties                                                              *)

Ids == 0..MaxEvents
HurtCall == [task : Tasks, event : {"KILL", "STOP"}, id : Ids]
MyType == [task : Tasks \cup {None}, event : {"none", "KILL", "STOP"} \cup Statuses, id : Ids]

TaskTypeOK ==
    /\ lock \in [Tasks -> Threads \cup {None}] /\ state \in [Tasks -> {"RUNNING", "STOPPED", "DEAD"}]
    /\ emul_status \in [Tasks -> Statuses]
    /\ last_tm_post_id \in [Tasks -> Ids] /\ last_hurtme_id \in [Tasks -> Ids]
    /\ suspended \in [Tasks -> 0..1] /\ terminated \subseteq Tasks /\ num_of_tasks \in Nat

ThreadTypeOK ==
    /\ pc \in [Threads -> {"idle", "post", "force", "hurt", "tell", "rpc", "dying", "say", "chld",
                           "chstat", "chpost", "bury"}]
    /\ my \in [Threads -> MyType]

\* Every variable has its type.
TypeOK ==
    /\ TaskTypeOK /\ ThreadTypeOK
    /\ calls \subseteq HurtCall /\ notices \subseteq terminated /\ events \in Ids
    /\ applied \in [Tasks -> Seq(Ids)] /\ killed \subseteq Tasks \X Ids
    /\ told \cup buried \subseteq Tasks

\* No numbered event is applied twice, although the task and the task master
\* both call tm_hurtme for it, nor after a newer one.
AppliedInOrder ==
    \A x \in Tasks : \A i, j \in DOMAIN applied[x] : i < j => applied[x][i] < applied[x][j]

\* A SIGKILL that returned success has ended the task, or a newer event was
\* applied before it: tm_hurtme then takes it for a redundant call.
KillTakes ==
    \A k \in killed :
        \/ k[1] \in terminated
        \/ \E i \in DOMAIN applied[k[1]] : applied[k[1]][i] > k[2]

\* The suspend count the kernel keeps is what the state of the task says,
\* whatever order stops and continues come in: one SIGCONT is enough.
SuspendExact ==
    \A x \in Tasks \ terminated :
        suspended[x] = (IF state[x] = "STOPPED" THEN 1 ELSE 0)

\* A child's death is reported to its parent before it is forgotten, unless the
\* parent is dead; and the session counts the tasks that are left.
DeathReported ==
    /\ \A x \in buried : x \in told \/ Parent[x] = x \/ state[Parent[x]] = "DEAD"
    /\ num_of_tasks = Cardinality(Tasks \ buried)

\* The task whose lock a thread waits for.
WaitsFor(s) ==
    CASE pc[s] = "tell" -> Parent[my[s].task]
      [] pc[s] = "chstat" -> my[s].task
      [] OTHER -> None

\* Two threads, each waiting for a lock the other has.
LockCycle(s, t) ==
    /\ s # t /\ WaitsFor(s) # None /\ WaitsFor(t) # None
    /\ lock[WaitsFor(s)] = t /\ lock[WaitsFor(t)] = s

\* tm_hurtme takes the child's lock and then the parent's, SIGCHLD the parent's
\* and then the child's.  They meet in one way only, a child's own SIGCHLD against
\* a stop of the same child; never in tm_death_watch, on which all deaths depend:
\* with a lock in hand it asks for one that nobody keeps.
CyclesKnown ==
    /\ \A s, t \in Threads : LockCycle(s, t) =>
           /\ {s, t} \subseteq Senders /\ {pc[s], pc[t]} = {"tell", "chstat"}
           /\ my[s].task = my[t].task
    /\ pc[Watch] = "chstat" => lock[my[Watch].task] = None

\* Numbered events take effect once, in order, and a kill takes.
EventsApplied == AppliedInOrder /\ KillTakes

\* The task master's state of a task is the kernel's.
StateSound == TypeOK /\ SuspendExact
=============================================================================
