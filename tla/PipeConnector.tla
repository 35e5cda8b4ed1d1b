---------------------------- MODULE PipeConnector ----------------------------
(***************************************************************************)
(* The passive connector of a pipe (server/pipenet/pipenet_connector.cc):  *)
(* net_connect offers a request record, which lives in its own stack       *)
(* frame, to pipenet_connect_upcall, which queues it and waits;            *)
(* net_listen, net_accept and net_reject answer it; net_set_connect_qmax   *)
(* refuses what no longer fits.  Each n in Conns is one call of            *)
(* net_connect and its record.  Waits are interruptible, as in module      *)
(* Streams; the active side's condition has only one waiter.               *)
(***************************************************************************)
EXTENDS Integers, Sequences, SequencesExt, FiniteSets

CONSTANTS Conns,     \* the calls of net_connect
          Servers,   \* threads that listen, accept and reject
          Nobody,    \* the holder of the free lock, the record nobody has
          InitialQmax, Qmaxes, \* the queue limits at first and later
          Interruptible, \* the threads an interrupt may be posted to
          MaxPosts   \* bound on interrupts

ASSUME ConnectorAssumption ==
    /\ InitialQmax \in Nat /\ Qmaxes \subseteq Int /\ MaxPosts \in Nat
    /\ Interruptible \subseteq Conns \cup Servers
    /\ Conns \cap Servers = {} /\ {Nobody, "admin"} \cap (Conns \cup Servers) = {}
    /\ Nobody # "admin"

VARIABLES lock,
          queue, qsize, qmax, seqno_seed,
          info,      \* the records: seqno, state, error, endpts (both made?)
          pc,        \* where each call, server and the owner of the connector is
          hold,      \* the record a server or the owner took off the queue
          know,      \* the sequence number net_listen gave a server, 0 for none
          listeners, \* listen_cond, oldest first
          asleep,    \* calls waiting on the condition in their record
          pending, shaking, \* interrupted threads; those whose shake is yet to come
          posts,
          broken,    \* history: a record was removed from the queue it had left, or from
                     \* the empty queue, or the lock released by a thread that did not hold it
          unlocked   \* history: records answered without the lock, or never

connvars == <<lock, queue, qsize, qmax, seqno_seed, info, pc, hold, know, listeners, asleep,
              pending, shaking, posts, broken, unlocked>>

\* Whoever calls net_set_connect_qmax.
Admin == "admin"
Takers == Servers \cup {Admin}

\* In net_connect, before the upcall.
NewInfo == [seqno |-> 0, state |-> "INITIAL", error |-> "none", endpts |-> FALSE]

ConnInit ==
    /\ lock = Nobody /\ queue = <<>> /\ qsize = 0 /\ qmax = InitialQmax /\ seqno_seed = 1
    /\ info = [n \in Conns |-> NewInfo]
    /\ pc = [t \in Conns \cup Takers |-> "idle"]
    /\ hold = [t \in Takers |-> Nobody]
    /\ know = [s \in Servers |-> 0]
    /\ listeners = <<>> /\ asleep = {} /\ pending = {} /\ shaking = {} /\ posts = 0
    /\ broken = FALSE /\ unlocked = {}

Goto(t, l) == pc' = [pc EXCEPT ![t] = l]

-----------------------------------------------------------------------------
(* pipenet_connect_upcall                                                  *)

Full == qsize >= qmax

\* Mutated form: the last request is served first.
EnterFirst(n) == queue' = <<n>> \o queue /\ qsize' = qsize + 1

\* dll_enter, at the tail.
Enter(n) == queue' = Append(queue, n) /\ qsize' = qsize + 1

connect_upcall(n) ==
    /\ pc[n] = "idle" /\ lock = Nobody
    /\ \/ /\ Full
          /\ info' = [info EXCEPT ![n].error = "REFUSED"]
          /\ Goto(n, "done")
          /\ UNCHANGED <<queue, qsize, seqno_seed>>
       \/ /\ ~Full
          /\ info' = [info EXCEPT ![n] = [@ EXCEPT !.state = "LISTENING", !.seqno = seqno_seed,
                                                   !.error = "NOT_STARTED"]]
          /\ seqno_seed' = seqno_seed + 1
          /\ Enter(n) /\ Goto(n, "signal")
    /\ UNCHANGED <<lock, qmax, hold, know, listeners, asleep, pending, shaking, posts, broken, unlocked>>

\* condition_signal(&listen_cond), without the lock.
SignalListen(n) ==
    /\ pc[n] = "signal"
    /\ listeners' = IF listeners = <<>> THEN <<>> ELSE Tail(listeners)
    /\ Goto(n, "relock")
    /\ UNCHANGED <<lock, queue, qsize, qmax, seqno_seed, info, hold, know, asleep, pending, shaking, posts,
                   broken, unlocked>>

\* The head of the waiting loop, with the lock: its test and, as a step of its
\* own since not everybody takes the lock to answer, the wait.
LoopTest(n) ==
    \/ info[n].error = "NOT_STARTED" /\ lock' = n /\ Goto(n, "towait")
    \/ /\ info[n].error # "NOT_STARTED" /\ lock' = Nobody
       /\ Goto(n, IF info[n].error = "SUCCESS" THEN "connected" ELSE "done")

Relock(n) ==
    /\ pc[n] = "relock" /\ lock = Nobody
    /\ LoopTest(n)
    /\ UNCHANGED <<queue, qsize, qmax, seqno_seed, info, hold, know, listeners, asleep, pending,
                   shaking, posts, broken, unlocked>>

\* An interrupted wait gives the request up if it has no answer yet.
GiveUp(n) ==
    \/ /\ info[n].error = "NOT_STARTED"
       /\ queue' = RemoveFirst(queue, n)
       /\ qsize' = qsize - 1
       /\ broken' = (broken \/ ~Contains(queue, n))
       /\ info' = [info EXCEPT ![n].error = "EXCEPT"]
       /\ lock' = Nobody /\ Goto(n, "done")
    \/ /\ info[n].error # "NOT_STARTED"
       /\ LoopTest(n) /\ UNCHANGED <<queue, qsize, broken, info>>

ToWait(n) ==
    /\ pc[n] = "towait"
    /\ \/ /\ n \in pending /\ pending' = pending \ {n}
          /\ GiveUp(n) /\ UNCHANGED asleep
       \/ /\ n \notin pending
          /\ asleep' = asleep \cup {n} /\ lock' = Nobody /\ Goto(n, "waiting")
          /\ UNCHANGED <<queue, qsize, info, pending, broken>>
    /\ UNCHANGED <<qmax, seqno_seed, hold, know, listeners, shaking, posts, unlocked>>

Woken(n) ==
    /\ pc[n] = "waiting" /\ n \notin asleep /\ lock = Nobody
    /\ pending' = pending \ {n}
    /\ \/ n \in pending /\ GiveUp(n)
       \/ n \notin pending /\ LoopTest(n) /\ UNCHANGED <<queue, qsize, broken, info>>
    /\ UNCHANGED <<qmax, seqno_seed, hold, know, listeners, asleep, shaking, posts, unlocked>>

-----------------------------------------------------------------------------
(* net_listen                                                              *)

\* The request is shown, not removed.
Listen(s) ==
    /\ pc[s] = "idle" /\ know[s] = 0 /\ lock = Nobody
    /\ \/ /\ qsize > 0 /\ queue # <<>>
          /\ know' = [know EXCEPT ![s] = info[Head(queue)].seqno]
          /\ UNCHANGED <<pc, listeners, pending>>
       \/ /\ qsize = 0 /\ s \notin pending
          /\ listeners' = Append(listeners, s) /\ Goto(s, "listening")
          /\ UNCHANGED <<know, pending>>
       \/ /\ qsize = 0 /\ s \in pending /\ pending' = pending \ {s}
          /\ UNCHANGED <<pc, know, listeners>>
    /\ UNCHANGED <<lock, queue, qsize, qmax, seqno_seed, info, hold, asleep, shaking, posts, broken, unlocked>>

\* Interrupted or not, the thread is back where it can call net_listen again.
ListenWoken(s) ==
    /\ pc[s] = "listening" /\ ~Contains(listeners, s) /\ lock = Nobody
    /\ Goto(s, "idle")
    /\ pending' = pending \ {s}
    /\ UNCHANGED <<lock, queue, qsize, qmax, seqno_seed, info, hold, know, listeners, asleep, shaking, posts,
                   broken, unlocked>>

-----------------------------------------------------------------------------
(* net_accept and net_reject                                               *)

\* Only the first request can be answered, by its number.
Finds(s) == qsize # 0 /\ queue # <<>> /\ info[Head(queue)].seqno = know[s]

\* Mutated form: the request stays visible to other servers.
DequeueLate(t) == /\ UNCHANGED <<queue, qsize>>
                  /\ hold' = [hold EXCEPT ![t] = Head(queue)]

Dequeue(t) == /\ queue' = Tail(queue) /\ qsize' = qsize - 1
              /\ hold' = [hold EXCEPT ![t] = Head(queue)]

\* US_OBJECT_NOT_FOUND.
NotFound(s) ==
    /\ pc[s] = "idle" /\ know[s] # 0 /\ lock = Nobody /\ ~Finds(s)
    /\ know' = [know EXCEPT ![s] = 0]
    /\ UNCHANGED <<lock, queue, qsize, qmax, seqno_seed, info, pc, hold, listeners, asleep, pending,
                   shaking, posts, broken, unlocked>>

\* "We are committed to handling this connection": up to the second mutex_lock
\* the record is worked on without the lock.
Accept(s) ==
    /\ pc[s] = "idle" /\ know[s] # 0 /\ lock = Nobody /\ Finds(s)
    /\ Dequeue(s)
    /\ Goto(s, "accepting")
    /\ UNCHANGED <<lock, qmax, seqno_seed, info, know, listeners, asleep, pending, shaking, posts, broken, unlocked>>

\* pipenet_setup_twoside_connection: the endpoints are made and the passive one
\* is entered in the directory, or the name is taken.
Setup(s) ==
    /\ pc[s] = "accepting"
    /\ \E made \in BOOLEAN :
          /\ info' = [info EXCEPT ![hold[s]].state = "ACCEPTING", ![hold[s]].endpts = made]
          /\ Goto(s, IF made THEN "created" ELSE "failed")
    /\ UNCHANGED <<lock, queue, qsize, qmax, seqno_seed, hold, know, listeners, asleep, pending, shaking, posts,
                   broken, unlocked>>

\* ns_get_cred_obj and ns_create_agent.  ABORT, when there are no credentials,
\* unlocks a lock it does not hold and answers nobody.
MakeAgent(s) ==
    /\ pc[s] = "created"
    /\ \/ Goto(s, "succeeded") /\ UNCHANGED <<lock, hold, know, broken, unlocked>>
       \/ Goto(s, "failed") /\ UNCHANGED <<lock, hold, know, broken, unlocked>>
       \/ /\ lock' = Nobody
          /\ unlocked' = unlocked \cup {hold[s]}
          /\ broken' = (broken \/ lock # Nobody)
          /\ hold' = [hold EXCEPT ![s] = Nobody] /\ know' = [know EXCEPT ![s] = 0]
          /\ Goto(s, "idle")
    /\ UNCHANGED <<queue, qsize, qmax, seqno_seed, info, listeners, asleep, pending, shaking, posts>>

\* ABORT_WAKEUP, or the success at the end of net_accept.
Answer(s) ==
    /\ pc[s] \in {"succeeded", "failed"} /\ lock = Nobody
    /\ info' = [info EXCEPT ![hold[s]] =
          IF pc[s] = "succeeded" THEN [@ EXCEPT !.state = "ACCEPTED", !.error = "SUCCESS"]
          ELSE [@ EXCEPT !.state = "REJECTED", !.error = "FAILED"]]
    /\ Goto(s, "wake")
    /\ UNCHANGED <<lock, queue, qsize, qmax, seqno_seed, hold, know, listeners, asleep, pending, shaking, posts,
                   broken, unlocked>>

net_reject(s) ==
    /\ pc[s] = "idle" /\ know[s] # 0 /\ lock = Nobody /\ Finds(s)
    /\ Dequeue(s)
    /\ info' = [info EXCEPT ![Head(queue)].state = "REJECTED", ![Head(queue)].error = "REFUSED"]
    /\ Goto(s, "wake")
    /\ UNCHANGED <<lock, qmax, seqno_seed, know, listeners, asleep, pending, shaking, posts, broken, unlocked>>

\* Mutated form: the active side is not woken.
NoWake(t) ==
    /\ pc[t] = "wake"
    /\ hold' = [hold EXCEPT ![t] = Nobody]
    /\ know' = IF t = Admin THEN know ELSE [know EXCEPT ![t] = 0]
    /\ Goto(t, IF t = Admin THEN "trim" ELSE "idle")
    /\ UNCHANGED <<lock, queue, qsize, qmax, seqno_seed, info, listeners, asleep, pending, shaking, posts,
                   broken, unlocked>>

\* condition_signal(&conninfo->cond), without the lock.
WakeActive(t) ==
    /\ pc[t] = "wake"
    /\ asleep' = asleep \ {hold[t]}
    /\ hold' = [hold EXCEPT ![t] = Nobody]
    /\ know' = IF t = Admin THEN know ELSE [know EXCEPT ![t] = 0]
    /\ Goto(t, IF t = Admin THEN "trim" ELSE "idle")
    /\ UNCHANGED <<lock, queue, qsize, qmax, seqno_seed, info, listeners, pending, shaking, posts, broken,
                   unlocked>>

-----------------------------------------------------------------------------
(* net_set_connect_qmax, also called by the destructor                     *)

\* It is the old limit that is tested for being negative, not the new one.
SetQmax(q) ==
    /\ pc[Admin] = "idle" /\ qmax >= 0 /\ lock = Nobody /\ q # qmax
    /\ qmax' = q
    /\ Goto(Admin, "trim")
    /\ UNCHANGED <<lock, queue, qsize, seqno_seed, info, hold, know, listeners, asleep, pending, shaking, posts,
                   broken, unlocked>>

Trim ==
    /\ pc[Admin] = "trim" /\ lock = Nobody
    /\ \/ /\ qsize > qmax /\ queue # <<>>
          /\ Dequeue(Admin) /\ Goto(Admin, "refuse") /\ UNCHANGED broken
       \/ /\ qsize > qmax /\ queue = <<>> \* a negative limit: dll_first of nothing
          /\ broken' = TRUE /\ UNCHANGED <<queue, qsize, hold, pc>>
       \/ /\ qsize <= qmax /\ Goto(Admin, "idle") /\ UNCHANGED <<queue, qsize, hold, broken>>
    /\ UNCHANGED <<lock, qmax, seqno_seed, info, know, listeners, asleep, pending, shaking, posts, unlocked>>

\* Without the lock: the error, which is what net_connect looks at, ...
TrimRefuse ==
    /\ pc[Admin] = "refuse"
    /\ info' = [info EXCEPT ![hold[Admin]].error = "REFUSED"]
    /\ unlocked' = unlocked \cup {hold[Admin]}
    /\ Goto(Admin, "refused")
    /\ UNCHANGED <<lock, queue, qsize, qmax, seqno_seed, hold, know, listeners, asleep, pending, shaking, posts,
                   broken>>

\* ... and the state.
TrimMark ==
    /\ pc[Admin] = "refused"
    /\ info' = [info EXCEPT ![hold[Admin]].state = "REJECTED"]
    /\ Goto(Admin, "wake")
    /\ UNCHANGED <<lock, queue, qsize, qmax, seqno_seed, hold, know, listeners, asleep, pending, shaking, posts,
                   broken, unlocked>>

-----------------------------------------------------------------------------
(* Interrupts                                                              *)

Waiting(t) == t \in asleep \/ Contains(listeners, t)

\* The first post to find the thread waiting shakes it.
Post(t) ==
    /\ posts < MaxPosts /\ posts' = posts + 1
    /\ pending' = pending \cup {t}
    /\ shaking' = IF Waiting(t) /\ t \notin pending THEN shaking \cup {t} ELSE shaking
    /\ UNCHANGED <<lock, queue, qsize, qmax, seqno_seed, info, pc, hold, know, listeners, asleep, broken,
                   unlocked>>

\* With the lock taken and released, signal the condition it waits on: for
\* listen_cond that wakes the oldest waiter, whoever was interrupted.
Shake(t) ==
    /\ t \in shaking /\ lock = Nobody
    /\ shaking' = shaking \ {t}
    /\ asleep' = asleep \ {t}
    /\ listeners' = IF t \in Servers /\ listeners # <<>> THEN Tail(listeners) ELSE listeners
    /\ UNCHANGED <<lock, queue, qsize, qmax, seqno_seed, info, pc, hold, know, pending, posts, broken,
                   unlocked>>
=============================================================================
