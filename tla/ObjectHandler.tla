---------------------------- MODULE ObjectHandler ----------------------------
(***************************************************************************)
(* The server loop of the object RPC (lib/us++/rpcmgr.cc): the threads in  *)
(* rpcmgr::_object_handler that receive requests from the port set, invoke *)
(* methods and send replies, and the pool arithmetic of _adjust_threads.   *)
(* Looking an object up is abstracted to whether req_msg->msgh_local_port  *)
(* still names a port; module RemoteObject has the rest.                   *)
(***************************************************************************)
EXTENDS Integers, Sequences, FiniteSets, Functions

CONSTANTS Threads,                              \* the threads that can exist
          min_waiting, max_waiting, \* of start_object_handler
          Limits,    \* its possible max_threads; 0 means no maximum
          Kinds,     \* what clients send: "rpc", "oneway", "unknown" (method)
          MaxReqs,   \* bound on requests
          MaxErrs    \* bound on failing calls of mach_msg

ASSUME PoolAssumption ==
    /\ min_waiting \in Nat /\ max_waiting \in Nat \ {0} /\ Limits \subseteq Nat
    /\ min_waiting <= max_waiting
    /\ Kinds \subseteq {"rpc", "oneway", "unknown"} /\ MaxReqs \in Nat /\ MaxErrs \in Nat
    /\ IsFiniteSet(Threads) /\ Cardinality(Threads) >= MaxReqs + max_waiting

Reqs == 1..MaxReqs

VARIABLES max_threads,  \* set once, by start_object_handler
          threads_waiting, thread_count,
          th,       \* the locals of each thread
          queue,    \* requests on the port set
          kind, status, \* of each request
          errs

vars == <<max_threads, threads_waiting, thread_count, th, queue, kind, status, errs>>

None == [pc |-> "none", new |-> FALSE, send_reply |-> FALSE, rcv_request |-> FALSE,
         failing |-> "no", ret |-> "ok", req |-> 0, local_port |-> FALSE, callee |-> 0]

\* A new thread, already counted as waiting.  sending_failure_notification
\* ("failing") is not initialised.
New == [None EXCEPT !.pc = "top", !.new = TRUE, !.failing = "unset"]

\* start_object_handler
Init == /\ max_threads \in Limits
        /\ threads_waiting = 1 /\ thread_count = 1
        /\ LET t == CHOOSE t \in Threads : TRUE IN
           th = [u \in Threads |-> IF u = t THEN New ELSE None]
        /\ queue = <<>>
        /\ kind = [r \in Reqs |-> "none"] /\ status = [r \in Reqs |-> "unsent"]
        /\ errs = 0

-----------------------------------------------------------------------------
(* _adjust_threads                                                         *)

\* Mutated form: forgets that 0 means "no maximum".
MayForkLimited == thread_count < max_threads

MayFork == thread_count < max_threads \/ max_threads = 0

\* A thread to fork; which one makes no difference.
Unused == CHOOSE u \in Threads : th[u].pc = "none"

\* Mutated form: the new thread is not counted among the waiting.
AdjustUncounted(t, n, next) ==
    LET w == threads_waiting + n IN
    IF w < min_waiting /\ MayFork
    THEN /\ threads_waiting' = w
         /\ thread_count' = thread_count + 1
         /\ th' = [th EXCEPT ![t] = next, ![Unused] = New]
    ELSE /\ threads_waiting' = w
         /\ th' = [th EXCEPT ![t] = next]
         /\ UNCHANGED thread_count

\* The thread goes on as next, after one more was forked if too few wait.
Adjust(t, n, next) ==
    LET w == threads_waiting + n IN
    IF w < min_waiting /\ MayFork
    THEN /\ threads_waiting' = w + 1
         /\ thread_count' = thread_count + 1
         /\ th' = [th EXCEPT ![t] = next, ![Unused] = New]
    ELSE /\ threads_waiting' = w
         /\ th' = [th EXCEPT ![t] = next]
         /\ UNCHANGED thread_count

TooMany(t) == threads_waiting + (IF th[t].new THEN 0 ELSE 1) > max_waiting

\* "Too many waiters and we are one of them": exit, or only send the reply.
AdjustTooMany(t) ==
    /\ th[t].pc = "top"
    /\ TooMany(t)
    /\ threads_waiting' = threads_waiting - (IF th[t].new THEN 1 ELSE 0)
    /\ IF th[t].send_reply
       THEN /\ th' = [th EXCEPT ![t] = [@ EXCEPT !.pc = "send", !.new = FALSE,
                                                 !.rcv_request = FALSE]]
            /\ UNCHANGED thread_count
       ELSE /\ th' = [th EXCEPT ![t] = None]
            /\ thread_count' = thread_count - 1
    /\ UNCHANGED <<queue, kind, status, errs>>

\* "about to wait"
AdjustWait(t) ==
    /\ th[t].pc = "top"
    /\ ~TooMany(t)
    /\ Adjust(t, IF th[t].new THEN 0 ELSE 1,
              [th[t] EXCEPT !.pc = IF th[t].send_reply THEN "send" ELSE "receive",
                            !.new = FALSE, !.rcv_request = TRUE])
    /\ UNCHANGED <<queue, kind, status, errs>>

-----------------------------------------------------------------------------
(* mach_msg                                                                *)

Send(t) ==
    /\ th[t].pc = "send"
    /\ status' = [status EXCEPT ![th[t].req] = "answered"]
    /\ th' = [th EXCEPT ![t].pc = IF th[t].rcv_request THEN "receive" ELSE "dispatch",
                        ![t].ret = "ok"]
    /\ UNCHANGED <<threads_waiting, thread_count, queue, kind, errs>>

\* The client is gone: MACH_SEND_INVALID_DEST and a dead name.
SendDead(t) ==
    /\ th[t].pc = "send"
    /\ errs < MaxErrs
    /\ errs' = errs + 1
    /\ status' = [status EXCEPT ![th[t].req] = "gone"]
    /\ th' = [th EXCEPT ![t].pc = "dispatch", ![t].ret = "send_dead"]
    /\ UNCHANGED <<threads_waiting, thread_count, queue, kind>>

\* Another send error: the client still waits.
SendError(t) ==
    /\ th[t].pc = "send"
    /\ errs < MaxErrs
    /\ errs' = errs + 1
    /\ th' = [th EXCEPT ![t].pc = "dispatch", ![t].ret = "send_error"]
    /\ UNCHANGED <<threads_waiting, thread_count, queue, kind, status>>

Receive(t) ==
    /\ th[t].pc = "receive"
    /\ queue # <<>>
    /\ queue' = Tail(queue)
    /\ status' = [status EXCEPT ![Head(queue)] = "taken"]
    /\ th' = [th EXCEPT ![t].pc = "dispatch", ![t].ret = "ok", ![t].req = Head(queue),
                        ![t].local_port = TRUE]
    /\ UNCHANGED <<threads_waiting, thread_count, kind, errs>>

\* The kernel destroys the request and tells its sender so.
ReceiveError(t) ==
    /\ th[t].pc = "receive"
    /\ queue # <<>>
    /\ errs < MaxErrs
    /\ errs' = errs + 1
    /\ queue' = Tail(queue)
    /\ status' = [status EXCEPT ![Head(queue)] = "destroyed"]
    /\ th' = [th EXCEPT ![t].pc = "dispatch", ![t].ret = "rcv_error"]
    /\ UNCHANGED <<threads_waiting, thread_count, kind>>

-----------------------------------------------------------------------------
(* After mach_msg: no longer waiting, cope with failure, invoke.           *)

IsSendError(ret) == ret = "send_error"

\* Mutated form: send_reply is not reset for the next round.
CopingKeepsReply(t, failing) ==
    LET l == [th[t] EXCEPT !.pc = "top"] IN
    IF l.ret = "ok"
    THEN [l EXCEPT !.failing = "no", !.pc = IF l.rcv_request THEN "invoke" ELSE "top"]
    ELSE IF IsSendError(l.ret)
    THEN IF failing = "yes"
         THEN [l EXCEPT !.failing = "no"]
         ELSE [l EXCEPT !.failing = "yes", !.send_reply = l.local_port]
    ELSE l

\* Where the thread goes and which locals it changes.  After a send error it
\* looks for the object of the request it could not answer.
Coping(t, failing) ==
    LET l == [th[t] EXCEPT !.send_reply = FALSE, !.pc = "top"] IN
    IF l.ret = "ok"
    THEN [l EXCEPT !.failing = "no", !.pc = IF l.rcv_request THEN "invoke" ELSE "top"]
    ELSE IF IsSendError(l.ret)
    THEN IF failing = "yes"
         THEN [l EXCEPT !.failing = "no"]
         ELSE [l EXCEPT !.failing = "yes", !.send_reply = l.local_port]
    ELSE l

\* A thread that was counted as waiting no longer is.
Dispatch(t) ==
    /\ th[t].pc = "dispatch"
    /\ \E failing \in IF th[t].failing = "unset" THEN {"yes", "no"} ELSE {th[t].failing} :
          IF th[t].rcv_request
          THEN Adjust(t, -1, Coping(t, failing))
          ELSE /\ th' = [th EXCEPT ![t] = Coping(t, failing)]
               /\ UNCHANGED <<threads_waiting, thread_count>>
    /\ UNCHANGED <<queue, kind, status, errs>>

\* The method sends a request to this same server and waits for the answer.
Call(t, r) ==
    /\ th[t].pc = "invoke"
    /\ kind[th[t].req] = "rpc"
    /\ status[r] = "unsent" /\ \A q \in Reqs : q < r => status[q] # "unsent"
    /\ kind' = [kind EXCEPT ![r] = "rpc"]
    /\ status' = [status EXCEPT ![r] = "queued"]
    /\ queue' = Append(queue, r)
    /\ th' = [th EXCEPT ![t].pc = "calling", ![t].callee = r]
    /\ UNCHANGED <<threads_waiting, thread_count, errs>>

CallReturns(t) ==
    /\ th[t].pc = "calling"
    /\ status[th[t].callee] \in {"answered", "destroyed"}
    /\ th' = [th EXCEPT ![t].pc = "invoke"]
    /\ UNCHANGED <<threads_waiting, thread_count, queue, kind, status, errs>>

\* _incoming_invoke: a reply is packed only for an rpc.  A request that
\* _msg_unpack refuses leaves send_reply as it was.
Invoke(t) ==
    /\ th[t].pc = "invoke"
    /\ LET k == kind[th[t].req] IN
       /\ th' = [th EXCEPT ![t].pc = "top", ![t].send_reply = (k = "rpc"),
                           ![t].local_port = (k = "unknown")]
       /\ status' = [status EXCEPT ![th[t].req] = IF k = "oneway" THEN "served" ELSE @]
    /\ UNCHANGED <<threads_waiting, thread_count, queue, kind, errs>>

ClientSend(k) ==
    \E r \in Reqs :
        /\ status[r] = "unsent" /\ \A q \in Reqs : q < r => status[q] # "unsent"
        /\ kind' = [kind EXCEPT ![r] = k]
        /\ status' = [status EXCEPT ![r] = "queued"]
        /\ queue' = Append(queue, r)
        /\ UNCHANGED <<threads_waiting, thread_count, th, errs>>

-----------------------------------------------------------------------------
ThreadStep(t) == /\ \/ AdjustTooMany(t) \/ AdjustWait(t) \/ Send(t) \/ Receive(t)
                    \/ Dispatch(t) \/ CallReturns(t) \/ Invoke(t)
                 /\ UNCHANGED max_threads

\* What clients, methods and the kernel choose to do.
Environment == /\ \/ \E t \in Threads : \/ SendDead(t) \/ SendError(t) \/ ReceiveError(t)
                                        \/ \E r \in Reqs : Call(t, r)
                  \/ \E k \in Kinds : ClientSend(k)
               /\ UNCHANGED max_threads

Next == Environment \/ \E t \in Threads : ThreadStep(t)

Spec == Init /\ [][Next]_vars

\* Every thread that can run does, and every method returns.
Fairness == \A t \in Threads : WF_vars(ThreadStep(t))

FairSpec == Spec /\ Fairness

-----------------------------------------------------------------------------
(* Properties.                                                             *)

\* With these locals a thread receives, or will before it does anything else.
IsWaiting(l) == \/ l.pc = "top" /\ l.new
                \/ l.pc \in {"send", "receive", "dispatch"} /\ l.rcv_request

Waiting == {t \in Threads : IsWaiting(th[t])}

Live == {t \in Threads : th[t].pc # "none"}

Statuses == {"unsent", "queued", "taken", "answered", "served", "gone", "destroyed"}

LocalType ==
    [pc : {"none", "top", "send", "receive", "dispatch", "invoke", "calling"}, new : BOOLEAN,
     send_reply : BOOLEAN, rcv_request : BOOLEAN, failing : {"yes", "no", "unset"},
     ret : {"ok", "send_dead", "send_error", "rcv_error"},
     req : 0..MaxReqs, local_port : BOOLEAN, callee : 0..MaxReqs]

\* Type invariant of the pool's counters, the threads' locals and the requests.
TypeOK ==
    /\ max_threads \in Limits
    /\ threads_waiting \in Nat /\ thread_count \in 0..Cardinality(Threads)
    /\ th \in [Threads -> LocalType]
    /\ queue \in Seq(Reqs)
    /\ kind \in [Reqs -> {"none", "rpc", "oneway", "unknown"}]
    /\ status \in [Reqs -> Statuses]
    /\ errs \in 0..MaxErrs

\* The counters on which threads are forked and retired are exact, although a
\* thread is counted as waiting before it exists, may only send, and may come
\* back from mach_msg with an error.
PoolExact == threads_waiting = Cardinality(Waiting) /\ thread_count = Cardinality(Live)

\* Never more threads wait than max_waiting or exist than max_threads.
PoolBounded == /\ threads_waiting <= max_waiting
               /\ max_threads # 0 => thread_count <= max_threads

\* With min_waiting > 0 some thread is on its way to the port set, whatever
\* the others are blocked in, unless the pool has max_threads threads.
NeverAllBusy == min_waiting > 0 =>
                    Waiting # {} \/ (max_threads # 0 /\ Cardinality(Live) = max_threads)

\* sending_failure_notification is never read before it is set.
FailingSetBeforeRead ==
    \A t \in Threads : th[t].pc = "dispatch" /\ IsSendError(th[t].ret) => th[t].failing # "unset"

\* A reply goes to the request the thread has in hand, and only once.
ReplyOnce == \A t \in Threads :
    th[t].pc = "send" => /\ status[th[t].req] = "taken" /\ kind[th[t].req] = "rpc"
                         /\ \A u \in Threads \ {t} :
                               th[u].pc \in {"send", "invoke", "calling"} => th[u].req # th[t].req

\* Without a limit on threads every request is received, even if every method
\* in progress waits for another request to the same server.
EveryRequestReceived ==
    \A r \in Reqs : (max_threads = 0 /\ status[r] = "queued") ~> status[r] # "queued"

\* The pool: its counters are exact and within their limits, and leave a thread
\* for the next request.
PoolSound == TypeOK /\ PoolExact /\ PoolBounded /\ NeverAllBusy

\* The two buffers and the flags of a thread, over errors of either half of
\* mach_msg: what is sent answers the request in hand.
ReplySound == ReplyOnce /\ FailingSetBeforeRead
==============================================================================
