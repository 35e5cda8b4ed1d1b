------------------------------ MODULE PipeNet ------------------------------
(***************************************************************************)
(* A pipe from connection to disconnection: the connector (PipeConnector)  *)
(* makes the endpoints (PipeEndpoint) in net_accept, and the two sides use *)
(* them once net_connect and net_accept have returned.                     *)
(***************************************************************************)
EXTENDS PipeConnector, PipeEndpoint

vars == <<connvars, epvars>>

ConnStep ==
    \/ \E n \in Conns : \/ connect_upcall(n) \/ SignalListen(n) \/ Relock(n)
                        \/ ToWait(n) \/ Woken(n)
    \/ \E s \in Servers : \/ Listen(s) \/ ListenWoken(s) \/ NotFound(s) \/ Accept(s)
                          \/ MakeAgent(s) \/ Answer(s) \/ net_reject(s)
    \/ \E t \in Takers : WakeActive(t)
    \/ \E q \in Qmaxes : SetQmax(q)
    \/ Trim \/ TrimRefuse \/ TrimMark
    \/ \E t \in Interruptible : Post(t) \/ Shake(t)

\* The endpoints are made where the connector sets up the connection.
SetupPair(s) ==
    /\ Setup(s)
    /\ ep' = IF info'[hold[s]].endpts /\ hold[s] \in Pairs
             THEN [ep EXCEPT ![hold[s]] = [x \in Sides |-> NewEndpoint]] ELSE ep
    /\ UNCHANGED <<dis, disconnects>>

\* Each side has its endpoint when its call has returned it.
Has(n, x) == IF x = "active" THEN pc[n] = "connected"
             ELSE info[n].state = "ACCEPTED"

Init == ConnInit /\ EpInit


Next == \/ ConnStep /\ UNCHANGED epvars
        \/ \E s \in Servers : SetupPair(s)
        \/ \E n \in Pairs, x \in Sides : /\ (Has(n, x) /\ net_snddis(n, x)) \/ Disconnecting(n, x)
                                         /\ UNCHANGED connvars

Spec == Init /\ [][Next]_vars

-----------------------------------------------------------------------------
(* Properties                                                              *)

States == {"INITIAL", "LISTENING", "ACCEPTING", "ACCEPTED", "REJECTED"}
Errors == {"none", "NOT_STARTED", "SUCCESS", "REFUSED", "FAILED", "EXCEPT"}

\* Every variable has its type.
TypeOK ==
    /\ lock \in Conns \cup {Nobody} /\ queue \in Seq(Conns)
    /\ qsize \in Int /\ qmax \in Int /\ seqno_seed \in Nat \ {0}
    /\ info \in [Conns -> [seqno : Nat, state : States, error : Errors, endpts : BOOLEAN]]
    /\ pc \in [Conns \cup Takers -> {"idle", "signal", "relock", "towait", "waiting", "done", "connected",
                  "listening", "accepting", "created", "succeeded", "failed", "wake",
                  "trim", "refuse", "refused"}]
    /\ hold \in [Takers -> Conns \cup {Nobody}] /\ know \in [Servers -> Nat]
    /\ listeners \in Seq(Servers) /\ asleep \subseteq Conns
    /\ pending \cup shaking \subseteq Conns \cup Servers /\ posts \in 0..MaxPosts
    /\ broken \in BOOLEAN /\ unlocked \subseteq Conns
    /\ ep \in [Pairs -> [Sides -> [costate : {"NONE", "CONNECTED", "DISCONNECTED"},
                  read : SUBSET Stream, write : SUBSET Stream, peer : BOOLEAN]]]
    /\ disconnects \in 0..MaxDisconnects

\* Where a taker has a record that it has not answered.
Working == {"accepting", "created", "succeeded", "failed", "refuse"}

\* Who has request n in hand.
Holders(n) == {t \in Takers : hold[t] = n}

\* A request that has no answer is in exactly one place: in the queue, once,
\* or with the one thread that took it off, so that two servers that were
\* shown it cannot both answer it; and qsize counts the queue.  It stops being
\* so when net_connect is interrupted after its request left the queue.
Custody ==
    ~broken =>
    /\ qsize = Len(queue)
    /\ \A n \in Conns :
         /\ Cardinality({i \in DOMAIN queue : queue[i] = n}) + Cardinality(Holders(n)) <= 1
         /\ info[n].error = "NOT_STARTED" /\ n \notin unlocked =>
                Contains(queue, n) \/ Holders(n) # {}

\* Never more requests than the limit allows, except while
\* net_set_connect_qmax is refusing the excess.
QueueBounded == pc[Admin] = "idle" /\ ~broken => Len(queue) <= qmax

\* The record lies in the stack frame of net_connect: until a server or the
\* connector's owner has written the answer into it, that call has not returned.
\* It is not said of what they do to the record afterwards: net_connect may see
\* the answer and return before net_set_connect_qmax has written the state, and
\* before any of them signals the condition in the record (pc "refused", "wake").
AnsweredAlive ==
    ~broken => \A t \in Takers : pc[t] \in Working => pc[hold[t]] \notin {"done", "connected"}

\* "At this point, we know that the connection is accepted, and both endpoints
\* have been created": net_connect succeeds only when net_accept did.
ConnectedBoth ==
    \A n \in Conns : pc[n] = "connected" =>
        info[n].endpts /\ info[n].state = "ACCEPTED"

\* No answer is lost: while net_connect sleeps on an answered request, a signal
\* is on the way, although the answer is recorded before net_connect waits or
\* after.  Answers given without the lock are another matter.
NoLostAnswer ==
    ~broken => \A n \in asleep \ unlocked :
        info[n].error # "NOT_STARTED" => \E t \in Holders(n) : pc[t] = "wake"

Quiet(n) == \A x \in Sides : dis[n][x] \in {"no", "failed", "done"}

\* Once a disconnection has run its course, whichever end began it and even if
\* both did, neither end is connected, nobody can write into the pipe and
\* nobody can wait for data.
NobodyWaits ==
    \A n \in Pairs : Quiet(n) /\ (\E x \in Sides : ep[n][x].costate = "DISCONNECTED") =>
        \A x \in Sides : /\ ep[n][x].costate = "DISCONNECTED"
                         /\ "WAIT_ALLOWED" \notin ep[n][x].read
                         /\ "ENABLED" \notin ep[n][x].write

\* The connector implements the rendezvous: whatever the threads do without the
\* lock, requests are taken in order and each answer is given once, is never
\* changed, and is what net_connect returns unless it is interrupted first.
Abs == INSTANCE Rendezvous
         WITH Calls <- Conns, waiting <- queue,
              asked <- {n \in Conns : pc[n] # "idle"},
              taken <- {n \in Conns : \E t \in Takers : hold[t] = n /\ pc[t] \in Working},
              answer <- [n \in Conns |-> IF info[n].error \in {"SUCCESS", "REFUSED", "FAILED"}
                                        THEN info[n].error ELSE "none"],
              result <- [n \in Conns |-> IF pc[n] = "connected" THEN "connected"
                                        ELSE IF pc[n] = "done" THEN "failed" ELSE "none"]
AbsSpec == Abs!Spec

\* A request, from the queue to the server that answers it.
RequestSound == TypeOK /\ Custody /\ QueueBounded /\ AnsweredAlive

\* Its answer: net_connect learns it, and it is true.
AnswerSound == ConnectedBoth /\ NoLostAnswer
=============================================================================
