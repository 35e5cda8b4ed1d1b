---------------------------- MODULE PipeNetProofs ----------------------------
(***************************************************************************)
(* Proofs about PipeNet: the custody of connection requests, the answers   *)
(* net_connect gets, the disconnection of the two endpoints, and that the  *)
(* connector implements Rendezvous.                                        *)
(***************************************************************************)
EXTENDS PipeNet, FiniteSetTheorems, SequenceTheorems, TLAPS

-----------------------------------------------------------------------------
(* The inductive invariant                                                 *)

\* A request that was queued and has not been given up: net_connect is past
\* its upcall's first section and has not returned.
Pending == {"signal", "relock", "towait", "waiting"}

\* The requests on a queue, and a queue on which none is twice.
On(q) == {q[i] : i \in 1..Len(q)}
Distinct(q) == \A i, j \in 1..Len(q) : q[i] = q[j] => i = j

\* How far net_snddis can be.
DisType == dis \in [Pairs -> [Sides -> {"no", "call", "failed", "upwrite", "upread", "uppeer",
                                        "state", "read", "write", "done"}]]

\* Who is where: the labels of each kind of thread, and a taker holds a record
\* exactly where its code has one in hand.
Places == /\ \A n \in Conns : pc[n] \in Pending \cup {"idle", "done", "connected"}
          /\ \A t \in Takers : pc[t] \in Working \cup {"refused", "wake"} <=> hold[t] # Nobody
          /\ \A n \in asleep : pc[n] = "waiting"

\* A request is on the queue once, or with one taker, or neither.
Once == /\ Distinct(queue)
        /\ \A t, u \in Takers : hold[t] = hold[u] /\ hold[t] # Nobody => t = u
        /\ \A t \in Takers : hold[t] \notin On(queue)

\* A call that has not started has left no trace.
Unstarted == \A n \in Conns : pc[n] = "idle" =>
                n \notin On(queue) /\ \A t \in Takers : hold[t] # n

\* A queued request has no answer, and its call waits for one.
QueuedOpen == \A n \in On(queue) : pc[n] \in Pending /\ info[n].error = "NOT_STARTED"

\* A record in hand has no answer but the one an interrupted call wrote itself.
HeldOpen == \A t \in Takers : pc[t] \in Working =>
                /\ info[hold[t]].error \in {"NOT_STARTED", "EXCEPT"}
                /\ ~broken => pc[hold[t]] \in Pending /\ info[hold[t]].error = "NOT_STARTED"

\* The record is answered before its call is woken.
Answered == \A t \in Takers : /\ pc[t] = "wake" => info[hold[t]].error # "NOT_STARTED"
                              /\ pc[t] = "refused" => info[hold[t]].error = "REFUSED"

\* Success is told only of a connection that was made.
MadeFirst == /\ \A t \in Takers : pc[t] \in {"created", "succeeded"} => info[hold[t]].endpts
             /\ \A n \in Conns : /\ info[n].error = "SUCCESS" => info[n].endpts /\ info[n].state = "ACCEPTED"
                                 /\ pc[n] = "connected" => info[n].error = "SUCCESS"

\* Until a lock is released by one that does not hold it, net_connect has it
\* exactly between the test of its loop and its wait, so that an answer given
\* with the lock is not given there.
Locked == ~broken => \A n \in Conns :
             /\ pc[n] = "towait" <=> lock = n
             /\ pc[n] = "towait" /\ n \notin unlocked => info[n].error = "NOT_STARTED"

\* The custody of Custody without its counts.
Accounted == \A n \in Conns : info[n].error = "NOT_STARTED" /\ n \notin unlocked =>
                n \in On(queue) \/ \E t \in Takers : hold[t] = n

QueueCounted == ~broken => qsize = Len(queue)

\* Nothing is done to the endpoints of a connection before it is set up.
Unborn == \A n \in Pairs \cap Conns :
            \/ pc[n] = "idle"
            \/ n \in On(queue)
            \/ \E s \in Takers : hold[s] = n /\ pc[s] = "accepting"
            => \A x \in Sides : ep[n][x].costate = "NONE" /\ dis[n][x] = "no"

\* How far net_snddis is on one end, and what it has done to each of the two.
Told     == {"upwrite", "upread", "uppeer", "state", "read", "write", "done"}
Severed == \A n \in Pairs, x \in Sides :
    LET own == ep[n][x]
        far == ep[n][Other(x)]
        at  == dis[n][x]
    IN /\ at \in Told => far.costate = "DISCONNECTED"
       /\ at \in Told \ {"upwrite"} => far.write = {}
       /\ at \in Told \ {"upwrite", "upread"} => "WAIT_ALLOWED" \notin far.read
       /\ at \in {"read", "write", "done"} => own.costate = "DISCONNECTED"
       /\ at \in {"write", "done"} => "WAIT_ALLOWED" \notin own.read
       /\ at = "done" => own.write = {}
       /\ own.costate = "DISCONNECTED" =>
             at \in {"read", "write", "done"} \/ dis[n][Other(x)] \in Told

\* The connector's part.
ConnInv == /\ Places /\ Once /\ Unstarted /\ QueuedOpen /\ HeldOpen /\ Answered /\ MadeFirst
           /\ Locked /\ Accounted /\ QueueCounted /\ QueueBounded /\ NoLostAnswer /\ Unborn

IInv == TypeOK /\ DisType /\ ConnInv /\ Severed

-----------------------------------------------------------------------------
(* Operators on the queue                                                  *)

\* dll_remove of a request that is on the queue: one shorter, and the others
\* keep their order.
LEMMA RemoveFirstAt ==
    ASSUME NEW S, NEW q \in Seq(S), Distinct(q), NEW k \in 1..Len(q)
    PROVE  /\ RemoveFirst(q, q[k]) \in Seq(S)
           /\ Len(RemoveFirst(q, q[k])) = Len(q) - 1
           /\ \A i \in 1..(Len(q) - 1) :
                 RemoveFirst(q, q[k])[i] = IF i < k THEN q[i] ELSE q[i + 1]
<1> DEFINE e == q[k]
           I == {i \in 1..Len(q) : q[i] = e}
<1>1. Len(q) \in Nat /\ k \in Nat
  OBVIOUS
<1>2. I = {k}
  BY DEF Distinct
<1>3. Min(I) = k
  <2>1. /\ k \in I
        /\ \A y \in I : k <= y
        /\ \A x \in I : x = k
    BY <1>1, <1>2
  <2> HIDE DEF I
  <2> QED
    BY <2>1 DEF Min
<1>4. SelectInSeq(q, LAMBDA v : v = e) = k
  BY <1>2, <1>3 DEF SelectInSeq
<1>5. RemoveFirst(q, e) = RemoveAt(q, k)
  BY <1>4 DEF RemoveFirst
<1>6. RemoveAt(q, k) = SubSeq(q, 1, k - 1) \o SubSeq(q, k + 1, Len(q))
  BY DEF RemoveAt
<1> HIDE DEF e, I
<1>7. PICK a : a = SubSeq(q, 1, k - 1)
  OBVIOUS
<1>8. PICK b : b = SubSeq(q, k + 1, Len(q))
  OBVIOUS
<1>9. a \in Seq(S) /\ Len(a) = k - 1 /\ \A i \in 1..(k - 1) : a[i] = q[i]
  BY <1>1, <1>7
<1>10. b \in Seq(S) /\ Len(b) = Len(q) - k /\ \A i \in 1..(Len(q) - k) : b[i] = q[k + i]
  BY <1>1, <1>8
<1>11. RemoveFirst(q, e) = a \o b
  BY <1>5, <1>6, <1>7, <1>8
<1>12. a \o b \in Seq(S) /\ Len(a \o b) = Len(q) - 1
  <2>1. a \o b \in Seq(S) /\ Len(a \o b) = Len(a) + Len(b)
    BY <1>9, <1>10, ConcatProperties
  <2> QED
    BY <2>1, <1>1, <1>9, <1>10
<1>13. \A i \in 1..(Len(q) - 1) : (a \o b)[i] = IF i < k THEN q[i] ELSE q[i + 1]
  <2> TAKE i \in 1..(Len(q) - 1)
  <2>1. CASE i < k
    BY <2>1, <1>1, <1>9, <1>10
  <2>2. CASE ~(i < k)
    <3>1. (a \o b)[i] = b[i - Len(a)]
      BY <2>2, <1>1, <1>9, <1>10
    <3>2. i - Len(a) \in 1..(Len(q) - k) /\ k + (i - Len(a)) = i + 1
      BY <2>2, <1>1, <1>9
    <3> QED
      BY <3>1, <3>2, <1>10, <2>2
  <2> QED
    BY <2>1, <2>2
<1> QED
  BY <1>11, <1>12, <1>13 DEF e

\* The queue after dll_enter of a request that is not on it.
LEMMA QueueEnter ==
    ASSUME NEW S, NEW q \in Seq(S), Distinct(q), NEW e \in S \ On(q)
    PROVE  /\ Append(q, e) \in Seq(S) /\ Distinct(Append(q, e))
           /\ Len(Append(q, e)) = Len(q) + 1 /\ On(Append(q, e)) = On(q) \cup {e}
<1>1. Len(q) \in Nat /\ \A i \in 1..Len(q) : q[i] # e
  BY DEF On
<1>2. PICK r : r = Append(q, e)
  OBVIOUS
<1>3. /\ r \in Seq(S) /\ Len(r) = Len(q) + 1 /\ r[Len(q) + 1] = e
      /\ \A i \in 1..Len(q) : r[i] = q[i]
  BY <1>2
<1>4. Distinct(r)
  BY <1>1, <1>3 DEF Distinct
<1>5. On(r) = On(q) \cup {e}
  BY <1>1, <1>3 DEF On
<1> QED
  BY <1>2, <1>3, <1>4, <1>5

\* The queue after its first request was taken off.
LEMMA QueueTake ==
    ASSUME NEW S, NEW q \in Seq(S), Distinct(q), q # <<>>
    PROVE  /\ Tail(q) \in Seq(S) /\ Distinct(Tail(q)) /\ Len(Tail(q)) = Len(q) - 1
           /\ Head(q) \in On(q) /\ Head(q) \in S /\ On(Tail(q)) = On(q) \ {Head(q)}
<1>1. Len(q) \in Nat \ {0} /\ Head(q) = q[1]
  OBVIOUS
<1>2. PICK r : r = Tail(q)
  OBVIOUS
<1>3. /\ r \in Seq(S) /\ Len(r) = Len(q) - 1
      /\ \A i \in 1..(Len(q) - 1) : r[i] = q[i + 1]
  BY <1>1, <1>2
<1>4. Distinct(r)
  BY <1>1, <1>3 DEF Distinct
<1>5. Head(q) \in On(q) /\ Head(q) \in S
  BY <1>1 DEF On
<1>6. On(r) = On(q) \ {Head(q)}
  <2>1. ASSUME NEW a \in On(r) PROVE a \in On(q) \ {Head(q)}
    <3>1. PICK i \in 1..Len(r) : a = r[i]
      BY <2>1 DEF On
    <3>2. i + 1 \in 1..Len(q) /\ a = q[i + 1] /\ i + 1 # 1
      BY <3>1, <1>1, <1>3
    <3> QED
      BY <3>2, <1>1 DEF On, Distinct
  <2>2. ASSUME NEW a \in On(q) \ {Head(q)} PROVE a \in On(r)
    <3>1. PICK i \in 1..Len(q) : a = q[i]
      BY <2>2 DEF On
    <3>2. i - 1 \in 1..Len(r) /\ r[i - 1] = q[(i - 1) + 1] /\ (i - 1) + 1 = i
      BY <3>1, <1>1, <1>3
    <3> QED
      BY <3>1, <3>2 DEF On
  <2> QED
    BY <2>1, <2>2
<1> QED
  BY <1>2, <1>3, <1>4, <1>5, <1>6

\* The queue after dll_remove.  A request that is not on it leaves the queue of
\* the model as it is.
LEMMA QueueRemove ==
    ASSUME NEW S, NEW q \in Seq(S), Distinct(q), NEW e
    PROVE  /\ RemoveFirst(q, e) \in Seq(S) /\ Distinct(RemoveFirst(q, e))
           /\ On(RemoveFirst(q, e)) = On(q) \ {e}
           /\ Len(RemoveFirst(q, e)) = IF e \in On(q) THEN Len(q) - 1 ELSE Len(q)
<1>1. Len(q) \in Nat
  OBVIOUS
<1>2. CASE e \notin On(q)
  <2>1. RemoveFirst(q, e) = q
    BY <1>2 DEF RemoveFirst, On
  <2> QED
    BY <2>1, <1>2
<1>3. CASE e \in On(q)
  <2>1. PICK k \in 1..Len(q) : e = q[k]
    BY <1>3 DEF On
  <2>2. PICK r : r = RemoveFirst(q, e)
    OBVIOUS
  <2>3. /\ r \in Seq(S) /\ Len(r) = Len(q) - 1
        /\ \A i \in 1..(Len(q) - 1) : r[i] = IF i < k THEN q[i] ELSE q[i + 1]
    BY <2>1, <2>2, RemoveFirstAt
  <2>4. Distinct(r)
    <3> SUFFICES ASSUME NEW i \in 1..Len(r), NEW j \in 1..Len(r), r[i] = r[j] PROVE i = j
      BY DEF Distinct
    <3>1. PICK a \in 1..Len(q) : r[i] = q[a] /\ a = IF i < k THEN i ELSE i + 1
      BY <2>3, <1>1
    <3>2. PICK b \in 1..Len(q) : r[j] = q[b] /\ b = IF j < k THEN j ELSE j + 1
      BY <2>3, <1>1
    <3>3. a = b
      BY <3>1, <3>2 DEF Distinct
    <3> QED
      BY <3>1, <3>2, <3>3, <1>1, <2>3
  <2>5. On(r) = On(q) \ {e}
    <3>1. ASSUME NEW a \in On(r) PROVE a \in On(q) \ {e}
      <4>1. PICK i \in 1..Len(r) : a = r[i]
        BY <3>1 DEF On
      <4>2. PICK b \in 1..Len(q) : r[i] = q[b] /\ b # k
        BY <4>1, <2>3, <1>1
      <4> QED
        BY <4>1, <4>2, <2>1 DEF On, Distinct
    <3>2. ASSUME NEW a \in On(q) \ {e} PROVE a \in On(r)
      <4>1. PICK i \in 1..Len(q) : a = q[i]
        BY <3>2 DEF On
      <4>2. i # k
        BY <4>1, <2>1
      <4>3. CASE i < k
        <5>1. i \in 1..Len(r) /\ r[i] = q[i]
          BY <4>3, <2>3, <1>1
        <5> QED
          BY <5>1, <4>1 DEF On
      <4>4. CASE i > k
        <5>1. i - 1 \in 1..Len(r) /\ r[i - 1] = q[(i - 1) + 1] /\ (i - 1) + 1 = i
          BY <4>4, <2>3, <1>1
        <5> QED
          BY <5>1, <4>1 DEF On
      <4> QED
        BY <4>2, <4>3, <4>4
    <3> QED
      BY <3>1, <3>2
  <2> QED
    BY <1>3, <2>2, <2>3, <2>4, <2>5
<1> QED
  BY <1>2, <1>3

-----------------------------------------------------------------------------
(* The connector                                                           *)

Labels == {"idle", "signal", "relock", "towait", "waiting", "done", "connected",
           "listening", "accepting", "created", "succeeded", "failed", "wake",
           "trim", "refuse", "refused"}
Record == [seqno : Nat, state : States, error : Errors, endpts : BOOLEAN]

\* The types the connector's steps rest on.
ConnTypes ==
    /\ pc \in [Conns \cup Takers -> Labels] /\ hold \in [Takers -> Conns \cup {Nobody}]
    /\ info \in [Conns -> Record] /\ asleep \subseteq Conns /\ unlocked \subseteq Conns
    /\ lock \in Conns \cup {Nobody} /\ On(queue) \subseteq Conns /\ broken \in BOOLEAN
    /\ Conns \cap Takers = {} /\ Nobody \notin Conns /\ Admin \in Takers /\ Admin \notin Servers

\* They follow from the type invariant and the names of the threads.
LEMMA ConnTypesHold ==
    ASSUME TypeOK
    PROVE  ConnTypes
<1>1. On(queue) \subseteq Conns
  BY DEF TypeOK, On
<1>2. Conns \cap Takers = {} /\ Nobody \notin Conns /\ Admin \in Takers /\ Admin \notin Servers
  BY ConnectorAssumption DEF Takers, Admin
<1> QED
  BY <1>1, <1>2 DEF TypeOK, ConnTypes, Labels, Record

\* The test of the loop of pipenet_connect_upcall: on to the wait, or the call
\* returns with its answer.
LEMMA LoopTestStep ==
    ASSUME ConnTypes, ConnInv, NEW n \in Conns, LoopTest(n),
           pc[n] \in {"relock", "towait", "waiting"}, n \notin asleep,
           pc[n] = "towait" \/ lock = Nobody,
           UNCHANGED <<queue, qsize, qmax, info, hold, asleep, broken, unlocked, ep, dis>>
    PROVE  ConnInv'
<1>1. CASE info[n].error = "NOT_STARTED" /\ lock' = n /\ Goto(n, "towait")
  <2>1. Places'
    BY <1>1 DEF ConnInv, Places, ConnTypes, Goto, Pending, Working
  <2>2. Once'
    BY <1>1 DEF ConnInv, Once, ConnTypes
  <2>3. Unstarted'
    BY <1>1 DEF ConnInv, Unstarted, ConnTypes, Goto
  <2>4. QueuedOpen'
    BY <1>1 DEF ConnInv, QueuedOpen, ConnTypes, Goto, Pending
  <2>5. HeldOpen'
    BY <1>1 DEF ConnInv, HeldOpen, ConnTypes, Goto, Pending, Working
  <2>6. Answered'
    BY <1>1 DEF ConnInv, Answered, ConnTypes, Goto
  <2>7. MadeFirst'
    BY <1>1 DEF ConnInv, MadeFirst, ConnTypes, Goto
  <2>8. Locked'
    BY <1>1 DEF ConnInv, Locked, ConnTypes, Goto
  <2>9. Accounted'
    BY <1>1 DEF ConnInv, Accounted, ConnTypes
  <2>10. QueueCounted' /\ QueueBounded'
    BY <1>1 DEF ConnInv, QueueCounted, QueueBounded, ConnTypes, Goto
  <2>11. NoLostAnswer'
    BY <1>1 DEF ConnInv, NoLostAnswer, Holders, ConnTypes, Goto
  <2>12. Unborn'
    BY <1>1 DEF ConnInv, Unborn, ConnTypes, Goto
  <2> QED
    BY <2>1, <2>2, <2>3, <2>4, <2>5, <2>6, <2>7, <2>8, <2>9, <2>10, <2>11, <2>12 DEF ConnInv
<1>2. CASE /\ info[n].error # "NOT_STARTED" /\ lock' = Nobody
           /\ Goto(n, IF info[n].error = "SUCCESS" THEN "connected" ELSE "done")
  <2>1. Places'
    BY <1>2 DEF ConnInv, Places, ConnTypes, Goto, Pending, Working
  <2>2. Once'
    BY <1>2 DEF ConnInv, Once, ConnTypes
  <2>3. Unstarted'
    BY <1>2 DEF ConnInv, Unstarted, ConnTypes, Goto
  <2>4. QueuedOpen'
    BY <1>2 DEF ConnInv, QueuedOpen, ConnTypes, Goto, Pending
  <2>5. HeldOpen'
    BY <1>2 DEF ConnInv, HeldOpen, ConnTypes, Goto, Pending, Working
  <2>6. Answered'
    BY <1>2 DEF ConnInv, Answered, ConnTypes, Goto
  <2>7. MadeFirst'
    BY <1>2 DEF ConnInv, MadeFirst, ConnTypes, Goto
  <2>8. Locked'
    BY <1>2 DEF ConnInv, Locked, ConnTypes, Goto
  <2>9. Accounted'
    BY <1>2 DEF ConnInv, Accounted, ConnTypes
  <2>10. QueueCounted' /\ QueueBounded'
    BY <1>2 DEF ConnInv, QueueCounted, QueueBounded, ConnTypes, Goto
  <2>11. NoLostAnswer'
    BY <1>2 DEF ConnInv, NoLostAnswer, Holders, ConnTypes, Goto
  <2>12. Unborn'
    BY <1>2 DEF ConnInv, Unborn, ConnTypes, Goto
  <2> QED
    BY <2>1, <2>2, <2>3, <2>4, <2>5, <2>6, <2>7, <2>8, <2>9, <2>10, <2>11, <2>12 DEF ConnInv
<1> QED
  BY <1>1, <1>2 DEF LoopTest

\* A thread that goes on without touching a request, its answer or the lock.
LEMMA AsideStep ==
    ASSUME ConnTypes, ConnInv, NEW t \in Conns \cup Takers, NEW l,
           \/ pc' = pc
           \/ t \in Conns /\ pc[t] = "signal" /\ l = "relock" /\ Goto(t, l)
           \/ t \in Servers /\ {pc[t], l} \subseteq {"idle", "listening"} /\ Goto(t, l),
           asleep' \subseteq asleep,
           UNCHANGED <<lock, queue, qsize, qmax, info, hold, broken, unlocked, ep, dis>>
    PROVE  ConnInv'
<1>1. CASE pc' = pc
  BY <1>1 DEF ConnInv, Places, Once, Unstarted, QueuedOpen, HeldOpen, Answered, MadeFirst, Locked, Accounted,
       QueueCounted, QueueBounded, NoLostAnswer, Holders, Unborn
<1>2. CASE t \in Conns /\ pc[t] = "signal" /\ l = "relock" /\ Goto(t, l)
  <2>1. Places'
    BY <1>2 DEF ConnInv, Places, Pending, Working, ConnTypes, Goto
  <2>2. Once'
    BY <1>2 DEF ConnInv, Once, ConnTypes, Goto
  <2>3. Unstarted'
    BY <1>2 DEF ConnInv, Unstarted, ConnTypes, Goto
  <2>4. QueuedOpen'
    BY <1>2 DEF ConnInv, QueuedOpen, Pending, ConnTypes, Goto
  <2>5. HeldOpen'
    BY <1>2 DEF ConnInv, HeldOpen, Places, Pending, Working, ConnTypes, Goto
  <2>6. Answered'
    BY <1>2 DEF ConnInv, Answered, Places, Working, ConnTypes, Goto
  <2>7. MadeFirst'
    BY <1>2 DEF ConnInv, MadeFirst, Places, Working, ConnTypes, Goto
  <2>8. Locked'
    BY <1>2 DEF ConnInv, Locked, ConnTypes, Goto
  <2>9. Accounted'
    BY <1>2 DEF ConnInv, Accounted, ConnTypes, Goto
  <2>10. QueueCounted' /\ QueueBounded'
    BY <1>2 DEF ConnInv, QueueCounted, QueueBounded, ConnTypes, Goto
  <2>11. NoLostAnswer'
    BY <1>2 DEF ConnInv, NoLostAnswer, Holders, Places, ConnTypes, Goto
  <2>12. Unborn'
    BY <1>2 DEF ConnInv, Unborn, ConnTypes, Goto
  <2> QED
    BY <2>1, <2>2, <2>3, <2>4, <2>5, <2>6, <2>7, <2>8, <2>9, <2>10, <2>11, <2>12 DEF ConnInv
<1>3. CASE t \in Servers /\ {pc[t], l} \subseteq {"idle", "listening"} /\ Goto(t, l)
  <2>0. t \in Takers /\ t # Admin
    BY <1>3 DEF ConnTypes, Takers
  <2>1. Places'
    BY <1>3, <2>0 DEF ConnInv, Places, Pending, Working, ConnTypes, Goto
  <2>2. Once'
    BY <1>3, <2>0 DEF ConnInv, Once, ConnTypes, Goto
  <2>3. Unstarted'
    BY <1>3, <2>0 DEF ConnInv, Unstarted, ConnTypes, Goto
  <2>4. QueuedOpen'
    BY <1>3, <2>0 DEF ConnInv, QueuedOpen, Pending, ConnTypes, Goto
  <2>5. HeldOpen'
    BY <1>3, <2>0 DEF ConnInv, HeldOpen, Places, Pending, Working, ConnTypes, Goto
  <2>6. Answered'
    BY <1>3, <2>0 DEF ConnInv, Answered, Places, Working, ConnTypes, Goto
  <2>7. MadeFirst'
    BY <1>3, <2>0 DEF ConnInv, MadeFirst, Places, Working, ConnTypes, Goto
  <2>8. Locked'
    BY <1>3, <2>0 DEF ConnInv, Locked, ConnTypes, Goto
  <2>9. Accounted'
    BY <1>3, <2>0 DEF ConnInv, Accounted, ConnTypes, Goto
  <2>10. QueueCounted' /\ QueueBounded'
    BY <1>3, <2>0 DEF ConnInv, QueueCounted, QueueBounded, ConnTypes, Goto
  <2>11. NoLostAnswer'
    BY <1>3, <2>0 DEF ConnInv, NoLostAnswer, Holders, Places, ConnTypes, Goto
  <2>12. Unborn'
    BY <1>3, <2>0 DEF ConnInv, Unborn, ConnTypes, Goto
  <2> QED
    BY <2>1, <2>2, <2>3, <2>4, <2>5, <2>6, <2>7, <2>8, <2>9, <2>10, <2>11, <2>12 DEF ConnInv
<1> QED
  BY <1>1, <1>2, <1>3

\* Only the record of n changes.
OnlyInfo(n) == \A m \in Conns : m # n => info'[m] = info[m]

\* The upcall refuses a request.
LEMMA RefuseStep ==
    ASSUME ConnTypes, ConnInv, NEW n \in Conns, pc[n] = "idle",
           OnlyInfo(n), info'[n].error = "REFUSED", Goto(n, "done"),
           UNCHANGED <<lock, queue, qsize, qmax, hold, asleep, broken, unlocked, ep, dis>>
    PROVE  ConnInv'
<1>0. n \notin On(queue) /\ \A t \in Takers : hold[t] # n
  BY DEF ConnInv, Unstarted
<1>1. Places'
  BY <1>0 DEF ConnInv, Places, Pending, Working, ConnTypes, Goto, OnlyInfo
<1>2. Once'
  BY <1>0 DEF ConnInv, Once, ConnTypes, Goto, OnlyInfo
<1>3. Unstarted'
  BY <1>0 DEF ConnInv, Unstarted, ConnTypes, Goto, OnlyInfo
<1>4. QueuedOpen'
  BY <1>0 DEF ConnInv, QueuedOpen, Pending, ConnTypes, Goto, OnlyInfo
<1>5. HeldOpen'
  BY <1>0 DEF ConnInv, HeldOpen, Places, Pending, Working, ConnTypes, Goto, OnlyInfo
<1>6. Answered'
  BY <1>0 DEF ConnInv, Answered, Places, Working, ConnTypes, Goto, OnlyInfo
<1>7. MadeFirst'
  BY <1>0 DEF ConnInv, MadeFirst, Places, Working, ConnTypes, Goto, OnlyInfo
<1>8. Locked'
  BY <1>0 DEF ConnInv, Locked, ConnTypes, Goto, OnlyInfo
<1>9. Accounted'
  BY <1>0 DEF ConnInv, Accounted, ConnTypes, Goto, OnlyInfo
<1>10. QueueCounted' /\ QueueBounded'
  BY <1>0 DEF ConnInv, QueueCounted, QueueBounded, ConnTypes, Goto, OnlyInfo
<1>11. NoLostAnswer'
  BY <1>0 DEF ConnInv, NoLostAnswer, Holders, Places, ConnTypes, Goto, OnlyInfo
<1>12. Unborn'
  BY <1>0 DEF ConnInv, Unborn, ConnTypes, Goto, OnlyInfo
<1> QED
  BY <1>1, <1>2, <1>3, <1>4, <1>5, <1>6, <1>7, <1>8, <1>9, <1>10, <1>11, <1>12 DEF ConnInv

\* The upcall queues a request.
LEMMA EnterStep ==
    ASSUME ConnTypes, ConnInv, NEW n \in Conns, pc[n] = "idle",
           OnlyInfo(n), info'[n].error = "NOT_STARTED", Goto(n, "signal"),
           Distinct(queue'), On(queue') = On(queue) \cup {n}, Len(queue') = Len(queue) + 1,
           Len(queue) \in Nat, qsize \in Int, qmax \in Int, qsize < qmax, qsize' = qsize + 1,
           UNCHANGED <<lock, qmax, hold, asleep, broken, unlocked, ep, dis>>
    PROVE  ConnInv'
<1>0. n \notin On(queue) /\ \A t \in Takers : hold[t] # n
  BY DEF ConnInv, Unstarted
<1>1. Places'
  BY <1>0 DEF ConnInv, Places, Pending, Working, ConnTypes, Goto, OnlyInfo
<1>2. Once'
  BY <1>0 DEF ConnInv, Once, ConnTypes, Goto, OnlyInfo
<1>3. Unstarted'
  BY <1>0 DEF ConnInv, Unstarted, ConnTypes, Goto, OnlyInfo
<1>4. QueuedOpen'
  BY <1>0 DEF ConnInv, QueuedOpen, Pending, ConnTypes, Goto, OnlyInfo
<1>5. HeldOpen'
  BY <1>0 DEF ConnInv, HeldOpen, Places, Pending, Working, ConnTypes, Goto, OnlyInfo
<1>6. Answered'
  BY <1>0 DEF ConnInv, Answered, Places, Working, ConnTypes, Goto, OnlyInfo
<1>7. MadeFirst'
  BY <1>0 DEF ConnInv, MadeFirst, Places, Working, ConnTypes, Goto, OnlyInfo
<1>8. Locked'
  BY <1>0 DEF ConnInv, Locked, ConnTypes, Goto, OnlyInfo
<1>9. Accounted'
  BY <1>0 DEF ConnInv, Accounted, ConnTypes, Goto, OnlyInfo
<1>10. QueueCounted' /\ QueueBounded'
  BY <1>0 DEF ConnInv, QueueCounted, QueueBounded, ConnTypes, Goto, OnlyInfo
<1>11. NoLostAnswer'
  BY <1>0 DEF ConnInv, NoLostAnswer, Holders, Places, ConnTypes, Goto, OnlyInfo
<1>12. Unborn'
  BY <1>0 DEF ConnInv, Unborn, ConnTypes, Goto, OnlyInfo
<1> QED
  BY <1>1, <1>2, <1>3, <1>4, <1>5, <1>6, <1>7, <1>8, <1>9, <1>10, <1>11, <1>12 DEF ConnInv

\* An interrupted call gives its request up, and takes it off the queue.
LEMMA GiveUpStep ==
    ASSUME ConnTypes, ConnInv, NEW n \in Conns, pc[n] \in {"towait", "waiting"}, n \notin asleep,
           pc[n] = "towait" \/ lock = Nobody,
           info[n].error = "NOT_STARTED", OnlyInfo(n), info'[n].error = "EXCEPT",
           info'[n].endpts = info[n].endpts, lock' = Nobody, Goto(n, "done"),
           Distinct(queue'), On(queue') = On(queue) \ {n},
           n \in On(queue) => Len(queue') = Len(queue) - 1,
           broken' = (broken \/ n \notin On(queue)), qsize' = qsize - 1,
           Len(queue) \in Nat, qsize \in Int, qmax \in Int,
           UNCHANGED <<qmax, hold, asleep, unlocked, ep, dis>>
    PROVE  ConnInv'
<1>0. n \in On(queue) => \A t \in Takers : hold[t] # n
  BY DEF ConnInv, Once
<1>1. Places'
  BY <1>0 DEF ConnInv, Places, Pending, Working, ConnTypes, Goto, OnlyInfo
<1>2. Once'
  BY <1>0 DEF ConnInv, Once, ConnTypes, Goto, OnlyInfo
<1>3. Unstarted'
  BY <1>0 DEF ConnInv, Unstarted, ConnTypes, Goto, OnlyInfo
<1>4. QueuedOpen'
  BY <1>0 DEF ConnInv, QueuedOpen, Pending, ConnTypes, Goto, OnlyInfo
<1>5. HeldOpen'
  <2> SUFFICES ASSUME NEW t \in Takers, pc'[t] \in Working
               PROVE  /\ info'[hold[t]].error \in {"NOT_STARTED", "EXCEPT"}
                      /\ ~broken' => pc'[hold[t]] \in Pending /\ info'[hold[t]].error = "NOT_STARTED"
    BY DEF HeldOpen
  <2>1. pc[t] \in Working /\ hold[t] \in Conns
    BY DEF ConnInv, Places, ConnTypes, Goto, Working
  <2>2. CASE hold[t] = n
    BY <1>0, <2>2
  <2>3. CASE hold[t] # n
    BY <2>1, <2>3 DEF ConnInv, HeldOpen, OnlyInfo, Goto, ConnTypes
  <2> QED
    BY <2>2, <2>3
<1>6. Answered'
  BY <1>0 DEF ConnInv, Answered, Places, Working, ConnTypes, Goto, OnlyInfo
<1>7. MadeFirst'
  BY <1>0 DEF ConnInv, MadeFirst, Places, Working, ConnTypes, Goto, OnlyInfo
<1>8. Locked'
  BY <1>0 DEF ConnInv, Locked, ConnTypes, Goto, OnlyInfo
<1>9. Accounted'
  BY <1>0 DEF ConnInv, Accounted, ConnTypes, Goto, OnlyInfo
<1>10. QueueCounted' /\ QueueBounded'
  <2>1. CASE broken'
    BY <2>1 DEF QueueCounted, QueueBounded
  <2>2. CASE ~broken'
    <3>1. ~broken /\ n \in On(queue)
      BY <2>2
    <3>2. qsize = Len(queue) /\ Len(queue') = Len(queue) - 1
      BY <3>1 DEF ConnInv, QueueCounted
    <3>3. pc'[Admin] = pc[Admin]
      BY DEF Goto, ConnTypes
    <3>4. pc[Admin] = "idle" => Len(queue) <= qmax
      BY <3>1 DEF ConnInv, QueueBounded
    <3> QED
      BY <3>2, <3>3, <3>4 DEF QueueCounted, QueueBounded
  <2> QED
    BY <2>1, <2>2
<1>11. NoLostAnswer'
  BY <1>0 DEF ConnInv, NoLostAnswer, Holders, Places, ConnTypes, Goto, OnlyInfo
<1>12. Unborn'
  BY <1>0 DEF ConnInv, Unborn, ConnTypes, Goto, OnlyInfo
<1> QED
  BY <1>1, <1>2, <1>3, <1>4, <1>5, <1>6, <1>7, <1>8, <1>9, <1>10, <1>11, <1>12 DEF ConnInv

\* A call falls asleep on its record.
LEMMA SleepStep ==
    ASSUME ConnTypes, ConnInv, NEW n \in Conns, pc[n] = "towait",
           asleep' = asleep \cup {n}, lock' = Nobody, Goto(n, "waiting"),
           UNCHANGED <<queue, qsize, qmax, info, hold, broken, unlocked, ep, dis>>
    PROVE  ConnInv'
<1>1. Places'
  BY SMT DEF ConnInv, Places, Pending, Working, ConnTypes, Goto
<1>2. Once'
  BY SMT DEF ConnInv, Once, ConnTypes, Goto
<1>3. Unstarted'
  BY SMT DEF ConnInv, Unstarted, ConnTypes, Goto
<1>4. QueuedOpen'
  BY SMT DEF ConnInv, QueuedOpen, Pending, ConnTypes, Goto
<1>5. HeldOpen'
  BY SMT DEF ConnInv, HeldOpen, Places, Pending, Working, ConnTypes, Goto
<1>6. Answered'
  BY SMT DEF ConnInv, Answered, Places, Working, ConnTypes, Goto
<1>7. MadeFirst'
  BY SMT DEF ConnInv, MadeFirst, Places, Working, ConnTypes, Goto
<1>8. Locked'
  BY SMT DEF ConnInv, Locked, ConnTypes, Goto
<1>9. Accounted'
  BY SMT DEF ConnInv, Accounted, ConnTypes, Goto
<1>10. QueueCounted' /\ QueueBounded'
  BY SMT DEF ConnInv, QueueCounted, QueueBounded, ConnTypes, Goto
<1>11. NoLostAnswer'
  BY SMT DEF ConnInv, NoLostAnswer, Holders, Places, Locked, ConnTypes, Goto
<1>12. Unborn'
  BY SMT DEF ConnInv, Unborn, ConnTypes, Goto
<1> QED
  BY <1>1, <1>2, <1>3, <1>4, <1>5, <1>6, <1>7, <1>8, <1>9, <1>10, <1>11, <1>12 DEF ConnInv

\* A server takes the first request, to accept it, or the owner, to refuse it.
LEMMA TakeStep ==
    ASSUME ConnTypes, ConnInv, NEW t \in Takers, NEW n \in On(queue), NEW l,
           \/ t \in Servers /\ pc[t] = "idle" /\ l = "accepting"
           \/ t = Admin /\ pc[t] = "trim" /\ l = "refuse",
           Goto(t, l), hold' = [hold EXCEPT ![t] = n],
           Distinct(queue'), On(queue') = On(queue) \ {n}, Len(queue') = Len(queue) - 1,
           qsize' = qsize - 1, Len(queue) \in Nat, qsize \in Int, qmax \in Int,
           UNCHANGED <<lock, qmax, info, asleep, broken, unlocked, ep, dis>>
    PROVE  ConnInv'
<1>0. /\ n \in Conns /\ hold[t] = Nobody /\ \A u \in Takers : hold[u] # n
      /\ l \in Working \ {"created", "succeeded"}
      /\ pc[n] \in Pending /\ info[n].error = "NOT_STARTED"
  BY DEF ConnInv, Once, Places, Working, ConnTypes, QueuedOpen
<1>1. Places'
  BY <1>0 DEF ConnInv, Places, Pending, Working, ConnTypes, Goto
<1>2. Once'
  BY <1>0 DEF ConnInv, Once, ConnTypes, Goto
<1>3. Unstarted'
  BY <1>0 DEF ConnInv, Unstarted, ConnTypes, Goto
<1>4. QueuedOpen'
  BY <1>0 DEF ConnInv, QueuedOpen, Pending, ConnTypes, Goto
<1>5. HeldOpen'
  BY <1>0 DEF ConnInv, HeldOpen, Places, Pending, Working, ConnTypes, Goto
<1>6. Answered'
  BY <1>0 DEF ConnInv, Answered, Places, Working, ConnTypes, Goto
<1>7. MadeFirst'
  BY <1>0 DEF ConnInv, MadeFirst, Places, Working, ConnTypes, Goto
<1>8. Locked'
  BY <1>0 DEF ConnInv, Locked, ConnTypes, Goto
<1>9. Accounted'
  BY <1>0 DEF ConnInv, Accounted, ConnTypes, Goto
<1>10. QueueCounted' /\ QueueBounded'
  BY <1>0 DEF ConnInv, QueueCounted, QueueBounded, ConnTypes, Goto
<1>11. NoLostAnswer'
  BY <1>0 DEF ConnInv, NoLostAnswer, Holders, Places, ConnTypes, Goto
<1>12. Unborn'
  BY <1>0 DEF ConnInv, Unborn, ConnTypes, Goto
<1> QED
  BY <1>1, <1>2, <1>3, <1>4, <1>5, <1>6, <1>7, <1>8, <1>9, <1>10, <1>11, <1>12 DEF ConnInv

\* net_reject takes the first request and answers it with the lock.
LEMMA RejectStep ==
    ASSUME ConnTypes, ConnInv, NEW t \in Servers, NEW n \in On(queue), pc[t] = "idle", lock = Nobody,
           Goto(t, "wake"), hold' = [hold EXCEPT ![t] = n],
           OnlyInfo(n), info'[n].error = "REFUSED",
           Distinct(queue'), On(queue') = On(queue) \ {n}, Len(queue') = Len(queue) - 1,
           qsize' = qsize - 1, Len(queue) \in Nat, qsize \in Int, qmax \in Int,
           UNCHANGED <<lock, qmax, asleep, broken, unlocked, ep, dis>>
    PROVE  ConnInv'
<1>0. /\ n \in Conns /\ t \in Takers /\ t # Admin /\ hold[t] = Nobody /\ \A u \in Takers : hold[u] # n
      /\ pc[n] \in Pending /\ info[n].error = "NOT_STARTED"
  BY DEF ConnInv, Once, Places, Working, ConnTypes, QueuedOpen, Takers
<1>1. Places'
  BY <1>0 DEF ConnInv, Places, Pending, Working, ConnTypes, Goto, OnlyInfo
<1>2. Once'
  BY <1>0 DEF ConnInv, Once, ConnTypes, Goto, OnlyInfo
<1>3. Unstarted'
  BY <1>0 DEF ConnInv, Unstarted, ConnTypes, Goto, OnlyInfo
<1>4. QueuedOpen'
  BY <1>0 DEF ConnInv, QueuedOpen, Pending, ConnTypes, Goto, OnlyInfo
<1>5. HeldOpen'
  BY <1>0 DEF ConnInv, HeldOpen, Places, Pending, Working, ConnTypes, Goto, OnlyInfo
<1>6. Answered'
  BY <1>0 DEF ConnInv, Answered, Places, Working, ConnTypes, Goto, OnlyInfo
<1>7. MadeFirst'
  BY <1>0 DEF ConnInv, MadeFirst, Places, Working, ConnTypes, Goto, OnlyInfo
<1>8. Locked'
  BY <1>0 DEF ConnInv, Locked, ConnTypes, Goto, OnlyInfo
<1>9. Accounted'
  BY <1>0 DEF ConnInv, Accounted, ConnTypes, Goto, OnlyInfo
<1>10. QueueCounted' /\ QueueBounded'
  BY <1>0 DEF ConnInv, QueueCounted, QueueBounded, ConnTypes, Goto, OnlyInfo
<1>11. NoLostAnswer'
  BY <1>0 DEF ConnInv, NoLostAnswer, Holders, Places, ConnTypes, Goto, OnlyInfo
<1>12. Unborn'
  BY <1>0 DEF ConnInv, Unborn, ConnTypes, Goto, OnlyInfo
<1> QED
  BY <1>1, <1>2, <1>3, <1>4, <1>5, <1>6, <1>7, <1>8, <1>9, <1>10, <1>11, <1>12 DEF ConnInv

\* A server works on the record it holds, without answering it.
LEMMA WorkStep ==
    ASSUME ConnTypes, ConnInv, NEW s \in Servers, NEW l, NEW n \in Conns, hold[s] = n,
           pc[s] \in {"accepting", "created"}, l \in {"created", "failed", "succeeded"},
           OnlyInfo(n), info'[n].error = info[n].error,
           l \in {"created", "succeeded"} => info'[n].endpts,
           Goto(s, l), UNCHANGED <<lock, queue, qsize, qmax, hold, asleep, broken, unlocked>>,
           \A m \in Pairs : m # n => ep'[m] = ep[m] /\ dis'[m] = dis[m]
    PROVE  ConnInv'
<1>0. /\ s \in Takers /\ s # Admin /\ info[n].error \in {"NOT_STARTED", "EXCEPT"}
      /\ \A u \in Takers : hold[u] = n => u = s
      /\ n \notin On(queue) /\ pc[n] # "idle"
  BY DEF ConnInv, Once, Working, ConnTypes, HeldOpen, Takers, Unstarted
<1>1. Places'
  BY <1>0 DEF ConnInv, Places, Pending, Working, ConnTypes, Goto, OnlyInfo
<1>2. Once'
  BY <1>0 DEF ConnInv, Once, ConnTypes, Goto, OnlyInfo
<1>3. Unstarted'
  BY <1>0 DEF ConnInv, Unstarted, ConnTypes, Goto, OnlyInfo
<1>4. QueuedOpen'
  BY <1>0 DEF ConnInv, QueuedOpen, Pending, ConnTypes, Goto, OnlyInfo
<1>5. HeldOpen'
  BY <1>0 DEF ConnInv, HeldOpen, Places, Pending, Working, ConnTypes, Goto, OnlyInfo
<1>6. Answered'
  BY <1>0 DEF ConnInv, Answered, Places, Working, ConnTypes, Goto, OnlyInfo
<1>7. MadeFirst'
  BY <1>0 DEF ConnInv, MadeFirst, Places, Working, ConnTypes, Goto, OnlyInfo
<1>8. Locked'
  BY <1>0 DEF ConnInv, Locked, ConnTypes, Goto, OnlyInfo
<1>9. Accounted'
  BY <1>0 DEF ConnInv, Accounted, ConnTypes, Goto, OnlyInfo
<1>10. QueueCounted' /\ QueueBounded'
  BY <1>0 DEF ConnInv, QueueCounted, QueueBounded, ConnTypes, Goto, OnlyInfo
<1>11. NoLostAnswer'
  BY <1>0 DEF ConnInv, NoLostAnswer, Holders, Places, ConnTypes, Goto, OnlyInfo
<1>12. Unborn'
  BY <1>0 DEF ConnInv, Unborn, ConnTypes, Goto, OnlyInfo
<1> QED
  BY <1>1, <1>2, <1>3, <1>4, <1>5, <1>6, <1>7, <1>8, <1>9, <1>10, <1>11, <1>12 DEF ConnInv

\* ABORT of net_accept drops the record it holds, and whatever lock there is.
LEMMA AbortStep ==
    ASSUME ConnTypes, ConnInv, NEW s \in Servers, pc[s] = "created",
           lock' = Nobody, unlocked' = unlocked \cup {hold[s]}, broken' = (broken \/ lock # Nobody),
           hold' = [hold EXCEPT ![s] = Nobody], Goto(s, "idle"),
           UNCHANGED <<queue, qsize, qmax, info, asleep, ep, dis>>
    PROVE  ConnInv'
<1>0. /\ s \in Takers /\ s # Admin /\ hold[s] \in Conns
      /\ \A u \in Takers : hold[u] = hold[s] => u = s
      /\ hold[s] \notin On(queue) /\ Nobody \notin On(queue)
  BY DEF ConnInv, Once, Working, ConnTypes, Places, Takers
<1>1. Places'
  BY <1>0 DEF ConnInv, Places, Pending, Working, ConnTypes, Goto
<1>2. Once'
  BY <1>0 DEF ConnInv, Once, ConnTypes, Goto
<1>3. Unstarted'
  BY <1>0 DEF ConnInv, Unstarted, ConnTypes, Goto
<1>4. QueuedOpen'
  BY <1>0 DEF ConnInv, QueuedOpen, Pending, ConnTypes, Goto
<1>5. HeldOpen'
  BY <1>0 DEF ConnInv, HeldOpen, Places, Pending, Working, ConnTypes, Goto
<1>6. Answered'
  BY <1>0 DEF ConnInv, Answered, Places, Working, ConnTypes, Goto
<1>7. MadeFirst'
  BY <1>0 DEF ConnInv, MadeFirst, Places, Working, ConnTypes, Goto
<1>8. Locked'
  BY <1>0 DEF ConnInv, Locked, ConnTypes, Goto
<1>9. Accounted'
  BY <1>0 DEF ConnInv, Accounted, ConnTypes, Goto
<1>10. QueueCounted' /\ QueueBounded'
  BY <1>0 DEF ConnInv, QueueCounted, QueueBounded, ConnTypes, Goto
<1>11. NoLostAnswer'
  BY <1>0 DEF ConnInv, NoLostAnswer, Holders, Places, ConnTypes, Goto
<1>12. Unborn'
  BY <1>0 DEF ConnInv, Unborn, ConnTypes, Goto
<1> QED
  BY <1>1, <1>2, <1>3, <1>4, <1>5, <1>6, <1>7, <1>8, <1>9, <1>10, <1>11, <1>12 DEF ConnInv

\* A server answers the record it holds, with the lock.
LEMMA AnswerStep ==
    ASSUME ConnTypes, ConnInv, NEW s \in Servers, NEW n \in Conns, hold[s] = n,
           pc[s] \in {"succeeded", "failed"}, lock = Nobody,
           OnlyInfo(n), info'[n].error \in {"SUCCESS", "FAILED"},
           info'[n].error = "SUCCESS" => info'[n].endpts /\ info'[n].state = "ACCEPTED",
           Goto(s, "wake"),
           UNCHANGED <<lock, queue, qsize, qmax, hold, asleep, broken, unlocked, ep, dis>>
    PROVE  ConnInv'
<1>0. /\ s \in Takers /\ s # Admin /\ info[n].error \in {"NOT_STARTED", "EXCEPT"}
      /\ \A u \in Takers : hold[u] = n => u = s
      /\ n \notin On(queue) /\ pc[n] # "idle"
  BY DEF ConnInv, Once, Working, ConnTypes, HeldOpen, Takers, Unstarted
<1>1. Places'
  BY <1>0 DEF ConnInv, Places, Pending, Working, ConnTypes, Goto, OnlyInfo
<1>2. Once'
  BY <1>0 DEF ConnInv, Once, ConnTypes, Goto, OnlyInfo
<1>3. Unstarted'
  BY <1>0 DEF ConnInv, Unstarted, ConnTypes, Goto, OnlyInfo
<1>4. QueuedOpen'
  BY <1>0 DEF ConnInv, QueuedOpen, Pending, ConnTypes, Goto, OnlyInfo
<1>5. HeldOpen'
  BY <1>0 DEF ConnInv, HeldOpen, Places, Pending, Working, ConnTypes, Goto, OnlyInfo
<1>6. Answered'
  BY <1>0 DEF ConnInv, Answered, Places, Working, ConnTypes, Goto, OnlyInfo
<1>7. MadeFirst'
  BY <1>0 DEF ConnInv, MadeFirst, Places, Working, ConnTypes, Goto, OnlyInfo
<1>8. Locked'
  BY <1>0 DEF ConnInv, Locked, ConnTypes, Goto, OnlyInfo
<1>9. Accounted'
  BY <1>0 DEF ConnInv, Accounted, ConnTypes, Goto, OnlyInfo
<1>10. QueueCounted' /\ QueueBounded'
  BY <1>0 DEF ConnInv, QueueCounted, QueueBounded, ConnTypes, Goto, OnlyInfo
<1>11. NoLostAnswer'
  BY <1>0 DEF ConnInv, NoLostAnswer, Holders, Places, ConnTypes, Goto, OnlyInfo
<1>12. Unborn'
  BY <1>0 DEF ConnInv, Unborn, ConnTypes, Goto, OnlyInfo
<1> QED
  BY <1>1, <1>2, <1>3, <1>4, <1>5, <1>6, <1>7, <1>8, <1>9, <1>10, <1>11, <1>12 DEF ConnInv

\* The owner refuses the record it holds, without the lock.
LEMMA OwnerRefuses ==
    ASSUME ConnTypes, ConnInv, NEW n \in Conns, hold[Admin] = n, pc[Admin] = "refuse",
           OnlyInfo(n), info'[n].error = "REFUSED", unlocked' = unlocked \cup {n},
           Goto(Admin, "refused"),
           UNCHANGED <<lock, queue, qsize, qmax, hold, asleep, broken, ep, dis>>
    PROVE  ConnInv'
<1>0. /\ Admin \in Takers /\ info[n].error \in {"NOT_STARTED", "EXCEPT"}
      /\ \A u \in Takers : hold[u] = n => u = Admin
      /\ n \notin On(queue) /\ pc[n] # "idle"
  BY DEF ConnInv, Once, Working, ConnTypes, HeldOpen, Unstarted
<1>1. Places'
  BY <1>0 DEF ConnInv, Places, Pending, Working, ConnTypes, Goto, OnlyInfo
<1>2. Once'
  BY <1>0 DEF ConnInv, Once, ConnTypes, Goto, OnlyInfo
<1>3. Unstarted'
  BY <1>0 DEF ConnInv, Unstarted, ConnTypes, Goto, OnlyInfo
<1>4. QueuedOpen'
  BY <1>0 DEF ConnInv, QueuedOpen, Pending, ConnTypes, Goto, OnlyInfo
<1>5. HeldOpen'
  BY <1>0 DEF ConnInv, HeldOpen, Places, Pending, Working, ConnTypes, Goto, OnlyInfo
<1>6. Answered'
  BY <1>0 DEF ConnInv, Answered, Places, Working, ConnTypes, Goto, OnlyInfo
<1>7. MadeFirst'
  BY <1>0 DEF ConnInv, MadeFirst, Places, Working, ConnTypes, Goto, OnlyInfo
<1>8. Locked'
  BY <1>0 DEF ConnInv, Locked, ConnTypes, Goto, OnlyInfo
<1>9. Accounted'
  BY <1>0 DEF ConnInv, Accounted, ConnTypes, Goto, OnlyInfo
<1>10. QueueCounted' /\ QueueBounded'
  BY <1>0 DEF ConnInv, QueueCounted, QueueBounded, ConnTypes, Goto, OnlyInfo
<1>11. NoLostAnswer'
  BY <1>0 DEF ConnInv, NoLostAnswer, Holders, Places, ConnTypes, Goto, OnlyInfo
<1>12. Unborn'
  BY <1>0 DEF ConnInv, Unborn, ConnTypes, Goto, OnlyInfo
<1> QED
  BY <1>1, <1>2, <1>3, <1>4, <1>5, <1>6, <1>7, <1>8, <1>9, <1>10, <1>11, <1>12 DEF ConnInv

\* It then writes the state of the record, for which the call may not have waited.
LEMMA OwnerMarks ==
    ASSUME ConnTypes, ConnInv, NEW n \in Conns, hold[Admin] = n, pc[Admin] = "refused",
           OnlyInfo(n), info'[n].error = info[n].error, Goto(Admin, "wake"),
           UNCHANGED <<lock, queue, qsize, qmax, hold, asleep, broken, unlocked, ep, dis>>
    PROVE  ConnInv'
<1>0. /\ Admin \in Takers /\ info[n].error = "REFUSED"
      /\ \A u \in Takers : hold[u] = n => u = Admin
      /\ n \notin On(queue) /\ pc[n] # "idle"
  BY DEF ConnInv, Once, ConnTypes, Answered, Unstarted
<1>1. Places'
  BY <1>0 DEF ConnInv, Places, Pending, Working, ConnTypes, Goto, OnlyInfo
<1>2. Once'
  BY <1>0 DEF ConnInv, Once, ConnTypes, Goto, OnlyInfo
<1>3. Unstarted'
  BY <1>0 DEF ConnInv, Unstarted, ConnTypes, Goto, OnlyInfo
<1>4. QueuedOpen'
  BY <1>0 DEF ConnInv, QueuedOpen, Pending, ConnTypes, Goto, OnlyInfo
<1>5. HeldOpen'
  BY <1>0 DEF ConnInv, HeldOpen, Places, Pending, Working, ConnTypes, Goto, OnlyInfo
<1>6. Answered'
  BY <1>0 DEF ConnInv, Answered, Places, Working, ConnTypes, Goto, OnlyInfo
<1>7. MadeFirst'
  BY <1>0 DEF ConnInv, MadeFirst, Places, Working, ConnTypes, Goto, OnlyInfo
<1>8. Locked'
  BY <1>0 DEF ConnInv, Locked, ConnTypes, Goto, OnlyInfo
<1>9. Accounted'
  BY <1>0 DEF ConnInv, Accounted, ConnTypes, Goto, OnlyInfo
<1>10. QueueCounted' /\ QueueBounded'
  BY <1>0 DEF ConnInv, QueueCounted, QueueBounded, ConnTypes, Goto, OnlyInfo
<1>11. NoLostAnswer'
  BY <1>0 DEF ConnInv, NoLostAnswer, Holders, Places, ConnTypes, Goto, OnlyInfo
<1>12. Unborn'
  BY <1>0 DEF ConnInv, Unborn, ConnTypes, Goto, OnlyInfo
<1> QED
  BY <1>1, <1>2, <1>3, <1>4, <1>5, <1>6, <1>7, <1>8, <1>9, <1>10, <1>11, <1>12 DEF ConnInv

\* A taker wakes the call whose record it answered, and lets the record go.
LEMMA WakeStep ==
    ASSUME ConnTypes, ConnInv, NEW t \in Takers, NEW l, pc[t] = "wake",
           (t = Admin /\ l = "trim") \/ (t # Admin /\ l = "idle"),
           asleep' = asleep \ {hold[t]}, hold' = [hold EXCEPT ![t] = Nobody], Goto(t, l),
           UNCHANGED <<lock, queue, qsize, qmax, info, broken, unlocked, ep, dis>>
    PROVE  ConnInv'
<1>0. /\ hold[t] \in Conns /\ info[hold[t]].error # "NOT_STARTED"
      /\ \A u \in Takers : hold[u] = hold[t] => u = t
      /\ Nobody \notin On(queue)
  BY DEF ConnInv, Once, ConnTypes, Places, Answered
<1>1. Places'
  BY <1>0 DEF ConnInv, Places, Pending, Working, ConnTypes, Goto
<1>2. Once'
  BY <1>0 DEF ConnInv, Once, ConnTypes, Goto
<1>3. Unstarted'
  BY <1>0 DEF ConnInv, Unstarted, ConnTypes, Goto
<1>4. QueuedOpen'
  BY <1>0 DEF ConnInv, QueuedOpen, Pending, ConnTypes, Goto
<1>5. HeldOpen'
  BY <1>0 DEF ConnInv, HeldOpen, Places, Pending, Working, ConnTypes, Goto
<1>6. Answered'
  BY <1>0 DEF ConnInv, Answered, Places, Working, ConnTypes, Goto
<1>7. MadeFirst'
  BY <1>0 DEF ConnInv, MadeFirst, Places, Working, ConnTypes, Goto
<1>8. Locked'
  BY <1>0 DEF ConnInv, Locked, ConnTypes, Goto
<1>9. Accounted'
  BY <1>0 DEF ConnInv, Accounted, ConnTypes, Goto
<1>10. QueueCounted' /\ QueueBounded'
  BY <1>0 DEF ConnInv, QueueCounted, QueueBounded, ConnTypes, Goto
<1>11. NoLostAnswer'
  BY <1>0 DEF ConnInv, NoLostAnswer, Holders, Places, ConnTypes, Goto
<1>12. Unborn'
  BY <1>0 DEF ConnInv, Unborn, ConnTypes, Goto
<1> QED
  BY <1>1, <1>2, <1>3, <1>4, <1>5, <1>6, <1>7, <1>8, <1>9, <1>10, <1>11, <1>12 DEF ConnInv

\* The owner goes on to its loop, or ends it when what is left fits.
LEMMA OwnerStep ==
    ASSUME ConnTypes, ConnInv, qsize \in Int, qmax \in Int, qmax' \in Int, Len(queue) \in Nat,
           \/ pc[Admin] = "idle" /\ Goto(Admin, "trim")
           \/ pc[Admin] = "trim" /\ qsize <= qmax /\ Goto(Admin, "idle") /\ UNCHANGED qmax,
           UNCHANGED <<lock, queue, qsize, info, hold, asleep, broken, unlocked, ep, dis>>
    PROVE  ConnInv'
<1>1. CASE pc[Admin] = "idle" /\ Goto(Admin, "trim")
  <2>1. Places'
    BY <1>1 DEF ConnInv, Places, Pending, Working, ConnTypes, Goto
  <2>2. Once'
    BY <1>1 DEF ConnInv, Once, ConnTypes, Goto
  <2>3. Unstarted'
    BY <1>1 DEF ConnInv, Unstarted, ConnTypes, Goto
  <2>4. QueuedOpen'
    BY <1>1 DEF ConnInv, QueuedOpen, Pending, ConnTypes, Goto
  <2>5. HeldOpen'
    BY <1>1 DEF ConnInv, HeldOpen, Places, Pending, Working, ConnTypes, Goto
  <2>6. Answered'
    BY <1>1 DEF ConnInv, Answered, Places, Working, ConnTypes, Goto
  <2>7. MadeFirst'
    BY <1>1 DEF ConnInv, MadeFirst, Places, Working, ConnTypes, Goto
  <2>8. Locked'
    BY <1>1 DEF ConnInv, Locked, ConnTypes, Goto
  <2>9. Accounted'
    BY <1>1 DEF ConnInv, Accounted, ConnTypes, Goto
  <2>10. QueueCounted' /\ QueueBounded'
    BY <1>1 DEF ConnInv, QueueCounted, QueueBounded, ConnTypes, Goto
  <2>11. NoLostAnswer'
    BY <1>1 DEF ConnInv, NoLostAnswer, Holders, Places, ConnTypes, Goto
  <2>12. Unborn'
    BY <1>1 DEF ConnInv, Unborn, ConnTypes, Goto
  <2> QED
    BY <2>1, <2>2, <2>3, <2>4, <2>5, <2>6, <2>7, <2>8, <2>9, <2>10, <2>11, <2>12 DEF ConnInv
<1>2. CASE pc[Admin] = "trim" /\ qsize <= qmax /\ Goto(Admin, "idle") /\ UNCHANGED qmax
  <2>1. Places'
    BY <1>2 DEF ConnInv, Places, Pending, Working, ConnTypes, Goto
  <2>2. Once'
    BY <1>2 DEF ConnInv, Once, ConnTypes, Goto
  <2>3. Unstarted'
    BY <1>2 DEF ConnInv, Unstarted, ConnTypes, Goto
  <2>4. QueuedOpen'
    BY <1>2 DEF ConnInv, QueuedOpen, Pending, ConnTypes, Goto
  <2>5. HeldOpen'
    BY <1>2 DEF ConnInv, HeldOpen, Places, Pending, Working, ConnTypes, Goto
  <2>6. Answered'
    BY <1>2 DEF ConnInv, Answered, Places, Working, ConnTypes, Goto
  <2>7. MadeFirst'
    BY <1>2 DEF ConnInv, MadeFirst, Places, Working, ConnTypes, Goto
  <2>8. Locked'
    BY <1>2 DEF ConnInv, Locked, ConnTypes, Goto
  <2>9. Accounted'
    BY <1>2 DEF ConnInv, Accounted, ConnTypes, Goto
  <2>10. QueueCounted' /\ QueueBounded'
    BY <1>2 DEF ConnInv, QueueCounted, QueueBounded, ConnTypes, Goto
  <2>11. NoLostAnswer'
    BY <1>2 DEF ConnInv, NoLostAnswer, Holders, Places, ConnTypes, Goto
  <2>12. Unborn'
    BY <1>2 DEF ConnInv, Unborn, ConnTypes, Goto
  <2> QED
    BY <2>1, <2>2, <2>3, <2>4, <2>5, <2>6, <2>7, <2>8, <2>9, <2>10, <2>11, <2>12 DEF ConnInv
<1> QED
  BY <1>1, <1>2
-----------------------------------------------------------------------------
(* The endpoints                                                           *)

Endpoint == [costate : {"NONE", "CONNECTED", "DISCONNECTED"},
             read : SUBSET Stream, write : SUBSET Stream, peer : BOOLEAN]
Progress == {"no", "call", "failed", "upwrite", "upread", "uppeer", "state", "read", "write", "done"}
EndTypes == ep \in [Pairs -> [Sides -> Endpoint]] /\ dis \in [Pairs -> [Sides -> Progress]]

\* The two ends of a pipe.
LEMMA OtherSide ==
    ASSUME NEW x \in Sides
    PROVE  Other(x) \in Sides /\ Other(x) # x /\ Other(Other(x)) = x /\ Sides = {x, Other(x)}
BY DEF Sides, Other

\* What does not concern pair n, or the progress of the other end's net_snddis.
Apart(n, x, l) ==
    /\ \A m \in Pairs : m # n => ep'[m] = ep[m] /\ dis'[m] = dis[m]
    /\ dis'[n][x] = l /\ dis'[n][Other(x)] = dis[n][Other(x)]

\* A step of net_snddis: one endpoint, and how far the call is.
Writes(n, x, y, e, l) == ep' = [ep EXCEPT ![n][y] = e] /\ dis' = [dis EXCEPT ![n][x] = l]

\* It moves on only its own progress.
LEMMA MovesOn ==
    ASSUME EndTypes, NEW n \in Pairs, NEW x \in Sides, NEW y \in Sides, NEW e \in Endpoint, NEW l \in Progress,
           Writes(n, x, y, e, l)
    PROVE  /\ EndTypes' /\ Apart(n, x, l)
           /\ ep'[n][y] = e /\ ep'[n][Other(y)] = ep[n][Other(y)]
BY OtherSide DEF EndTypes, Apart, Writes

\* One field of one endpoint changes.
LEMMA FieldTypes ==
    ASSUME NEW e \in Endpoint
    PROVE  /\ [e EXCEPT !.costate = "DISCONNECTED"] \in Endpoint
           /\ \A s \in SUBSET Stream : [e EXCEPT !.read = s] \in Endpoint /\ [e EXCEPT !.write = s] \in Endpoint
           /\ [e EXCEPT !.peer = FALSE] \in Endpoint
BY DEF Endpoint

\* The upcall on the other end, step by step.
LEMMA UpcallStateSevers ==
    ASSUME EndTypes, Severed, NEW n \in Pairs, NEW x \in Sides, UpcallState(n, x)
    PROVE  EndTypes' /\ Severed' /\ Apart(n, x, "upwrite") /\ dis[n][x] = "call"
<1>1. /\ dis[n][x] = "call" /\ dis' = [dis EXCEPT ![n][x] = "upwrite"]
      /\ ep' = [ep EXCEPT ![n][Other(x)].costate = "DISCONNECTED"]
  BY DEF UpcallState, At
<1>2. PICK y \in Sides : y = Other(x)
  BY OtherSide
<1>3. ep[n][y] \in Endpoint
  BY DEF EndTypes
<1>4. PICK e \in Endpoint : e = [ep[n][y] EXCEPT !.costate = "DISCONNECTED"]
  BY <1>3, FieldTypes DEF Stream
<1>5. Writes(n, x, y, e, "upwrite") /\ "upwrite" \in Progress
  BY <1>1, <1>2, <1>4 DEF Writes, Progress
<1>6. /\ EndTypes' /\ Apart(n, x, "upwrite") /\ ep'[n][y] = e /\ ep'[n][Other(y)] = ep[n][Other(y)]
  BY <1>5, MovesOn
<1>7. e.costate = "DISCONNECTED" /\ e.read = ep[n][y].read /\ e.write = ep[n][y].write /\ e.peer = ep[n][y].peer
  BY <1>3, <1>4 DEF Endpoint
<1>8. Severed'
  BY <1>1, <1>2, <1>6, <1>7, OtherSide DEF Severed, Told, Apart
<1> QED
  BY <1>1, <1>6, <1>8

\* Nobody may write into the other end.
LEMMA UpcallWriteSevers ==
    ASSUME EndTypes, Severed, NEW n \in Pairs, NEW x \in Sides, UpcallWrite(n, x)
    PROVE  EndTypes' /\ Severed' /\ Apart(n, x, "upread") /\ dis[n][x] = "upwrite"
<1>1. /\ dis[n][x] = "upwrite" /\ dis' = [dis EXCEPT ![n][x] = "upread"]
      /\ ep' = [ep EXCEPT ![n][Other(x)].write = {}]
  BY DEF UpcallWrite, At
<1>2. PICK y \in Sides : y = Other(x)
  BY OtherSide
<1>3. ep[n][y] \in Endpoint
  BY DEF EndTypes
<1>4. PICK e \in Endpoint : e = [ep[n][y] EXCEPT !.write = {}]
  BY <1>3, FieldTypes DEF Stream
<1>5. Writes(n, x, y, e, "upread") /\ "upread" \in Progress
  BY <1>1, <1>2, <1>4 DEF Writes, Progress
<1>6. /\ EndTypes' /\ Apart(n, x, "upread") /\ ep'[n][y] = e /\ ep'[n][Other(y)] = ep[n][Other(y)]
  BY <1>5, MovesOn
<1>7. e.write = {} /\ e.costate = ep[n][y].costate /\ e.read = ep[n][y].read /\ e.peer = ep[n][y].peer
  BY <1>3, <1>4 DEF Endpoint
<1>8. Severed'
  BY <1>1, <1>2, <1>6, <1>7, OtherSide DEF Severed, Told, Apart
<1> QED
  BY <1>1, <1>6, <1>8

\* Nobody may wait for data at the other end.
LEMMA UpcallReadSevers ==
    ASSUME EndTypes, Severed, NEW n \in Pairs, NEW x \in Sides, UpcallRead(n, x)
    PROVE  EndTypes' /\ Severed' /\ Apart(n, x, "uppeer") /\ dis[n][x] = "upread"
<1>1. /\ dis[n][x] = "upread" /\ dis' = [dis EXCEPT ![n][x] = "uppeer"]
      /\ ep' = [ep EXCEPT ![n][Other(x)].read = {"ENABLED"}]
  BY DEF UpcallRead, At
<1>2. PICK y \in Sides : y = Other(x)
  BY OtherSide
<1>3. ep[n][y] \in Endpoint
  BY DEF EndTypes
<1>4. PICK e \in Endpoint : e = [ep[n][y] EXCEPT !.read = {"ENABLED"}]
  BY <1>3, FieldTypes DEF Stream
<1>5. Writes(n, x, y, e, "uppeer") /\ "uppeer" \in Progress
  BY <1>1, <1>2, <1>4 DEF Writes, Progress
<1>6. /\ EndTypes' /\ Apart(n, x, "uppeer") /\ ep'[n][y] = e /\ ep'[n][Other(y)] = ep[n][Other(y)]
  BY <1>5, MovesOn
<1>7. e.read = {"ENABLED"} /\ e.costate = ep[n][y].costate /\ e.write = ep[n][y].write /\ e.peer = ep[n][y].peer
  BY <1>3, <1>4 DEF Endpoint
<1>8. Severed'
  BY <1>1, <1>2, <1>6, <1>7, OtherSide DEF Severed, Told, Apart
<1> QED
  BY <1>1, <1>6, <1>8

\* The other end forgets its peer.
LEMMA UpcallPeerSevers ==
    ASSUME EndTypes, Severed, NEW n \in Pairs, NEW x \in Sides, UpcallPeer(n, x)
    PROVE  EndTypes' /\ Severed' /\ Apart(n, x, "state") /\ dis[n][x] = "uppeer"
<1>1. /\ dis[n][x] = "uppeer" /\ dis' = [dis EXCEPT ![n][x] = "state"]
      /\ ep' = [ep EXCEPT ![n][Other(x)].peer = FALSE]
  BY DEF UpcallPeer, At
<1>2. PICK y \in Sides : y = Other(x)
  BY OtherSide
<1>3. ep[n][y] \in Endpoint
  BY DEF EndTypes
<1>4. PICK e \in Endpoint : e = [ep[n][y] EXCEPT !.peer = FALSE]
  BY <1>3, FieldTypes DEF Stream
<1>5. Writes(n, x, y, e, "state") /\ "state" \in Progress
  BY <1>1, <1>2, <1>4 DEF Writes, Progress
<1>6. /\ EndTypes' /\ Apart(n, x, "state") /\ ep'[n][y] = e /\ ep'[n][Other(y)] = ep[n][Other(y)]
  BY <1>5, MovesOn
<1>7. e.peer = FALSE /\ e.costate = ep[n][y].costate /\ e.read = ep[n][y].read /\ e.write = ep[n][y].write
  BY <1>3, <1>4 DEF Endpoint
<1>8. Severed'
  BY <1>1, <1>2, <1>6, <1>7, OtherSide DEF Severed, Told, Apart
<1> QED
  BY <1>1, <1>6, <1>8

\* Then its own end, step by step.
LEMMA OwnStateSevers ==
    ASSUME EndTypes, Severed, NEW n \in Pairs, NEW x \in Sides, OwnState(n, x)
    PROVE  EndTypes' /\ Severed' /\ Apart(n, x, "read") /\ dis[n][x] = "state"
<1>1. /\ dis[n][x] = "state" /\ dis' = [dis EXCEPT ![n][x] = "read"]
      /\ ep' = [ep EXCEPT ![n][x].costate = "DISCONNECTED"]
  BY DEF OwnState, At
<1>2. PICK y \in Sides : y = x
  BY OtherSide
<1>3. ep[n][y] \in Endpoint
  BY DEF EndTypes
<1>4. PICK e \in Endpoint : e = [ep[n][y] EXCEPT !.costate = "DISCONNECTED"]
  BY <1>3, FieldTypes DEF Stream
<1>5. Writes(n, x, y, e, "read") /\ "read" \in Progress
  BY <1>1, <1>2, <1>4 DEF Writes, Progress
<1>6. /\ EndTypes' /\ Apart(n, x, "read") /\ ep'[n][y] = e /\ ep'[n][Other(y)] = ep[n][Other(y)]
  BY <1>5, MovesOn
<1>7. e.costate = "DISCONNECTED" /\ e.read = ep[n][y].read /\ e.write = ep[n][y].write /\ e.peer = ep[n][y].peer
  BY <1>3, <1>4 DEF Endpoint
<1>8. Severed'
  BY <1>1, <1>2, <1>6, <1>7, OtherSide DEF Severed, Told, Apart
<1> QED
  BY <1>1, <1>6, <1>8

\* Nobody may read at this end.
LEMMA OwnReadSevers ==
    ASSUME EndTypes, Severed, NEW n \in Pairs, NEW x \in Sides, OwnRead(n, x)
    PROVE  EndTypes' /\ Severed' /\ Apart(n, x, "write") /\ dis[n][x] = "read"
<1>1. /\ dis[n][x] = "read" /\ dis' = [dis EXCEPT ![n][x] = "write"]
      /\ ep' = [ep EXCEPT ![n][x].read = {}]
  BY DEF OwnRead, At
<1>2. PICK y \in Sides : y = x
  BY OtherSide
<1>3. ep[n][y] \in Endpoint
  BY DEF EndTypes
<1>4. PICK e \in Endpoint : e = [ep[n][y] EXCEPT !.read = {}]
  BY <1>3, FieldTypes DEF Stream
<1>5. Writes(n, x, y, e, "write") /\ "write" \in Progress
  BY <1>1, <1>2, <1>4 DEF Writes, Progress
<1>6. /\ EndTypes' /\ Apart(n, x, "write") /\ ep'[n][y] = e /\ ep'[n][Other(y)] = ep[n][Other(y)]
  BY <1>5, MovesOn
<1>7. e.read = {} /\ e.costate = ep[n][y].costate /\ e.write = ep[n][y].write /\ e.peer = ep[n][y].peer
  BY <1>3, <1>4 DEF Endpoint
<1>8. Severed'
  BY <1>1, <1>2, <1>6, <1>7, OtherSide DEF Severed, Told, Apart
<1> QED
  BY <1>1, <1>6, <1>8

\* Nobody may write into this end, and the disconnection is done.
LEMMA OwnWriteSevers ==
    ASSUME EndTypes, Severed, NEW n \in Pairs, NEW x \in Sides, OwnWrite(n, x)
    PROVE  EndTypes' /\ Severed' /\ Apart(n, x, "done") /\ dis[n][x] = "write"
<1>1. /\ dis[n][x] = "write" /\ dis' = [dis EXCEPT ![n][x] = "done"]
      /\ ep' = [ep EXCEPT ![n][x].write = {}]
  BY DEF OwnWrite, At
<1>2. PICK y \in Sides : y = x
  BY OtherSide
<1>3. ep[n][y] \in Endpoint
  BY DEF EndTypes
<1>4. PICK e \in Endpoint : e = [ep[n][y] EXCEPT !.write = {}]
  BY <1>3, FieldTypes DEF Stream
<1>5. Writes(n, x, y, e, "done") /\ "done" \in Progress
  BY <1>1, <1>2, <1>4 DEF Writes, Progress
<1>6. /\ EndTypes' /\ Apart(n, x, "done") /\ ep'[n][y] = e /\ ep'[n][Other(y)] = ep[n][Other(y)]
  BY <1>5, MovesOn
<1>7. e.write = {} /\ e.costate = ep[n][y].costate /\ e.read = ep[n][y].read /\ e.peer = ep[n][y].peer
  BY <1>3, <1>4 DEF Endpoint
<1>8. Severed'
  BY <1>1, <1>2, <1>6, <1>7, OtherSide DEF Severed, Told, Apart
<1> QED
  BY <1>1, <1>6, <1>8

\* The other end is gone, or was disconnected first.
LEMMA UpcallRefusedSevers ==
    ASSUME EndTypes, Severed, NEW n \in Pairs, NEW x \in Sides, UpcallRefused(n, x)
    PROVE  EndTypes' /\ Severed' /\ Apart(n, x, "failed") /\ dis[n][x] = "call"
<1>1. dis[n][x] = "call" /\ dis' = [dis EXCEPT ![n][x] = "failed"] /\ ep' = ep
  BY DEF UpcallRefused, At
<1>2. EndTypes' /\ Apart(n, x, "failed")
  BY <1>1, OtherSide DEF EndTypes, Apart, Progress
<1>3. Severed'
  BY <1>1, <1>2, OtherSide DEF Severed, Told, Apart
<1> QED
  BY <1>1, <1>2, <1>3

\* The call begins, on an end that is connected.
LEMMA SnddisSevers ==
    ASSUME EndTypes, Severed, NEW n \in Pairs, NEW x \in Sides, net_snddis(n, x)
    PROVE  EndTypes' /\ Severed' /\ Apart(n, x, "call") /\ ep[n][x].costate = "CONNECTED"
<1>1. /\ dis[n][x] \in {"no", "failed"} /\ dis' = [dis EXCEPT ![n][x] = "call"] /\ ep' = ep
      /\ ep[n][x].costate = "CONNECTED"
  BY DEF net_snddis
<1>2. EndTypes' /\ Apart(n, x, "call")
  BY <1>1, OtherSide DEF EndTypes, Apart, Progress
<1>3. Severed'
  BY <1>1, <1>2, OtherSide DEF Severed, Told, Apart
<1> QED
  BY <1>1, <1>2, <1>3

\* Every step of a disconnection, on a connection that was set up.
LEMMA EndStep ==
    ASSUME EndTypes, Severed, NEW n \in Pairs, NEW x \in Sides, net_snddis(n, x) \/ Disconnecting(n, x)
    PROVE  /\ EndTypes' /\ Severed'
           /\ \A m \in Pairs : m # n => ep'[m] = ep[m] /\ dis'[m] = dis[m]
           /\ dis[n][x] # "no" \/ ep[n][x].costate = "CONNECTED"
<1>1. CASE net_snddis(n, x)
  BY <1>1, SnddisSevers DEF Apart
<1>2. CASE UpcallRefused(n, x)
  BY <1>2, UpcallRefusedSevers DEF Apart
<1>3. CASE UpcallState(n, x)
  BY <1>3, UpcallStateSevers DEF Apart
<1>4. CASE UpcallWrite(n, x)
  BY <1>4, UpcallWriteSevers DEF Apart
<1>5. CASE UpcallRead(n, x)
  BY <1>5, UpcallReadSevers DEF Apart
<1>6. CASE UpcallPeer(n, x)
  BY <1>6, UpcallPeerSevers DEF Apart
<1>7. CASE OwnState(n, x)
  BY <1>7, OwnStateSevers DEF Apart
<1>8. CASE OwnRead(n, x)
  BY <1>8, OwnReadSevers DEF Apart
<1>9. CASE OwnWrite(n, x)
  BY <1>9, OwnWriteSevers DEF Apart
<1> QED
  BY <1>1, <1>2, <1>3, <1>4, <1>5, <1>6, <1>7, <1>8, <1>9 DEF Disconnecting

\* The types of the endpoints follow from the type invariant.
LEMMA EndTypesHold ==
    ASSUME TypeOK, DisType
    PROVE  EndTypes
BY DEF TypeOK, DisType, EndTypes, Endpoint, Progress

\* A step of a disconnection leaves the connector alone.
LEMMA DisconnectStep ==
    ASSUME IInv, NEW n \in Pairs, NEW x \in Sides, net_snddis(n, x) \/ Disconnecting(n, x),
           UNCHANGED connvars
    PROVE  IInv'
<1>1. EndTypes /\ Severed /\ TypeOK /\ ConnInv
  BY EndTypesHold DEF IInv
<1>2. /\ EndTypes' /\ Severed'
      /\ \A m \in Pairs : m # n => ep'[m] = ep[m] /\ dis'[m] = dis[m]
      /\ dis[n][x] # "no" \/ ep[n][x].costate = "CONNECTED"
  BY <1>1, EndStep
<1>3. disconnects' \in 0..MaxDisconnects
  BY <1>1, EndpointAssumption
     DEF TypeOK, Disconnecting, net_snddis, At, UpcallRefused, UpcallState, UpcallWrite, UpcallRead,
         UpcallPeer, OwnState, OwnRead, OwnWrite
<1>4. TypeOK' /\ DisType'
  BY <1>1, <1>2, <1>3 DEF TypeOK, DisType, EndTypes, Endpoint, Progress, connvars
<1>5. Unborn'
  BY <1>1, <1>2 DEF ConnInv, Unborn, connvars
<1>6. ConnInv'
  BY <1>1, <1>5 DEF ConnInv, connvars, Places, Once, Unstarted, QueuedOpen, HeldOpen, Answered, MadeFirst,
         Locked, Accounted, QueueCounted, QueueBounded, NoLostAnswer, Holders
<1> QED
  BY <1>2, <1>4, <1>6 DEF IInv

-----------------------------------------------------------------------------
(* Every step of the connector                                             *)

\* What the steps use of the invariant.
Known == TypeOK /\ ConnTypes /\ ConnInv

\* It follows from the invariant.
LEMMA IsKnown ==
    ASSUME IInv
    PROVE  Known
BY ConnTypesHold DEF IInv, Known

\* The record of a request that is queued.
LEMMA QueuedRecord ==
    ASSUME NEW r \in Record, NEW k \in Nat
    PROVE  /\ [r EXCEPT !.state = "LISTENING", !.seqno = k, !.error = "NOT_STARTED"] \in Record
           /\ [r EXCEPT !.state = "LISTENING", !.seqno = k, !.error = "NOT_STARTED"].error = "NOT_STARTED"
BY DEF Record, Errors, States

\* A record whose error alone is set.
LEMMA SetsError ==
    ASSUME info \in [Conns -> Record], NEW n \in Conns, NEW e \in Errors,
           info' = [info EXCEPT ![n].error = e]
    PROVE  /\ info' \in [Conns -> Record] /\ OnlyInfo(n)
           /\ info'[n].error = e /\ info'[n].endpts = info[n].endpts
<1>1. PICK r : r = [info[n] EXCEPT !.error = e]
  OBVIOUS
<1>2. info[n] \in Record
  OBVIOUS
<1>3. r \in Record /\ r.error = e /\ r.endpts = info[n].endpts
  BY <1>1, <1>2 DEF Record
<1>4. info' = [info EXCEPT ![n] = r]
  BY <1>1
<1> QED
  BY <1>3, <1>4 DEF OnlyInfo

\* connect_upcall refuses the request or queues it.
LEMMA UpcallStep ==
    ASSUME Known, NEW n \in Conns, connect_upcall(n), UNCHANGED epvars
    PROVE  TypeOK' /\ ConnInv'
<1>1. /\ TypeOK /\ ConnTypes /\ ConnInv /\ pc[n] = "idle" /\ ep' = ep /\ dis' = dis
      /\ queue \in Seq(Conns) /\ qsize \in Int /\ qmax \in Int /\ Distinct(queue)
  BY DEF Known, TypeOK, ConnInv, Once, connect_upcall, epvars
<1>2. CASE Full
  <2>1. info' = [info EXCEPT ![n].error = "REFUSED"] /\ Goto(n, "done") /\ UNCHANGED <<queue, qsize, seqno_seed>>
    BY <1>2 DEF connect_upcall
  <2>2. info' \in [Conns -> Record] /\ OnlyInfo(n) /\ info'[n].error = "REFUSED"
    BY <1>1, <2>1, SetsError DEF ConnTypes, Errors
  <2>3. TypeOK'
    BY <1>1, <2>1, <2>2 DEF TypeOK, connect_upcall, Goto, epvars, Record
  <2>4. ConnInv'
    BY <1>1, <2>1, <2>2, RefuseStep DEF connect_upcall
  <2> QED
    BY <2>3, <2>4
<1>3. CASE ~Full
  <2>1. /\ info' = [info EXCEPT ![n] = [@ EXCEPT !.state = "LISTENING", !.seqno = seqno_seed,
                                                 !.error = "NOT_STARTED"]]
        /\ seqno_seed' = seqno_seed + 1
        /\ queue' = Append(queue, n) /\ qsize' = qsize + 1 /\ Goto(n, "signal")
        /\ UNCHANGED <<lock, qmax, hold, know, listeners, asleep, pending, shaking, posts, broken, unlocked>>
    BY <1>3 DEF connect_upcall, Enter
  <2>2. info' \in [Conns -> Record] /\ OnlyInfo(n) /\ info'[n].error = "NOT_STARTED"
    <3>1. info[n] \in Record /\ seqno_seed \in Nat /\ info \in [Conns -> Record]
      BY <1>1 DEF ConnTypes, TypeOK
    <3>2. PICK r : r = [info[n] EXCEPT !.state = "LISTENING", !.seqno = seqno_seed, !.error = "NOT_STARTED"]
      OBVIOUS
    <3>3. r \in Record /\ r.error = "NOT_STARTED"
      BY <3>1, <3>2, QueuedRecord
    <3>4. info' = [info EXCEPT ![n] = r]
      BY <2>1, <3>2
    <3> QED
      BY <3>1, <3>3, <3>4 DEF OnlyInfo
  <2>3. n \in Conns \ On(queue)
    BY <1>1 DEF ConnInv, Unstarted
  <2>4. /\ queue' \in Seq(Conns) /\ Distinct(queue') /\ Len(queue') = Len(queue) + 1
        /\ On(queue') = On(queue) \cup {n}
    BY <1>1, <2>1, <2>3, QueueEnter
  <2>5. TypeOK'
    <3>1. pc' \in [Conns \cup Takers -> Labels]
      BY <1>1, <2>1 DEF ConnTypes, Goto, Labels
    <3>2. qsize' \in Int /\ seqno_seed' \in Nat \ {0}
      BY <1>1, <2>1 DEF TypeOK
    <3> QED
      BY <1>1, <2>1, <2>2, <2>4, <3>1, <3>2 DEF TypeOK, Labels, epvars, Record
  <2>6. qsize < qmax /\ Len(queue) \in Nat
    BY <1>1, <1>3 DEF Full
  <2>7. ConnInv'
    BY <1>1, <2>1, <2>2, <2>4, <2>6, EnterStep
  <2> QED
    BY <2>5, <2>7
<1> QED
  BY <1>2, <1>3

\* SignalListen wakes a listener and touches no request.
LEMMA SignalStep ==
    ASSUME Known, NEW n \in Conns, SignalListen(n), UNCHANGED epvars
    PROVE  TypeOK' /\ ConnInv'
<1>1. TypeOK'
  BY DEF Known, TypeOK, SignalListen, Goto, epvars
<1>2. ConnInv'
  BY AsideStep DEF Known, SignalListen, epvars
<1> QED
  BY <1>1, <1>2

\* The test of the loop, and giving up, from wherever the call comes.
LEMMA LoopStep ==
    ASSUME Known, NEW n \in Conns, LoopTest(n),
           pc[n] \in {"relock", "towait", "waiting"}, n \notin asleep, pc[n] = "towait" \/ lock = Nobody,
           pending' \in {pending, pending \ {n}},
           UNCHANGED <<queue, qsize, qmax, seqno_seed, info, hold, know, listeners, asleep, shaking, posts,
                       broken, unlocked, ep, dis, disconnects>>
    PROVE  TypeOK' /\ ConnInv'
<1>1. ConnInv'
  BY LoopTestStep DEF Known
<1>2. TypeOK'
  BY DEF Known, TypeOK, LoopTest, Goto
<1> QED
  BY <1>1, <1>2

\* GiveUp: the request leaves the queue, or the call has its answer.
LEMMA GivesUp ==
    ASSUME Known, NEW n \in Conns, GiveUp(n),
           pc[n] \in {"towait", "waiting"}, n \notin asleep, pc[n] = "towait" \/ lock = Nobody,
           pending' = pending \ {n},
           UNCHANGED <<qmax, seqno_seed, hold, know, listeners, asleep, shaking, posts, unlocked,
                       ep, dis, disconnects>>
    PROVE  TypeOK' /\ ConnInv'
<1>1. CASE info[n].error # "NOT_STARTED"
  <2>1. LoopTest(n) /\ UNCHANGED <<queue, qsize, broken, info>>
    BY <1>1 DEF GiveUp
  <2> QED
    BY <2>1, LoopStep
<1>2. CASE info[n].error = "NOT_STARTED"
  <2>1. /\ queue' = RemoveFirst(queue, n) /\ qsize' = qsize - 1
        /\ broken' = (broken \/ ~Contains(queue, n))
        /\ info' = [info EXCEPT ![n].error = "EXCEPT"]
        /\ lock' = Nobody /\ Goto(n, "done")
    BY <1>2 DEF GiveUp
  <2>2. /\ TypeOK /\ ConnTypes /\ ConnInv
        /\ queue \in Seq(Conns) /\ qsize \in Int /\ qmax \in Int /\ Distinct(queue)
    BY DEF Known, TypeOK, ConnInv, Once
  <2>3. /\ info' \in [Conns -> Record] /\ OnlyInfo(n) /\ info'[n].error = "EXCEPT"
        /\ info'[n].endpts = info[n].endpts
    BY <2>1, <2>2, SetsError DEF ConnTypes, Errors
  <2>4. /\ queue' \in Seq(Conns) /\ Distinct(queue') /\ On(queue') = On(queue) \ {n}
        /\ n \in On(queue) => Len(queue') = Len(queue) - 1
    BY <2>1, <2>2, QueueRemove
  <2>5. Contains(queue, n) <=> n \in On(queue)
    BY DEF Contains, On
  <2>6. broken' = (broken \/ n \notin On(queue))
    BY <2>1, <2>5
  <2>7. TypeOK'
    <3>1. pc' \in [Conns \cup Takers -> Labels]
      BY <2>1, <2>2 DEF ConnTypes, Goto, Labels
    <3>2. lock' \in Conns \cup {Nobody} /\ qsize' \in Int /\ broken' \in BOOLEAN
      BY <2>1, <2>2, <2>6
    <3> QED
      BY <2>2, <2>3, <2>4, <3>1, <3>2 DEF TypeOK, Labels, Record
  <2>8. ConnInv'
    BY <1>2, <2>1, <2>2, <2>3, <2>4, <2>6, GiveUpStep
  <2> QED
    BY <2>7, <2>8
<1> QED
  BY <1>1, <1>2

\* Relock tests the loop for the first time.
LEMMA RelockStep ==
    ASSUME Known, NEW n \in Conns, Relock(n), UNCHANGED epvars
    PROVE  TypeOK' /\ ConnInv'
<1>1. n \notin asleep
  BY DEF Known, ConnInv, Places, Relock
<1> QED
  BY <1>1, LoopStep DEF Relock, epvars

\* ToWait gives up, or sleeps.
LEMMA ToWaitStep ==
    ASSUME Known, NEW n \in Conns, ToWait(n), UNCHANGED epvars
    PROVE  TypeOK' /\ ConnInv'
<1>1. n \notin asleep /\ pc[n] = "towait"
  BY DEF Known, ConnInv, Places, ToWait
<1>2. CASE n \in pending
  BY <1>1, <1>2, GivesUp DEF ToWait, epvars
<1>3. CASE n \notin pending
  <2>1. /\ asleep' = asleep \cup {n} /\ lock' = Nobody /\ Goto(n, "waiting")
        /\ UNCHANGED <<queue, qsize, info, pending, broken>>
        /\ UNCHANGED <<qmax, seqno_seed, hold, know, listeners, shaking, posts, unlocked>>
    BY <1>3 DEF ToWait
  <2>2. ConnInv'
    BY <1>1, <2>1, SleepStep DEF Known, epvars
  <2>3. TypeOK'
    BY <2>1 DEF Known, TypeOK, Goto, epvars
  <2> QED
    BY <2>2, <2>3
<1> QED
  BY <1>2, <1>3

\* Woken gives up, or tests the loop again.
LEMMA WokenStep ==
    ASSUME Known, NEW n \in Conns, Woken(n), UNCHANGED epvars
    PROVE  TypeOK' /\ ConnInv'
<1>1. CASE n \in pending
  BY <1>1, GivesUp DEF Woken, epvars
<1>2. CASE n \notin pending
  BY <1>2, LoopStep DEF Woken, epvars
<1> QED
  BY <1>1, <1>2

\* Listen shows a request, waits or is interrupted.
LEMMA ListenStep ==
    ASSUME Known, NEW s \in Servers, Listen(s), UNCHANGED epvars
    PROVE  TypeOK' /\ ConnInv'
<1>1. TypeOK /\ ConnTypes /\ ConnInv /\ s \in Takers
  BY DEF Known, Takers
<1>2. TypeOK'
  <2>1. CASE /\ queue # <<>> /\ know' = [know EXCEPT ![s] = info[Head(queue)].seqno]
             /\ UNCHANGED <<pc, listeners, pending>>
    <3>1. Head(queue) \in Conns
      BY <1>1, <2>1 DEF TypeOK
    <3>2. info[Head(queue)].seqno \in Nat
      BY <1>1, <3>1 DEF ConnTypes, Record
    <3> QED
      BY <1>1, <2>1, <3>2 DEF TypeOK, Listen, epvars
  <2>2. CASE /\ listeners' = Append(listeners, s) /\ Goto(s, "listening")
             /\ UNCHANGED <<know, pending>>
    BY <1>1, <2>2 DEF TypeOK, Listen, Goto, epvars
  <2>3. CASE pending' = pending \ {s} /\ UNCHANGED <<pc, know, listeners>>
    BY <1>1, <2>3 DEF TypeOK, Listen, epvars
  <2> QED
    BY <2>1, <2>2, <2>3 DEF Listen
<1>3. ConnInv'
  <2>1. pc' = pc \/ ({pc[s], "listening"} \subseteq {"idle", "listening"} /\ Goto(s, "listening"))
    BY DEF Listen
  <2> QED
    BY <1>1, <2>1, AsideStep DEF Listen, epvars
<1> QED
  BY <1>2, <1>3

\* ListenWoken returns from the wait.
LEMMA ListenWokenStep ==
    ASSUME Known, NEW s \in Servers, ListenWoken(s), UNCHANGED epvars
    PROVE  TypeOK' /\ ConnInv'
<1>1. TypeOK /\ ConnTypes /\ ConnInv /\ s \in Takers
  BY DEF Known, Takers
<1>2. TypeOK'
  BY <1>1 DEF TypeOK, ListenWoken, Goto, epvars
<1>3. ConnInv'
  BY <1>1, AsideStep DEF ListenWoken, epvars
<1> QED
  BY <1>2, <1>3

\* NotFound forgets the number.
LEMMA NotFoundStep ==
    ASSUME Known, NEW s \in Servers, NotFound(s), UNCHANGED epvars
    PROVE  TypeOK' /\ ConnInv'
<1>1. TypeOK /\ ConnTypes /\ ConnInv /\ s \in Takers
  BY DEF Known, Takers
<1>2. TypeOK'
  BY <1>1 DEF TypeOK, NotFound, epvars
<1>3. ConnInv'
  BY <1>1, AsideStep DEF NotFound, epvars
<1> QED
  BY <1>2, <1>3

\* Post and Shake touch no request; a shaken call is no longer asleep.
LEMMA PostStep ==
    ASSUME Known, NEW t \in Interruptible, Post(t), UNCHANGED epvars
    PROVE  TypeOK' /\ ConnInv'
<1>1. TypeOK /\ ConnTypes /\ ConnInv /\ t \in Conns \cup Servers /\ t \in Conns \cup Takers
  BY ConnectorAssumption DEF Known, Takers
<1>2. TypeOK'
  BY <1>1, ConnectorAssumption DEF TypeOK, Post, epvars
<1>3. ConnInv'
  BY <1>1, AsideStep DEF Post, epvars
<1> QED
  BY <1>2, <1>3

\* Shake wakes the call, or the oldest listener.
LEMMA ShakeStep ==
    ASSUME Known, NEW t \in Interruptible, Shake(t), UNCHANGED epvars
    PROVE  TypeOK' /\ ConnInv'
<1>1. TypeOK /\ ConnTypes /\ ConnInv /\ t \in Conns \cup Takers
  BY ConnectorAssumption DEF Known, Takers
<1>2. TypeOK'
  BY <1>1 DEF TypeOK, Shake, epvars
<1>3. ConnInv'
  BY <1>1, AsideStep DEF Shake, epvars
<1> QED
  BY <1>2, <1>3

\* What taking the first request off does to the queue.
LEMMA DequeueFacts ==
    ASSUME Known, NEW t \in Takers, queue # <<>>, Dequeue(t)
    PROVE  /\ Head(queue) \in On(queue) /\ Head(queue) \in Conns
           /\ queue' \in Seq(Conns) /\ Distinct(queue') /\ On(queue') = On(queue) \ {Head(queue)}
           /\ Len(queue') = Len(queue) - 1 /\ Len(queue) \in Nat
           /\ qsize \in Int /\ qmax \in Int /\ qsize' = qsize - 1
           /\ hold' = [hold EXCEPT ![t] = Head(queue)]
           /\ hold' \in [Takers -> Conns \cup {Nobody}]
<1>1. queue \in Seq(Conns) /\ Distinct(queue)
  BY DEF Known, TypeOK, ConnInv, Once
<1>2. /\ Head(queue) \in On(queue) /\ Head(queue) \in Conns
      /\ queue' \in Seq(Conns) /\ Distinct(queue') /\ On(queue') = On(queue) \ {Head(queue)}
      /\ Len(queue') = Len(queue) - 1
  BY <1>1, QueueTake DEF Dequeue
<1>3. Len(queue) \in Nat
  BY <1>1
<1> QED
  BY <1>2, <1>3 DEF Dequeue, Known, TypeOK, ConnTypes

\* Accept takes the first request.
LEMMA AcceptStep ==
    ASSUME Known, NEW s \in Servers, Accept(s), UNCHANGED epvars
    PROVE  TypeOK' /\ ConnInv'
<1>1. TypeOK /\ ConnTypes /\ ConnInv /\ s \in Takers /\ queue # <<>> /\ Dequeue(s)
  BY DEF Known, Takers, Accept, Finds
<1>2. PICK n \in On(queue) : n = Head(queue)
  BY <1>1, DequeueFacts
<1>3. TypeOK'
  <2>1. /\ queue' \in Seq(Conns) /\ qsize' \in Int /\ hold' \in [Takers -> Conns \cup {Nobody}]
    BY <1>1, DequeueFacts
  <2>2. pc' \in [Conns \cup Takers -> Labels]
    BY <1>1 DEF ConnTypes, Accept, Goto, Labels
  <2>3. UNCHANGED <<lock, qmax, seqno_seed, info, know, listeners, asleep, pending, shaking, posts, broken, unlocked,
                    ep, dis, disconnects>>
    BY DEF Accept, epvars
  <2> QED
    BY <1>1, <2>1, <2>2, <2>3 DEF TypeOK, Labels
<1>4. ConnInv'
  BY <1>1, <1>2, DequeueFacts, TakeStep DEF Accept, epvars
<1> QED
  BY <1>3, <1>4

\* net_reject takes the first request and answers it.
LEMMA RejectedStep ==
    ASSUME Known, NEW s \in Servers, net_reject(s), UNCHANGED epvars
    PROVE  TypeOK' /\ ConnInv'
<1>1. TypeOK /\ ConnTypes /\ ConnInv /\ s \in Takers /\ queue # <<>> /\ Dequeue(s)
  BY DEF Known, Takers, net_reject, Finds
<1>2. PICK n \in On(queue) : n = Head(queue) /\ n \in Conns
  BY <1>1, DequeueFacts
<1>3. info' \in [Conns -> Record] /\ OnlyInfo(n) /\ info'[n].error = "REFUSED"
  <2>1. info' = [info EXCEPT ![n].state = "REJECTED", ![n].error = "REFUSED"]
    BY <1>2 DEF net_reject
  <2> QED
    BY <1>1, <1>2, <2>1 DEF ConnTypes, Record, States, Errors, OnlyInfo
<1>4. TypeOK'
  <2>1. /\ queue' \in Seq(Conns) /\ qsize' \in Int /\ hold' \in [Takers -> Conns \cup {Nobody}]
    BY <1>1, DequeueFacts
  <2>2. pc' \in [Conns \cup Takers -> Labels]
    BY <1>1 DEF ConnTypes, net_reject, Goto, Labels
  <2>3. UNCHANGED <<lock, qmax, seqno_seed, know, listeners, asleep, pending, shaking, posts, broken, unlocked,
                    ep, dis, disconnects>>
    BY DEF net_reject, epvars
  <2> QED
    BY <1>1, <1>3, <2>1, <2>2, <2>3 DEF TypeOK, Labels, Record
<1>5. ConnInv'
  BY <1>1, <1>2, <1>3, DequeueFacts, RejectStep DEF net_reject, epvars
<1> QED
  BY <1>4, <1>5

\* MakeAgent goes on, fails, or drops the record.
LEMMA MakeAgentStep ==
    ASSUME Known, NEW s \in Servers, MakeAgent(s), UNCHANGED epvars
    PROVE  TypeOK' /\ ConnInv'
<1>1. /\ TypeOK /\ ConnTypes /\ ConnInv /\ s \in Takers /\ pc[s] = "created"
      /\ hold[s] \in Conns /\ info[hold[s]].endpts
  BY DEF Known, Takers, MakeAgent, ConnInv, Places, Working, ConnTypes, MadeFirst
<1>2. ASSUME NEW l \in {"succeeded", "failed"}, Goto(s, l),
             UNCHANGED <<lock, hold, know, broken, unlocked>>
      PROVE  TypeOK' /\ ConnInv'
  <2>1. TypeOK'
    BY <1>1, <1>2 DEF TypeOK, MakeAgent, Goto, epvars
  <2>2. PICK n \in Conns : n = hold[s]
    BY <1>1
  <2>3. OnlyInfo(n) /\ info'[n].error = info[n].error /\ info'[n].endpts
    BY <1>1, <2>2 DEF MakeAgent, OnlyInfo
  <2>4. ConnInv'
    BY <1>1, <1>2, <2>2, <2>3, WorkStep DEF MakeAgent, epvars
  <2> QED
    BY <2>1, <2>4
<1>3. ASSUME lock' = Nobody, unlocked' = unlocked \cup {hold[s]}, broken' = (broken \/ lock # Nobody),
             hold' = [hold EXCEPT ![s] = Nobody], know' = [know EXCEPT ![s] = 0], Goto(s, "idle")
      PROVE  TypeOK' /\ ConnInv'
  <2>1. TypeOK'
    BY <1>1, <1>3 DEF TypeOK, MakeAgent, Goto, epvars
  <2>2. ConnInv'
    BY <1>1, <1>3, AbortStep DEF MakeAgent, epvars
  <2> QED
    BY <2>1, <2>2
<1> QED
  BY <1>2, <1>3 DEF MakeAgent

\* The record with its answer.
LEMMA AnsweredRecord ==
    ASSUME NEW r \in Record
    PROVE  /\ [r EXCEPT !.state = "ACCEPTED", !.error = "SUCCESS"] \in Record
           /\ [r EXCEPT !.state = "ACCEPTED", !.error = "SUCCESS"].error = "SUCCESS"
           /\ [r EXCEPT !.state = "ACCEPTED", !.error = "SUCCESS"].state = "ACCEPTED"
           /\ [r EXCEPT !.state = "ACCEPTED", !.error = "SUCCESS"].endpts = r.endpts
           /\ [r EXCEPT !.state = "REJECTED", !.error = "FAILED"] \in Record
           /\ [r EXCEPT !.state = "REJECTED", !.error = "FAILED"].error = "FAILED"
BY DEF Record, States, Errors

\* Answer tells the call how net_accept ended.
LEMMA AnswersStep ==
    ASSUME Known, NEW s \in Servers, Answer(s), UNCHANGED epvars
    PROVE  TypeOK' /\ ConnInv'
<1>1. /\ TypeOK /\ ConnTypes /\ ConnInv /\ s \in Takers /\ pc[s] \in {"succeeded", "failed"}
      /\ hold[s] \in Conns
      /\ pc[s] = "succeeded" => info[hold[s]].endpts
  BY DEF Known, Takers, Answer, ConnInv, Places, Working, ConnTypes, MadeFirst
<1>2. PICK n \in Conns : n = hold[s]
  BY <1>1
<1>3. info \in [Conns -> Record] /\ info[n] \in Record
  BY <1>1 DEF ConnTypes
<1>4. PICK r : /\ r = IF pc[s] = "succeeded" THEN [info[n] EXCEPT !.state = "ACCEPTED", !.error = "SUCCESS"]
                      ELSE [info[n] EXCEPT !.state = "REJECTED", !.error = "FAILED"]
  OBVIOUS
<1>5. /\ r \in Record /\ r.error \in {"SUCCESS", "FAILED"}
      /\ r.error = "SUCCESS" => r.endpts /\ r.state = "ACCEPTED"
  <2>1. CASE pc[s] = "succeeded"
    BY <2>1, <1>1, <1>2, <1>3, <1>4, AnsweredRecord
  <2>2. CASE pc[s] # "succeeded"
    BY <2>2, <1>3, <1>4, AnsweredRecord
  <2> QED
    BY <2>1, <2>2
<1>6. info' = [info EXCEPT ![n] = r]
  BY <1>2, <1>4 DEF Answer
<1>7. info' \in [Conns -> Record] /\ OnlyInfo(n) /\ info'[n] = r
  BY <1>3, <1>5, <1>6 DEF OnlyInfo
<1>8. TypeOK'
  BY <1>1, <1>7 DEF TypeOK, Answer, Goto, epvars, Record
<1>9. ConnInv'
  BY <1>1, <1>2, <1>5, <1>7, AnswerStep DEF Answer, epvars
<1> QED
  BY <1>8, <1>9

\* WakeActive wakes the call and lets its record go.
LEMMA WakeActiveStep ==
    ASSUME Known, NEW t \in Takers, WakeActive(t), UNCHANGED epvars
    PROVE  TypeOK' /\ ConnInv'
<1>1. TypeOK /\ ConnTypes /\ ConnInv
  BY DEF Known
<1>2. PICK l : l = IF t = Admin THEN "trim" ELSE "idle"
  OBVIOUS
<1>3. Goto(t, l) /\ ((t = Admin /\ l = "trim") \/ (t # Admin /\ l = "idle"))
  BY <1>2 DEF WakeActive
<1>4. ConnInv'
  BY <1>1, <1>3, WakeStep DEF WakeActive, epvars
<1>5. know' \in [Servers -> Nat]
  BY <1>1 DEF WakeActive, TypeOK, Takers
<1>6. TypeOK'
  BY <1>1, <1>3, <1>5 DEF TypeOK, WakeActive, Goto, epvars
<1> QED
  BY <1>4, <1>6

\* SetQmax: the limit may be exceeded until the owner is through.
LEMMA SetQmaxStep ==
    ASSUME Known, NEW q \in Qmaxes, SetQmax(q), UNCHANGED epvars
    PROVE  TypeOK' /\ ConnInv'
<1>1. TypeOK /\ ConnTypes /\ ConnInv /\ q \in Int
  BY ConnectorAssumption DEF Known
<1>2. TypeOK'
  BY <1>1 DEF TypeOK, SetQmax, Goto, epvars, ConnTypes
<1>3. qsize \in Int /\ qmax \in Int /\ qmax' \in Int /\ Len(queue) \in Nat
  BY <1>1 DEF TypeOK, SetQmax
<1>4. ConnInv'
  BY <1>1, <1>3, OwnerStep DEF SetQmax, epvars
<1> QED
  BY <1>2, <1>4

\* Trim takes a request too many, or finds that what is left fits.
LEMMA TrimStep ==
    ASSUME Known, Trim, UNCHANGED epvars
    PROVE  TypeOK' /\ ConnInv'
<1>1. TypeOK /\ ConnTypes /\ ConnInv /\ Admin \in Takers
  BY DEF Known, ConnTypes
<1>2. CASE queue # <<>> /\ Dequeue(Admin) /\ Goto(Admin, "refuse")
  <2>1. PICK n \in On(queue) : n = Head(queue)
    BY <1>1, <1>2, DequeueFacts
  <2>2. TypeOK'
    BY <1>1, <1>2, DequeueFacts DEF TypeOK, Trim, Goto, epvars, Dequeue
  <2>3. ConnInv'
    BY <1>1, <1>2, <2>1, DequeueFacts, TakeStep DEF Trim, epvars
  <2> QED
    BY <2>2, <2>3
<1>3. CASE qsize <= qmax /\ Goto(Admin, "idle") /\ UNCHANGED <<queue, qsize, hold>>
  <2>1. TypeOK'
    BY <1>1, <1>3 DEF TypeOK, Trim, Goto, epvars
  <2>2. qsize \in Int /\ qmax \in Int /\ qmax' \in Int /\ Len(queue) \in Nat
    BY <1>1 DEF TypeOK, Trim
  <2>3. ConnInv'
    BY <1>1, <1>3, <2>2, OwnerStep DEF Trim, epvars
  <2> QED
    BY <2>1, <2>3
<1>4. CASE broken' = TRUE /\ UNCHANGED <<queue, qsize, hold, pc>>
  <2>1. TypeOK'
    BY <1>1, <1>4 DEF TypeOK, Trim, epvars
  <2>2. /\ Places' /\ Once' /\ Unstarted' /\ QueuedOpen' /\ Answered' /\ MadeFirst' /\ Accounted' /\ Unborn'
    BY <1>1, <1>4 DEF ConnInv, Trim, epvars, Places, Once, Unstarted, QueuedOpen, Answered, MadeFirst,
         Accounted, Unborn
  <2>3. HeldOpen' /\ Locked' /\ QueueCounted' /\ QueueBounded' /\ NoLostAnswer'
    BY <1>1, <1>4 DEF ConnInv, Trim, HeldOpen, Locked, QueueCounted, QueueBounded, NoLostAnswer
  <2> QED
    BY <2>1, <2>2, <2>3 DEF ConnInv
<1> QED
  BY <1>2, <1>3, <1>4 DEF Trim

\* TrimRefuse answers without the lock.
LEMMA TrimRefuseStep ==
    ASSUME Known, TrimRefuse, UNCHANGED epvars
    PROVE  TypeOK' /\ ConnInv'
<1>1. TypeOK /\ ConnTypes /\ ConnInv /\ Admin \in Takers /\ pc[Admin] = "refuse" /\ hold[Admin] \in Conns
  BY DEF Known, ConnTypes, TrimRefuse, ConnInv, Places, Working
<1>2. PICK n \in Conns : n = hold[Admin]
  BY <1>1
<1>3. info' \in [Conns -> Record] /\ OnlyInfo(n) /\ info'[n].error = "REFUSED"
  <2>1. info' = [info EXCEPT ![n].error = "REFUSED"]
    BY <1>2 DEF TrimRefuse
  <2> QED
    BY <1>1, <1>2, <2>1 DEF ConnTypes, Record, States, Errors, OnlyInfo
<1>4. TypeOK'
  BY <1>1, <1>3 DEF TypeOK, TrimRefuse, Goto, epvars, Record
<1>5. ConnInv'
  BY <1>1, <1>2, <1>3, OwnerRefuses DEF TrimRefuse, epvars
<1> QED
  BY <1>4, <1>5

\* TrimMark writes the state.
LEMMA TrimMarkStep ==
    ASSUME Known, TrimMark, UNCHANGED epvars
    PROVE  TypeOK' /\ ConnInv'
<1>1. TypeOK /\ ConnTypes /\ ConnInv /\ Admin \in Takers /\ pc[Admin] = "refused" /\ hold[Admin] \in Conns
  BY DEF Known, ConnTypes, TrimMark, ConnInv, Places
<1>2. PICK n \in Conns : n = hold[Admin]
  BY <1>1
<1>3. info' \in [Conns -> Record] /\ OnlyInfo(n) /\ info'[n].error = info[n].error
  <2>1. info' = [info EXCEPT ![n].state = "REJECTED"]
    BY <1>2 DEF TrimMark
  <2> QED
    BY <1>1, <1>2, <2>1 DEF ConnTypes, Record, States, OnlyInfo
<1>4. TypeOK'
  BY <1>1, <1>3 DEF TypeOK, TrimMark, Goto, epvars, Record
<1>5. ConnInv'
  BY <1>1, <1>2, <1>3, OwnerMarks DEF TrimMark, epvars
<1> QED
  BY <1>4, <1>5

\* The record of a connection that is set up, or fails to be.
LEMMA SetUpRecord ==
    ASSUME NEW r \in Record, NEW b \in BOOLEAN
    PROVE  /\ [r EXCEPT !.state = "ACCEPTING", !.endpts = b] \in Record
           /\ [r EXCEPT !.state = "ACCEPTING", !.endpts = b].error = r.error
           /\ [r EXCEPT !.state = "ACCEPTING", !.endpts = b].endpts = b
BY DEF Record, States

\* The endpoints are made of a connection nothing was done to.
LEMMA SetupStep ==
    ASSUME IInv, NEW s \in Servers, SetupPair(s)
    PROVE  IInv'
<1>1. /\ TypeOK /\ ConnTypes /\ ConnInv /\ s \in Takers /\ pc[s] = "accepting" /\ hold[s] \in Conns
      /\ EndTypes /\ Severed
  BY IsKnown, EndTypesHold DEF IInv, Known, Takers, SetupPair, Setup, ConnInv, Places, Working, ConnTypes
<1>2. PICK n \in Conns : n = hold[s]
  BY <1>1
<1>3. PICK made \in BOOLEAN :
          /\ info' = [info EXCEPT ![n].state = "ACCEPTING", ![n].endpts = made]
          /\ Goto(s, IF made THEN "created" ELSE "failed")
  BY <1>2 DEF SetupPair, Setup
<1>4. PICK l : Goto(s, l) /\ l \in {"created", "failed"} /\ (l = "created" => made)
  BY <1>3
<1>5. /\ info' \in [Conns -> Record] /\ OnlyInfo(n) /\ info'[n].error = info[n].error
      /\ info'[n].endpts = made
  <2>1. info \in [Conns -> Record] /\ info[n] \in Record
    BY <1>1 DEF ConnTypes
  <2>2. PICK r : r = [info[n] EXCEPT !.state = "ACCEPTING", !.endpts = made]
    OBVIOUS
  <2>3. r \in Record /\ r.error = info[n].error /\ r.endpts = made
    BY <2>1, <2>2, SetUpRecord
  <2>4. info' = [info EXCEPT ![n] = r]
    BY <1>3, <2>2
  <2> QED
    BY <2>1, <2>3, <2>4 DEF OnlyInfo
<1>6. /\ dis' = dis /\ disconnects' = disconnects
      /\ UNCHANGED <<lock, queue, qsize, qmax, seqno_seed, hold, know, listeners, asleep, pending, shaking,
                     posts, broken, unlocked>>
      /\ \/ ep' = ep
         \/ n \in Pairs /\ ep' = [ep EXCEPT ![n] = [x \in Sides |-> NewEndpoint]]
  BY <1>2 DEF SetupPair, Setup
<1>7. EndTypes'
  <2>1. NewEndpoint \in Endpoint
    BY DEF NewEndpoint, Endpoint, Stream
  <2>2. [x \in Sides |-> NewEndpoint] \in [Sides -> Endpoint]
    BY <2>1
  <2> HIDE DEF Endpoint
  <2> QED
    BY <2>2, <1>1, <1>6 DEF EndTypes
<1>8. \A m \in Pairs : m # n => ep'[m] = ep[m] /\ dis'[m] = dis[m]
  BY <1>1, <1>6 DEF EndTypes
<1>9. Severed'
  <2>1. CASE ep' = ep
    BY <2>1, <1>1, <1>6 DEF Severed
  <2>2. CASE n \in Pairs /\ ep' = [ep EXCEPT ![n] = [x \in Sides |-> NewEndpoint]]
    <3>1. \A x \in Sides : dis'[n][x] = "no" /\ ep'[n][x].costate = "CONNECTED"
      <4>1. n \in Pairs /\ ep'[n] = [x \in Sides |-> NewEndpoint]
        BY <2>2, <1>1 DEF EndTypes
      <4>2. NewEndpoint.costate = "CONNECTED"
        BY DEF NewEndpoint
      <4>3. \A x \in Sides : dis[n][x] = "no"
        BY <4>1, <1>1, <1>2 DEF ConnInv, Unborn
      <4> QED
        BY <4>1, <4>2, <4>3, <1>6
    <3> QED
      BY <3>1, <1>1, <1>8, OtherSide DEF Severed, Told
  <2> QED
    BY <2>1, <2>2, <1>6
<1>10. ConnInv'
  BY <1>1, <1>2, <1>4, <1>5, <1>6, <1>8, WorkStep
<1>11. TypeOK' /\ DisType'
  BY <1>1, <1>4, <1>5, <1>6, <1>7 DEF TypeOK, DisType, EndTypes, Endpoint, Progress, Goto, Record, IInv
<1> QED
  BY <1>9, <1>10, <1>11 DEF IInv

-----------------------------------------------------------------------------
(* The theorems                                                            *)

\* The invariant holds at first.
LEMMA InitIInv == Init => IInv
<1> SUFFICES ASSUME Init PROVE IInv
  OBVIOUS
<1> USE DEF Init, ConnInit, EpInit
<1>1. Len(queue) = 0 /\ On(queue) = {} /\ Distinct(queue)
  BY DEF On, Distinct
<1>2. TypeOK
  <2>1. NewInfo \in [seqno : Nat, state : States, error : Errors, endpts : BOOLEAN]
    BY DEF NewInfo, States, Errors
  <2>2. NoEndpoint \in [costate : {"NONE", "CONNECTED", "DISCONNECTED"},
                        read : SUBSET Stream, write : SUBSET Stream, peer : BOOLEAN]
    BY DEF NoEndpoint, Stream
  <2>3. /\ lock \in Conns \cup {Nobody} /\ queue \in Seq(Conns)
        /\ qsize \in Int /\ qmax \in Int /\ seqno_seed \in Nat \ {0}
        /\ listeners \in Seq(Servers) /\ posts \in 0..MaxPosts /\ disconnects \in 0..MaxDisconnects
    BY ConnectorAssumption, EndpointAssumption
  <2>4. /\ info \in [Conns -> [seqno : Nat, state : States, error : Errors, endpts : BOOLEAN]]
        /\ ep \in [Pairs -> [Sides -> [costate : {"NONE", "CONNECTED", "DISCONNECTED"},
                                      read : SUBSET Stream, write : SUBSET Stream, peer : BOOLEAN]]]
    BY <2>1, <2>2
  <2> QED
    BY <2>3, <2>4 DEF TypeOK
<1>3. DisType
  BY DEF DisType
<1>4. ConnTypes
  BY <1>2, ConnTypesHold
<1>5. Places /\ Once /\ Unstarted /\ QueuedOpen /\ HeldOpen /\ Answered /\ MadeFirst
  BY <1>1, <1>4 DEF ConnTypes, Places, Once, Unstarted, QueuedOpen, HeldOpen, Answered, MadeFirst, Pending, Working,
       NewInfo
<1>6. Locked /\ Accounted /\ NoLostAnswer
  BY <1>1, <1>4 DEF ConnTypes, Locked, Accounted, NoLostAnswer, NewInfo
<1>7. QueueCounted /\ QueueBounded
  BY <1>1, ConnectorAssumption DEF QueueCounted, QueueBounded
<1>8. Unborn
  BY DEF Unborn, NoEndpoint
<1>9. Severed
  BY OtherSide DEF Severed, NoEndpoint, Told
<1> QED
  BY <1>2, <1>3, <1>5, <1>6, <1>7, <1>8, <1>9 DEF IInv, ConnInv

\* Every step of the connector keeps it.
LEMMA ConnStepIInv ==
    ASSUME IInv, ConnStep, UNCHANGED epvars
    PROVE  IInv'
<1>1. Known
  BY IsKnown
<1>2. TypeOK' /\ ConnInv'
  BY <1>1, UpcallStep, SignalStep, RelockStep, ToWaitStep, WokenStep, ListenStep, ListenWokenStep,
     NotFoundStep, AcceptStep, MakeAgentStep, AnswersStep, RejectedStep, WakeActiveStep, SetQmaxStep,
     TrimStep, TrimRefuseStep, TrimMarkStep, PostStep, ShakeStep DEF ConnStep
<1>3. DisType' /\ Severed'
  BY DEF IInv, DisType, Severed, epvars
<1> QED
  BY <1>2, <1>3 DEF IInv

\* Every step keeps the invariant.
LEMMA NextIInv == IInv /\ [Next]_vars => IInv'
<1> SUFFICES ASSUME IInv, [Next]_vars PROVE IInv'
  OBVIOUS
<1>1. CASE ConnStep /\ UNCHANGED epvars
  BY <1>1, ConnStepIInv
<1>2. CASE \E s \in Servers : SetupPair(s)
  BY <1>2, SetupStep
<1>3. CASE \E n \in Pairs, x \in Sides : /\ (Has(n, x) /\ net_snddis(n, x)) \/ Disconnecting(n, x)
                                         /\ UNCHANGED connvars
  BY <1>3, DisconnectStep
<1>4. CASE UNCHANGED vars
  BY <1>4 DEF vars, connvars, epvars, IInv, TypeOK, DisType, ConnInv, Places, Once, Unstarted, QueuedOpen,
       HeldOpen, Answered, MadeFirst, Locked, Accounted, QueueCounted, QueueBounded, NoLostAnswer, Holders,
       Unborn, Severed
<1> QED
  BY <1>1, <1>2, <1>3, <1>4 DEF Next

\* A set whose members are all one has none or one.
LEMMA AtMostOne ==
    ASSUME NEW S, \A a, b \in S : a = b
    PROVE  Cardinality(S) \in {0, 1} /\ (S = {} => Cardinality(S) = 0)
<1>1. CASE S = {}
  BY <1>1, FS_EmptySet
<1>2. CASE S # {}
  <2>1. PICK a \in S : S = {a}
    BY <1>2
  <2> QED
    BY <2>1, <1>2, FS_Singleton
<1> QED
  BY <1>1, <1>2

\* The connector's and the endpoints' invariant holds in every state.
THEOREM Invariance == Spec => []IInv
BY InitIInv, NextIInv, PTL DEF Spec

\* RequestSound holds in every state of every run: a request of net_connect
\* that has no answer is on the queue, once, or with one taker; the queue keeps
\* its limit; and no answer is written to a record whose call has returned, up
\* to the moment an interrupt breaks the queue.  What is done to the record after
\* the answer, the signal above all, is not part of it.
THEOREM RequestsAreSound == Spec => []RequestSound
<1>1. IInv => RequestSound
  <2> SUFFICES ASSUME IInv PROVE RequestSound
    OBVIOUS
  <2>1. TypeOK /\ ConnTypes /\ ConnInv
    BY IsKnown DEF Known
  <2>2. Custody
    <3>1. ~broken => qsize = Len(queue)
      BY <2>1 DEF ConnInv, QueueCounted
    <3>2. ASSUME NEW n \in Conns
          PROVE  Cardinality({i \in DOMAIN queue : queue[i] = n}) + Cardinality(Holders(n)) <= 1
      <4>1. DOMAIN queue = 1..Len(queue)
        BY <2>1 DEF TypeOK
      <4>2. PICK A : A = {i \in DOMAIN queue : queue[i] = n}
        OBVIOUS
      <4>3. PICK B : B = Holders(n)
        OBVIOUS
      <4>4. \A i, j \in A : i = j
        BY <2>1, <4>1, <4>2 DEF ConnInv, Once, Distinct
      <4>5. \A t, u \in B : t = u
        BY <2>1, <4>3 DEF ConnInv, Once, ConnTypes, Holders
      <4>6. A = {} \/ B = {}
        BY <2>1, <4>1, <4>2, <4>3 DEF ConnInv, Once, On, Holders
      <4>7. Cardinality(A) \in {0, 1} /\ (A = {} => Cardinality(A) = 0)
        BY <4>4, AtMostOne
      <4>8. Cardinality(B) \in {0, 1} /\ (B = {} => Cardinality(B) = 0)
        BY <4>5, AtMostOne
      <4>9. Cardinality(A) + Cardinality(B) <= 1
        BY <4>6, <4>7, <4>8
      <4> QED
        BY <4>2, <4>3, <4>9
    <3>3. ASSUME NEW n \in Conns, info[n].error = "NOT_STARTED", n \notin unlocked
          PROVE  Contains(queue, n) \/ Holders(n) # {}
      BY <2>1, <3>3 DEF ConnInv, Accounted, On, Contains, Holders
    <3> QED
      BY <3>1, <3>2, <3>3 DEF Custody
  <2>3. AnsweredAlive
    BY <2>1 DEF ConnInv, HeldOpen, AnsweredAlive, Working, Pending
  <2> QED
    BY <2>1, <2>2, <2>3 DEF RequestSound, ConnInv
<1> QED
  BY <1>1, Invariance, PTL

\* AnswerSound holds in every state of every run: net_connect succeeds only
\* when net_accept made both endpoints and accepted, and no call sleeps on an
\* answer given with the lock unless somebody is about to wake it.
THEOREM AnswersAreSound == Spec => []AnswerSound
<1>1. IInv => AnswerSound
  BY DEF IInv, ConnInv, MadeFirst, AnswerSound, ConnectedBoth
<1> QED
  BY <1>1, Invariance, PTL

\* NobodyWaits holds in every state of every run: once no net_snddis is under
\* way, a pipe one end of which is disconnected is disconnected at both, and
\* neither end can be written to or waited on.
THEOREM NobodyIsLeftWaiting == Spec => []NobodyWaits
<1>1. IInv => NobodyWaits
  <2> SUFFICES ASSUME IInv, NEW n \in Pairs, Quiet(n), NEW x \in Sides, ep[n][x].costate = "DISCONNECTED"
               PROVE  \A z \in Sides : /\ ep[n][z].costate = "DISCONNECTED"
                                       /\ "WAIT_ALLOWED" \notin ep[n][z].read
                                       /\ "ENABLED" \notin ep[n][z].write
    BY DEF NobodyWaits
  <2>1. Severed
    BY DEF IInv
  <2>2. PICK y \in Sides : dis[n][y] = "done"
    BY <2>1, OtherSide DEF Quiet, Severed, Told
  <2>3. Sides = {y, Other(y)}
    BY OtherSide
  <2> QED
    BY <2>1, <2>2, <2>3 DEF Severed, Told
<1> QED
  BY <1>1, Invariance, PTL

-----------------------------------------------------------------------------
(* The connector implements the rendezvous                                 *)

\* The mapped state, as in the substitution of PipeNet.
AbsAsked == {n \in Conns : pc[n] # "idle"}
AbsTaken == {n \in Conns : \E t \in Takers : hold[t] = n /\ pc[t] \in Working}
AnswerOf(e) == IF e \in {"SUCCESS", "REFUSED", "FAILED"} THEN e ELSE "none"
ResultAt(l) == IF l = "connected" THEN "connected" ELSE IF l = "done" THEN "failed" ELSE "none"
AbsAnswer == [n \in Conns |-> AnswerOf(info[n].error)]
AbsResult == [n \in Conns |-> ResultAt(pc[n])]

\* A step that is none of the rendezvous.
LEMMA AbsStutter ==
    ASSUME queue' = queue, AbsAsked' = AbsAsked, AbsTaken' = AbsTaken,
           AbsAnswer' = AbsAnswer, AbsResult' = AbsResult
    PROVE  UNCHANGED Abs!vars
BY DEF Abs!vars, AbsAsked, AbsTaken, AbsAnswer, AbsResult, AnswerOf, ResultAt

\* The steps of the rendezvous, in terms of the mapped state.  A call queues its
\* request.
LEMMA AbsOffer ==
    ASSUME NEW n \in Conns, n \notin AbsAsked, AbsAsked' = AbsAsked \cup {n}, queue' = Append(queue, n),
           AbsTaken' = AbsTaken, AbsAnswer' = AbsAnswer, AbsResult' = AbsResult
    PROVE  Abs!Next
<1>1. Abs!Offer(n)
  BY DEF Abs!Offer, AbsAsked, AbsTaken, AbsAnswer, AbsResult, AnswerOf, ResultAt
<1> QED
  BY <1>1 DEF Abs!Next

\* A call is refused at once.
LEMMA AbsTurnAway ==
    ASSUME NEW n \in Conns, n \notin AbsAsked, AbsAsked' = AbsAsked \cup {n}, queue' = queue,
           AbsTaken' = AbsTaken, AbsAnswer' = [AbsAnswer EXCEPT ![n] = "REFUSED"],
           AbsResult' = [AbsResult EXCEPT ![n] = "failed"]
    PROVE  Abs!Next
<1>1. Abs!TurnAway(n)
  BY DEF Abs!TurnAway, AbsAsked, AbsTaken, AbsAnswer, AbsResult, AnswerOf, ResultAt
<1> QED
  BY <1>1 DEF Abs!Next

\* The first request is taken.
LEMMA AbsTake ==
    ASSUME queue # <<>>, queue' = Tail(queue), AbsAsked' = AbsAsked, AbsTaken' = AbsTaken \cup {Head(queue)},
           AbsAnswer' = AbsAnswer, AbsResult' = AbsResult
    PROVE  Abs!Next
<1>1. Abs!Take
  BY DEF Abs!Take, AbsAsked, AbsTaken, AbsAnswer, AbsResult, AnswerOf, ResultAt
<1> QED
  BY <1>1 DEF Abs!Next

\* The first request is refused.
LEMMA AbsReject ==
    ASSUME queue # <<>>, queue' = Tail(queue), AbsAsked' = AbsAsked, AbsTaken' = AbsTaken,
           AbsAnswer' = [AbsAnswer EXCEPT ![Head(queue)] = "REFUSED"], AbsResult' = AbsResult
    PROVE  Abs!Next
<1>1. Abs!Reject
  BY DEF Abs!Reject, AbsAsked, AbsTaken, AbsAnswer, AbsResult, AnswerOf, ResultAt
<1> QED
  BY <1>1 DEF Abs!Next

\* Whoever has a request answers it.
LEMMA AbsReply ==
    ASSUME NEW n \in AbsTaken, NEW a \in {"SUCCESS", "REFUSED", "FAILED"}, queue' = queue,
           AbsAsked' = AbsAsked, AbsTaken' = AbsTaken \ {n},
           AbsAnswer' = [AbsAnswer EXCEPT ![n] = a], AbsResult' = AbsResult
    PROVE  Abs!Next
<1>1. n \in Conns /\ a \in Abs!Answers
  BY DEF AbsTaken, Abs!Answers
<1>2. Abs!Reply(n, a)
  BY DEF Abs!Reply, AbsAsked, AbsTaken, AbsAnswer, AbsResult, AnswerOf, ResultAt
<1> QED
  BY <1>1, <1>2 DEF Abs!Next

\* Whoever has a request drops it.
LEMMA AbsDrop ==
    ASSUME NEW n \in AbsTaken, queue' = queue,
           AbsAsked' = AbsAsked, AbsTaken' = AbsTaken \ {n}, AbsAnswer' = AbsAnswer, AbsResult' = AbsResult
    PROVE  Abs!Next
<1>1. n \in Conns
  BY DEF AbsTaken
<1>2. Abs!Drop(n)
  BY DEF Abs!Drop, AbsAsked, AbsTaken, AbsAnswer, AbsResult, AnswerOf, ResultAt
<1> QED
  BY <1>1, <1>2 DEF Abs!Next

\* A call returns its answer.
LEMMA AbsReturn ==
    ASSUME NEW n \in Conns, AbsResult[n] = "none", AbsAnswer[n] # "none", queue' = queue,
           AbsAsked' = AbsAsked, AbsTaken' = AbsTaken, AbsAnswer' = AbsAnswer,
           AbsResult' = [AbsResult EXCEPT ![n] = IF AbsAnswer[n] = "SUCCESS" THEN "connected" ELSE "failed"]
    PROVE  Abs!Next
<1>1. Abs!Return(n)
  BY DEF Abs!Return, AbsAsked, AbsTaken, AbsAnswer, AbsResult, AnswerOf, ResultAt
<1> QED
  BY <1>1 DEF Abs!Next

\* A call takes back a request nobody has. The operators on sequences are those
\* of the same module, instantiated.
LEMMA AbsWithdraw ==
    ASSUME NEW n \in Conns, AbsResult[n] = "none", Contains(queue, n), queue' = RemoveFirst(queue, n),
           AbsAsked' = AbsAsked, AbsTaken' = AbsTaken, AbsAnswer' = AbsAnswer,
           AbsResult' = [AbsResult EXCEPT ![n] = "failed"]
    PROVE  Abs!Next
<1>1. Abs!Contains(queue, n)
  BY DEF Abs!Contains, Contains
<1>2. queue' = Abs!RemoveFirst(queue, n)
  BY DEF Abs!RemoveFirst, RemoveFirst, Abs!RemoveAt, RemoveAt, Abs!SelectInSeq, SelectInSeq, Abs!Min, Min
<1>3. Abs!Withdraw(n)
  BY <1>1, <1>2 DEF Abs!Withdraw, AbsAsked, AbsTaken, AbsAnswer, AbsResult, AnswerOf, ResultAt
<1> QED
  BY <1>3 DEF Abs!Next

\* A call leaves a request that is off the queue.
LEMMA AbsDesert ==
    ASSUME NEW n \in AbsAsked, AbsResult[n] = "none", AbsAnswer[n] = "none", ~Contains(queue, n),
           queue' = queue, AbsAsked' = AbsAsked, AbsTaken' = AbsTaken, AbsAnswer' = AbsAnswer,
           AbsResult' = [AbsResult EXCEPT ![n] = "failed"]
    PROVE  Abs!Next
<1>1. n \in Conns /\ ~Abs!Contains(queue, n)
  BY DEF AbsAsked, Abs!Contains, Contains
<1>2. Abs!Desert(n)
  BY <1>1 DEF Abs!Desert, AbsAsked, AbsTaken, AbsAnswer, AbsResult, AnswerOf, ResultAt
<1> QED
  BY <1>1, <1>2 DEF Abs!Next

\* Nothing is asked, taken, answered or returned at first.
LEMMA AbsInitial == Init => Abs!Init
BY DEF Init, ConnInit, NewInfo, Abs!Init, Working, Takers

\* A call moves on, and no taker does.
LEMMA CallMoves ==
    ASSUME ConnTypes, NEW n \in Conns, NEW l, pc[n] # "idle", l # "idle", Goto(n, l), hold' = hold
    PROVE  /\ AbsAsked' = AbsAsked /\ AbsTaken' = AbsTaken
           /\ AbsResult' = [AbsResult EXCEPT ![n] = ResultAt(l)]
<1>1. \A t \in Takers : pc'[t] = pc[t]
  BY DEF ConnTypes, Goto
<1>2. pc'[n] = l /\ \A m \in Conns : m # n => pc'[m] = pc[m]
  BY DEF ConnTypes, Goto
<1>3. AbsAsked' = AbsAsked
  BY <1>2 DEF AbsAsked
<1>4. AbsTaken' = AbsTaken
  BY <1>1 DEF AbsTaken
<1>5. AbsResult' = [AbsResult EXCEPT ![n] = ResultAt(l)]
  BY <1>2 DEF AbsResult
<1> QED
  BY <1>3, <1>4, <1>5

\* A taker moves on, and no call does.
LEMMA TakerMoves ==
    ASSUME ConnTypes, NEW t \in Takers, NEW l, Goto(t, l)
    PROVE  AbsAsked' = AbsAsked /\ AbsResult' = AbsResult
<1>1. \A n \in Conns : pc'[n] = pc[n]
  BY DEF ConnTypes, Goto
<1> QED
  BY <1>1 DEF AbsAsked, AbsResult

\* A record changes, and its answer perhaps.
LEMMA RecordMoves ==
    ASSUME NEW n \in Conns, OnlyInfo(n)
    PROVE  /\ AbsAnswer' = [AbsAnswer EXCEPT ![n] = AnswerOf(info'[n].error)]
           /\ AnswerOf(info'[n].error) = AnswerOf(info[n].error) => AbsAnswer' = AbsAnswer
BY DEF AbsAnswer, OnlyInfo

\* What a call has learnt fits where it is: nothing before its upcall, and no
\* interruption while it waits.
Asking == \A n \in Conns : /\ pc[n] = "idle" => info[n].error = "none"
                           /\ pc[n] \in Pending => info[n].error \notin {"none", "EXCEPT"}

\* A call moves on.
LEMMA AskingCall ==
    ASSUME Asking, NEW n \in Conns, OnlyInfo(n), \A m \in Conns : m # n => pc'[m] = pc[m],
           pc'[n] # "idle", pc'[n] \in Pending => info'[n].error \notin {"none", "EXCEPT"}
    PROVE  Asking'
BY DEF Asking, OnlyInfo

\* A taker answers a call that has made its request.
LEMMA AskingAnswer ==
    ASSUME Asking, NEW n \in Conns, OnlyInfo(n), \A m \in Conns : pc'[m] = pc[m],
           pc[n] # "idle", info'[n].error \in {"SUCCESS", "REFUSED", "FAILED"}
    PROVE  Asking'
BY DEF Asking, OnlyInfo

\* A taker does anything else.
LEMMA AskingSame ==
    ASSUME Asking, \A m \in Conns : pc'[m] = pc[m] /\ info'[m].error = info[m].error
    PROVE  Asking' /\ AbsAsked' = AbsAsked /\ AbsResult' = AbsResult /\ AbsAnswer' = AbsAnswer
<1>1. Asking'
  BY DEF Asking
<1>2. AbsAsked' = AbsAsked /\ AbsResult' = AbsResult
  BY DEF AbsAsked, AbsResult
<1>3. AbsAnswer' = AbsAnswer
  BY DEF AbsAnswer
<1> QED
  BY <1>1, <1>2, <1>3

\* Only taker t moves, to l.
OnlyTaker(t, l) == /\ pc'[t] = l
                   /\ \A u \in Takers : u # t => pc'[u] = pc[u] /\ hold'[u] = hold[u]

\* It takes a record,
LEMMA TakenMore ==
    ASSUME NEW t \in Takers, NEW l \in Working, NEW n \in Conns, OnlyTaker(t, l),
           pc[t] \notin Working, hold'[t] = n
    PROVE  AbsTaken' = AbsTaken \cup {n}
BY DEF AbsTaken, OnlyTaker

\* is done with one,
LEMMA TakenLess ==
    ASSUME Once, NEW t \in Takers, NEW l, l \notin Working, NEW n \in Conns, n # Nobody, OnlyTaker(t, l),
           pc[t] \in Working, hold[t] = n
    PROVE  n \in AbsTaken /\ AbsTaken' = AbsTaken \ {n}
<1>1. \A u \in Takers : hold[u] = n => u = t
  BY DEF Once
<1> QED
  BY <1>1 DEF AbsTaken, OnlyTaker

\* or goes on with what it has.
LEMMA TakenSame ==
    ASSUME NEW t \in Takers, NEW l, OnlyTaker(t, l), pc[t] \in Working <=> l \in Working,
           l \in Working => hold'[t] = hold[t]
    PROVE  AbsTaken' = AbsTaken
BY DEF AbsTaken, OnlyTaker

\* What Goto(t, l) of a taker leaves alone.
LEMMA TakerGoes ==
    ASSUME ConnTypes, NEW t \in Takers, NEW l, Goto(t, l),
           \/ hold' = hold
           \/ \E h : hold' = [hold EXCEPT ![t] = h]
    PROVE  OnlyTaker(t, l) /\ \A n \in Conns : pc'[n] = pc[n]
BY DEF ConnTypes, Goto, OnlyTaker

\* The upcall offers its request, or is turned away.
LEMMA UpcallMaps ==
    ASSUME Known, Asking, NEW n \in Conns, connect_upcall(n)
    PROVE  Asking' /\ Abs!Next
<1>1. ConnTypes /\ pc[n] = "idle" /\ hold' = hold /\ n \notin AbsAsked
  BY DEF Known, connect_upcall, AbsAsked
<1>2. info \in [Conns -> Record]
  BY <1>1 DEF ConnTypes
<1>3. ASSUME NEW l, l # "idle", Goto(n, l)
      PROVE  /\ AbsAsked' = AbsAsked \cup {n} /\ AbsTaken' = AbsTaken
             /\ AbsResult' = [AbsResult EXCEPT ![n] = ResultAt(l)]
             /\ pc'[n] = l /\ \A m \in Conns : m # n => pc'[m] = pc[m]
  <2>1. \A t \in Takers : pc'[t] = pc[t]
    BY <1>1, <1>3 DEF ConnTypes, Goto
  <2>2. pc'[n] = l /\ \A m \in Conns : m # n => pc'[m] = pc[m]
    BY <1>1, <1>3 DEF ConnTypes, Goto
  <2>3. AbsAsked' = AbsAsked \cup {n}
    BY <1>3, <2>2 DEF AbsAsked
  <2>4. AbsTaken' = AbsTaken
    BY <1>1, <2>1 DEF AbsTaken
  <2>5. AbsResult' = [AbsResult EXCEPT ![n] = ResultAt(l)]
    BY <2>2 DEF AbsResult
  <2> QED
    BY <2>2, <2>3, <2>4, <2>5
<1>4. CASE Full
  <2>1. info' = [info EXCEPT ![n].error = "REFUSED"] /\ Goto(n, "done") /\ queue' = queue
    BY <1>4 DEF connect_upcall
  <2>2. OnlyInfo(n) /\ info'[n].error = "REFUSED"
    BY <1>2, <2>1, SetsError DEF Errors
  <2>3. AbsAnswer' = [AbsAnswer EXCEPT ![n] = "REFUSED"]
    BY <2>2, RecordMoves DEF AnswerOf
  <2>4. AbsAsked' = AbsAsked \cup {n} /\ AbsTaken' = AbsTaken /\ AbsResult' = [AbsResult EXCEPT ![n] = "failed"]
    BY <2>1, <1>3 DEF ResultAt
  <2>5. Asking'
    BY <2>1, <2>2, <1>3, AskingCall DEF Pending
  <2> QED
    BY <1>1, <2>1, <2>3, <2>4, <2>5, AbsTurnAway
<1>5. CASE ~Full
  <2>1. /\ info' = [info EXCEPT ![n] = [@ EXCEPT !.state = "LISTENING", !.seqno = seqno_seed,
                                                 !.error = "NOT_STARTED"]]
        /\ queue' = Append(queue, n) /\ Goto(n, "signal")
    BY <1>5 DEF connect_upcall, Enter
  <2>2. seqno_seed \in Nat /\ info[n] \in Record
    BY <1>2 DEF Known, TypeOK
  <2>3. PICK r : r = [info[n] EXCEPT !.state = "LISTENING", !.seqno = seqno_seed, !.error = "NOT_STARTED"]
    OBVIOUS
  <2>4. r.error = "NOT_STARTED"
    BY <2>2, <2>3, QueuedRecord
  <2>5. info' = [info EXCEPT ![n] = r]
    BY <2>1, <2>3
  <2>6. OnlyInfo(n) /\ info'[n].error = "NOT_STARTED"
    BY <1>2, <2>4, <2>5 DEF OnlyInfo
  <2>7. info[n].error = "none"
    BY <1>1 DEF Asking
  <2>8. AbsAnswer' = AbsAnswer
    BY <2>6, <2>7, RecordMoves DEF AnswerOf
  <2>9. AbsAsked' = AbsAsked \cup {n} /\ AbsTaken' = AbsTaken /\ AbsResult' = [AbsResult EXCEPT ![n] = "none"]
    BY <2>1, <1>3 DEF ResultAt
  <2>10. AbsResult' = AbsResult
    BY <2>9, <1>1 DEF AbsResult, ResultAt
  <2>11. Asking'
    BY <2>1, <2>6, <1>3, AskingCall DEF Pending
  <2> QED
    BY <1>1, <2>1, <2>8, <2>9, <2>10, <2>11, AbsOffer
<1> QED
  BY <1>4, <1>5


\* A call that waits has not returned, and so far has nothing or an answer.
LEMMA WaiterKnows ==
    ASSUME Known, Asking, NEW n \in Conns, pc[n] \in Pending
    PROVE  /\ info[n].error \in {"NOT_STARTED", "SUCCESS", "REFUSED", "FAILED"}
           /\ n \in AbsAsked /\ AbsResult[n] = "none"
           /\ AbsAnswer[n] = IF info[n].error = "NOT_STARTED" THEN "none" ELSE info[n].error
<1>1. info[n].error \in {"NOT_STARTED", "SUCCESS", "REFUSED", "FAILED"}
  BY DEF Known, ConnTypes, Record, Errors, Asking
<1>2. n \in AbsAsked /\ AbsResult[n] = "none"
  BY DEF AbsAsked, AbsResult, ResultAt, Pending
<1>3. AbsAnswer[n] = AnswerOf(info[n].error)
  BY DEF AbsAnswer
<1> QED
  BY <1>1, <1>2, <1>3 DEF AnswerOf

\* A call moves to another place where it waits.
LEMMA GoesOn ==
    ASSUME Known, Asking, NEW n \in Conns, NEW l \in Pending, pc[n] \in Pending, Goto(n, l),
           UNCHANGED <<queue, info, hold>>
    PROVE  Asking' /\ UNCHANGED Abs!vars
<1>1. /\ AbsAsked' = AbsAsked /\ AbsTaken' = AbsTaken
      /\ AbsResult' = [AbsResult EXCEPT ![n] = ResultAt(l)]
  BY CallMoves DEF Known, Pending
<1>2. AbsResult' = AbsResult
  BY <1>1, WaiterKnows DEF AbsResult, ResultAt, Pending
<1>3. AbsAnswer' = AbsAnswer
  BY DEF AbsAnswer
<1>4. Asking'
  BY DEF Asking, Known, ConnTypes, Goto, Pending
<1> QED
  BY <1>1, <1>2, <1>3, <1>4, AbsStutter

\* The test of the loop goes on waiting, or returns the answer.
LEMMA LoopTestMaps ==
    ASSUME Known, Asking, NEW n \in Conns, LoopTest(n), pc[n] \in Pending, UNCHANGED <<queue, info, hold>>
    PROVE  Asking' /\ [Abs!Next]_(Abs!vars)
<1>1. CASE info[n].error = "NOT_STARTED"
  BY <1>1, GoesOn DEF LoopTest, Pending
<1>2. CASE info[n].error # "NOT_STARTED"
  <2>1. PICK l : l = IF info[n].error = "SUCCESS" THEN "connected" ELSE "done"
    OBVIOUS
  <2>2. Goto(n, l)
    BY <1>2, <2>1 DEF LoopTest
  <2>3. /\ AbsAsked' = AbsAsked /\ AbsTaken' = AbsTaken
        /\ AbsResult' = [AbsResult EXCEPT ![n] = ResultAt(l)]
    BY <2>1, <2>2, CallMoves DEF Known, Pending
  <2>4. AbsAnswer[n] = info[n].error /\ AbsAnswer[n] # "none" /\ AbsResult[n] = "none"
    BY <1>2, WaiterKnows
  <2>5. ResultAt(l) = IF AbsAnswer[n] = "SUCCESS" THEN "connected" ELSE "failed"
    BY <2>1, <2>4 DEF ResultAt
  <2>6. AbsAnswer' = AbsAnswer
    BY DEF AbsAnswer
  <2>7. Asking'
    BY <2>1, <2>2 DEF Asking, Known, ConnTypes, Goto, Pending
  <2> QED
    BY <2>3, <2>4, <2>5, <2>6, <2>7, AbsReturn
<1> QED
  BY <1>1, <1>2

\* An interrupted call withdraws its request, deserts it, or returns.
LEMMA GiveUpMaps ==
    ASSUME Known, Asking, NEW n \in Conns, GiveUp(n), pc[n] \in Pending, hold' = hold
    PROVE  Asking' /\ [Abs!Next]_(Abs!vars)
<1>1. CASE info[n].error # "NOT_STARTED"
  BY <1>1, LoopTestMaps DEF GiveUp
<1>2. CASE info[n].error = "NOT_STARTED"
  <2>1. /\ queue' = RemoveFirst(queue, n) /\ info' = [info EXCEPT ![n].error = "EXCEPT"] /\ Goto(n, "done")
    BY <1>2 DEF GiveUp
  <2>2. OnlyInfo(n) /\ info'[n].error = "EXCEPT"
    BY <2>1, SetsError DEF Known, ConnTypes, Errors
  <2>3. /\ AbsAsked' = AbsAsked /\ AbsTaken' = AbsTaken
        /\ AbsResult' = [AbsResult EXCEPT ![n] = "failed"]
    BY <2>1, CallMoves DEF Known, Pending, ResultAt
  <2>4. AbsAnswer' = AbsAnswer
    BY <1>2, <2>2, RecordMoves DEF AnswerOf
  <2>5. n \in AbsAsked /\ AbsResult[n] = "none" /\ AbsAnswer[n] = "none"
    BY <1>2, WaiterKnows
  <2>6. Asking'
    <3>1. pc'[n] = "done" /\ \A m \in Conns : m # n => pc'[m] = pc[m]
      BY <2>1 DEF Known, ConnTypes, Goto
    <3> QED
      BY <2>2, <3>1, AskingCall DEF Pending
  <2>7. CASE Contains(queue, n)
    BY <2>1, <2>3, <2>4, <2>5, <2>6, <2>7, AbsWithdraw
  <2>8. CASE ~Contains(queue, n)
    <3>1. \A i \in 1..Len(queue) : queue[i] # n
      BY <2>8 DEF Contains
    <3>2. queue' = queue
      BY <2>1, <3>1 DEF RemoveFirst
    <3> QED
      BY <2>3, <2>4, <2>5, <2>6, <2>8, <3>2, AbsDesert
  <2> QED
    BY <2>7, <2>8
<1> QED
  BY <1>1, <1>2

\* Every step of net_connect after its request was queued.
LEMMA CallMaps ==
    ASSUME Known, Asking, NEW n \in Conns,
           SignalListen(n) \/ Relock(n) \/ ToWait(n) \/ Woken(n)
    PROVE  Asking' /\ [Abs!Next]_(Abs!vars)
<1>1. CASE SignalListen(n)
  BY <1>1, GoesOn DEF SignalListen, Pending
<1>2. CASE Relock(n)
  BY <1>2, LoopTestMaps DEF Relock, Pending
<1>3. CASE ToWait(n)
  <2>1. CASE n \in pending
    BY <1>3, <2>1, GiveUpMaps DEF ToWait, Pending
  <2>2. CASE n \notin pending
    BY <1>3, <2>2, GoesOn DEF ToWait, Pending
  <2> QED
    BY <2>1, <2>2
<1>4. CASE Woken(n)
  <2>1. CASE n \in pending
    BY <1>4, <2>1, GiveUpMaps DEF Woken, Pending
  <2>2. CASE n \notin pending
    BY <1>4, <2>2, LoopTestMaps DEF Woken, Pending
  <2> QED
    BY <2>1, <2>2
<1> QED
  BY <1>1, <1>2, <1>3, <1>4

\* A taker moves without touching a record, from and to where it has none to
\* answer or still has it.
LEMMA TakerGoesOn ==
    ASSUME Known, Asking, NEW t \in Takers, NEW l, Goto(t, l), pc[t] \in Working <=> l \in Working,
           \/ hold' = hold
           \/ l \notin Working /\ \E h : hold' = [hold EXCEPT ![t] = h],
           \A m \in Conns : info'[m].error = info[m].error, queue' = queue
    PROVE  Asking' /\ UNCHANGED Abs!vars
<1>1. OnlyTaker(t, l) /\ \A n \in Conns : pc'[n] = pc[n]
  BY TakerGoes DEF Known
<1>2. AbsTaken' = AbsTaken
  BY <1>1, TakenSame
<1> QED
  BY <1>1, <1>2, AskingSame, AbsStutter

\* Nobody moves.
LEMMA NobodyMoves ==
    ASSUME Asking, UNCHANGED <<pc, hold, info, queue>>
    PROVE  Asking' /\ UNCHANGED Abs!vars
<1>1. AbsTaken' = AbsTaken
  BY DEF AbsTaken
<1> QED
  BY <1>1, AskingSame, AbsStutter

\* Listening, being told that there is no such request, and interrupts.
LEMMA ListenMaps ==
    ASSUME Known, Asking, NEW s \in Servers, Listen(s) \/ ListenWoken(s) \/ NotFound(s)
    PROVE  Asking' /\ UNCHANGED Abs!vars
<1>0. s \in Takers
  BY DEF Takers
<1>1. CASE Listen(s)
  <2>1. CASE UNCHANGED pc
    BY <1>1, <2>1, NobodyMoves DEF Listen
  <2>2. CASE Goto(s, "listening")
    BY <1>0, <1>1, <2>2, TakerGoesOn DEF Listen, Working
  <2> QED
    BY <1>1, <2>1, <2>2 DEF Listen
<1>2. CASE ListenWoken(s)
  BY <1>0, <1>2, TakerGoesOn DEF ListenWoken, Working
<1>3. CASE NotFound(s)
  BY <1>3, NobodyMoves DEF NotFound
<1> QED
  BY <1>1, <1>2, <1>3

\* A request is taken off the queue, to be answered.
LEMMA TakeMaps ==
    ASSUME Known, Asking, NEW t \in Takers, NEW l \in Working, queue # <<>>, Dequeue(t), Goto(t, l),
           pc[t] \notin Working, info' = info
    PROVE  Asking' /\ Abs!Next
<1>1. Head(queue) \in Conns /\ hold' = [hold EXCEPT ![t] = Head(queue)] /\ queue' = Tail(queue)
  BY DequeueFacts DEF Dequeue
<1>2. OnlyTaker(t, l) /\ \A n \in Conns : pc'[n] = pc[n]
  BY <1>1, TakerGoes DEF Known
<1>3. hold'[t] = Head(queue)
  BY <1>1 DEF Known, ConnTypes
<1>4. AbsTaken' = AbsTaken \cup {Head(queue)}
  BY <1>1, <1>2, <1>3, TakenMore
<1> QED
  BY <1>1, <1>2, <1>4, AskingSame, AbsTake

\* net_reject takes the first request off and refuses it in one section.
LEMMA RejectMaps ==
    ASSUME Known, Asking, NEW s \in Servers, net_reject(s)
    PROVE  Asking' /\ Abs!Next
<1>1. s \in Takers /\ queue # <<>> /\ Dequeue(s) /\ pc[s] = "idle" /\ Goto(s, "wake")
  BY DEF Takers, net_reject, Finds
<1>2. PICK n \in On(queue) : n = Head(queue) /\ n \in Conns
  BY <1>1, DequeueFacts
<1>3. hold' = [hold EXCEPT ![s] = n] /\ queue' = Tail(queue)
  BY <1>1, <1>2 DEF Dequeue
<1>4. OnlyTaker(s, "wake") /\ \A m \in Conns : pc'[m] = pc[m]
  BY <1>1, <1>3, TakerGoes DEF Known
<1>5. AbsTaken' = AbsTaken
  BY <1>1, <1>4, TakenSame DEF Working
<1>6. info' = [info EXCEPT ![n].state = "REJECTED", ![n].error = "REFUSED"]
  BY <1>2 DEF net_reject
<1>7. OnlyInfo(n) /\ info'[n].error = "REFUSED"
  BY <1>2, <1>6 DEF Known, ConnTypes, Record, OnlyInfo
<1>8. AbsAnswer' = [AbsAnswer EXCEPT ![n] = "REFUSED"]
  BY <1>2, <1>7, RecordMoves DEF AnswerOf
<1>9. pc[n] # "idle"
  BY <1>2 DEF Known, ConnInv, QueuedOpen, Pending
<1>10. Asking'
  BY <1>2, <1>4, <1>7, <1>9, AskingAnswer
<1>11. AbsAsked' = AbsAsked /\ AbsResult' = AbsResult
  BY <1>4 DEF AbsAsked, AbsResult
<1> QED
  BY <1>1, <1>2, <1>3, <1>5, <1>8, <1>10, <1>11, AbsReject

\* A taker answers the record it has.
LEMMA AnswerMaps ==
    ASSUME Known, Asking, NEW t \in Takers, NEW n \in Conns, hold[t] = n, pc[t] \in Working,
           NEW l \in {"refused", "wake"}, Goto(t, l), NEW a \in {"SUCCESS", "REFUSED", "FAILED"}, OnlyInfo(n), info'[n].error = a, UNCHANGED <<queue, hold>>
    PROVE  Asking' /\ Abs!Next
<1>1. OnlyTaker(t, l) /\ \A m \in Conns : pc'[m] = pc[m]
  BY TakerGoes DEF Known
<1>2. n # Nobody /\ Once /\ pc[n] # "idle"
  BY DEF Known, ConnTypes, ConnInv, Unstarted
<1>3. n \in AbsTaken /\ AbsTaken' = AbsTaken \ {n}
  BY <1>1, <1>2, TakenLess DEF Working
<1>4. AbsAnswer' = [AbsAnswer EXCEPT ![n] = a]
  BY RecordMoves DEF AnswerOf
<1>5. Asking'
  BY <1>1, <1>2, AskingAnswer
<1>6. AbsAsked' = AbsAsked /\ AbsResult' = AbsResult
  BY <1>1 DEF AbsAsked, AbsResult
<1> QED
  BY <1>3, <1>4, <1>5, <1>6, AbsReply

\* net_accept goes on, or drops the request where it cannot get credentials.
LEMMA MakeAgentMaps ==
    ASSUME Known, Asking, NEW s \in Servers, MakeAgent(s)
    PROVE  Asking' /\ [Abs!Next]_(Abs!vars)
<1>1. s \in Takers /\ pc[s] = "created" /\ info' = info /\ queue' = queue
  BY DEF Takers, MakeAgent
<1>2. ASSUME NEW l \in {"succeeded", "failed"}, Goto(s, l), hold' = hold
      PROVE  Asking' /\ UNCHANGED Abs!vars
  BY <1>1, <1>2, TakerGoesOn DEF Working
<1>3. CASE Goto(s, "idle") /\ hold' = [hold EXCEPT ![s] = Nobody]
  <2>1. OnlyTaker(s, "idle") /\ \A m \in Conns : pc'[m] = pc[m]
    BY <1>1, <1>3, TakerGoes DEF Known
  <2>2. PICK n \in Conns : n = hold[s] /\ n # Nobody
    BY <1>1 DEF Known, ConnTypes, ConnInv, Places, Working
  <2>3. n \in AbsTaken /\ AbsTaken' = AbsTaken \ {n}
    BY <1>1, <2>1, <2>2, TakenLess DEF Working, Known, ConnInv
  <2> QED
    BY <1>1, <2>1, <2>3, AskingSame, AbsDrop
<1> QED
  BY <1>2, <1>3 DEF MakeAgent

\* The end of net_accept, good or bad.
LEMMA AnswerActionMaps ==
    ASSUME Known, Asking, NEW s \in Servers, Answer(s)
    PROVE  Asking' /\ Abs!Next
<1>1. /\ s \in Takers /\ pc[s] \in Working /\ pc[s] \in {"succeeded", "failed"} /\ Goto(s, "wake")
      /\ queue' = queue /\ hold' = hold
  BY DEF Takers, Answer, Working
<1>2. PICK n \in Conns : n = hold[s]
  BY <1>1 DEF Known, ConnTypes, ConnInv, Places
<1>3. PICK r : r = IF pc[s] = "succeeded" THEN [info[n] EXCEPT !.state = "ACCEPTED", !.error = "SUCCESS"]
                   ELSE [info[n] EXCEPT !.state = "REJECTED", !.error = "FAILED"]
  OBVIOUS
<1>4. info' = [info EXCEPT ![n] = r]
  BY <1>2, <1>3 DEF Answer
<1>5. info \in [Conns -> Record]
  BY DEF Known, ConnTypes
<1>6. r.error \in {"SUCCESS", "FAILED"}
  BY <1>3, <1>5, AnsweredRecord
<1>7. PICK a \in {"SUCCESS", "REFUSED", "FAILED"} : a = r.error
  BY <1>6
<1>8. OnlyInfo(n) /\ info'[n].error = a
  BY <1>4, <1>5, <1>7 DEF OnlyInfo
<1> QED
  BY <1>1, <1>2, <1>8, AnswerMaps

\* net_set_connect_qmax takes, refuses, wakes; and every taker wakes.
LEMMA OwnerMaps ==
    ASSUME Known, Asking,
           \/ \E q \in Qmaxes : SetQmax(q)
           \/ Trim \/ TrimRefuse \/ TrimMark
           \/ \E t \in Takers : WakeActive(t)
    PROVE  Asking' /\ [Abs!Next]_(Abs!vars)
<1>0. Admin \in Takers
  BY DEF Takers
<1>1. CASE \E q \in Qmaxes : SetQmax(q)
  BY <1>0, <1>1, TakerGoesOn DEF SetQmax, Working
<1>2. CASE Trim
  <2>1. CASE queue # <<>> /\ Dequeue(Admin) /\ Goto(Admin, "refuse")
    BY <1>0, <1>2, <2>1, TakeMaps DEF Trim, Working
  <2>2. CASE Goto(Admin, "idle") /\ UNCHANGED <<queue, hold>>
    BY <1>0, <1>2, <2>2, TakerGoesOn DEF Trim, Working
  <2>3. CASE UNCHANGED <<queue, qsize, hold, pc>>
    BY <1>2, <2>3, NobodyMoves DEF Trim
  <2> QED
    BY <1>2, <2>1, <2>2, <2>3 DEF Trim
<1>3. CASE TrimRefuse
  <2>1. pc[Admin] = "refuse" /\ Goto(Admin, "refused") /\ queue' = queue /\ hold' = hold
    BY <1>3 DEF TrimRefuse
  <2>2. PICK n \in Conns : n = hold[Admin]
    BY <1>0, <2>1 DEF Known, ConnTypes, ConnInv, Places, Working
  <2>3. info' = [info EXCEPT ![n].error = "REFUSED"]
    BY <1>3, <2>2 DEF TrimRefuse
  <2>4. OnlyInfo(n) /\ info'[n].error = "REFUSED"
    BY <2>2, <2>3 DEF Known, ConnTypes, Record, OnlyInfo
  <2> QED
    BY <1>0, <2>1, <2>2, <2>4, AnswerMaps DEF Working
<1>4. ASSUME NEW t \in Takers, WakeActive(t)
      PROVE  Asking' /\ UNCHANGED Abs!vars
  <2>1. PICK l : l = IF t = Admin THEN "trim" ELSE "idle"
    OBVIOUS
  <2>2. /\ Goto(t, l) /\ pc[t] = "wake" /\ hold' = [hold EXCEPT ![t] = Nobody] /\ info' = info /\ queue' = queue
        /\ l \notin Working
    BY <1>4, <2>1 DEF WakeActive, Working
  <2> QED
    BY <2>2, TakerGoesOn DEF Working
<1>5. CASE TrimMark
  <2>1. pc[Admin] = "refused" /\ Goto(Admin, "wake") /\ queue' = queue /\ hold' = hold
    BY <1>5 DEF TrimMark
  <2>2. \A m \in Conns : info'[m].error = info[m].error
    BY <1>5 DEF TrimMark, Known, ConnTypes, Record
  <2> QED
    BY <1>0, <2>1, <2>2, TakerGoesOn DEF Working
<1> QED
  BY <1>1, <1>2, <1>3, <1>4, <1>5

\* net_accept takes the first request.
LEMMA AcceptMaps ==
    ASSUME Known, Asking, NEW s \in Servers, Accept(s)
    PROVE  Asking' /\ Abs!Next
<1>1. /\ s \in Takers /\ queue # <<>> /\ Dequeue(s) /\ Goto(s, "accepting") /\ pc[s] = "idle" /\ info' = info
  BY DEF Takers, Accept, Finds
<1> QED
  BY <1>1, TakeMaps DEF Working

\* Setting up the connection answers nobody.
LEMMA SetupMaps ==
    ASSUME Known, Asking, NEW s \in Servers, Setup(s)
    PROVE  Asking' /\ UNCHANGED Abs!vars
<1>1. s \in Takers /\ pc[s] = "accepting" /\ queue' = queue /\ hold' = hold
  BY DEF Takers, Setup
<1>2. PICK n \in Conns : n = hold[s]
  BY <1>1 DEF Known, ConnTypes, ConnInv, Places, Working
<1>3. PICK made \in BOOLEAN :
         /\ info' = [info EXCEPT ![n].state = "ACCEPTING", ![n].endpts = made]
         /\ Goto(s, IF made THEN "created" ELSE "failed")
  BY <1>2 DEF Setup
<1>4. \A m \in Conns : info'[m].error = info[m].error
  BY <1>2, <1>3 DEF Known, ConnTypes, Record
<1>5. PICK l \in {"created", "failed"} : Goto(s, l)
  BY <1>3
<1> QED
  BY <1>1, <1>4, <1>5, TakerGoesOn DEF Working

\* At first no call has learnt anything.
LEMMA AskingInitial == Init => Asking
BY ConnectorAssumption DEF Init, ConnInit, NewInfo, Asking, Pending

\* Every step is one of the rendezvous or none.
LEMMA AbsStep == IInv /\ Asking /\ [Next]_vars => Asking' /\ [Abs!Next]_(Abs!vars)
<1> SUFFICES ASSUME IInv, Asking, [Next]_vars PROVE Asking' /\ [Abs!Next]_(Abs!vars)
  OBVIOUS
<1>1. Known
  BY IsKnown
<1>2. CASE ConnStep
  <2>1. CASE \E t \in Interruptible : Post(t) \/ Shake(t)
    BY <2>1, NobodyMoves DEF Post, Shake
  <2> QED
    BY <1>1, <1>2, <2>1, UpcallMaps, CallMaps, ListenMaps, AcceptMaps, MakeAgentMaps, AnswerActionMaps,
       RejectMaps, OwnerMaps DEF ConnStep
<1>3. CASE \E s \in Servers : SetupPair(s)
  BY <1>1, <1>3, SetupMaps DEF SetupPair
<1>4. CASE UNCHANGED connvars
  BY <1>4, NobodyMoves DEF connvars
<1> QED
  BY <1>2, <1>3, <1>4 DEF Next, vars

\* The pipe's connector implements the rendezvous (AbsSpec): requests are taken
\* in the order net_connect queued them, net_accept, net_reject and
\* net_set_connect_qmax answer each at most once and change no answer, and
\* net_connect returns the answer unless an interrupt made it withdraw or
\* desert its request.
THEOREM ImplementsRendezvous == Spec => AbsSpec
<1>1. Spec => [](IInv /\ Asking)
  BY InitIInv, AskingInitial, NextIInv, AbsStep, PTL DEF Spec
<1> QED
  BY <1>1, AbsInitial, AbsStep, PTL DEF Spec, AbsSpec, Abs!Spec
=============================================================================
