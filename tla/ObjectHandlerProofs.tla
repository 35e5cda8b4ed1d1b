------------------------ MODULE ObjectHandlerProofs ------------------------
(***************************************************************************)
(* Proofs about module ObjectHandler, for any number of threads and        *)
(* requests and any parameters of start_object_handler: the counters of    *)
(* the pool are exact and within their limits, there is always a thread to *)
(* fork, and a reply answers the request its thread has in hand.           *)
(***************************************************************************)
EXTENDS ObjectHandler, FiniteSetTheorems, TLAPS

-----------------------------------------------------------------------------
(* The inductive invariant.                                                *)

\* With these locals a thread has the request in hand, to be answered or served.
Owns(l) == \/ l.pc \in {"send", "invoke", "calling"}
           \/ l.pc = "top" /\ l.send_reply
           \/ l.pc = "dispatch" /\ l.ret = "ok" /\ l.rcv_request

\* The reply is packed and not sent.
Replies(l) == l.pc = "send" \/ (l.pc = "top" /\ l.send_reply)

\* With these locals a thread was last given work by a request of its own.
IsBusy(l) == l.pc \in {"send", "dispatch", "invoke", "calling"} \/ (l.pc = "top" /\ ~l.new)

Busy == {t \in Threads : IsBusy(th[t])}
Served == {r \in Reqs : status[r] \notin {"unsent", "queued"}}

\* What the place of a thread tells about its flags.
Flags(l) ==
    /\ l.new => l.pc = "top" /\ ~l.send_reply
    /\ l.pc = "receive" => l.rcv_request
    /\ l.pc = "send" => l.send_reply
    /\ Replies(l) => ~l.local_port
    /\ Replies(l) \/ l.pc \in {"invoke", "calling"} => l.failing # "unset"
    /\ l.pc = "dispatch" /\ IsSendError(l.ret) => ~l.local_port /\ l.failing # "unset"

FlagInv == \A t \in Threads : Flags(th[t])

\* A request is on the queue once, or in the hands of one thread.
OwnInv ==
    /\ \A i \in 1..Len(queue) : status[queue[i]] = "queued"
    /\ \A i, j \in 1..Len(queue) : queue[i] = queue[j] => i = j
    /\ \A t \in Threads : Owns(th[t]) => th[t].req \in Reqs /\ status[th[t].req] = "taken"
    /\ \A t \in Threads : Replies(th[t]) => kind[th[t].req] = "rpc"
    /\ \A t, u \in Threads : Owns(th[t]) /\ Owns(th[u]) /\ th[t].req = th[u].req => t = u

\* The threads given work are no more than the requests given out, so that
\* there is always a thread left to fork.
DebtInv == Cardinality(Busy) <= Cardinality(Served)

IInv == /\ TypeOK /\ PoolExact /\ PoolBounded /\ NeverAllBusy
        /\ FlagInv /\ OwnInv /\ DebtInv

-----------------------------------------------------------------------------
(* Counting.                                                               *)

\* Two sets that differ at most in t differ at most by one in size.
LEMMA OneMoves ==
    ASSUME NEW S, IsFiniteSet(S), NEW A \in SUBSET S, NEW B \in SUBSET S, NEW t, A \ {t} = B \ {t}
    PROVE  /\ Cardinality(A) \in Nat /\ Cardinality(B) \in Nat
           /\ (t \in A <=> t \in B) => Cardinality(B) = Cardinality(A)
           /\ t \in B /\ t \notin A => Cardinality(B) = Cardinality(A) + 1
           /\ t \in A /\ t \notin B => Cardinality(B) = Cardinality(A) - 1
  <1>1. IsFiniteSet(A) /\ IsFiniteSet(B) BY FS_Subset
  <1>2. Cardinality(A) \in Nat /\ Cardinality(B) \in Nat BY <1>1, FS_CardinalityType
  <1>3. ASSUME t \in A <=> t \in B PROVE Cardinality(B) = Cardinality(A)
    <2>1. A = B BY <1>3
    <2> QED BY <2>1
  <1>4. ASSUME t \in B, t \notin A PROVE Cardinality(B) = Cardinality(A) + 1
    <2>1. B = A \cup {t} BY <1>4
    <2> QED BY <1>1, <1>4, <2>1, FS_AddElement
  <1>5. ASSUME t \in A, t \notin B PROVE Cardinality(B) = Cardinality(A) - 1
    <2>1. A = B \cup {t} BY <1>5
    <2> QED BY <1>1, <1>2, <1>5, <2>1, FS_AddElement
  <1> QED BY <1>2, <1>3, <1>4, <1>5

\* All the sets counted are finite.
LEMMA Finite ==
    /\ IsFiniteSet(Threads) /\ IsFiniteSet(Reqs) /\ Cardinality(Reqs) = MaxReqs
    /\ Cardinality(Threads) \in Nat /\ Cardinality(Waiting) \in Nat /\ Cardinality(Live) \in Nat
    /\ Cardinality(Busy) \in Nat /\ Cardinality(Served) \in Nat
    /\ Cardinality(Waiting) = 0 <=> Waiting = {}
  <1> USE PoolAssumption
  <1>1. IsFiniteSet(Reqs) /\ Cardinality(Reqs) = MaxReqs
    BY FS_Interval DEF Reqs
  <1>2. Waiting \subseteq Threads /\ Live \subseteq Threads /\ Busy \subseteq Threads /\ Served \subseteq Reqs
    BY DEF Waiting, Live, Busy, Served
  <1>3. IsFiniteSet(Waiting) /\ IsFiniteSet(Live) /\ IsFiniteSet(Busy) /\ IsFiniteSet(Served)
    BY <1>1, <1>2, FS_Subset
  <1> QED BY <1>1, <1>3, FS_CardinalityType, FS_EmptySet

\* With fewer waiting than wanted there is a thread to fork: every other one
\* has been given a request of its own.
LEMMA ThreadLeft ==
    ASSUME IInv, NEW w \in Int, w < min_waiting,
           NEW W \in SUBSET Waiting, Cardinality(W) <= w, Live \subseteq Busy \cup W
    PROVE  Unused \in Threads /\ th[Unused].pc = "none"
  <1> USE PoolAssumption, Finite DEF IInv
  <1>1. IsFiniteSet(Busy) /\ IsFiniteSet(W)
    BY FS_Subset DEF Waiting, Busy
  <1>2. Cardinality(Served) <= MaxReqs
    BY FS_Subset DEF Served
  <1>3. Cardinality(Busy \cup W) <= Cardinality(Busy) + Cardinality(W) /\ IsFiniteSet(Busy \cup W)
    <2>1. Cardinality(Busy \cap W) \in Nat
      BY <1>1, FS_Intersection, FS_CardinalityType
    <2>2. Cardinality(Busy) \in Nat /\ Cardinality(W) \in Nat BY <1>1, FS_CardinalityType
    <2>3. /\ IsFiniteSet(Busy \cup W)
          /\ Cardinality(Busy \cup W) = Cardinality(Busy) + Cardinality(W) - Cardinality(Busy \cap W)
      BY <1>1, FS_Union
    <2> QED BY <2>1, <2>2, <2>3
  <1>4. Cardinality(Live) <= Cardinality(Busy \cup W)
    BY <1>3, FS_Subset
  <1>5. Cardinality(Live) < Cardinality(Threads)
    BY <1>1, <1>2, <1>3, <1>4, FS_CardinalityType DEF DebtInv
  <1>6. \E u \in Threads : th[u].pc = "none"
    <2>1. Live # Threads BY <1>5
    <2> QED BY <2>1 DEF Live
  <1> QED BY <1>6 DEF Unused

\* The locals of the threads change in t alone, or t forks u as well.
Moves(t, next) == th' = [th EXCEPT ![t] = next]
Forks(t, next, u) == u \in Threads /\ th[u].pc = "none" /\ u # t /\ th' = [th EXCEPT ![t] = next, ![u] = New]

\* New threads own nothing and are well typed.
LEMMA NewThread ==
    /\ New \in LocalType /\ None \in LocalType
    /\ New.pc = "top" /\ Flags(New) /\ ~Owns(New) /\ ~Replies(New) /\ ~IsBusy(New) /\ IsWaiting(New)
    /\ None.pc = "none" /\ Flags(None) /\ ~Owns(None) /\ ~Replies(None) /\ ~IsBusy(None) /\ ~IsWaiting(None)
  <1>0. 0 \in 0..MaxReqs BY PoolAssumption
  <1>1. None \in LocalType /\ New \in LocalType
    <2>1. None \in LocalType BY <1>0 DEF None, LocalType
    <2> QED BY <2>1 DEF New, LocalType
  <1>2. /\ None.pc = "none" /\ ~None.new /\ ~None.send_reply
        /\ New.pc = "top" /\ New.new /\ ~New.send_reply
    BY DEF None, New
  <1> QED BY <1>1, <1>2 DEF Flags, Owns, Replies, IsBusy, IsWaiting

Bit(b) == IF b THEN 1 ELSE 0

\* What a move does to the sizes of the sets of threads.
LEMMA MoveCounts ==
    ASSUME TypeOK, NEW t \in Threads, NEW next \in LocalType, Moves(t, next)
    PROVE  /\ th' \in [Threads -> LocalType] /\ th'[t] = next
           /\ \A v \in Threads \ {t} : th'[v] = th[v]
           /\ Cardinality(Waiting') = Cardinality(Waiting) + Bit(IsWaiting(next)) - Bit(IsWaiting(th[t]))
           /\ Cardinality(Busy') = Cardinality(Busy) + Bit(IsBusy(next)) - Bit(IsBusy(th[t]))
           /\ Cardinality(Live') = Cardinality(Live) + Bit(next.pc # "none") - Bit(th[t].pc # "none")
  <1>1. /\ th' \in [Threads -> LocalType] /\ th'[t] = next
        /\ \A v \in Threads \ {t} : th'[v] = th[v]
    BY DEF TypeOK, Moves
  <1>2. /\ Waiting \subseteq Threads /\ Waiting' \subseteq Threads /\ Waiting \ {t} = Waiting' \ {t}
        /\ t \in Waiting <=> IsWaiting(th[t])
        /\ t \in Waiting' <=> IsWaiting(next)
    BY <1>1 DEF Waiting
  <1>3. /\ Busy \subseteq Threads /\ Busy' \subseteq Threads /\ Busy \ {t} = Busy' \ {t}
        /\ t \in Busy <=> IsBusy(th[t])
        /\ t \in Busy' <=> IsBusy(next)
    BY <1>1 DEF Busy
  <1>4. /\ Live \subseteq Threads /\ Live' \subseteq Threads /\ Live \ {t} = Live' \ {t}
        /\ t \in Live <=> th[t].pc # "none"
        /\ t \in Live' <=> next.pc # "none"
    BY <1>1 DEF Live
  <1>5. Cardinality(Waiting') = Cardinality(Waiting) + Bit(IsWaiting(next)) - Bit(IsWaiting(th[t]))
    BY <1>2, OneMoves, Finite DEF Bit
  <1>6. Cardinality(Busy') = Cardinality(Busy) + Bit(IsBusy(next)) - Bit(IsBusy(th[t]))
    BY <1>3, OneMoves, Finite DEF Bit
  <1>7. Cardinality(Live') = Cardinality(Live) + Bit(next.pc # "none") - Bit(th[t].pc # "none")
    BY <1>4, OneMoves, Finite DEF Bit
  <1> QED BY <1>1, <1>5, <1>6, <1>7

\* What a move with a fork does to them.
LEMMA ForkCounts ==
    ASSUME TypeOK, NEW t \in Threads, NEW next \in LocalType, NEW u, Forks(t, next, u)
    PROVE  /\ th' \in [Threads -> LocalType] /\ th'[t] = next /\ th'[u] = New
           /\ \A v \in Threads \ {t, u} : th'[v] = th[v]
           /\ Cardinality(Waiting') = Cardinality(Waiting) + Bit(IsWaiting(next)) - Bit(IsWaiting(th[t])) + 1
           /\ Cardinality(Busy') = Cardinality(Busy) + Bit(IsBusy(next)) - Bit(IsBusy(th[t]))
           /\ Cardinality(Live') = Cardinality(Live) + Bit(next.pc # "none") - Bit(th[t].pc # "none") + 1
  <1>1. /\ th' \in [Threads -> LocalType] /\ th'[t] = next /\ th'[u] = New /\ u \in Threads \ {t}
        /\ \A v \in Threads \ {t, u} : th'[v] = th[v]
    BY NewThread DEF TypeOK, Forks
  <1>2. ~IsWaiting(th[u]) /\ ~IsBusy(th[u]) /\ th[u].pc = "none" BY DEF Forks, IsWaiting, IsBusy
  <1> DEFINE W == Waiting' \ {u}  B == Busy' \ {u}  L == Live' \ {u}
  <1>3. /\ Waiting \subseteq Threads /\ Waiting' \subseteq Threads /\ W \subseteq Threads
        /\ Waiting \ {t} = W \ {t} /\ W \ {u} = Waiting' \ {u} /\ u \in Waiting' /\ u \notin W
        /\ t \in Waiting <=> IsWaiting(th[t])
        /\ t \in W <=> IsWaiting(next)
    BY <1>1, <1>2, NewThread DEF Waiting
  <1>4. /\ Busy \subseteq Threads /\ Busy' \subseteq Threads
        /\ Busy \ {t} = Busy' \ {t}
        /\ t \in Busy <=> IsBusy(th[t])
        /\ t \in Busy' <=> IsBusy(next)
    BY <1>1, <1>2, NewThread DEF Busy
  <1>5. /\ Live \subseteq Threads /\ Live' \subseteq Threads /\ L \subseteq Threads
        /\ Live \ {t} = L \ {t} /\ L \ {u} = Live' \ {u} /\ u \in Live' /\ u \notin L
        /\ t \in Live <=> th[t].pc # "none"
        /\ t \in L <=> next.pc # "none"
    BY <1>1, <1>2, NewThread DEF Live
  <1> HIDE DEF W, L
  <1>6. Cardinality(Waiting') = Cardinality(Waiting) + Bit(IsWaiting(next)) - Bit(IsWaiting(th[t])) + 1
    <2>1. /\ Cardinality(W) = Cardinality(Waiting) + Bit(IsWaiting(next)) - Bit(IsWaiting(th[t]))
          /\ Cardinality(W) \in Nat
      BY <1>3, OneMoves, Finite DEF Bit
    <2>2. Cardinality(Waiting') = Cardinality(W) + 1
      BY <1>3, OneMoves, Finite
    <2> QED BY <2>1, <2>2
  <1>7. Cardinality(Busy') = Cardinality(Busy) + Bit(IsBusy(next)) - Bit(IsBusy(th[t]))
    BY <1>4, OneMoves, Finite DEF Bit
  <1>8. Cardinality(Live') = Cardinality(Live) + Bit(next.pc # "none") - Bit(th[t].pc # "none") + 1
    <2>1. /\ Cardinality(L) = Cardinality(Live) + Bit(next.pc # "none") - Bit(th[t].pc # "none")
          /\ Cardinality(L) \in Nat
      BY <1>5, OneMoves, Finite DEF Bit
    <2>2. Cardinality(Live') = Cardinality(L) + 1
      BY <1>5, OneMoves, Finite
    <2> QED BY <2>1, <2>2
  <1> QED BY <1>1, <1>6, <1>7, <1>8

\* _adjust_threads: the counters stay exact and within their limits, and too few
\* waiting is made good unless the pool is full.
LEMMA AdjustPool ==
    ASSUME IInv, NEW t \in Threads, NEW n \in {-1, 0, 1}, NEW next \in LocalType,
           Adjust(t, n, next), UNCHANGED max_threads,
           th[t].pc # "none", next.pc # "none", IsBusy(th[t]) \/ n # -1,
           n = Bit(IsWaiting(next)) - Bit(IsWaiting(th[t])), threads_waiting + n <= max_waiting
    PROVE  /\ PoolExact' /\ PoolBounded' /\ NeverAllBusy'
           /\ threads_waiting' \in Nat /\ thread_count' \in 0..Cardinality(Threads)
           /\ Moves(t, next) \/ \E u \in Threads : Forks(t, next, u)
  <1> DEFINE w == threads_waiting + n
  <1> USE PoolAssumption, Finite DEF IInv
  <1>1. /\ threads_waiting = Cardinality(Waiting) /\ thread_count = Cardinality(Live)
        /\ threads_waiting \in Nat /\ thread_count \in Nat /\ max_threads \in Nat
        /\ threads_waiting <= max_waiting /\ (max_threads # 0 => thread_count <= max_threads)
    BY DEF TypeOK, PoolExact, PoolBounded
  <1>0. threads_waiting + n >= 0
    <2>1. CASE n = -1
      <3>1. Waiting # {} BY <2>1 DEF Bit, Waiting
      <3> QED BY <1>1, <2>1, <3>1
    <2>2. CASE n # -1 BY <1>1, <2>2
    <2> QED BY <2>1, <2>2
  <1>2. Live \subseteq Threads /\ Live' \subseteq Threads BY DEF Live
  <1>3. Cardinality(Live') \in Nat /\ Cardinality(Live') <= Cardinality(Threads)
    BY <1>2, FS_Subset, FS_CardinalityType
  <1>4. CASE w < min_waiting /\ MayFork
    <2>1. Unused \in Threads /\ th[Unused].pc = "none"
      <3> DEFINE W == IF n = -1 THEN Waiting \ {t} ELSE Waiting
      <3>1. W \subseteq Waiting /\ Live \subseteq Busy \cup W
        BY DEF Live, Waiting, Busy, W, IsBusy, IsWaiting, FlagInv, Flags, TypeOK, LocalType
      <3>2. Cardinality(W) <= w
        <4>1. CASE n = -1
          <5>1. t \in Waiting BY <4>1 DEF Bit, Waiting
          <5>2. Cardinality(Waiting \ {t}) = Cardinality(Waiting) - 1
            BY <5>1, FS_RemoveElement, FS_Subset DEF Waiting
          <5> QED BY <1>1, <4>1, <5>2
        <4>2. CASE n # -1 BY <1>1, <4>2
        <4> QED BY <4>1, <4>2
      <3>3. w \in Int BY <1>1
      <3> HIDE DEF w, W
      <3> QED BY <1>4, <3>1, <3>2, <3>3, ThreadLeft
    <2>2. Forks(t, next, Unused) BY <1>4, <2>1 DEF Adjust, Forks
    <2>3. /\ Cardinality(Waiting') = Cardinality(Waiting) + n + 1
          /\ Cardinality(Live') = Cardinality(Live) + 1
      BY <2>2, ForkCounts DEF Bit
    <2>4. threads_waiting' = w + 1 /\ thread_count' = thread_count + 1 BY <1>4 DEF Adjust
    <2>5. PoolExact' BY <1>1, <2>3, <2>4 DEF PoolExact
    <2>6. PoolBounded' BY <1>1, <1>4, <2>4 DEF PoolBounded, MayFork
    <2>7. threads_waiting' \in Nat /\ threads_waiting' > 0
      BY <1>0, <1>1, <2>4
    <2>8. NeverAllBusy'
      <3>1. Cardinality(Waiting') # 0 BY <2>5, <2>7 DEF PoolExact
      <3>2. Waiting' # {} BY <3>1, FS_EmptySet
      <3> QED BY <3>2 DEF NeverAllBusy
    <2>9. thread_count' \in 0..Cardinality(Threads) BY <1>1, <1>3, <2>3, <2>4
    <2> QED BY <2>1, <2>2, <2>5, <2>6, <2>7, <2>8, <2>9
  <1>5. CASE ~(w < min_waiting /\ MayFork)
    <2>1. Moves(t, next) /\ threads_waiting' = w /\ thread_count' = thread_count
      BY <1>5 DEF Adjust, Moves
    <2>2. /\ Cardinality(Waiting') = Cardinality(Waiting) + n
          /\ Cardinality(Live') = Cardinality(Live)
      BY <2>1, MoveCounts DEF Bit
    <2>3. PoolExact' BY <1>1, <2>1, <2>2 DEF PoolExact
    <2>4. PoolBounded' BY <1>1, <2>1 DEF PoolBounded
    <2>5. threads_waiting' \in Nat /\ thread_count' \in 0..Cardinality(Threads)
      BY <1>0, <1>1, <1>3, <2>1, <2>2
    <2>6. NeverAllBusy'
      <3> SUFFICES ASSUME min_waiting > 0
                   PROVE  Waiting' # {} \/ (max_threads' # 0 /\ Cardinality(Live') = max_threads')
        BY DEF NeverAllBusy
      <3>1. CASE ~(w < min_waiting) BY <1>1, <2>1, <2>2, <3>1, FS_EmptySet
      <3>2. CASE ~MayFork
        <4> HIDE PoolAssumption, Finite DEF IInv
        <4>1. ~(thread_count < max_threads) /\ max_threads # 0 BY <3>2 DEF MayFork
        <4>2. thread_count = max_threads BY <1>1, <4>1
        <4> QED BY <1>1, <2>2, <4>1, <4>2
      <3> QED BY <1>5, <3>1, <3>2
    <2> QED BY <2>1, <2>3, <2>4, <2>5, <2>6
  <1> QED BY <1>4, <1>5

\* A step that neither starts nor ends waiting leaves the pool as it is.
LEMMA PoolKept ==
    ASSUME IInv, NEW t \in Threads, NEW next \in LocalType, Moves(t, next),
           IsWaiting(next) <=> IsWaiting(th[t]), next.pc # "none", th[t].pc # "none",
           UNCHANGED <<max_threads, threads_waiting, thread_count>>
    PROVE  PoolExact' /\ PoolBounded' /\ NeverAllBusy'
  <1> USE DEF IInv
  <1>1. Cardinality(Waiting') = Cardinality(Waiting) /\ Cardinality(Live') = Cardinality(Live)
    BY MoveCounts, Finite DEF Bit
  <1>2. PoolExact' /\ PoolBounded' BY <1>1 DEF PoolExact, PoolBounded
  <1>3. Waiting' = Waiting BY MoveCounts DEF Waiting
  <1> QED BY <1>1, <1>2, <1>3 DEF NeverAllBusy

-----------------------------------------------------------------------------
(* Who has which request.                                                  *)

\* A thread goes on with the request it had, or lets go of it.
LEMMA OwnKept ==
    ASSUME IInv, NEW t \in Threads, NEW next \in LocalType,
           Moves(t, next) \/ \E u \in Threads : Forks(t, next, u),
           Flags(next), IsBusy(next) => IsBusy(th[t]),
           Owns(next) => Owns(th[t]) /\ next.req = th[t].req,
           Replies(next) => kind[next.req] = "rpc",
           UNCHANGED <<queue, kind>>,
           \/ status' = status
           \/ /\ Owns(th[t]) /\ ~Owns(next)
              /\ \E v \in Statuses \ {"unsent", "queued"} : status' = [status EXCEPT ![th[t].req] = v]
    PROVE  /\ th' \in [Threads -> LocalType] /\ status' \in [Reqs -> Statuses]
           /\ FlagInv' /\ OwnInv' /\ DebtInv'
  <1> USE DEF IInv
  <1>1. /\ th' \in [Threads -> LocalType] /\ th'[t] = next
        /\ \A v \in Threads \ {t} : th'[v] = th[v] \/ th'[v] = New
        /\ Cardinality(Busy') = Cardinality(Busy) + Bit(IsBusy(next)) - Bit(IsBusy(th[t]))
    <2>1. CASE Moves(t, next) BY <2>1, MoveCounts
    <2>2. CASE \E u \in Threads : Forks(t, next, u) BY <2>2, ForkCounts
    <2> QED BY <2>1, <2>2
  <1>2. FlagInv' BY <1>1, NewThread DEF FlagInv
  <1>3. \A v \in Threads : /\ Owns(th'[v]) => Owns(th[v]) /\ th'[v].req = th[v].req
                           /\ Replies(th'[v]) => kind[th'[v].req] = "rpc"
    BY <1>1, NewThread DEF OwnInv
  <1>4. /\ status \in [Reqs -> Statuses] /\ queue \in Seq(Reqs)
        /\ \A i \in 1..Len(queue) : queue[i] \in Reqs /\ status[queue[i]] = "queued"
    BY DEF TypeOK, OwnInv
  <1>5. /\ status' \in [Reqs -> Statuses]
        /\ \A r \in Reqs : status'[r] = "queued" <=> status[r] = "queued"
        /\ \A r \in Reqs : status'[r] = "unsent" <=> status[r] = "unsent"
        /\ \A v \in Threads : Owns(th'[v]) => status'[th[v].req] = "taken"
    <2>1. CASE status' = status BY <1>3, <1>4, <2>1 DEF OwnInv
    <2>2. CASE Owns(th[t]) /\ ~Owns(next)
               /\ \E v \in Statuses \ {"unsent", "queued"} : status' = [status EXCEPT ![th[t].req] = v]
      <3>1. PICK v \in Statuses \ {"unsent", "queued"} : status' = [status EXCEPT ![th[t].req] = v]
        BY <2>2
      <3>2. th[t].req \in Reqs /\ status[th[t].req] = "taken" BY <2>2 DEF OwnInv
      <3>3. \A u \in Threads : Owns(th'[u]) => th[u].req # th[t].req /\ status[th[u].req] = "taken"
        BY <1>1, <1>3, <2>2 DEF OwnInv
      <3> QED BY <1>3, <1>4, <3>1, <3>2, <3>3 DEF OwnInv
    <2> QED BY <2>1, <2>2
  <1>6. OwnInv' BY <1>3, <1>4, <1>5 DEF OwnInv
  <1>7. DebtInv'
    <2>1. Served' = Served BY <1>5 DEF Served
    <2> QED BY <1>1, <2>1, Finite DEF DebtInv, Bit
  <1> QED BY <1>1, <1>2, <1>5, <1>6, <1>7

\* A thread takes the first request off the queue, or the kernel destroys it.
LEMMA RequestTaken ==
    ASSUME IInv, NEW t \in Threads, NEW next \in LocalType, Moves(t, next), Flags(next),
           th[t].pc = "receive", ~Replies(next), queue # <<>>, queue' = Tail(queue), UNCHANGED kind,
           NEW v \in Statuses \ {"unsent", "queued"}, status' = [status EXCEPT ![Head(queue)] = v],
           Owns(next) => v = "taken" /\ next.req = Head(queue)
    PROVE  /\ th' \in [Threads -> LocalType] /\ status' \in [Reqs -> Statuses] /\ queue' \in Seq(Reqs)
           /\ FlagInv' /\ OwnInv' /\ DebtInv'
  <1> DEFINE r == Head(queue)
  <1> USE DEF IInv
  <1>1. /\ th' \in [Threads -> LocalType] /\ th'[t] = next
        /\ \A u \in Threads \ {t} : th'[u] = th[u]
        /\ Cardinality(Busy') = Cardinality(Busy) + Bit(IsBusy(next)) - Bit(IsBusy(th[t]))
    BY MoveCounts
  <1>2. FlagInv' BY <1>1 DEF FlagInv
  <1>3. /\ status \in [Reqs -> Statuses] /\ queue \in Seq(Reqs) /\ queue' \in Seq(Reqs)
        /\ r = queue[1] /\ r \in Reqs /\ Len(queue) \in Nat /\ Len(queue) >= 1
        /\ Len(queue') = Len(queue) - 1 /\ \A i \in 1..Len(queue') : queue'[i] = queue[i + 1]
    BY DEF TypeOK
  <1>4. /\ status[r] = "queued"
        /\ \A i \in 1..Len(queue) : queue[i] \in Reqs /\ status[queue[i]] = "queued"
    BY <1>3 DEF OwnInv
  <1>5. /\ status' \in [Reqs -> Statuses] /\ status'[r] = v
        /\ \A q \in Reqs \ {r} : status'[q] = status[q]
    BY <1>3
  <1>6. OwnInv'
    <2>1. \A i \in 1..Len(queue') : queue'[i] \in Reqs \ {r} /\ status'[queue'[i]] = "queued"
      BY <1>3, <1>4, <1>5 DEF OwnInv
    <2>2. \A i, j \in 1..Len(queue') : queue'[i] = queue'[j] => i = j
      BY <1>3 DEF OwnInv
    <2>3. \A u \in Threads \ {t} : Owns(th'[u]) => /\ th'[u].req \in Reqs \ {r}
                                                  /\ status'[th'[u].req] = "taken"
      BY <1>1, <1>4, <1>5 DEF OwnInv
    <2>4. \A u \in Threads : Replies(th'[u]) => kind'[th'[u].req] = "rpc"
      BY <1>1 DEF OwnInv
    <2>5. Owns(th'[t]) => th'[t].req = r /\ status'[r] = "taken" BY <1>1, <1>5
    <2>6. \A u, w \in Threads : Owns(th'[u]) /\ Owns(th'[w]) /\ th'[u].req = th'[w].req => u = w
      BY <1>1, <2>3, <2>5 DEF OwnInv
    <2> QED BY <1>3, <2>1, <2>2, <2>3, <2>4, <2>5, <2>6 DEF OwnInv
  <1>7. DebtInv'
    <2>1. Served' = Served \cup {r} /\ r \notin Served /\ Served \subseteq Reqs
      BY <1>3, <1>4, <1>5 DEF Served
    <2>2. Cardinality(Served') = Cardinality(Served) + 1
      <3>1. IsFiniteSet(Served) BY <2>1, Finite, FS_Subset
      <3> HIDE DEF r
      <3> QED BY <2>1, <3>1, FS_AddElement
    <2>3. ~IsBusy(th[t]) BY DEF IsBusy
    <2> QED BY <1>1, <2>2, <2>3, Finite DEF DebtInv, Bit
  <1> QED BY <1>1, <1>2, <1>3, <1>5, <1>6, <1>7

\* A new request is put on the queue while the threads keep theirs.
LEMMA RequestPut ==
    ASSUME IInv, NEW r \in Reqs, NEW k \in {"rpc", "oneway", "unknown"}, status[r] = "unsent",
           kind' = [kind EXCEPT ![r] = k], status' = [status EXCEPT ![r] = "queued"],
           queue' = Append(queue, r), th' \in [Threads -> LocalType],
           \A u \in Threads : /\ Owns(th'[u]) => Owns(th[u]) /\ th'[u].req = th[u].req
                              /\ Replies(th'[u]) => Replies(th[u]) /\ th'[u].req = th[u].req
                              /\ IsBusy(th'[u]) <=> IsBusy(th[u])
    PROVE  /\ status' \in [Reqs -> Statuses] /\ queue' \in Seq(Reqs)
           /\ kind' \in [Reqs -> {"none", "rpc", "oneway", "unknown"}]
           /\ OwnInv' /\ DebtInv'
  <1> USE DEF IInv
  <1>1. /\ status \in [Reqs -> Statuses] /\ queue \in Seq(Reqs)
        /\ kind \in [Reqs -> {"none", "rpc", "oneway", "unknown"}]
    BY DEF TypeOK
  <1>2. /\ status' \in [Reqs -> Statuses] /\ queue' \in Seq(Reqs)
        /\ kind' \in [Reqs -> {"none", "rpc", "oneway", "unknown"}]
        /\ status'[r] = "queued" /\ \A q \in Reqs \ {r} : status'[q] = status[q] /\ kind'[q] = kind[q]
        /\ Len(queue') = Len(queue) + 1 /\ queue'[Len(queue) + 1] = r /\ Len(queue) \in Nat
        /\ \A i \in 1..Len(queue) : queue'[i] = queue[i] /\ queue[i] \in Reqs
    BY <1>1 DEF Statuses
  <1>3. \A i \in 1..Len(queue) : queue[i] # r BY DEF OwnInv
  <1>4. OwnInv'
    <2>1. \A i \in 1..Len(queue') : status'[queue'[i]] = "queued" BY <1>2, <1>3 DEF OwnInv
    <2>2. \A i, j \in 1..Len(queue') : queue'[i] = queue'[j] => i = j
      BY <1>2, <1>3 DEF OwnInv
    <2>3. \A u \in Threads : Owns(th'[u]) => th'[u].req \in Reqs \ {r} /\ status'[th'[u].req] = "taken"
      BY <1>2 DEF OwnInv
    <2>4. \A u \in Threads : Replies(th'[u]) => kind'[th'[u].req] = "rpc"
      BY <1>2, <2>3 DEF OwnInv, Owns, Replies
    <2>5. \A u, w \in Threads : Owns(th'[u]) /\ Owns(th'[w]) /\ th'[u].req = th'[w].req => u = w
      BY DEF OwnInv
    <2> QED BY <2>1, <2>2, <2>3, <2>4, <2>5 DEF OwnInv
  <1>5. Served' = Served /\ Busy' = Busy BY <1>2 DEF Served, Busy
  <1> QED BY <1>2, <1>4, <1>5 DEF DebtInv

-----------------------------------------------------------------------------
(* Each action preserves the invariant.                                    *)

\* AdjustTooMany(t) preserves the invariant: it is never a new thread that exits.
LEMMA AdjustTooManyKeeps ==
    ASSUME IInv, NEW t \in Threads, AdjustTooMany(t), UNCHANGED max_threads
    PROVE  IInv'
  <1> USE PoolAssumption DEF IInv
  <1>1. /\ th \in [Threads -> LocalType] /\ th[t] \in LocalType /\ th[t].pc = "top" /\ Flags(th[t])
        /\ threads_waiting \in Nat /\ thread_count \in Nat /\ max_threads \in Nat
    BY DEF TypeOK, AdjustTooMany, FlagInv
  <1>2. ~th[t].new /\ threads_waiting >= 1 /\ threads_waiting' = threads_waiting
    BY <1>1 DEF AdjustTooMany, TooMany, PoolBounded, LocalType
  <1>3. CASE th[t].send_reply
    <2> DEFINE next == [th[t] EXCEPT !.pc = "send", !.new = FALSE, !.rcv_request = FALSE]
    <2>1. Moves(t, next) /\ thread_count' = thread_count /\ UNCHANGED <<queue, kind, status, errs>>
      BY <1>3 DEF AdjustTooMany, Moves
    <2>2. next \in LocalType BY <1>1 DEF LocalType
    <2>3. /\ Flags(next) /\ IsBusy(next) /\ IsBusy(th[t]) /\ Owns(next) /\ Owns(th[t]) /\ next.req = th[t].req
          /\ Replies(th[t]) /\ ~IsWaiting(next) /\ ~IsWaiting(th[t]) /\ next.pc # "none"
      BY <1>1, <1>2, <1>3 DEF Flags, IsBusy, Owns, Replies, IsWaiting, LocalType
    <2>4. kind[next.req] = "rpc" BY <2>3 DEF OwnInv
    <2> HIDE DEF next
    <2>5. /\ th' \in [Threads -> LocalType] /\ FlagInv' /\ OwnInv' /\ DebtInv'
          /\ PoolExact' /\ PoolBounded' /\ NeverAllBusy'
      BY <1>1, <1>2, <2>1, <2>2, <2>3, <2>4, OwnKept, PoolKept
    <2> QED BY <1>2, <2>1, <2>5 DEF TypeOK
  <1>4. CASE ~th[t].send_reply
    <2>1. Moves(t, None) /\ thread_count' = thread_count - 1 /\ UNCHANGED <<queue, kind, status, errs>>
      BY <1>4 DEF AdjustTooMany, Moves
    <2>2. ~IsWaiting(th[t]) BY <1>1, <1>2 DEF IsWaiting
    <2>3. th' \in [Threads -> LocalType] /\ FlagInv' /\ OwnInv' /\ DebtInv'
      BY <1>1, <2>1, NewThread, OwnKept
    <2>4. Cardinality(Waiting') = Cardinality(Waiting) /\ Cardinality(Live') = Cardinality(Live) - 1
      <3>1. /\ Cardinality(Waiting') = Cardinality(Waiting) + Bit(IsWaiting(None)) - Bit(IsWaiting(th[t]))
            /\ Cardinality(Live') = Cardinality(Live) + Bit(None.pc # "none") - Bit(th[t].pc # "none")
        BY <2>1, NewThread, MoveCounts
      <3>2. ~IsWaiting(None) /\ None.pc = "none" BY NewThread
      <3> QED BY <1>1, <2>2, <3>1, <3>2, Finite DEF Bit
    <2>5. PoolExact' BY <1>1, <1>2, <2>1, <2>4 DEF PoolExact
    <2>6. PoolBounded' BY <1>1, <1>2, <2>1 DEF PoolBounded
    <2>7. NeverAllBusy'
      <3>1. Cardinality(Waiting') # 0 BY <1>2, <2>5 DEF PoolExact
      <3>2. Waiting' # {} BY <3>1, FS_EmptySet
      <3> QED BY <3>2 DEF NeverAllBusy
    <2>8. thread_count' \in 0..Cardinality(Threads)
      <3>1. thread_count >= 1
        <4>1. Live # {} BY <1>1 DEF Live
        <4>2. IsFiniteSet(Live) BY Finite, FS_Subset DEF Live
        <4> QED BY <4>1, <4>2, Finite, FS_EmptySet DEF PoolExact
      <3> QED BY <2>1, <3>1, Finite DEF TypeOK
    <2> QED BY <1>2, <2>1, <2>3, <2>5, <2>6, <2>7, <2>8 DEF TypeOK
  <1> QED BY <1>3, <1>4

\* AdjustWait(t) preserves the invariant.
LEMMA AdjustWaitKeeps ==
    ASSUME IInv, NEW t \in Threads, AdjustWait(t), UNCHANGED max_threads
    PROVE  IInv'
  <1> DEFINE next == [th[t] EXCEPT !.pc = IF th[t].send_reply THEN "send" ELSE "receive",
                                   !.new = FALSE, !.rcv_request = TRUE]
             n == IF th[t].new THEN 0 ELSE 1
  <1> USE PoolAssumption DEF IInv
  <1>1. /\ th[t] \in LocalType /\ th[t].pc = "top" /\ Flags(th[t]) /\ threads_waiting \in Nat
        /\ Adjust(t, n, next) /\ threads_waiting + n <= max_waiting /\ n \in {-1, 0, 1}
        /\ UNCHANGED <<queue, kind, status, errs>>
    BY DEF TypeOK, AdjustWait, TooMany, FlagInv
  <1>2. next \in LocalType BY <1>1 DEF LocalType
  <1>3. /\ Flags(next) /\ (IsBusy(next) => IsBusy(th[t]))
        /\ Owns(next) => Owns(th[t]) /\ next.req = th[t].req
        /\ Replies(next) => Replies(th[t]) /\ next.req = th[t].req
        /\ IsWaiting(next) /\ (IsWaiting(th[t]) <=> th[t].new)
    BY <1>1 DEF Flags, IsBusy, Owns, Replies, IsWaiting, LocalType, IsSendError
  <1>4. Replies(next) => kind[next.req] = "rpc" BY <1>3 DEF OwnInv
  <1>5. n = Bit(IsWaiting(next)) - Bit(IsWaiting(th[t])) BY <1>3 DEF Bit
  <1>6. n # -1 /\ next.pc # "none" BY DEF n
  <1> HIDE DEF next, n
  <1>7. /\ PoolExact' /\ PoolBounded' /\ NeverAllBusy'
        /\ threads_waiting' \in Nat /\ thread_count' \in 0..Cardinality(Threads)
        /\ Moves(t, next) \/ \E u \in Threads : Forks(t, next, u)
    BY <1>1, <1>2, <1>3, <1>5, <1>6, AdjustPool
  <1>8. th' \in [Threads -> LocalType] /\ FlagInv' /\ OwnInv' /\ DebtInv'
    BY <1>1, <1>2, <1>3, <1>4, <1>7, OwnKept
  <1> QED BY <1>1, <1>7, <1>8 DEF TypeOK

\* Dispatch(t) preserves the invariant.
LEMMA DispatchKeeps ==
    ASSUME IInv, NEW t \in Threads, Dispatch(t), UNCHANGED max_threads
    PROVE  IInv'
  <1> USE PoolAssumption DEF IInv
  <1>1. PICK failing \in IF th[t].failing = "unset" THEN {"yes", "no"} ELSE {th[t].failing} :
           IF th[t].rcv_request
           THEN Adjust(t, -1, Coping(t, failing))
           ELSE /\ th' = [th EXCEPT ![t] = Coping(t, failing)]
                /\ UNCHANGED <<threads_waiting, thread_count>>
    BY DEF Dispatch
  <1> DEFINE next == Coping(t, failing)
  <1>2. /\ th[t] \in LocalType /\ th[t].pc = "dispatch" /\ Flags(th[t]) /\ threads_waiting \in Nat
        /\ UNCHANGED <<queue, kind, status, errs>> /\ threads_waiting <= max_waiting
    BY DEF TypeOK, Dispatch, FlagInv, PoolBounded
  <1>3. /\ next \in LocalType /\ next.req = th[t].req /\ ~next.new /\ ~next.send_reply
        /\ next.pc \in {"top", "invoke"}
        /\ next.pc = "invoke" => next.failing = "no" /\ th[t].ret = "ok" /\ th[t].rcv_request
    BY <1>2 DEF Coping, LocalType, Flags, IsSendError
  <1>4. /\ Flags(next) /\ IsBusy(th[t]) /\ next.pc # "none" /\ ~Replies(next) /\ ~IsWaiting(next)
        /\ Owns(next) => Owns(th[t]) /\ next.req = th[t].req
        /\ IsWaiting(th[t]) <=> th[t].rcv_request
    BY <1>2, <1>3 DEF Flags, IsBusy, Owns, Replies, IsWaiting
  <1> HIDE DEF next
  <1>5. CASE th[t].rcv_request
    <2>1. Adjust(t, -1, next) BY <1>1, <1>5 DEF next
    <2>2. -1 = Bit(IsWaiting(next)) - Bit(IsWaiting(th[t])) /\ threads_waiting + (-1) <= max_waiting
      BY <1>2, <1>4, <1>5 DEF Bit
    <2>3. /\ PoolExact' /\ PoolBounded' /\ NeverAllBusy'
          /\ threads_waiting' \in Nat /\ thread_count' \in 0..Cardinality(Threads)
          /\ Moves(t, next) \/ \E u \in Threads : Forks(t, next, u)
      BY <1>2, <1>3, <1>4, <2>1, <2>2, AdjustPool
    <2>4. th' \in [Threads -> LocalType] /\ FlagInv' /\ OwnInv' /\ DebtInv'
      BY <1>2, <1>3, <1>4, <2>3, OwnKept
    <2> QED BY <1>2, <2>3, <2>4 DEF TypeOK
  <1>6. CASE ~th[t].rcv_request
    <2>1. Moves(t, next) /\ UNCHANGED <<threads_waiting, thread_count>> BY <1>1, <1>6 DEF next, Moves
    <2>2. /\ th' \in [Threads -> LocalType] /\ FlagInv' /\ OwnInv' /\ DebtInv'
          /\ PoolExact' /\ PoolBounded' /\ NeverAllBusy'
      BY <1>2, <1>3, <1>4, <1>6, <2>1, OwnKept, PoolKept
    <2> QED BY <1>2, <2>1, <2>2 DEF TypeOK
  <1> QED BY <1>5, <1>6

\* Send(t) preserves the invariant.
LEMMA SendKeeps ==
    ASSUME IInv, NEW t \in Threads, Send(t), UNCHANGED max_threads
    PROVE  IInv'
  <1> DEFINE next == [th[t] EXCEPT !.pc = IF th[t].rcv_request THEN "receive" ELSE "dispatch", !.ret = "ok"]
  <1> USE PoolAssumption DEF IInv
  <1>1. /\ th[t] \in LocalType /\ th[t].pc = "send" /\ Flags(th[t])
        /\ UNCHANGED <<threads_waiting, thread_count, queue, kind, errs>>
    BY DEF TypeOK, Send, FlagInv
  <1>2. next \in LocalType /\ Moves(t, next)
    BY <1>1 DEF LocalType, Moves, Send, TypeOK
  <1>3. /\ Flags(next) /\ next.pc # "none" /\ (IsWaiting(next) <=> IsWaiting(th[t]))
        /\ IsBusy(th[t]) /\ Owns(th[t]) /\ ~Owns(next) /\ ~Replies(next)
    BY <1>1 DEF Flags, IsBusy, Owns, Replies, IsWaiting, IsSendError, LocalType
  <1>4. \E v \in Statuses \ {"unsent", "queued"} : status' = [status EXCEPT ![th[t].req] = v]
    BY <1>1 DEF Send, Statuses
  <1> HIDE DEF next
  <1>6. /\ th' \in [Threads -> LocalType] /\ status' \in [Reqs -> Statuses] /\ FlagInv' /\ OwnInv' /\ DebtInv'
        /\ PoolExact' /\ PoolBounded' /\ NeverAllBusy'
    BY <1>1, <1>2, <1>3, <1>4, OwnKept, PoolKept
  <1> QED BY <1>1, <1>6 DEF TypeOK

\* SendDead(t) preserves the invariant.
LEMMA SendDeadKeeps ==
    ASSUME IInv, NEW t \in Threads, SendDead(t), UNCHANGED max_threads
    PROVE  IInv'
  <1> DEFINE next == [th[t] EXCEPT !.pc = "dispatch", !.ret = "send_dead"]
  <1> USE PoolAssumption DEF IInv
  <1>1. /\ th[t] \in LocalType /\ th[t].pc = "send" /\ Flags(th[t])
        /\ UNCHANGED <<threads_waiting, thread_count, queue, kind>>
    BY DEF TypeOK, SendDead, FlagInv
  <1>2. next \in LocalType /\ Moves(t, next)
    BY <1>1 DEF LocalType, Moves, SendDead, TypeOK
  <1>3. /\ Flags(next) /\ next.pc # "none" /\ (IsWaiting(next) <=> IsWaiting(th[t]))
        /\ IsBusy(th[t]) /\ Owns(th[t]) /\ ~Owns(next) /\ ~Replies(next)
    BY <1>1 DEF Flags, IsBusy, Owns, Replies, IsWaiting, IsSendError, LocalType
  <1>4. \E v \in Statuses \ {"unsent", "queued"} : status' = [status EXCEPT ![th[t].req] = v]
    BY <1>1 DEF SendDead, Statuses
  <1>5. errs' \in 0..MaxErrs BY DEF SendDead, TypeOK
  <1> HIDE DEF next
  <1>6. /\ th' \in [Threads -> LocalType] /\ status' \in [Reqs -> Statuses] /\ FlagInv' /\ OwnInv' /\ DebtInv'
        /\ PoolExact' /\ PoolBounded' /\ NeverAllBusy'
    BY <1>1, <1>2, <1>3, <1>4, OwnKept, PoolKept
  <1> QED BY <1>1, <1>5, <1>6 DEF TypeOK

\* SendError(t) preserves the invariant.
LEMMA SendErrorKeeps ==
    ASSUME IInv, NEW t \in Threads, SendError(t), UNCHANGED max_threads
    PROVE  IInv'
  <1> DEFINE next == [th[t] EXCEPT !.pc = "dispatch", !.ret = "send_error"]
  <1> USE PoolAssumption DEF IInv
  <1>1. /\ th[t] \in LocalType /\ th[t].pc = "send" /\ Flags(th[t])
        /\ UNCHANGED <<threads_waiting, thread_count, queue, kind, status>>
    BY DEF TypeOK, SendError, FlagInv
  <1>2. next \in LocalType /\ Moves(t, next)
    BY <1>1 DEF LocalType, Moves, SendError, TypeOK
  <1>3. /\ Flags(next) /\ next.pc # "none" /\ (IsWaiting(next) <=> IsWaiting(th[t]))
        /\ IsBusy(th[t]) /\ Owns(th[t]) /\ ~Owns(next) /\ ~Replies(next)
    BY <1>1 DEF Flags, IsBusy, Owns, Replies, IsWaiting, IsSendError, LocalType
  <1>4. errs' \in 0..MaxErrs
    BY <1>1 DEF SendError, TypeOK
  <1> HIDE DEF next
  <1>6. /\ th' \in [Threads -> LocalType] /\ status' \in [Reqs -> Statuses] /\ FlagInv' /\ OwnInv' /\ DebtInv'
        /\ PoolExact' /\ PoolBounded' /\ NeverAllBusy'
    BY <1>1, <1>2, <1>3, <1>4, OwnKept, PoolKept
  <1> QED BY <1>1, <1>4, <1>6 DEF TypeOK

\* CallReturns(t) preserves the invariant.
LEMMA CallReturnsKeeps ==
    ASSUME IInv, NEW t \in Threads, CallReturns(t), UNCHANGED max_threads
    PROVE  IInv'
  <1> DEFINE next == [th[t] EXCEPT !.pc = "invoke"]
  <1> USE PoolAssumption DEF IInv
  <1>1. /\ th[t] \in LocalType /\ th[t].pc = "calling" /\ Flags(th[t])
        /\ UNCHANGED <<threads_waiting, thread_count, queue, kind, status, errs>>
    BY DEF TypeOK, CallReturns, FlagInv
  <1>2. next \in LocalType /\ Moves(t, next)
    BY <1>1 DEF LocalType, Moves, CallReturns, TypeOK
  <1>3. /\ Flags(next) /\ next.pc # "none" /\ (IsWaiting(next) <=> IsWaiting(th[t]))
        /\ IsBusy(th[t]) /\ Owns(th[t]) /\ next.req = th[t].req /\ ~Replies(next)
    BY <1>1 DEF Flags, IsBusy, Owns, Replies, IsWaiting, IsSendError, LocalType
  <1>4. status' = status
    BY <1>1 DEF CallReturns
  <1> HIDE DEF next
  <1>6. /\ th' \in [Threads -> LocalType] /\ status' \in [Reqs -> Statuses] /\ FlagInv' /\ OwnInv' /\ DebtInv'
        /\ PoolExact' /\ PoolBounded' /\ NeverAllBusy'
    BY <1>1, <1>2, <1>3, <1>4, OwnKept, PoolKept
  <1> QED BY <1>1, <1>6 DEF TypeOK

\* Invoke(t) preserves the invariant.
LEMMA InvokeKeeps ==
    ASSUME IInv, NEW t \in Threads, Invoke(t), UNCHANGED max_threads
    PROVE  IInv'
  <1> DEFINE next == [th[t] EXCEPT !.pc = "top", !.send_reply = (kind[th[t].req] = "rpc"),
                                   !.local_port = (kind[th[t].req] = "unknown")]
  <1> USE PoolAssumption DEF IInv
  <1>1. /\ th[t] \in LocalType /\ th[t].pc = "invoke" /\ Flags(th[t])
        /\ UNCHANGED <<threads_waiting, thread_count, queue, kind, errs>>
    BY DEF TypeOK, Invoke, FlagInv
  <1>2. next \in LocalType /\ Moves(t, next)
    BY <1>1 DEF LocalType, Moves, Invoke, TypeOK
  <1>3. /\ Flags(next) /\ next.pc # "none" /\ (IsWaiting(next) <=> IsWaiting(th[t]))
        /\ IsBusy(th[t]) /\ Owns(th[t]) /\ next.req = th[t].req
        /\ Replies(next) <=> kind[th[t].req] = "rpc"
        /\ Owns(next) <=> kind[th[t].req] = "rpc"
    BY <1>1 DEF Flags, IsBusy, Owns, Replies, IsWaiting, IsSendError, LocalType
  <1>4. \/ status' = status
        \/ kind[th[t].req] = "oneway" /\ \E v \in Statuses \ {"unsent", "queued"} : status' = [status EXCEPT ![th[t].req] = v]
    BY <1>1 DEF Invoke, Statuses, TypeOK
  <1> HIDE DEF next
  <1>6. /\ th' \in [Threads -> LocalType] /\ status' \in [Reqs -> Statuses] /\ FlagInv' /\ OwnInv' /\ DebtInv'
        /\ PoolExact' /\ PoolBounded' /\ NeverAllBusy'
    BY <1>1, <1>2, <1>3, <1>4, OwnKept, PoolKept
  <1> QED BY <1>1, <1>6 DEF TypeOK

\* Receive(t) preserves the invariant.
LEMMA ReceiveKeeps ==
    ASSUME IInv, NEW t \in Threads, Receive(t), UNCHANGED max_threads
    PROVE  IInv'
  <1> DEFINE next == [th[t] EXCEPT !.pc = "dispatch", !.ret = "ok", !.req = Head(queue), !.local_port = TRUE]
  <1> USE PoolAssumption DEF IInv
  <1>1. /\ th[t] \in LocalType /\ th[t].pc = "receive" /\ Flags(th[t])
        /\ UNCHANGED <<threads_waiting, thread_count, kind, errs>>
    BY DEF TypeOK, Receive, FlagInv
  <1>2. next \in LocalType /\ Moves(t, next)
    <2>1. Head(queue) \in 0..MaxReqs BY DEF TypeOK, Receive, Reqs
    <2>2. next \in LocalType BY <1>1, <2>1 DEF LocalType
    <2>3. Moves(t, next) BY <1>1 DEF Moves, Receive, TypeOK
    <2> QED BY <2>2, <2>3
  <1>3. /\ Flags(next) /\ next.pc # "none" /\ (IsWaiting(next) <=> IsWaiting(th[t]))
        /\ ~Replies(next) /\ next.req = Head(queue)
    BY <1>1 DEF Flags, IsBusy, Owns, Replies, IsWaiting, IsSendError, LocalType
  <1>4. errs' \in 0..MaxErrs
    BY <1>1 DEF Receive, TypeOK
  <1>5. queue # <<>> /\ queue' = Tail(queue) BY DEF Receive
  <1>6. "taken" \in Statuses \ {"unsent", "queued"} /\ status' = [status EXCEPT ![Head(queue)] = "taken"]
    BY DEF Receive, Statuses
  <1> HIDE DEF next
  <1>7. PoolExact' /\ PoolBounded' /\ NeverAllBusy'
    BY <1>1, <1>2, <1>3, PoolKept
  <1>8. /\ th' \in [Threads -> LocalType] /\ status' \in [Reqs -> Statuses] /\ queue' \in Seq(Reqs)
        /\ FlagInv' /\ OwnInv' /\ DebtInv'
    BY <1>1, <1>2, <1>3, <1>5, <1>6, RequestTaken
  <1> QED BY <1>1, <1>4, <1>7, <1>8 DEF TypeOK

\* ReceiveError(t) preserves the invariant.
LEMMA ReceiveErrorKeeps ==
    ASSUME IInv, NEW t \in Threads, ReceiveError(t), UNCHANGED max_threads
    PROVE  IInv'
  <1> DEFINE next == [th[t] EXCEPT !.pc = "dispatch", !.ret = "rcv_error"]
  <1> USE PoolAssumption DEF IInv
  <1>1. /\ th[t] \in LocalType /\ th[t].pc = "receive" /\ Flags(th[t])
        /\ UNCHANGED <<threads_waiting, thread_count, kind>>
    BY DEF TypeOK, ReceiveError, FlagInv
  <1>2. next \in LocalType /\ Moves(t, next)
    BY <1>1 DEF LocalType, Moves, ReceiveError, TypeOK
  <1>3. /\ Flags(next) /\ next.pc # "none" /\ (IsWaiting(next) <=> IsWaiting(th[t]))
        /\ ~Replies(next) /\ ~Owns(next)
    BY <1>1 DEF Flags, IsBusy, Owns, Replies, IsWaiting, IsSendError, LocalType
  <1>4. errs' \in 0..MaxErrs
    BY <1>1 DEF ReceiveError, TypeOK
  <1>5. queue # <<>> /\ queue' = Tail(queue) BY DEF ReceiveError
  <1>6. "destroyed" \in Statuses \ {"unsent", "queued"} /\ status' = [status EXCEPT ![Head(queue)] = "destroyed"]
    BY DEF ReceiveError, Statuses
  <1> HIDE DEF next
  <1>7. PoolExact' /\ PoolBounded' /\ NeverAllBusy'
    BY <1>1, <1>2, <1>3, PoolKept
  <1>8. /\ th' \in [Threads -> LocalType] /\ status' \in [Reqs -> Statuses] /\ queue' \in Seq(Reqs)
        /\ FlagInv' /\ OwnInv' /\ DebtInv'
    BY <1>1, <1>2, <1>3, <1>5, <1>6, RequestTaken
  <1> QED BY <1>1, <1>4, <1>7, <1>8 DEF TypeOK

\* Call(t, r) preserves the invariant.
LEMMA CallKeeps ==
    ASSUME IInv, NEW t \in Threads, NEW r \in Reqs, Call(t, r), UNCHANGED max_threads
    PROVE  IInv'
  <1> DEFINE next == [th[t] EXCEPT !.pc = "calling", !.callee = r]
  <1> USE PoolAssumption DEF IInv
  <1>1. /\ th[t] \in LocalType /\ th[t].pc = "invoke" /\ Flags(th[t])
        /\ UNCHANGED <<threads_waiting, thread_count, errs>>
    BY DEF TypeOK, Call, FlagInv
  <1>2. next \in LocalType /\ Moves(t, next)
    <2>1. r \in 0..MaxReqs BY DEF Reqs
    <2>2. next \in LocalType BY <1>1, <2>1 DEF LocalType
    <2>3. Moves(t, next) BY <1>1 DEF Moves, Call, TypeOK
    <2> QED BY <2>2, <2>3
  <1>3. /\ Flags(next) /\ next.pc # "none" /\ ~IsWaiting(next) /\ ~IsWaiting(th[t])
        /\ IsBusy(th[t]) /\ IsBusy(next) /\ Owns(th[t]) /\ next.req = th[t].req /\ ~Replies(next)
    BY <1>1 DEF Flags, IsBusy, Owns, Replies, IsWaiting, IsSendError, LocalType
  <1> HIDE DEF next
  <1>4. PoolExact' /\ PoolBounded' /\ NeverAllBusy'
    BY <1>1, <1>2, <1>3, PoolKept
  <1>5. th' \in [Threads -> LocalType] /\ th'[t] = next /\ \A u \in Threads \ {t} : th'[u] = th[u]
    BY <1>2, MoveCounts
  <1>6. FlagInv' BY <1>3, <1>5 DEF FlagInv
  <1>7. /\ status[r] = "unsent" /\ kind' = [kind EXCEPT ![r] = "rpc"]
        /\ status' = [status EXCEPT ![r] = "queued"] /\ queue' = Append(queue, r)
    BY DEF Call
  <1>8. /\ status' \in [Reqs -> Statuses] /\ queue' \in Seq(Reqs)
        /\ kind' \in [Reqs -> {"none", "rpc", "oneway", "unknown"}] /\ OwnInv' /\ DebtInv'
    BY <1>3, <1>5, <1>7, RequestPut
  <1> QED BY <1>1, <1>4, <1>5, <1>6, <1>8 DEF TypeOK

\* ClientSend(k) preserves the invariant.
LEMMA ClientSendKeeps ==
    ASSUME IInv, NEW k \in Kinds, ClientSend(k), UNCHANGED max_threads
    PROVE  IInv'
  <1> USE DEF IInv
  <1>1. PICK r \in Reqs : /\ status[r] = "unsent" /\ kind' = [kind EXCEPT ![r] = k]
                          /\ status' = [status EXCEPT ![r] = "queued"] /\ queue' = Append(queue, r)
                          /\ UNCHANGED <<threads_waiting, thread_count, th, errs>>
    BY DEF ClientSend
  <1>2. /\ status' \in [Reqs -> Statuses] /\ queue' \in Seq(Reqs)
        /\ kind' \in [Reqs -> {"none", "rpc", "oneway", "unknown"}] /\ OwnInv' /\ DebtInv'
    BY <1>1, PoolAssumption, RequestPut DEF TypeOK
  <1>3. PoolExact' /\ PoolBounded' /\ NeverAllBusy' /\ FlagInv'
    BY <1>1 DEF PoolExact, PoolBounded, NeverAllBusy, FlagInv, Waiting, Live
  <1> QED BY <1>1, <1>2, <1>3 DEF TypeOK

-----------------------------------------------------------------------------
(* The theorems.                                                           *)

\* start_object_handler: one thread, counted as waiting.
LEMMA InitHolds == Init => IInv
  <1> SUFFICES ASSUME Init PROVE IInv OBVIOUS
  <1> DEFINE t == CHOOSE t \in Threads : TRUE
  <1> USE PoolAssumption DEF Init
  <1>1. t \in Threads
    <2>1. Threads # {} BY FS_EmptySet
    <2> QED BY <2>1
  <1>2. th = [u \in Threads |-> IF u = t THEN New ELSE None] OBVIOUS
  <1> HIDE DEF t
  <1>3. /\ th \in [Threads -> LocalType] /\ FlagInv /\ Waiting = {t} /\ Live = {t} /\ Busy = {}
        /\ \A u \in Threads : ~Owns(th[u]) /\ ~Replies(th[u])
    BY <1>1, <1>2, NewThread DEF FlagInv, Waiting, Live, Busy
  <1>4. PoolExact BY <1>3, FS_Singleton DEF PoolExact
  <1>5. PoolBounded /\ NeverAllBusy BY <1>3 DEF PoolBounded, NeverAllBusy
  <1>6. OwnInv BY <1>3 DEF OwnInv
  <1>7. DebtInv BY <1>3, FS_EmptySet, Finite DEF DebtInv
  <1>8. TypeOK
    <2>1. Cardinality(Threads) \in Nat /\ Cardinality(Threads) >= 1 BY Finite
    <2> QED BY <1>3, <2>1 DEF TypeOK, Statuses
  <1> QED BY <1>3, <1>4, <1>5, <1>6, <1>7, <1>8 DEF IInv

\* Every step preserves the invariant.
LEMMA NextHolds == IInv /\ [Next]_vars => IInv'
  <1> SUFFICES ASSUME IInv, [Next]_vars PROVE IInv' OBVIOUS
  <1>1. ASSUME NEW t \in Threads, ThreadStep(t) PROVE IInv'
    BY <1>1, AdjustTooManyKeeps, AdjustWaitKeeps, SendKeeps, ReceiveKeeps, DispatchKeeps,
       CallReturnsKeeps, InvokeKeeps DEF ThreadStep
  <1>2. CASE Environment
    BY <1>2, SendDeadKeeps, SendErrorKeeps, ReceiveErrorKeeps, CallKeeps, ClientSendKeeps DEF Environment
  <1>3. CASE UNCHANGED vars
    BY <1>3 DEF vars, IInv, TypeOK, PoolExact, PoolBounded, NeverAllBusy, FlagInv, OwnInv, DebtInv,
        Waiting, Live, Busy, Served
  <1> QED BY <1>1, <1>2, <1>3 DEF Next

\* The invariant behind the theorems below.
THEOREM Invariance == Spec => []IInv
  BY InitHolds, NextHolds, PTL DEF Spec

\* _adjust_threads keeps exact counters of the threads that wait and exist, never
\* exceeds the limits, always finds a thread to fork, and leaves one for the next
\* request unless the pool has max_threads threads.
THEOREM PoolIsSound == Spec => []PoolSound
  <1>1. IInv => PoolSound BY DEF IInv, PoolSound
  <1> QED BY <1>1, Invariance, PTL

\* _object_handler sends a reply for the request the thread has in hand, which no
\* other thread has, and never reads sending_failure_notification unset.
THEOREM RepliesAreSound == Spec => []ReplySound
  <1>1. IInv => ReplyOnce BY DEF IInv, OwnInv, ReplyOnce, Owns, Replies
  <1>2. IInv => FailingSetBeforeRead BY DEF IInv, FlagInv, Flags, FailingSetBeforeRead
  <1> QED BY <1>1, <1>2, Invariance, PTL DEF ReplySound
=============================================================================
