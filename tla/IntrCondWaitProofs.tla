------------------------- MODULE IntrCondWaitProofs -------------------------
(***************************************************************************)
(* Proofs about module IntrCondWait, for any number of waiters, posters,   *)
(* posts and children: a post is never missed, the oldest is kept, and no  *)
(* record of a finished intr_cond_wait stays reachable.                    *)
(***************************************************************************)
EXTENDS IntrCondWait, TLAPS

-----------------------------------------------------------------------------
(* The inductive invariant.                                                *)

\* Where the handler of this call is on the thread's handler stack.
OnStack == {"shake_on_post", "shake", "signal", "wait", "waiting", "clear", "bound"}

\* Where the call has an end in sight but no result yet.
Undecided == OnStack \cup {"region", "enable"}

CountInv == children <= born /\ signals <= born

\* What the place of a waiter tells about its thread_info and its locals.
RegionInv == \A w \in Waiters :
    /\ info[w].shake_on_post => pc[w] \in {"shake", "signal", "wait", "waiting", "clear"}
    /\ pc[w] \in {"shake", "signal"} => info[w].shake_on_post /\ hand[w].shake_occured
    /\ pc[w] \in {"wait", "waiting"} =>
           /\ info[w].shake_on_post
           /\ info[w].pending = 0 \/ info[w].masked = Async \/ hand[w].shake_occured
    /\ pc[w] \in {"idle", "test", "region", "enable", "return"} => info[w].next_index = 0
    /\ pc[w] \in {"region", "enable"} => hand[w].index = 0
    /\ pc[w] \in OnStack => info[w].next_index = 1 /\ hand[w].index = 1
    /\ pc[w] \in {"handler", "exit_handler", "end"} => info[w].next_index = hand[w].index

IsOldest(n, S) == n \in S /\ \A m \in S : n <= m

\* Which posts the kept information and the result stand for.
OldestInv == \A w \in Waiters :
    /\ undelivered[w] \subseteq 1..posted
    /\ info[w].pending = 0 => undelivered[w] = {}
    /\ info[w].pending # 0 => IsOldest(info[w].pending, undelivered[w])
    /\ pc[w] \in Undecided => hand[w].ret = 0
    /\ pc[w] = "handler" /\ handling[w] # {} => IsOldest(hand[w].error, handling[w])
    /\ pc[w] \in {"exit_handler", "end", "return"} /\ hand[w].ret # 0 /\ handling[w] # {} =>
           IsOldest(hand[w].ret, handling[w])

IInv == TypeOK /\ CountInv /\ RegionInv /\ OldestInv

-----------------------------------------------------------------------------
(* Each action preserves it.                                               *)

\* Writing one field of a thread_info keeps its type.
LEMMA InfoUpdate ==
    ASSUME NEW f \in [Waiters -> InfoType], NEW w \in Waiters
    PROVE  /\ \A n \in 0..MaxPosts : [f EXCEPT ![w].pending = n] \in [Waiters -> InfoType]
           /\ [f EXCEPT ![w].shake_on_post = TRUE] \in [Waiters -> InfoType]
  BY DEF InfoType

\* Noting that a shake was made keeps the type of the waiter's locals.
LEMMA HandUpdate ==
    ASSUME NEW f \in [Waiters -> HandType], NEW w \in Waiters
    PROVE  [f EXCEPT ![w].shake_occured = TRUE] \in [Waiters -> HandType]
  BY DEF HandType

\* GetChildInfo(w) preserves the invariant.
LEMMA GetChildInfoKeeps ==
    ASSUME IInv, NEW w \in Waiters, GetChildInfo(w)
    PROVE  IInv'
  <1> USE ThreadsAssumption DEF IInv, Threads, cvars, hist, Goto, GetChildInfo, Cond!Lock
  <1>1. TypeOK'
    <2>1. info \in [Waiters -> InfoType] /\ hand \in [Waiters -> HandType] /\ posted \in 0..MaxPosts
      BY DEF TypeOK
    <2>2. info' \in [Waiters -> InfoType] /\ hand' \in [Waiters -> HandType]
      BY <2>1 DEF InfoType, HandType
    <2> QED BY <2>2 DEF TypeOK, CountInv, Places, NeedsIntrLock, InRegion
  <1>2. CountInv' BY DEF TypeOK, CountInv
  <1>3. RegionInv'
    BY DEF TypeOK, RegionInv, InRegion, NeedsIntrLock, OnStack, Places, InfoType, HandType
  <1>4. OldestInv'
    BY DEF TypeOK, OldestInv, IsOldest, OnStack, Undecided, InfoType, HandType
  <1> QED BY <1>1, <1>2, <1>3, <1>4

\* TakeChild(w) preserves the invariant.
LEMMA TakeChildKeeps ==
    ASSUME IInv, NEW w \in Waiters, TakeChild(w)
    PROVE  IInv'
  <1> USE ThreadsAssumption DEF IInv, Threads, cvars, hist, Goto, TakeChild, Cond!Unlock
  <1>1. TypeOK'
    <2>1. info \in [Waiters -> InfoType] /\ hand \in [Waiters -> HandType] /\ posted \in 0..MaxPosts
      BY DEF TypeOK
    <2>2. info' \in [Waiters -> InfoType] /\ hand' \in [Waiters -> HandType]
      BY <2>1 DEF InfoType, HandType
    <2> QED BY <2>2 DEF TypeOK, CountInv, Places, NeedsIntrLock, InRegion
  <1>2. CountInv' BY DEF TypeOK, CountInv
  <1>3. RegionInv'
    BY DEF TypeOK, RegionInv, InRegion, NeedsIntrLock, OnStack, Places, InfoType, HandType
  <1>4. OldestInv'
    BY DEF TypeOK, OldestInv, IsOldest, OnStack, Undecided, InfoType, HandType
  <1> QED BY <1>1, <1>2, <1>3, <1>4

\* CallWait(w) preserves the invariant.
LEMMA CallWaitKeeps ==
    ASSUME IInv, NEW w \in Waiters, CallWait(w)
    PROVE  IInv'
  <1> USE ThreadsAssumption DEF IInv, Threads, cvars, hist, Goto, CallWait
  <1>1. TypeOK'
    <2>1. info \in [Waiters -> InfoType] /\ hand \in [Waiters -> HandType] /\ posted \in 0..MaxPosts
      BY DEF TypeOK
    <2>2. info' \in [Waiters -> InfoType] /\ hand' \in [Waiters -> HandType]
      <3>1. HandInit \in HandType BY DEF HandInit, HandType, Junk
      <3> QED BY <2>1, <3>1
    <2> QED BY <2>2 DEF TypeOK, CountInv, Places, NeedsIntrLock, InRegion
  <1>2. CountInv' BY DEF TypeOK, CountInv
  <1>3. RegionInv'
    BY DEF HandInit, TypeOK, RegionInv, InRegion, NeedsIntrLock, OnStack, Places, InfoType, HandType
  <1>4. OldestInv'
    BY DEF HandInit, TypeOK, OldestInv, IsOldest, OnStack, Undecided, InfoType, HandType
  <1> QED BY <1>1, <1>2, <1>3, <1>4

\* WaitReturns(w) preserves the invariant.
LEMMA WaitReturnsKeeps ==
    ASSUME IInv, NEW w \in Waiters, WaitReturns(w)
    PROVE  IInv'
  <1> USE ThreadsAssumption DEF IInv, Threads, cvars, hist, Goto, WaitReturns, Cond!Unlock
  <1>1. TypeOK'
    <2>1. info \in [Waiters -> InfoType] /\ hand \in [Waiters -> HandType] /\ posted \in 0..MaxPosts
      BY DEF TypeOK
    <2>2. info' \in [Waiters -> InfoType] /\ hand' \in [Waiters -> HandType]
      BY <2>1 DEF InfoType, HandType
    <2> QED BY <2>2 DEF TypeOK, CountInv, Places, NeedsIntrLock, InRegion
  <1>2. CountInv' BY DEF TypeOK, CountInv
  <1>3. RegionInv'
    BY DEF TypeOK, RegionInv, InRegion, NeedsIntrLock, OnStack, Places, InfoType, HandType
  <1>4. OldestInv'
    BY ZenonT(40) DEF TypeOK, OldestInv, IsOldest, OnStack, Undecided, InfoType, HandType
  <1> QED BY <1>1, <1>2, <1>3, <1>4

\* intr_pending preserves the invariant, at the start and at the bound of the
\* region: nothing is pending, the handler is entered, or it is refused.
LEMMA IntrPendingKeeps ==
    ASSUME IInv, NEW w \in Waiters, NEW here, NEW no, intr_pending(w, here, no),
           (here = "region" /\ no = "enable") \/ (here = "bound" /\ no = "end")
    PROVE  IInv'
  <1> USE DEF IInv, Threads, cvars, hist, Goto, Locked
  <1>1. /\ pc \in [Threads -> Places] /\ info \in [Waiters -> InfoType]
        /\ hand \in [Waiters -> HandType]
        /\ undelivered \in [Waiters -> SUBSET (1..MaxPosts)]
        /\ handling \in [Waiters -> SUBSET (1..MaxPosts)]
    BY DEF TypeOK
  <1>2. /\ pc[w] = here
        /\ UNCHANGED <<owner, waiters, inWait, intr_lock, victim, children, signals, posted, born>>
    BY DEF intr_pending
  <1>3. CountInv' BY <1>2 DEF CountInv
  <1>4. ASSUME /\ pc' \in [Threads -> Places]
               /\ info' \in [Waiters -> InfoType] /\ hand' \in [Waiters -> HandType]
               /\ undelivered' \in [Waiters -> SUBSET (1..MaxPosts)]
               /\ handling' \in [Waiters -> SUBSET (1..MaxPosts)]
        PROVE  TypeOK'
    BY <1>2, <1>4 DEF TypeOK
  <1>5. CASE info[w].pending = 0
    <2>1. /\ info' = info /\ hand' = hand /\ undelivered' = undelivered /\ handling' = handling
          /\ pc' = [pc EXCEPT ![w] = no]
      BY <1>5 DEF intr_pending
    <2>2. TypeOK' BY <1>1, <1>4, <2>1 DEF Places, NeedsIntrLock, InRegion
    <2>3. RegionInv' BY <1>1, <1>2, <2>1 DEF RegionInv, OnStack
    <2>4. OldestInv' BY <1>1, <1>2, <2>1 DEF OldestInv, OnStack, Undecided
    <2> QED BY <1>3, <2>2, <2>3, <2>4
  <1>6. CASE info[w].pending # 0 /\ info[w].masked = {}
    <2>1. /\ info' = [info EXCEPT ![w].masked = Async, ![w].pending = 0]
          /\ hand' = [hand EXCEPT ![w].intr_type = Async, ![w].error = info[w].pending]
          /\ handling' = [handling EXCEPT ![w] = undelivered[w]]
          /\ undelivered' = [undelivered EXCEPT ![w] = {}]
          /\ pc' = [pc EXCEPT ![w] = "handler"]
      BY <1>6 DEF intr_pending, intr_enter_handler
    <2>2. TypeOK'
      <3>1. info' \in [Waiters -> InfoType]
        <4>1. Async \in SUBSET Async /\ 0 \in 0..MaxPosts BY ThreadsAssumption
        <4>2. info[w] \in InfoType BY <1>1
        <4>3. [info[w] EXCEPT !.masked = Async, !.pending = 0] \in InfoType
          BY <4>1, <4>2 DEF InfoType
        <4> QED BY <1>1, <2>1, <4>3
      <3>2. info[w].pending \in 0..Junk BY <1>1, ThreadsAssumption DEF InfoType, Junk
      <3>3. hand' \in [Waiters -> HandType] BY <1>1, <2>1, <3>2, ZenonT(40) DEF HandType
      <3>4. pc' \in [Threads -> Places] BY <1>1, <2>1 DEF Places, NeedsIntrLock, InRegion
      <3> QED BY <1>1, <1>4, <2>1, <3>1, <3>3, <3>4
    <2>3. /\ pc'[w] = "handler"
          /\ info'[w].pending = 0 /\ undelivered'[w] = {}
          /\ info'[w].shake_on_post = info[w].shake_on_post
          /\ info'[w].next_index = info[w].next_index
          /\ hand'[w].error = info[w].pending /\ handling'[w] = undelivered[w]
          /\ hand'[w].ret = hand[w].ret /\ hand'[w].index = hand[w].index
      BY <1>1, <2>1 DEF InfoType, HandType
    <2>4. \A v \in Waiters \ {w} :
              /\ info'[v] = info[v] /\ hand'[v] = hand[v] /\ pc'[v] = pc[v]
              /\ undelivered'[v] = undelivered[v] /\ handling'[v] = handling[v]
      BY <1>1, <2>1
    <2>5. RegionInv' BY <1>2, <2>3, <2>4 DEF RegionInv, OnStack
    <2>6. IsOldest(info[w].pending, undelivered[w]) BY <1>6 DEF OldestInv
    <2>7. OldestInv' BY <1>2, <2>3, <2>4, <2>6 DEF OldestInv, OnStack, Undecided
    <2> QED BY <1>3, <2>2, <2>5, <2>7
  <1>7. CASE info[w].pending # 0 /\ info[w].masked # {}
    <2>1. /\ info' = info /\ undelivered' = undelivered
          /\ handling' = [handling EXCEPT ![w] = {}]
          /\ pc' = [pc EXCEPT ![w] = "handler"]
          /\ \E type \in SUBSET Async, error \in {0, Junk} :
                 hand' = [hand EXCEPT ![w].intr_type = type, ![w].error = error]
      BY <1>7 DEF intr_pending, intr_enter_handler
    <2>2. PICK type \in SUBSET Async, error \in {0, Junk} :
              hand' = [hand EXCEPT ![w].intr_type = type, ![w].error = error]
      BY <2>1
    <2>3. TypeOK'
      <3>1. error \in 0..Junk BY ThreadsAssumption DEF Junk
      <3>2. hand' \in [Waiters -> HandType] BY <1>1, <2>2, <3>1, ZenonT(40) DEF HandType
      <3>3. pc' \in [Threads -> Places] BY <1>1, <2>1 DEF Places, NeedsIntrLock, InRegion
      <3> QED BY <1>1, <1>4, <2>1, <3>2, <3>3
    <2>4. /\ pc'[w] = "handler" /\ handling'[w] = {}
          /\ hand'[w].ret = hand[w].ret /\ hand'[w].index = hand[w].index
      BY <1>1, <2>1, <2>2 DEF HandType
    <2>5. \A v \in Waiters \ {w} :
              hand'[v] = hand[v] /\ pc'[v] = pc[v] /\ handling'[v] = handling[v]
      BY <1>1, <2>1, <2>2
    <2>6. RegionInv'
      <3>1. info[w].next_index = hand[w].index /\ ~info[w].shake_on_post
        BY <1>2 DEF RegionInv, OnStack
      <3>2. \A v \in Waiters : info'[v] = info[v] BY <2>1
      <3> QED BY <2>4, <2>5, <3>1, <3>2 DEF RegionInv, OnStack
    <2>7. OldestInv' BY <1>2, <2>1, <2>4, <2>5 DEF OldestInv, OnStack, Undecided
    <2> QED BY <1>3, <2>3, <2>6, <2>7
  <1> QED BY <1>5, <1>6, <1>7

\* intr_enable_handler(w) preserves the invariant.
LEMMA IntrEnableHandlerKeeps ==
    ASSUME IInv, NEW w \in Waiters, intr_enable_handler(w)
    PROVE  IInv'
  <1> USE ThreadsAssumption DEF IInv, Threads, cvars, hist, Goto, intr_enable_handler, Locked
  <1>1. TypeOK'
    <2>1. info \in [Waiters -> InfoType] /\ hand \in [Waiters -> HandType] /\ posted \in 0..MaxPosts
      BY DEF TypeOK
    <2>2. info' \in [Waiters -> InfoType] /\ hand' \in [Waiters -> HandType]
      <3>1. info[w].next_index = 0 BY DEF RegionInv
      <3>2. [info[w] EXCEPT !.next_index = 1] \in InfoType BY <2>1 DEF InfoType
      <3>3. [hand[w] EXCEPT !.index = 1] \in HandType BY <2>1 DEF HandType
      <3> QED BY <2>1, <3>1, <3>2, <3>3
    <2> QED BY <2>2 DEF TypeOK, CountInv, Places, NeedsIntrLock, InRegion
  <1>2. CountInv' BY DEF TypeOK, CountInv
  <1>3. RegionInv'
    BY DEF TypeOK, RegionInv, InRegion, NeedsIntrLock, OnStack, Places, InfoType, HandType
  <1>4. OldestInv'
    <2>1. /\ pc \in [Threads -> Places] /\ info \in [Waiters -> InfoType]
          /\ hand \in [Waiters -> HandType]
      BY DEF TypeOK
    <2>2. /\ posted' = posted /\ undelivered' = undelivered /\ handling' = handling
          /\ \A v \in Waiters : info'[v].pending = info[v].pending
          /\ \A v \in Waiters \ {w} : pc'[v] = pc[v] /\ hand'[v] = hand[v]
      BY <2>1 DEF InfoType
    <2>3. pc[w] = "enable" /\ pc'[w] = "shake_on_post" /\ hand'[w].ret = hand[w].ret
      BY <2>1 DEF HandType
    <2> QED BY <2>2, <2>3 DEF OldestInv, OnStack, Undecided
  <1> QED BY <1>1, <1>2, <1>3, <1>4

\* intr_shake_on_post(w) preserves the invariant.
LEMMA IntrShakeOnPostKeeps ==
    ASSUME IInv, NEW w \in Waiters, intr_shake_on_post(w)
    PROVE  IInv'
  <1> USE ThreadsAssumption DEF IInv, Threads, cvars, hist, Goto, intr_shake_on_post, CallShake
  <1>1. TypeOK'
    <2>1. info \in [Waiters -> InfoType] /\ hand \in [Waiters -> HandType]
      BY DEF TypeOK
    <2>2. info' \in [Waiters -> InfoType] /\ hand' \in [Waiters -> HandType]
      BY <2>1, InfoUpdate, HandUpdate
    <2>3. pc' \in [Threads -> Places]
      BY DEF TypeOK, Places, NeedsIntrLock, InRegion
    <2>4. /\ undelivered' \in [Waiters -> SUBSET (1..MaxPosts)]
          /\ handling' \in [Waiters -> SUBSET (1..MaxPosts)]
      BY DEF TypeOK
    <2> QED BY <2>2, <2>3, <2>4, ZenonT(40) DEF TypeOK, CountInv
  <1>2. CountInv' BY DEF TypeOK, CountInv
  <1>3. RegionInv'
    BY SMTT(30) DEF TypeOK, RegionInv, InRegion, NeedsIntrLock, OnStack, Places, InfoType, HandType
  <1>4. OldestInv'
    BY SMTT(30) DEF TypeOK, OldestInv, IsOldest, OnStack, Undecided, InfoType, HandType
  <1> QED BY <1>1, <1>2, <1>3, <1>4

\* condition_wait(w) preserves the invariant.
LEMMA ConditionWaitKeeps ==
    ASSUME IInv, NEW w \in Waiters, condition_wait(w)
    PROVE  IInv'
  <1> USE ThreadsAssumption DEF IInv, Threads, cvars, hist, Goto, condition_wait, Cond!Wait
  <1>1. TypeOK'
    <2>1. info \in [Waiters -> InfoType] /\ hand \in [Waiters -> HandType] /\ posted \in 0..MaxPosts
      BY DEF TypeOK
    <2>2. info' \in [Waiters -> InfoType] /\ hand' \in [Waiters -> HandType]
      BY <2>1 DEF InfoType, HandType
    <2> QED BY <2>2 DEF TypeOK, CountInv, Places, NeedsIntrLock, InRegion
  <1>2. CountInv' BY DEF TypeOK, CountInv
  <1>3. RegionInv'
    BY DEF TypeOK, RegionInv, InRegion, NeedsIntrLock, OnStack, Places, InfoType, HandType
  <1>4. OldestInv'
    BY DEF TypeOK, OldestInv, IsOldest, OnStack, Undecided, InfoType, HandType
  <1> QED BY <1>1, <1>2, <1>3, <1>4

\* WaitWoken(w) preserves the invariant.
LEMMA WaitWokenKeeps ==
    ASSUME IInv, NEW w \in Waiters, WaitWoken(w)
    PROVE  IInv'
  <1> USE ThreadsAssumption DEF IInv, Threads, cvars, hist, Goto, WaitWoken, Cond!Resume
  <1>1. TypeOK'
    <2>1. info \in [Waiters -> InfoType] /\ hand \in [Waiters -> HandType] /\ posted \in 0..MaxPosts
      BY DEF TypeOK
    <2>2. info' \in [Waiters -> InfoType] /\ hand' \in [Waiters -> HandType]
      BY <2>1 DEF InfoType, HandType
    <2> QED BY <2>2 DEF TypeOK, CountInv, Places, NeedsIntrLock, InRegion
  <1>2. CountInv' BY DEF TypeOK, CountInv
  <1>3. RegionInv'
    BY DEF TypeOK, RegionInv, InRegion, NeedsIntrLock, OnStack, Places, InfoType, HandType
  <1>4. OldestInv'
    BY DEF TypeOK, OldestInv, IsOldest, OnStack, Undecided, InfoType, HandType
  <1> QED BY <1>1, <1>2, <1>3, <1>4

\* ClearAfterWait(w) preserves the invariant.
LEMMA ClearAfterWaitKeeps ==
    ASSUME IInv, NEW w \in Waiters, ClearAfterWait(w)
    PROVE  IInv'
  <1> USE ThreadsAssumption DEF IInv, Threads, cvars, hist, Goto, ClearAfterWait, intr_clear_shake_on_post, Locked
  <1>1. TypeOK'
    <2>1. info \in [Waiters -> InfoType] /\ hand \in [Waiters -> HandType] /\ posted \in 0..MaxPosts
      BY DEF TypeOK
    <2>2. info' \in [Waiters -> InfoType] /\ hand' \in [Waiters -> HandType]
      BY <2>1, ZenonT(40) DEF InfoType, HandType
    <2> QED BY <2>2 DEF TypeOK, CountInv, Places, NeedsIntrLock, InRegion
  <1>2. CountInv' BY DEF TypeOK, CountInv
  <1>3. RegionInv'
    BY DEF TypeOK, RegionInv, InRegion, NeedsIntrLock, OnStack, Places, InfoType, HandType
  <1>4. OldestInv'
    BY SMTT(30) DEF TypeOK, OldestInv, IsOldest, OnStack, Undecided, InfoType, HandType
  <1> QED BY <1>1, <1>2, <1>3, <1>4

\* Handler(w) preserves the invariant.
LEMMA HandlerKeeps ==
    ASSUME IInv, NEW w \in Waiters, Handler(w)
    PROVE  IInv'
  <1> USE ThreadsAssumption DEF IInv, Threads, cvars, hist, Goto, Handler, intr_clear_shake_on_post, Locked
  <1>1. TypeOK'
    <2>1. info \in [Waiters -> InfoType] /\ hand \in [Waiters -> HandType] /\ posted \in 0..MaxPosts
      BY DEF TypeOK
    <2>2. info' \in [Waiters -> InfoType] /\ hand' \in [Waiters -> HandType]
      BY <2>1, ZenonT(40) DEF InfoType, HandType
    <2> QED BY <2>2 DEF TypeOK, CountInv, Places, NeedsIntrLock, InRegion
  <1>2. CountInv' BY DEF TypeOK, CountInv
  <1>3. RegionInv'
    BY DEF TypeOK, RegionInv, InRegion, NeedsIntrLock, OnStack, Places, InfoType, HandType
  <1>4. OldestInv'
    <2>1. /\ pc \in [Threads -> Places] /\ info \in [Waiters -> InfoType]
          /\ hand \in [Waiters -> HandType]
      BY DEF TypeOK
    <2>2. /\ posted' = posted /\ undelivered' = undelivered /\ handling' = handling
          /\ \A v \in Waiters : info'[v].pending = info[v].pending
          /\ \A v \in Waiters \ {w} : pc'[v] = pc[v] /\ hand'[v] = hand[v]
      BY <2>1 DEF InfoType
    <2>3. pc[w] = "handler" /\ pc'[w] = "exit_handler" /\ hand'[w].ret = hand[w].error
      BY <2>1 DEF HandType
    <2> QED BY <2>2, <2>3 DEF OldestInv, OnStack, Undecided
  <1> QED BY <1>1, <1>2, <1>3, <1>4

\* intr_exit_handler(w) preserves the invariant.
LEMMA IntrExitHandlerKeeps ==
    ASSUME IInv, NEW w \in Waiters, intr_exit_handler(w)
    PROVE  IInv'
  <1> USE ThreadsAssumption DEF IInv, Threads, cvars, hist, Goto, intr_exit_handler, Locked
  <1>1. TypeOK'
    <2>1. info \in [Waiters -> InfoType] /\ hand \in [Waiters -> HandType] /\ posted \in 0..MaxPosts
      BY DEF TypeOK
    <2>2. info' \in [Waiters -> InfoType] /\ hand' \in [Waiters -> HandType]
      BY <2>1 DEF InfoType, HandType
    <2> QED BY <2>2 DEF TypeOK, CountInv, Places, NeedsIntrLock, InRegion
  <1>2. CountInv' BY DEF TypeOK, CountInv
  <1>3. RegionInv'
    BY DEF TypeOK, RegionInv, InRegion, NeedsIntrLock, OnStack, Places, InfoType, HandType
  <1>4. OldestInv'
    BY SMTT(30) DEF TypeOK, OldestInv, IsOldest, OnStack, Undecided, InfoType, HandType
  <1> QED BY <1>1, <1>2, <1>3, <1>4

\* intr_disable_handler(w) preserves the invariant.
LEMMA IntrDisableHandlerKeeps ==
    ASSUME IInv, NEW w \in Waiters, intr_disable_handler(w)
    PROVE  IInv'
  <1> USE ThreadsAssumption DEF IInv, Threads, cvars, hist, Goto, intr_disable_handler, Locked
  <1>1. TypeOK'
    <2>1. info \in [Waiters -> InfoType] /\ hand \in [Waiters -> HandType] /\ posted \in 0..MaxPosts
      BY DEF TypeOK
    <2>2. info' \in [Waiters -> InfoType] /\ hand' \in [Waiters -> HandType]
      BY <2>1 DEF InfoType, HandType, RegionInv, OnStack
    <2> QED BY <2>2 DEF TypeOK, CountInv, Places, NeedsIntrLock, InRegion
  <1>2. CountInv' BY DEF TypeOK, CountInv
  <1>3. RegionInv'
    BY DEF TypeOK, RegionInv, InRegion, NeedsIntrLock, OnStack, Places, InfoType, HandType
  <1>4. OldestInv'
    <2>1. /\ pc \in [Threads -> Places] /\ info \in [Waiters -> InfoType]
          /\ hand \in [Waiters -> HandType]
      BY DEF TypeOK
    <2>2. /\ posted' = posted /\ undelivered' = undelivered /\ handling' = handling
          /\ \A v \in Waiters : info'[v].pending = info[v].pending
          /\ \A v \in Waiters \ {w} : pc'[v] = pc[v] /\ hand'[v] = hand[v]
      BY <2>1 DEF InfoType
    <2>3. pc[w] = "end" /\ pc'[w] = "return" /\ hand'[w].ret = hand[w].ret
      BY <2>1 DEF HandType
    <2> QED BY <2>2, <2>3 DEF OldestInv, OnStack, Undecided
  <1> QED BY <1>1, <1>2, <1>3, <1>4

\* intr_post_interrupt(p, w) preserves the invariant.
LEMMA IntrPostInterruptKeeps ==
    ASSUME IInv, NEW p \in Posters, NEW w \in Waiters, intr_post_interrupt(p, w)
    PROVE  IInv'
  <1> USE ThreadsAssumption DEF IInv, Threads, cvars, hist, Goto, intr_post_interrupt, Keep, CallShake
  <1>1. TypeOK'
    <2>0. /\ pc \in [Threads -> Places] /\ info \in [Waiters -> InfoType]
          /\ hand \in [Waiters -> HandType] /\ posted \in 0..MaxPosts
      BY DEF TypeOK
    <2>1. /\ owner' \in Threads \cup {NoThread} /\ intr_lock' \in Threads \cup {NoThread}
          /\ waiters' \in [{arrived} -> Seq(Waiters)] /\ inWait' \subseteq Waiters
      BY DEF TypeOK
    <2>2. pc' \in [Threads -> Places]
      BY DEF TypeOK, InRegion, NeedsIntrLock, Places
    <2>3. info' \in [Waiters -> InfoType]
      <3>1. Keep(w, posted + 1) \in 0..MaxPosts BY <2>0 DEF InfoType
      <3> QED BY <2>0, <3>1, InfoUpdate
    <2>4. hand' \in [Waiters -> HandType]
      BY <2>0, HandUpdate
    <2>5. victim' \in [Threads -> Waiters \cup {NoThread}]
      BY DEF TypeOK
    <2>6. /\ children' \in 0..MaxChildren /\ signals' \in 0..MaxChildren
          /\ posted' \in 0..MaxPosts /\ born' \in 0..MaxChildren
      BY DEF TypeOK, CountInv
    <2>7. /\ undelivered' \in [Waiters -> SUBSET (1..MaxPosts)]
          /\ handling' \in [Waiters -> SUBSET (1..MaxPosts)]
      BY DEF TypeOK
    <2> QED BY <2>1, <2>2, <2>3, <2>4, <2>5, <2>6, <2>7 DEF TypeOK
  <1>2. CountInv' BY DEF TypeOK, CountInv
  <1> DEFINE shakes == info[w].shake_on_post /\ info[w].masked # Async /\ ~hand[w].shake_occured
  <1>0. /\ pc \in [Threads -> Places] /\ info \in [Waiters -> InfoType]
        /\ hand \in [Waiters -> HandType] /\ posted \in 0..MaxPosts
        /\ undelivered \in [Waiters -> SUBSET (1..MaxPosts)]
    BY DEF TypeOK
  <1>5. \A v \in Waiters : pc'[v] = pc[v]
    BY <1>0
  <1>6. /\ info'[w].pending = Keep(w, posted + 1)
        /\ info'[w].masked = info[w].masked
        /\ info'[w].shake_on_post = info[w].shake_on_post
        /\ info'[w].next_index = info[w].next_index
        /\ undelivered'[w] = undelivered[w] \cup {posted + 1}
        /\ hand'[w].index = hand[w].index /\ hand'[w].error = hand[w].error
        /\ hand'[w].ret = hand[w].ret
        /\ hand[w].shake_occured \/ shakes => hand'[w].shake_occured
    BY <1>0 DEF InfoType, HandType
  <1>7. \A v \in Waiters \ {w} :
            info'[v] = info[v] /\ hand'[v] = hand[v] /\ undelivered'[v] = undelivered[v]
    BY <1>0
  <1>3. RegionInv'
    BY <1>5, <1>6, <1>7 DEF RegionInv, OnStack
  <1>4. OldestInv'
    <2>1. IsOldest(Keep(w, posted + 1), undelivered[w] \cup {posted + 1})
      BY <1>0 DEF OldestInv, IsOldest, InfoType
    <2>2. Keep(w, posted + 1) # 0
      BY <1>0 DEF InfoType
    <2> QED BY <1>0, <1>5, <1>6, <1>7, <2>1, <2>2 DEF OldestInv, OnStack, Undecided
  <1> QED BY <1>1, <1>2, <1>3, <1>4

\* ShakeLock(t) preserves the invariant.
LEMMA ShakeLockKeeps ==
    ASSUME IInv, NEW t \in Threads, ShakeLock(t)
    PROVE  IInv'
  <1> USE ThreadsAssumption DEF IInv, Threads, cvars, hist, Goto, ShakeLock
  <1>1. TypeOK'
    <2>1. info \in [Waiters -> InfoType] /\ hand \in [Waiters -> HandType] /\ posted \in 0..MaxPosts
      BY DEF TypeOK
    <2>2. info' \in [Waiters -> InfoType] /\ hand' \in [Waiters -> HandType]
      BY <2>1 DEF InfoType, HandType
    <2> QED BY <2>2 DEF TypeOK, CountInv, Places, NeedsIntrLock, InRegion
  <1>2. CountInv' BY DEF TypeOK, CountInv
  <1>3. RegionInv'
    BY DEF TypeOK, RegionInv, InRegion, NeedsIntrLock, OnStack, Places, InfoType, HandType
  <1>4. OldestInv'
    BY DEF TypeOK, OldestInv, IsOldest, OnStack, Undecided, InfoType, HandType
  <1> QED BY <1>1, <1>2, <1>3, <1>4

\* ShakeSignal(t) preserves the invariant.
LEMMA ShakeSignalKeeps ==
    ASSUME IInv, NEW t \in Threads, ShakeSignal(t)
    PROVE  IInv'
  <1> USE ThreadsAssumption DEF IInv, Threads, cvars, hist, Goto, ShakeSignal, cond_signal, Cond!Signal
  <1>1. TypeOK'
    <2>0. /\ pc \in [Threads -> Places] /\ info \in [Waiters -> InfoType]
          /\ hand \in [Waiters -> HandType] /\ posted \in 0..MaxPosts
      BY DEF TypeOK
    <2>1. /\ owner' \in Threads \cup {NoThread} /\ intr_lock' \in Threads \cup {NoThread}
          /\ waiters' \in [{arrived} -> Seq(Waiters)] /\ inWait' \subseteq Waiters
      <3>1. waiters[arrived] # <<>> => Tail(waiters[arrived]) \in Seq(Waiters)
        BY DEF TypeOK
      <3>2. /\ waiters \in [{arrived} -> Seq(Waiters)]
            /\ owner \in Threads \cup {NoThread} /\ inWait \subseteq Waiters
            /\ intr_lock \in Threads \cup {NoThread}
        BY DEF TypeOK
      <3>3. CASE waiters[arrived] = <<>> BY <3>2, <3>3
      <3>4. CASE waiters[arrived] # <<>> BY <3>1, <3>2, <3>4
      <3> QED BY <3>3, <3>4
    <2>2. pc' \in [Threads -> Places]
      BY DEF TypeOK, InRegion, NeedsIntrLock, Places
    <2>3. info' \in [Waiters -> InfoType]
      BY <2>0 DEF InfoType, HandType
    <2>4. hand' \in [Waiters -> HandType]
      BY <2>0 DEF InfoType, HandType
    <2>5. victim' \in [Threads -> Waiters \cup {NoThread}]
      BY DEF TypeOK
    <2>6. /\ children' \in 0..MaxChildren /\ signals' \in 0..MaxChildren
          /\ posted' \in 0..MaxPosts /\ born' \in 0..MaxChildren
      BY DEF TypeOK, CountInv
    <2>7. /\ undelivered' \in [Waiters -> SUBSET (1..MaxPosts)]
          /\ handling' \in [Waiters -> SUBSET (1..MaxPosts)]
      BY DEF TypeOK
    <2> QED BY <2>1, <2>2, <2>3, <2>4, <2>5, <2>6, <2>7 DEF TypeOK
  <1>2. CountInv' BY DEF TypeOK, CountInv
  <1>3. RegionInv'
    BY DEF TypeOK, RegionInv, InRegion, NeedsIntrLock, OnStack, Places, InfoType, HandType
  <1>4. OldestInv'
    BY DEF TypeOK, OldestInv, IsOldest, OnStack, Undecided, InfoType, HandType
  <1> QED BY <1>1, <1>2, <1>3, <1>4

\* SetChildInfo preserves the invariant.
LEMMA SetChildInfoKeeps ==
    ASSUME IInv, SetChildInfo
    PROVE  IInv'
  <1> USE ThreadsAssumption DEF IInv, Threads, cvars, hist, Goto, SetChildInfo
  <1>1. TypeOK'
    <2>1. info \in [Waiters -> InfoType] /\ hand \in [Waiters -> HandType] /\ posted \in 0..MaxPosts
      BY DEF TypeOK
    <2>2. info' \in [Waiters -> InfoType] /\ hand' \in [Waiters -> HandType]
      BY <2>1 DEF InfoType, HandType
    <2> QED BY <2>2 DEF TypeOK, CountInv, Places, NeedsIntrLock, InRegion
  <1>2. CountInv' BY DEF TypeOK, CountInv
  <1>3. RegionInv'
    BY DEF TypeOK, RegionInv, InRegion, NeedsIntrLock, OnStack, Places, InfoType, HandType
  <1>4. OldestInv'
    BY DEF TypeOK, OldestInv, IsOldest, OnStack, Undecided, InfoType, HandType
  <1> QED BY <1>1, <1>2, <1>3, <1>4

\* ChildSignal preserves the invariant.
LEMMA ChildSignalKeeps ==
    ASSUME IInv, ChildSignal
    PROVE  IInv'
  <1> USE ThreadsAssumption DEF IInv, Threads, cvars, hist, Goto, ChildSignal, cond_signal, Cond!Signal
  <1>1. TypeOK'
    <2>0. /\ pc \in [Threads -> Places] /\ info \in [Waiters -> InfoType]
          /\ hand \in [Waiters -> HandType] /\ posted \in 0..MaxPosts
      BY DEF TypeOK
    <2>1. /\ owner' \in Threads \cup {NoThread} /\ intr_lock' \in Threads \cup {NoThread}
          /\ waiters' \in [{arrived} -> Seq(Waiters)] /\ inWait' \subseteq Waiters
      <3>1. waiters[arrived] # <<>> => Tail(waiters[arrived]) \in Seq(Waiters)
        BY DEF TypeOK
      <3>2. /\ waiters \in [{arrived} -> Seq(Waiters)]
            /\ owner \in Threads \cup {NoThread} /\ inWait \subseteq Waiters
            /\ intr_lock \in Threads \cup {NoThread}
        BY DEF TypeOK
      <3>3. CASE waiters[arrived] = <<>> BY <3>2, <3>3
      <3>4. CASE waiters[arrived] # <<>> BY <3>1, <3>2, <3>4
      <3> QED BY <3>3, <3>4
    <2>2. pc' \in [Threads -> Places]
      BY DEF TypeOK, InRegion, NeedsIntrLock, Places
    <2>3. info' \in [Waiters -> InfoType]
      BY <2>0 DEF InfoType, HandType
    <2>4. hand' \in [Waiters -> HandType]
      BY <2>0 DEF InfoType, HandType
    <2>5. victim' \in [Threads -> Waiters \cup {NoThread}]
      BY DEF TypeOK
    <2>6. /\ children' \in 0..MaxChildren /\ signals' \in 0..MaxChildren
          /\ posted' \in 0..MaxPosts /\ born' \in 0..MaxChildren
      BY DEF TypeOK, CountInv
    <2>7. /\ undelivered' \in [Waiters -> SUBSET (1..MaxPosts)]
          /\ handling' \in [Waiters -> SUBSET (1..MaxPosts)]
      BY DEF TypeOK
    <2> QED BY <2>1, <2>2, <2>3, <2>4, <2>5, <2>6, <2>7 DEF TypeOK
  <1>2. CountInv' BY DEF TypeOK, CountInv
  <1>3. RegionInv'
    BY DEF TypeOK, RegionInv, InRegion, NeedsIntrLock, OnStack, Places, InfoType, HandType
  <1>4. OldestInv'
    BY DEF TypeOK, OldestInv, IsOldest, OnStack, Undecided, InfoType, HandType
  <1> QED BY <1>1, <1>2, <1>3, <1>4

-----------------------------------------------------------------------------
(* The theorems.                                                           *)

\* IInv is an invariant of the interrupt mechanism.
THEOREM Invariance == Spec => []IInv
  <1>1. Init => IInv
    <2> SUFFICES ASSUME Init PROVE IInv
      OBVIOUS
    <2>1. info \in [Waiters -> InfoType]
      <3>1. \A m \in SUBSET Async : InfoInit(m) \in InfoType
        BY ThreadsAssumption DEF InfoInit, InfoType
      <3> QED BY <3>1 DEF Init
    <2>2. \A w \in Waiters :
              info[w].pending = 0 /\ info[w].next_index = 0 /\ info[w].shake_on_post = FALSE
      BY DEF Init, InfoInit
    <2>3. TypeOK
      <3>1. HandInit \in HandType BY ThreadsAssumption DEF HandInit, HandType, Junk
      <3> QED BY <2>1, <3>1, ThreadsAssumption
          DEF Init, Cond!Init, TypeOK, Threads, Places, NeedsIntrLock, InRegion
    <2>4. CountInv /\ RegionInv /\ OldestInv
      BY <2>2 DEF Init, CountInv, RegionInv, OldestInv, HandInit, OnStack, Undecided, Threads
    <2> QED BY <2>3, <2>4 DEF IInv
  <1>2. IInv /\ [Next]_vars => IInv'
    <2> SUFFICES ASSUME IInv, [Next]_vars PROVE IInv'
      OBVIOUS
    <2>1. CASE \E w \in Waiters : WaiterStep(w)
      BY <2>1, GetChildInfoKeeps, TakeChildKeeps, CallWaitKeeps, WaitReturnsKeeps,
         IntrPendingKeeps, IntrEnableHandlerKeeps, IntrShakeOnPostKeeps,
         ConditionWaitKeeps, WaitWokenKeeps, ClearAfterWaitKeeps, HandlerKeeps,
         IntrExitHandlerKeeps, IntrDisableHandlerKeeps, IntrPostInterruptKeeps, ShakeLockKeeps
      DEF WaiterStep, RegionStart, RegionBound
    <2>2. CASE \E p \in Posters, w \in Waiters : intr_post_interrupt(p, w)
      BY <2>2, IntrPostInterruptKeeps
    <2>3. CASE \E t \in Threads : ShakeLock(t) \/ ShakeSignal(t)
      BY <2>3, ShakeLockKeeps, ShakeSignalKeeps
    <2>4. CASE SetChildInfo \/ ChildSignal
      BY <2>4, SetChildInfoKeeps, ChildSignalKeeps
    <2>5. CASE UNCHANGED vars
      BY <2>5 DEF vars, cvars, hist, IInv, TypeOK, CountInv, RegionInv, OldestInv
    <2> QED BY <2>1, <2>2, <2>3, <2>4, <2>5 DEF Next
  <1> QED BY <1>1, <1>2, PTL DEF Spec

\* The type invariant of the thread infos, handlers and locks.
THEOREM TypeCorrect == Spec => []TypeOK
  BY Invariance, PTL DEF IInv

\* No thread sleeps in intr_cond_wait on an interrupt nobody shook it for.
THEOREM NeverMissed == Spec => []PostNeverMissed
  <1>1. IInv => PostNeverMissed BY DEF IInv, RegionInv, PostNeverMissed
  <1> QED BY <1>1, Invariance, PTL

\* No handler or shake_info outlives the frame it points into.
THEOREM NoDangling == Spec => []NoDanglingRecord
  <1>1. IInv => NoDanglingRecord
    BY DEF IInv, TypeOK, RegionInv, NoDanglingRecord, InRegion, OnStack,
       NeedsIntrLock, Threads, Places, InfoType
  <1> QED BY <1>1, Invariance, PTL

\* What is pending, and what intr_cond_wait returns, is the oldest post.
THEOREM Oldest == Spec => []OldestKept
  <1>1. ASSUME NEW n, NEW S \in SUBSET Nat, IsOldest(n, S) PROVE n = Min(S)
    <2>1. \E x \in S : \A y \in S : x <= y BY <1>1 DEF IsOldest
    <2>2. Min(S) \in S /\ \A y \in S : Min(S) <= y BY <2>1, Zenon DEF Min
    <2>3. n \in Nat /\ Min(S) \in Nat /\ n <= Min(S) /\ Min(S) <= n
      BY <1>1, <2>2, Zenon DEF IsOldest
    <2> QED BY <2>3
  <1>2. IInv => OldestKept
    <2> SUFFICES ASSUME IInv, NEW w \in Waiters
                 PROVE  /\ info[w].pending =
                             (IF undelivered[w] = {} THEN 0 ELSE Min(undelivered[w]))
                        /\ pc[w] = "return" /\ hand[w].ret # 0 /\ handling[w] # {}
                              => hand[w].ret = Min(handling[w])
      BY DEF OldestKept
    <2>1. undelivered[w] \in SUBSET Nat /\ handling[w] \in SUBSET Nat
      BY DEF IInv, TypeOK
    <2>2. info[w].pending # 0 => info[w].pending = Min(undelivered[w]) /\ undelivered[w] # {}
      BY <1>1, <2>1 DEF IInv, OldestInv, IsOldest
    <2>3. info[w].pending = 0 => undelivered[w] = {}
      BY DEF IInv, OldestInv
    <2>4. pc[w] = "return" /\ hand[w].ret # 0 /\ handling[w] # {}
              => hand[w].ret = Min(handling[w])
      BY <1>1, <2>1 DEF IInv, OldestInv
    <2> QED BY <2>2, <2>3, <2>4
  <1> QED BY <1>2, Invariance, PTL
=============================================================================
