---------------------------- MODULE IntrCondWait ----------------------------
(***************************************************************************)
(* Interruptible condition waits (lib/us++/interrupt.c, interrupt.h):      *)
(* intr_cond_wait against intr_post_interrupt, as uxsignal::get_child_info *)
(* uses it to wait for a child while signals are posted to the thread.     *)
(*                                                                         *)
(* The mutex and the condition variable are those of module Condition,     *)
(* which Cprocs implements.  Only INTR_ASYNC interrupts occur, and one     *)
(* region per thread: the one intr_cond_wait opens.                        *)
(***************************************************************************)
EXTENDS Naturals, Sequences, FiniteSets, FiniteSetsExt, Functions

CONSTANTS Waiters,     \* threads that call get_child_info
          Posters,     \* threads that call intr_post_interrupt
          NoThread,    \* holder of a free mutex
          arrived,     \* the condition child_info_arrived
          MaxPosts,    \* bound on intr_post_interrupt calls
          MaxChildren  \* bound on set_child_info calls

ASSUME ThreadsAssumption ==
    /\ Waiters \cap Posters = {} /\ NoThread \notin Waiters \cup Posters
    /\ MaxPosts \in Nat /\ MaxChildren \in Nat

Threads == Waiters \cup Posters

\* The bits of INTR_ASYNC: two are enough for none, some or all of them masked.
Async == {"low", "high"}

\* An error no post has: what an intr_hand_rec that was never filled in holds.
Junk == MaxPosts + 1

VARIABLES owner, waiters, inWait, \* child_info_lock and child_info_arrived
          intr_lock,              \* holder of the task-wide interrupt lock
          pc,
          info,      \* struct intr_thread_info of each waiter
          hand,      \* the locals of intr_cond_wait: intr_hand_rec and shake_info
          victim,    \* whose shake_info a thread was called with
          children,  \* length of child_info_list
          signals,   \* set_child_info calls that have yet to signal
          posted, born,                \* how many posts, how many children
          undelivered, \* history: posts to a waiter since its last delivery
          handling     \* history: the posts its latest run of the handler stands for

cvars == <<owner, waiters, inWait>>
hist  == <<undelivered, handling>>
vars  == <<cvars, intr_lock, pc, info, hand, victim, children, signals, posted, born, hist>>

Cond == INSTANCE Condition WITH Threads <- Threads, Conds <- {arrived}

\* pending is 0 or the number of the post whose error, code and subcode are kept.
\* intr_thread_info_init does not set masked: it is what malloc returned.
InfoInit(m) == [pending |-> 0, masked |-> m, next_index |-> 0, shake_on_post |-> FALSE]

\* intr_cond_wait's locals on entry; index is 1-based, 0 for the code's -1.
HandInit == [index |-> 0, shake_occured |-> FALSE, intr_type |-> {}, error |-> 0, ret |-> 0]

Init == /\ Cond!Init
        /\ intr_lock = NoThread
        /\ pc = [t \in Threads |-> "idle"]
        /\ info \in [Waiters -> {InfoInit(m) : m \in SUBSET Async}]
        /\ hand = [w \in Waiters |-> HandInit]
        /\ victim = [t \in Threads |-> NoThread]
        /\ children = 0 /\ signals = 0 /\ posted = 0 /\ born = 0
        /\ undelivered = [w \in Waiters |-> {}]
        /\ handling = [w \in Waiters |-> {}]

Goto(t, l) == pc' = [pc EXCEPT ![t] = l]

\* A LOCK ... ENDLOCK section that takes no other lock is one step.
Locked == intr_lock = NoThread /\ UNCHANGED intr_lock

-----------------------------------------------------------------------------
(* uxsignal::get_child_info (with pause set) and set_child_info            *)

GetChildInfo(w) ==
    /\ pc[w] = "idle"
    /\ Cond!Lock(w)
    /\ Goto(w, "test")
    /\ UNCHANGED <<intr_lock, info, hand, victim, children, signals, posted, born, hist>>

TakeChild(w) ==
    /\ pc[w] = "test" /\ children > 0
    /\ children' = children - 1
    /\ Cond!Unlock(w)
    /\ Goto(w, "idle")
    /\ UNCHANGED <<intr_lock, info, hand, victim, signals, posted, born, hist>>

CallWait(w) ==
    /\ pc[w] = "test" /\ children = 0
    /\ hand' = [hand EXCEPT ![w] = HandInit]
    /\ Goto(w, "region")
    /\ UNCHANGED <<cvars, intr_lock, info, victim, children, signals, posted, born, hist>>

WaitReturns(w) ==
    /\ pc[w] = "return"
    /\ \/ hand[w].ret = 0 /\ Goto(w, "test") /\ UNCHANGED cvars
       \/ hand[w].ret # 0 /\ Goto(w, "idle") /\ Cond!Unlock(w)
    /\ UNCHANGED <<intr_lock, info, hand, victim, children, signals, posted, born, hist>>

SetChildInfo ==
    /\ born < MaxChildren /\ born' = born + 1
    /\ owner = NoThread
    /\ children' = children + 1
    /\ signals' = signals + 1
    /\ UNCHANGED <<cvars, intr_lock, pc, info, hand, victim, posted, hist>>

cond_signal == Cond!Signal(arrived) \/ (waiters[arrived] = <<>> /\ UNCHANGED cvars)

ChildSignal ==
    /\ signals > 0 /\ signals' = signals - 1
    /\ cond_signal
    /\ UNCHANGED <<intr_lock, pc, info, hand, victim, children, posted, born, hist>>

-----------------------------------------------------------------------------
(* INTR_REGION ... INTR_HANDLER ... INTR_END around the wait               *)

\* Refused if async interrupts are masked: intr_hand_rec is then not filled in.
intr_enter_handler(w) ==
    \/ /\ info[w].masked = {}
       /\ info' = [info EXCEPT ![w].masked = Async, ![w].pending = 0]
       /\ hand' = [hand EXCEPT ![w].intr_type = Async, ![w].error = info[w].pending]
       /\ handling' = [handling EXCEPT ![w] = undelivered[w]]
       /\ undelivered' = [undelivered EXCEPT ![w] = {}]
    \/ /\ info[w].masked # {}
       /\ \E type \in SUBSET Async, error \in {0, Junk} :
              hand' = [hand EXCEPT ![w].intr_type = type, ![w].error = error]
       /\ handling' = [handling EXCEPT ![w] = {}]
       /\ UNCHANGED <<info, undelivered>>

\* With enter_handler set; TRUE, whatever intr_enter_handler said, is a move to
\* the handler.
intr_pending(w, here, no) ==
    /\ pc[w] = here
    /\ Locked
    /\ \/ info[w].pending # 0 /\ intr_enter_handler(w) /\ Goto(w, "handler")
       \/ info[w].pending = 0 /\ Goto(w, no) /\ UNCHANGED <<info, hand, hist>>
    /\ UNCHANGED <<cvars, victim, children, signals, posted, born>>

RegionStart(w) == intr_pending(w, "region", "enable")
RegionBound(w) == intr_pending(w, "bound", "end")

intr_enable_handler(w) ==
    /\ pc[w] = "enable"
    /\ Locked
    /\ hand' = [hand EXCEPT ![w].index = info[w].next_index + 1]
    /\ info' = [info EXCEPT ![w].next_index = @ + 1]
    /\ Goto(w, "shake_on_post")
    /\ UNCHANGED <<cvars, victim, children, signals, posted, born, hist>>

\* intr_cond_wait_shake, called by t with intr_lock held: up to its mutex_lock.
CallShake(t, v) ==
    /\ hand' = [hand EXCEPT ![v].shake_occured = TRUE]
    /\ victim' = [victim EXCEPT ![t] = v]
    /\ intr_lock' = t
    /\ Goto(t, "shake")

\* Mutated form: does not look for an interrupt that is already pending.
ShakeUnchecked(w) ==
    /\ pc[w] = "shake_on_post" /\ intr_lock = NoThread
    /\ info' = [info EXCEPT ![w].shake_on_post = TRUE]
    /\ Goto(w, "wait")
    /\ UNCHANGED <<cvars, intr_lock, hand, victim, children, signals, posted, born, hist>>

intr_shake_on_post(w) ==
    /\ pc[w] = "shake_on_post" /\ intr_lock = NoThread
    /\ info' = [info EXCEPT ![w].shake_on_post = TRUE]
    /\ \/ info[w].pending # 0 /\ info[w].masked # Async /\ CallShake(w, w)
       \/ /\ info[w].pending = 0 \/ info[w].masked = Async
          /\ Goto(w, "wait") /\ UNCHANGED <<intr_lock, hand, victim>>
    /\ UNCHANGED <<cvars, children, signals, posted, born, hist>>

condition_wait(w) ==
    /\ pc[w] = "wait"
    /\ Cond!Wait(w, arrived)
    /\ Goto(w, "waiting")
    /\ UNCHANGED <<intr_lock, info, hand, victim, children, signals, posted, born, hist>>

WaitWoken(w) ==
    /\ pc[w] = "waiting"
    /\ Cond!Resume(w)
    /\ Goto(w, "clear")
    /\ UNCHANGED <<intr_lock, info, hand, victim, children, signals, posted, born, hist>>

\* Mutated form: leaves shake_on_post set.
NoClear(w, here, next) ==
    /\ pc[w] = here
    /\ Locked
    /\ hand' = [hand EXCEPT ![w].ret = IF here = "handler" THEN hand[w].error ELSE @]
    /\ Goto(w, next)
    /\ UNCHANGED <<cvars, info, victim, children, signals, posted, born, hist>>

\* In the handler, ret = INTR_EVENT follows.
intr_clear_shake_on_post(w, here, next) ==
    /\ pc[w] = here
    /\ Locked
    /\ info' = [info EXCEPT ![w].shake_on_post = FALSE]
    /\ hand' = [hand EXCEPT ![w].ret = IF here = "handler" THEN hand[w].error ELSE @]
    /\ Goto(w, next)
    /\ UNCHANGED <<cvars, victim, children, signals, posted, born, hist>>

ClearAfterWait(w) == intr_clear_shake_on_post(w, "clear", "bound")
Handler(w)        == intr_clear_shake_on_post(w, "handler", "exit_handler")

\* What arrived meanwhile goes to intr_deliver_interrupt_internal, which finds
\* no handler (its loop runs "i < 0") and leaves it pending.
intr_exit_handler(w) ==
    /\ pc[w] = "exit_handler"
    /\ Locked
    /\ info' = [info EXCEPT ![w].masked = @ \ hand[w].intr_type]
    /\ Goto(w, "end")
    /\ UNCHANGED <<cvars, hand, victim, children, signals, posted, born, hist>>

intr_disable_handler(w) ==
    /\ pc[w] = "end"
    /\ Locked
    /\ info' = [info EXCEPT ![w].next_index =
                    IF hand[w].index = 0 THEN @ ELSE hand[w].index - 1]
    /\ Goto(w, "return")
    /\ UNCHANGED <<cvars, hand, victim, children, signals, posted, born, hist>>

-----------------------------------------------------------------------------
(* intr_post_interrupt(w, INTR_IMMEDIATE, INTR_ASYNC, ...)                 *)

\* Mutated form: the latest interrupt replaces the one that is kept.
KeepLatest(w, n) == n

Keep(w, n) == IF info[w].pending = 0 THEN n ELSE info[w].pending

\* The attempt at immediate delivery that follows fails (see
\* intr_exit_handler) and changes nothing.
intr_post_interrupt(p, w) ==
    /\ pc[p] = "idle" /\ posted < MaxPosts
    /\ intr_lock = NoThread
    /\ posted' = posted + 1
    /\ info' = [info EXCEPT ![w].pending = Keep(w, posted + 1)]
    /\ undelivered' = [undelivered EXCEPT ![w] = @ \cup {posted + 1}]
    /\ LET shakes == /\ info[w].shake_on_post /\ info[w].masked # Async
                     /\ ~hand[w].shake_occured IN
       \/ shakes /\ CallShake(p, w)
       \/ ~shakes /\ UNCHANGED <<intr_lock, pc, hand, victim>>
    /\ UNCHANGED <<cvars, children, signals, born, handling>>

\* intr_cond_wait_shake: mutex_lock, mutex_unlock.
ShakeLock(t) ==
    /\ pc[t] = "shake"
    /\ owner = NoThread
    /\ Goto(t, "signal")
    /\ UNCHANGED <<cvars, intr_lock, info, hand, victim, children, signals, posted, born, hist>>

\* cond_signal; then the post's failing delivery, and ENDLOCK (the post's or
\* intr_shake_on_post's).
ShakeSignal(t) ==
    /\ pc[t] = "signal"
    /\ cond_signal
    /\ intr_lock' = NoThread
    /\ victim' = [victim EXCEPT ![t] = NoThread]
    /\ Goto(t, IF t \in Waiters THEN "wait" ELSE "idle")
    /\ UNCHANGED <<info, hand, children, signals, posted, born, hist>>

-----------------------------------------------------------------------------
WaiterStep(w) ==
    \/ GetChildInfo(w) \/ TakeChild(w) \/ CallWait(w) \/ WaitReturns(w)
    \/ RegionStart(w) \/ RegionBound(w) \/ intr_enable_handler(w)
    \/ intr_shake_on_post(w) \/ condition_wait(w) \/ WaitWoken(w)
    \/ ClearAfterWait(w) \/ Handler(w) \/ intr_exit_handler(w) \/ intr_disable_handler(w)

Next == \/ \E w \in Waiters : WaiterStep(w)
        \/ \E p \in Posters, w \in Waiters : intr_post_interrupt(p, w)
        \/ \E t \in Threads : ShakeLock(t) \/ ShakeSignal(t)
        \/ SetChildInfo \/ ChildSignal

Spec == Init /\ [][Next]_vars

-----------------------------------------------------------------------------
(* Properties                                                              *)

\* Where a waiter is between INTR_REGION's intr_enable_handler and the end of
\* intr_disable_handler: its intr_hand_rec and shake_info are live locals.
InRegion == {"enable", "shake_on_post", "shake", "signal", "wait", "waiting", "clear",
             "bound", "handler", "exit_handler", "end"}

\* Where it holds child_info_lock and must get intr_lock before it lets go.
NeedsIntrLock == {"region", "enable", "shake_on_post", "clear", "bound", "handler",
                  "exit_handler", "end"}

Places == {"idle", "test", "return"} \cup NeedsIntrLock \cup InRegion

InfoType == [pending : 0..MaxPosts, masked : SUBSET Async, next_index : 0..1,
             shake_on_post : BOOLEAN]

HandType == [index : 0..1, shake_occured : BOOLEAN, intr_type : SUBSET Async,
             error : 0..Junk, ret : 0..Junk]

\* Every variable has its type.
TypeOK ==
    /\ owner \in Threads \cup {NoThread} /\ intr_lock \in Threads \cup {NoThread}
    /\ waiters \in [{arrived} -> Seq(Waiters)] /\ inWait \subseteq Waiters
    /\ pc \in [Threads -> Places]
    /\ info \in [Waiters -> InfoType]
    /\ hand \in [Waiters -> HandType]
    /\ victim \in [Threads -> Waiters \cup {NoThread}]
    /\ children \in 0..MaxChildren /\ signals \in 0..MaxChildren
    /\ posted \in 0..MaxPosts /\ born \in 0..MaxChildren
    /\ undelivered \in [Waiters -> SUBSET (1..MaxPosts)]
    /\ handling \in [Waiters -> SUBSET (1..MaxPosts)]

\* shake_on_post and the handler stack point into the stack frame of
\* intr_cond_wait; no post may find them once that frame is gone, whichever
\* way (woken, interrupted on entry, interrupted while waiting) it returned.
NoDanglingRecord ==
    \A w \in Waiters : info[w].shake_on_post \/ info[w].next_index > 0 => pc[w] \in InRegion

\* The race the shake closes: a thread never sleeps on an interrupt that is
\* not masked and nobody shook it for, although the region checks for
\* interrupts before it has a shake_on_post and sleeps after.
PostNeverMissed ==
    \A w \in Waiters : pc[w] = "waiting" /\ info[w].pending # 0 /\ info[w].masked # Async
                         => hand[w].shake_occured

\* "Only the oldest un-delivered interrupt ... and its associated INTR_INFO
\* are kept": what is pending, and what intr_cond_wait returns after a
\* delivery, is the first of the posts since the delivery before.
OldestKept ==
    \A w \in Waiters :
        /\ info[w].pending = (IF undelivered[w] = {} THEN 0 ELSE Min(undelivered[w]))
        /\ pc[w] = "return" /\ hand[w].ret # 0 /\ handling[w] # {}
               => hand[w].ret = Min(handling[w])
=============================================================================
