------------------------------ MODULE Streams ------------------------------
(***************************************************************************)
(* A byte stream (lib/us++/bytestream.cc) or record stream (lib/us++/      *)
(* recordstream.cc) used by several threads.  Both follow one protocol:    *)
(* lock, check the strategy, wait on get_cond or put_cond until there is   *)
(* enough to take or room to put, transfer, unlock, then signal the other  *)
(* side and, if something is left, the own side.  kind says which stream   *)
(* it is; the byte stream's buffers are those of module IoBlocks.          *)
(*                                                                         *)
(* The lock and conditions are those of module Condition, and waits are    *)
(* interruptible: see module IntrCondWait, whose intr_cond_wait appears    *)
(* here as its effect.                                                     *)
(***************************************************************************)
EXTENDS IoBlocks, FiniteSets

CONSTANTS Readers, Writers, \* threads that take from and put into the stream
          Others,      \* threads that set strategies, flush, post interrupts
          NoThread,
          Kinds,       \* the kinds of stream to consider
          Calls,       \* the calls [op, mode, num] that are made
          Inputs,      \* the block lists handed to io_putbytes_seq
          qmax,        \* queue size
          maximum_xfer,
          MaxItems,    \* bound: no put starts once this many items were put
          MaxControl   \* bound on strategy changes, flushes and interrupts

OpsOf(k) == IF k = "bytes" THEN {"read", "getbytes", "write", "putbytes"}
            ELSE {"getrec", "read1rec", "putrec"}

ASSUME StreamsAssumption ==
    /\ qmax \in Nat \ {0} /\ maximum_xfer \in Nat
    /\ MaxItems \in Nat /\ MaxControl \in Nat
    /\ Kinds \subseteq {"bytes", "records"}
    /\ \A c \in Calls : c.num \in Nat /\ (c.num = 0 => c.op \in OpsOf("bytes"))
    /\ NoThread \notin Readers \cup Writers \cup Others

Users   == Readers \cup Writers
Threads == Users \cup Others
Conds   == {"get", "put"}

VARIABLES owner, waiters, inWait, \* the lock, get_cond and put_cond
          kind,
          strategy,   \* strategy["get"] is read_strategy, strategy["put"] write_strategy
          queue,      \* the blocks (bytes), or the sequence of records
          qused,
          read_offset, write_offset, \* or first_recnum, next_recnum
          pc, call,   \* where each thread is, in which call
          todo,       \* the signals and broadcasts a thread has yet to make
          pending,    \* threads an interrupt is pending for
          controls,
          swallowed,  \* history: sides where a woken thread used no wakeup up, nor passed it on
          blk,        \* what io_getbytes_seq gives its caller, until it signals
          stale       \* history: putters asleep on a strategy that changed before they locked

cvars == <<owner, waiters, inWait>>
data  == <<queue, qused, read_offset, write_offset>>
vars  == <<cvars, kind, strategy, data, pc, call, todo, pending, controls, swallowed, blk, stale>>

Cond == INSTANCE Condition

NoBlk  == [from |-> "none", bytes |-> <<>>, offset |-> 0, count |-> 0, diag |-> FALSE]
NoCall == [op |-> "none", mode |-> {}, num |-> 0]
Full   == {"ENABLED", "WAIT_ALLOWED"}

GetOps == {"read", "getbytes", "getrec", "read1rec"}

Init == /\ Cond!Init
        /\ kind \in Kinds
        /\ strategy = [c \in Conds |-> Full]
        /\ queue = IF kind = "bytes" THEN EmptyList ELSE <<>>
        /\ qused = 0 /\ read_offset = 0 /\ write_offset = 0
        /\ pc = [t \in Threads |-> "idle"]
        /\ call = [t \in Threads |-> NoCall]
        /\ todo = [t \in Threads |-> <<>>]
        /\ pending = {} /\ controls = 0
        /\ swallowed = {} /\ stale = {}
        /\ blk = [t \in Threads |-> NoBlk]

-----------------------------------------------------------------------------
Side(t) == IF t \in Readers THEN "get" ELSE "put"
Avail(c) == IF c = "get" THEN qused ELSE qmax - qused
AtLeast(t) == IF "TRUNCATE" \in call[t].mode THEN 1 ELSE call[t].num
Enough(t) == Avail(Side(t)) >= AtLeast(t)

Amount(t) == IF call[t].num < Avail(Side(t)) THEN call[t].num ELSE Avail(Side(t))

\* With the lock, at the head of the waiting loop or past it.  io_putbytes_seq
\* made its first test of the strategy before it took the lock.
Inside(t) == pc[t] \in {"entered", "woken"}
Permitted(t) == \/ "ENABLED" \in strategy[Side(t)]
                \/ pc[t] = "entered" /\ call[t].op = "putbytes"
SizeOK(t) == call[t].op \in {"read", "write"} /\ pc[t] = "entered"
                 => call[t].num <= maximum_xfer
Ready(t) == Inside(t) /\ Permitted(t) /\ SizeOK(t) /\ Enough(t)

\* mutex_unlock releases the lock whoever has it.
Unlock == owner' = NoThread /\ UNCHANGED <<waiters, inWait>>

Return(t) == /\ Unlock
             /\ pc' = [pc EXCEPT ![t] = "idle"]
             /\ call' = [call EXCEPT ![t] = NoCall]

\* A woken thread that makes no transfer, while its side could go on, keeps the
\* wakeup to itself.
Swallows(t) == swallowed' = IF pc[t] \in {"woken", "interrupted"} /\ Avail(Side(t)) > 0
                            THEN swallowed \cup {Side(t)} ELSE swallowed

Calling(t, c) == /\ pc[t] = "idle" /\ todo[t] = <<>> /\ c.op \in OpsOf(kind)
                 /\ (t \in Readers) = (c.op \in GetOps)
                 /\ t \in Writers => write_offset < MaxItems

\* mutex_lock.
Enter(t, c) ==
    /\ \/ Calling(t, c) /\ c.op # "putbytes"
       \/ pc[t] = "tested" /\ c = call[t]
    /\ Cond!Lock(t)
    /\ pc' = [pc EXCEPT ![t] = "entered"]
    /\ call' = [call EXCEPT ![t] = c]
    /\ UNCHANGED <<kind, strategy, data, todo, pending, controls, swallowed, blk, stale>>

\* io_putbytes_seq tests the strategy before it locks.
PutbytesTest(t, c) ==
    /\ Calling(t, c) /\ c.op = "putbytes" /\ "ENABLED" \in strategy["put"]
    /\ pc' = [pc EXCEPT ![t] = "tested"]
    /\ call' = [call EXCEPT ![t] = c]
    /\ UNCHANGED <<cvars, kind, strategy, data, todo, pending, controls, swallowed, blk, stale>>

\* io_putbytes_seq on a stream closed for writing: mutex_unlock without the lock.
PutbytesRejected(t, c) ==
    /\ Calling(t, c) /\ c.op = "putbytes" /\ "ENABLED" \notin strategy["put"]
    /\ Unlock
    /\ UNCHANGED <<kind, strategy, data, pc, call, todo, pending, controls, swallowed, blk, stale>>

\* IO_REJECTED, IO_INVALID_SIZE or US_OBJECT_BUSY.
Refuse(t) ==
    /\ Inside(t)
    /\ \/ ~Permitted(t) \/ ~SizeOK(t)
       \/ ~Enough(t) /\ ("WAIT_ALLOWED" \notin strategy[Side(t)] \/ "WAIT" \notin call[t].mode)
    /\ Return(t)
    /\ UNCHANGED <<kind, strategy, data, todo, pending, controls, swallowed, blk, stale>>

\* intr_cond_wait: fails at once if an interrupt is pending, else waits.
Sleep(t) ==
    /\ Inside(t) /\ Permitted(t) /\ SizeOK(t) /\ ~Enough(t)
    /\ "WAIT_ALLOWED" \in strategy[Side(t)] /\ "WAIT" \in call[t].mode
    /\ \/ /\ t \in pending /\ pending' = pending \ {t}
          /\ Return(t)
       \/ /\ t \notin pending
          /\ owner' = NoThread
          /\ waiters' = [waiters EXCEPT ![Side(t)] = Append(@, t)]
          /\ inWait' = inWait \cup {t}
          /\ pc' = [pc EXCEPT ![t] = "waiting"]
          /\ UNCHANGED <<call, pending>>
    /\ Swallows(t)
    /\ stale' = IF pc'[t] = "waiting" /\ "ENABLED" \notin strategy[Side(t)]
                THEN stale \cup {t} ELSE stale
    /\ UNCHANGED <<kind, strategy, data, todo, controls, blk>>

Wake(t) ==
    /\ pc[t] = "waiting"
    /\ Cond!Resume(t)
    /\ pc' = [pc EXCEPT ![t] = IF t \in pending THEN "interrupted" ELSE "woken"]
    /\ pending' = pending \ {t} /\ stale' = stale \ {t}
    /\ UNCHANGED <<kind, strategy, data, call, todo, controls, swallowed, blk>>

\* EXCEPT_SOFTWARE.
Interrupted(t) ==
    /\ pc[t] = "interrupted"
    /\ Return(t) /\ Swallows(t)
    /\ UNCHANGED <<kind, strategy, data, todo, pending, controls, blk, stale>>

\* Returns without a transfer: IOM_PROBE; IO_NOT_ENOUGH_DATA; a record larger
\* than the buffer of io_read1rec_seq (US_INVALID_BUFFER_SIZE).
Probe(t) ==
    /\ Ready(t) /\ "PROBE" \in call[t].mode
    /\ Return(t) /\ Swallows(t)
    /\ UNCHANGED <<kind, strategy, data, todo, pending, controls, blk, stale>>

Fail(t) ==
    /\ Ready(t) /\ "PROBE" \notin call[t].mode
    /\ \/ call[t].op \in {"read1rec", "putrec"}
       \/ call[t].op = "putbytes" /\ \E in \in Inputs : Total(in) < Amount(t)
       \/ call[t].op = "write" /\ Amount(t) > queue.qfree \* malloc in get_more_blocks_internal
    /\ Return(t) /\ Swallows(t)
    /\ UNCHANGED <<kind, strategy, data, todo, pending, controls, blk, stale>>

-----------------------------------------------------------------------------
(* Transfers                                                               *)

Transferring(t, op) == Ready(t) /\ "PROBE" \notin call[t].mode /\ call[t].op = op

\* Mutated form: a reader that leaves something behind does not wake another.
TookForgets(t, n) ==
    /\ qused' = qused - n
    /\ read_offset' = read_offset + n
    /\ todo' = [todo EXCEPT ![t] = << <<"signal", "put">> >>]

\* The count, the offset, and the wakeups for after the unlock.
Took(t, n) ==
    /\ qused' = qused - n
    /\ read_offset' = read_offset + n
    /\ todo' = [todo EXCEPT ![t] = << <<"signal", "put">> >> \o
                    (IF qused' > 0 THEN << <<"signal", "get">> >> ELSE <<>>)]

Gave(t, n) ==
    /\ qused' = qused + n
    /\ write_offset' = write_offset + n
    /\ todo' = [todo EXCEPT ![t] = << <<"signal", "get">> >> \o
                    (IF qused' < qmax THEN << <<"signal", "put">> >> ELSE <<>>)]

Finish(t) == Return(t) /\ UNCHANGED <<kind, strategy, pending, controls, swallowed, stale>>

io_read_seq(t) ==
    /\ Transferring(t, "read")
    /\ queue' = ReadBytes(queue, Amount(t), qmax)
    /\ Took(t, Amount(t)) /\ Finish(t)
    /\ UNCHANGED write_offset

\* isHead: the unset firstblk may be anything, readblk too.
io_getbytes_seq(t) ==
    /\ Transferring(t, "getbytes")
    /\ \E allocates \in {TRUE} \cup (IF NeedsBlock(queue, Amount(t)) THEN {FALSE} ELSE {}),
          isHead \in BOOLEAN :
          LET got == GotBytes(queue, Amount(t), allocates)
              h == Handed(queue, Amount(t), allocates, isHead)
              q == GetBytes(queue, Amount(t), allocates, isHead) IN
          /\ queue' = [q EXCEPT !.diag = FALSE]
          /\ Took(t, got)
          /\ blk' = [blk EXCEPT ![t] = [from |-> h.from, bytes |-> h.bytes, diag |-> q.diag,
                                        offset |-> read_offset, count |-> got]]
    /\ Finish(t)
    /\ UNCHANGED write_offset

\* The positions of the next n items.
NextItems(n) == [i \in 1..n |-> write_offset + i]

io_write_seq(t) ==
    /\ Transferring(t, "write")
    /\ queue' = WriteBytes(queue, NextItems(Amount(t)), qmax)
    /\ Gave(t, Amount(t)) /\ Finish(t)
    /\ UNCHANGED read_offset

io_putbytes_seq(t) ==
    /\ Transferring(t, "putbytes")
    /\ \E in \in Inputs, allocates \in BOOLEAN :
          LET bs == Numbered(in, write_offset) IN
          /\ Total(in) >= Amount(t)
          /\ queue' = PutBlocks(queue, bs, Amount(t), qmax, allocates)
          /\ Gave(t, PutCount(queue, bs, Amount(t), allocates))
    /\ Finish(t)
    /\ UNCHANGED read_offset

\* io_getrec_seq, and io_read1rec_seq_with_info when the buffer is large enough.
io_getrec_seq(t) ==
    /\ Transferring(t, "getrec") \/ Transferring(t, "read1rec")
    /\ queue' = SubSeq(queue, Amount(t) + 1, Len(queue))
    /\ Took(t, Amount(t)) /\ Finish(t)
    /\ UNCHANGED write_offset

\* Also io_write1rec_seq_with_info, which puts one record.  The caller's list
\* is long enough (else IO_NOT_ENOUGH_DATA, as in Fail).
io_putrec_seq(t) ==
    /\ Transferring(t, "putrec")
    /\ queue' = queue \o NextItems(Amount(t))
    /\ Gave(t, Amount(t)) /\ Finish(t)
    /\ read_offset' = IF qused > 0 THEN read_offset ELSE write_offset

\* condition_signal or condition_broadcast after the unlock.
Wakeup(t) ==
    /\ todo[t] # <<>> /\ todo[t][1][1] # "shake"
    /\ LET c == todo[t][1][2] IN
       waiters' = [waiters EXCEPT ![c] =
           IF @ = <<>> \/ todo[t][1][1] = "broadcast" THEN <<>> ELSE Tail(@)]
    /\ todo' = [todo EXCEPT ![t] = Tail(@)]
    /\ blk' = [blk EXCEPT ![t] = NoBlk]
    /\ UNCHANGED <<owner, inWait, kind, strategy, data, pc, call, pending, controls, swallowed,
                   stale>>
-----------------------------------------------------------------------------
(* Strategies, flushing, interrupts                                        *)

Free(t) == todo[t] = <<>> /\ owner = NoThread

\* io_set_read_strategy, io_set_write_strategy.
SetStrategy(t, c, s) ==
    /\ Free(t) /\ controls < MaxControl /\ controls' = controls + 1
    /\ strategy' = [strategy EXCEPT ![c] = s]
    /\ todo' = [todo EXCEPT ![t] = << <<"broadcast", c>> >>]
    /\ UNCHANGED <<cvars, kind, data, pc, call, pending, swallowed, blk, stale>>

\* A byte stream wakes everybody before the unlock, a record stream after.
io_flush_stream(t) ==
    /\ Free(t) /\ controls < MaxControl /\ controls' = controls + 1
    /\ queue' = IF kind = "bytes" THEN EmptyList ELSE <<>>
    /\ qused' = 0 /\ read_offset' = write_offset
    /\ \/ /\ kind = "bytes"
          /\ waiters' = [c \in Conds |-> <<>>] /\ UNCHANGED todo
       \/ /\ kind = "records"
          /\ todo' = [todo EXCEPT ![t] = << <<"broadcast", "put">>, <<"broadcast", "get">> >>]
          /\ UNCHANGED waiters
    /\ UNCHANGED <<owner, inWait, kind, strategy, write_offset, pc, call, pending,
                   swallowed, blk, stale>>

\* intr_post_interrupt: the first post to find u waiting shakes it.
Post(t, u) ==
    /\ todo[t] = <<>> /\ controls < MaxControl /\ controls' = controls + 1
    /\ pending' = pending \cup {u}
    /\ todo' = IF pc[u] = "waiting" /\ u \notin pending
               THEN [todo EXCEPT ![t] = << <<"shake", Side(u)>> >>] ELSE todo
    /\ UNCHANGED <<cvars, kind, strategy, data, pc, call, swallowed, blk, stale>>

\* intr_cond_wait_shake: mutex_lock, mutex_unlock; the signal is next.
Shake(t) ==
    /\ todo[t] # <<>> /\ todo[t][1][1] = "shake"
    /\ owner = NoThread
    /\ todo' = [todo EXCEPT ![t][1][1] = "signal"]
    /\ UNCHANGED <<cvars, kind, strategy, data, pc, call, pending, controls, swallowed, blk, stale>>

-----------------------------------------------------------------------------
Transfer(t) == \/ io_getbytes_seq(t)
               \/ /\ \/ io_read_seq(t) \/ io_write_seq(t) \/ io_putbytes_seq(t)
                     \/ io_getrec_seq(t) \/ io_putrec_seq(t)
                  /\ UNCHANGED blk

UserStep(t) == \/ Refuse(t) \/ Sleep(t) \/ Wake(t) \/ Interrupted(t)
               \/ Probe(t) \/ Fail(t) \/ Transfer(t)

\* Behaviours are followed until a block of the list also belongs to somebody
\* else: what happens then is up to the caller or the allocator.
Sole == kind = "bytes" => ~queue.shared

Next == /\ Sole
        /\ \/ \E t \in Users, c \in Calls :
                 Enter(t, c) \/ PutbytesTest(t, c) \/ PutbytesRejected(t, c)
           \/ \E t \in Users : UserStep(t)
           \/ \E t \in Threads : Wakeup(t) \/ Shake(t)
           \/ \E t \in Others : \/ io_flush_stream(t)
                                \/ \E c \in Conds, s \in SUBSET Full : SetStrategy(t, c, s)
                                \/ \E u \in Users : Post(t, u)

Spec == Init /\ [][Next]_vars

-----------------------------------------------------------------------------
(* Properties                                                              *)

Held == IF kind = "bytes" THEN Contents(queue) ELSE queue

\* Every variable has its type.
TypeOK ==
    /\ owner \in Threads \cup {NoThread} /\ inWait \subseteq Users
    /\ waiters \in [Conds -> Seq(Users)]
    /\ kind \in {"bytes", "records"} /\ strategy \in [Conds -> SUBSET Full]
    /\ qused \in 0..qmax /\ read_offset \in Nat /\ write_offset \in Nat
    /\ pc \in [Threads -> {"idle", "tested", "entered", "waiting", "woken", "interrupted"}]
    /\ call \in [Threads -> Calls \cup {NoCall}]
    /\ todo \in [Threads -> Seq({"signal", "broadcast", "shake"} \X Conds)]
    /\ pending \subseteq Users /\ swallowed \subseteq Conds /\ stale \subseteq Writers
    /\ \A t \in Threads : /\ blk[t].from \in {"none", "own", "list", "unset"}
                          /\ blk[t].bytes \in Seq(Nat)
                          /\ blk[t].offset \in Nat /\ blk[t].count \in Nat
                          /\ blk[t].diag \in BOOLEAN
    /\ controls \in 0..MaxControl

\* Both streams are bounded first-in first-out queues: whatever mix of copying
\* (io_read_seq, io_write_seq), taking and joining of whole blocks
\* (io_getbytes_seq, io_putbytes_seq) and flushing, what is on the list is what
\* was put and not yet accounted for as taken, in order, once each, and the queue
\* size is never exceeded.  It speaks of the list.  What io_getbytes_seq gives its
\* caller is the subject of HandedExact, and often not what it took.
Abs == INSTANCE Stream WITH Limit <- qmax, items <- Held, next <- write_offset
AbsSpec == Abs!Spec

\* The counts the waits and the allocations rely on are exact: qused is what
\* the blocks hold and qfree what COPYTOBLKS will find from writeblk on, so
\* that it never runs off the list; and io_read_seq dequeues from readblk (of
\* io_getbytes_seq, see blk[t].diag, that is not true).
CountsExact ==
    /\ qused = Len(Held) /\ write_offset - read_offset = qused
    /\ kind = "bytes" =>
         /\ ~queue.fault /\ ~queue.diag
         /\ queue.qfree = FreeSpace(queue)
         /\ \A i \in DOMAIN queue.blks : i > queue.w => ioblk_empty(queue.blks[i])

\* Where io_getbytes_seq gives its caller a list of its own, and not a block
\* still queued or an unset pointer, that list holds the bytes *offset and *count
\* announce, whatever was copied, taken or joined before.
HandedExact ==
    \A t \in Readers : blk[t].from = "own" =>
        blk[t].bytes = [i \in 1..blk[t].count |-> blk[t].offset + i]

Queued(c) == {t \in Users : \E i \in DOMAIN waiters[c] : waiters[c][i] = t}

\* A wakeup for side c is on its way: to be made, made, or being acted on.
UnderWay(c) ==
    \/ \E t \in Threads : \E i \in DOMAIN todo[t] :
          todo[t][i] \in {<<"signal", c>>, <<"broadcast", c>>}
    \/ \E t \in Users : /\ Side(t) = c
                        /\ \/ pc[t] = "waiting" /\ t \notin Queued(c)
                           \/ pc[t] \in {"woken", "interrupted"}

\* No thread is left waiting for what is there: signalling one thread after the
\* unlock is enough for all of them, as long as no woken thread swallowed its
\* wakeup (an interrupted one, one that only probes, one that wants more than
\* there is, one whose call fails).
NoneStranded ==
    \A c \in Conds \ swallowed :
        (\E t \in Queued(c) : Enough(t)) /\ strategy[c] = Full => UnderWay(c)

\* No thread is left waiting on a stream that was closed or made non-blocking
\* meanwhile: whoever withdrew the permission has a broadcast to make.  It speaks
\* of the strategy as it was when the thread took the lock or woke; io_putbytes_seq
\* tests it before it locks, and sleeps on a stream closed in between (stale).
NoneLeftBehind ==
    \A c \in Conds :
        Queued(c) \ stale # {} /\ strategy[c] # Full =>
            \E t \in Threads : \E i \in DOMAIN todo[t] : todo[t][i] = <<"broadcast", c>>

\* The stream's counts, and the bytes handed over by them, whatever mix of calls
\* came before.
CountsSound == TypeOK /\ CountsExact /\ HandedExact

\* Nobody waits in vain, for what is there or for what will not come.
NoneWaitsInVain == NoneStranded /\ NoneLeftBehind
=============================================================================
