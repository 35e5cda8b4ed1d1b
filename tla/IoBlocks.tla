------------------------------ MODULE IoBlocks ------------------------------
(***************************************************************************)
(* The list of buffers inside a byte stream (lib/us++/bytestream.cc, the   *)
(* ioblk_ macros of include/io_types2.h).  The list is one chain from      *)
(* readblk; writeblk points into it, at the last block that holds data or  *)
(* at the first one that can take some, and everything behind writeblk is  *)
(* free.  A byte is its position in the stream, so that a byte lost,       *)
(* duplicated or moved shows.                                              *)
(***************************************************************************)
EXTENDS Integers, Sequences, SequencesExt

\* A block: its capacity, where its data starts, and the data.
Block(size) == [size |-> size, start |-> 0, data |-> <<>>]

ioblk_cursize(b)  == Len(b.data)
ioblk_freesize(b) == b.size - b.start - Len(b.data)
ioblk_empty(b)    == b.data = <<>>
ioblk_clear(b)    == [b EXCEPT !.start = 0, !.data = <<>>]

\* The list: w is the index of writeblk, 0 for NULL; qfree the code's count of
\* the space from writeblk on.  fault is set where the code would follow a NULL
\* pointer or run out of blocks, diag where it reports that DEQ_RBLKS does not
\* start at readblk (and goes on), shared where a block on the list also belongs
\* to somebody else: to a caller, or to the allocator.
EmptyList == [blks |-> <<>>, w |-> 0, qfree |-> 0,
              fault |-> FALSE, diag |-> FALSE, shared |-> FALSE]

FreeAt(q, i) == IF i = 0 THEN 0 ELSE ioblk_freesize(q.blks[i])

\* Mutated form: the free space of a removed writeblk is still counted.
DeqKeepsFree(q, isHead, k) ==
    [q EXCEPT !.diag = @ \/ ~isHead,
              !.blks = SubSeq(@, k + 1, Len(@)),
              !.w = IF k # @ THEN @ - k ELSE IF k < Len(q.blks) THEN 1 ELSE 0]

\* Remove the blocks up to the k-th; the free tail of writeblk goes with it.
\* isHead: startblk is readblk, which nothing but the report depends on.
DEQ_RBLKS(q, isHead, k) ==
    [q EXCEPT !.diag = @ \/ ~isHead,
              !.blks = SubSeq(@, k + 1, Len(@)),
              !.w = IF k # @ THEN @ - k ELSE IF k < Len(q.blks) THEN 1 ELSE 0,
              !.qfree = IF k = q.w THEN @ - FreeAt(q, k) ELSE @]

\* Insert blocks of data behind writeblk; the last one becomes writeblk.
ENQ_RBLKS(q, bs) ==
    [q EXCEPT !.blks = SubSeq(@, 1, q.w) \o bs \o SubSeq(@, q.w + 1, Len(@)),
              !.w = @ + Len(bs),
              !.qfree = @ - FreeAt(q, q.w) + ioblk_freesize(Last(bs)),
              !.fault = @ \/ (q.w = 0 /\ q.blks # <<>>)]

\* Insert one free block behind writeblk.
ENQ_WBLKS(q, b) ==
    [q EXCEPT !.blks = InsertAt(@, q.w + 1, b),
              !.w = IF @ = 0 THEN 1 ELSE @,
              !.qfree = @ + ioblk_freesize(b),
              !.fault = @ \/ (q.w = 0 /\ q.blks # <<>>)]

Repeat(Step(_), q, n) == FoldLeft(LAMBDA acc, i : Step(acc), q, [i \in 1..n |-> i])

\* get_more_blocks_internal, every allocation succeeding; blksize is qmax.
MoreBlocks(q, size, blksize) ==
    Repeat(LAMBDA acc : ENQ_WBLKS(acc, Block(blksize)), q, (size + blksize - 1) \div blksize)

\* Mutated form: looks for room from readblk on.
RoomAnywhere(q) == SelectInSubSeq(q.blks, 1, Len(q.blks), LAMBDA b : ioblk_freesize(b) > 0)

\* One block of COPYTOBLKS: skip the full ones, fill the next with what it takes.
Room(q) == SelectInSubSeq(q.blks, q.w, Len(q.blks), LAMBDA b : ioblk_freesize(b) > 0)

CopyStep(c) ==
    IF c.bytes = <<>> \/ c.q.fault THEN c
    ELSE LET room == Room(c.q)
             n == LET f == FreeAt(c.q, room) IN IF Len(c.bytes) < f THEN Len(c.bytes) ELSE f IN
         IF c.q.w = 0 \/ room = 0 THEN [c EXCEPT !.q.fault = TRUE]
         ELSE [q |-> [c.q EXCEPT !.blks[room].data = @ \o SubSeq(c.bytes, 1, n), !.w = room],
               bytes |-> SubSeq(c.bytes, n + 1, Len(c.bytes))]

COPYTOBLKS(q, bytes) ==
    LET done == Repeat(CopyStep, [q |-> q, bytes |-> bytes], Len(q.blks)).q IN
    [done EXCEPT !.qfree = @ - Len(bytes)]

-----------------------------------------------------------------------------
(* The data part of io_read_seq: copy out, and reuse or free what is empty *)

\* The emptied block is freed when free space would pass the high-water mark
\* q_hwm, or when it is smaller than a standard block.
Retire(q, max) ==
    LET b == ioblk_clear(q.blks[1])  rest == DEQ_RBLKS(q, TRUE, 1) IN
    IF rest.qfree + ioblk_freesize(b) > 2 * max \/ b.size < max THEN rest
    ELSE ENQ_WBLKS(rest, b)

TakeStep(r, max) ==
    IF r.resid = 0 \/ r.q.fault THEN r
    ELSE IF r.q.blks = <<>> THEN [r EXCEPT !.q.fault = TRUE]
    ELSE LET b == r.q.blks[1]
             xfer == IF r.resid < ioblk_cursize(b) THEN r.resid ELSE ioblk_cursize(b)
             less == [b EXCEPT !.start = @ + xfer, !.data = SubSeq(@, xfer + 1, Len(@))]
             q1 == [r.q EXCEPT !.blks[1] = less] IN
         [r EXCEPT !.resid = @ - xfer,
                   !.q = IF ioblk_empty(less) THEN Retire(q1, max) ELSE q1]

ReadBytes(q, n, max) ==
    Repeat(LAMBDA r : TakeStep(r, max), [q |-> q, resid |-> n], Len(q.blks)).q

-----------------------------------------------------------------------------
(* The data part of io_getbytes_seq and io_putbytes_seq                    *)

\* Bytes in the first k blocks.
Before(blks, k) == FoldLeft(LAMBDA n, b : n + ioblk_cursize(b), 0, SubSeq(blks, 1, k))

\* How many blocks are taken whole for n bytes: the scan stops when nothing is
\* left to take, or at a block that holds more than that.
Complete(blks, n) ==
    CHOOSE k \in 0..Len(blks) :
        /\ \A j \in 1..k : Before(blks, j - 1) < n /\ Before(blks, j) <= n
        /\ k = Len(blks) \/ Before(blks, k) >= n \/ Before(blks, k + 1) > n

\* What *blk is set to.  firstblk is not set before the complete blocks leave the
\* list (isHead: it happens to be readblk all the same): a caller that takes
\* complete blocks only, or nothing, gets that.  One that takes complete blocks
\* and some bytes gets readblk as it is afterwards, a block still on the list,
\* and only one that takes no complete block gets a block of its own, or NULL.
Handed(q, n, allocates, isHead) ==
    LET k == Complete(q.blks, n)
        resid == n - Before(q.blks, k)
        Own(bytes) == [from |-> "own", bytes |-> bytes] IN
    CASE k > 0 /\ resid > 0 -> [from |-> "list", bytes |-> <<>>]
      [] k = 0 /\ resid > 0 -> Own(IF allocates THEN SubSeq(q.blks[1].data, 1, resid) ELSE <<>>)
      [] k > 0 /\ resid = 0 /\ isHead ->
            Own(FlattenSeq([i \in 1..k |-> q.blks[i].data]))
      [] k = 0 /\ resid = 0 /\ isHead -> [from |-> "list", bytes |-> <<>>]
      [] OTHER -> [from |-> "unset", bytes |-> <<>>]

\* The complete blocks leave the list, and the rest of the bytes is copied from
\* the next block unless that fails (allocation of the caller's last block).
GetBytes(q, n, allocates, isHead) ==
    LET k == Complete(q.blks, n)
        resid == n - Before(q.blks, k)
        rest == [(IF k = 0 THEN q ELSE DEQ_RBLKS(q, isHead, k)) EXCEPT
                     !.shared = @ \/ Handed(q, n, allocates, isHead).from = "list"] IN
    IF resid = 0 THEN rest
    ELSE IF k = Len(q.blks) THEN [q EXCEPT !.fault = TRUE]
    ELSE IF ~allocates THEN rest
    ELSE [rest EXCEPT !.blks[1].start = @ + resid,
                      !.blks[1].data = SubSeq(@, resid + 1, Len(@))]

\* Whether it must allocate that block: it may use the room in the one before.
NeedsBlock(q, n) ==
    LET k == Complete(q.blks, n)  resid == n - Before(q.blks, k) IN
    resid > 0 /\ (k = 0 \/ FreeAt(q, k) <= resid)

\* How many of the n bytes io_getbytes_seq accounts for.
GotBytes(q, n, allocates) ==
    IF allocates THEN n ELSE Before(q.blks, Complete(q.blks, n))

\* A caller's list of blocks <<size, start, length>>, and its bytes.
Total(in) == FoldLeft(LAMBDA n, s : n + s[3], 0, in)
Numbered(in, off) ==
    [i \in DOMAIN in |-> [size |-> in[i][1], start |-> in[i][2],
        data |-> [j \in 1..in[i][3] |-> off + Total(SubSeq(in, 1, i - 1)) + j]]]

\* Of the first k blocks of the caller, those that join the list: up to the last
\* with data (prevblk).  Empty ones were freed and stay linked between them.
Joining(bs, k) == SubSeq(bs, 1, SelectLastInSubSeq(bs, 1, k, LAMBDA b : ~ioblk_empty(b)))

Join(q, in) ==
    IF in = <<>> THEN q
    ELSE [ENQ_RBLKS(q, in) EXCEPT !.shared = @ \/ \E i \in DOMAIN in : ioblk_empty(in[i])]

\* The caller's complete blocks join the list, and the rest of the bytes is
\* copied.
PutBlocks(q, bs, n, blksize, allocates) ==
    LET k == Complete(bs, n)
        resid == n - Before(bs, k)
        q1 == Join(q, Joining(bs, k))
        q2 == IF resid > q1.qfree THEN MoreBlocks(q1, resid - q1.qfree, blksize) ELSE q1 IN
    IF resid = 0 \/ (resid > q1.qfree /\ ~allocates) THEN q1
    ELSE COPYTOBLKS(q2, SubSeq(bs[k + 1].data, 1, resid))

PutCount(q, bs, n, allocates) ==
    LET k == Complete(bs, n)
        resid == n - Before(bs, k)
        q1 == Join(q, Joining(bs, k)) IN
    IF resid > q1.qfree /\ ~allocates THEN n - resid ELSE n

\* The data part of io_write_seq.
WriteBytes(q, bytes, blksize) ==
    COPYTOBLKS(IF Len(bytes) > q.qfree THEN MoreBlocks(q, Len(bytes) - q.qfree, blksize) ELSE q,
               bytes)

-----------------------------------------------------------------------------
\* What the stream holds, in order.
Contents(q) == FlattenSeq([i \in DOMAIN q.blks |-> q.blks[i].data])

\* The free space of writeblk and the blocks behind it.
FreeSpace(q) ==
    FoldLeft(LAMBDA n, b : n + ioblk_freesize(b), 0,
             IF q.w = 0 THEN <<>> ELSE SubSeq(q.blks, q.w, Len(q.blks)))
=============================================================================
