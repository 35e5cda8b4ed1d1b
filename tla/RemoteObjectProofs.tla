------------------------- MODULE RemoteObjectProofs -------------------------
(***************************************************************************)
(* Proofs about module RemoteObject, for any number of handler threads,    *)
(* replies and clients: the reference count is exact, whoever can reach    *)
(* the object finds it alive and registered, and a no-senders notification *)
(* that is believed is for real.                                           *)
(***************************************************************************)
EXTENDS RemoteObject, FiniteSetTheorems, TLAPS

-----------------------------------------------------------------------------
(* The inductive invariant.                                                *)

Active(h) == pc[h] # "idle"

\* The places in the queue of the invocations, and of the notification.
At(q, k) == {i \in 1..Len(q) : q[i].kind = k}
InvokeAt == At(queue, "invoke")
NoticeAt == At(queue, "no_senders")

\* Handlers that have the notification, and those that may still believe it.
Noticed == {h \in Handlers : Active(h) /\ msg[h].kind = "no_senders"}
Believers == {h \in Noticed : pc[h] # "done"}

Holding == {e \in Exporters : epc[e] \in {"held", "packed"}}
Working == {h \in Handlers : pc[h] \in {"has", "done"}}
Exported == {e \in Exporters : epc[e] \in {"packed", "sending", "done"}}
Finished == {e \in Exporters : epc[e] = "done"}

\* Life of the object and of its port, and the entry in the port table.
PortInv ==
    /\ alive <=> ref_cnt > 0
    /\ external_port = "destroyed" => ref_cnt = 0
    /\ registered <=> external_port # "null" /\ ~no_senders
    /\ external_port = "null" =>
           /\ seqno = 0 /\ next_seqno = 0 /\ queue = <<>> /\ srights = 0
           /\ ~nsrequest /\ ~no_senders
           /\ \A h \in Handlers : pc[h] = "idle"
           /\ \A e \in Exporters : epc[e] \in {"start", "held"}

\* The object's make-send count is of the rights promised, the kernel's of the
\* rights made; a send that failed stays between them.
MakeSendInv == mscount = Cardinality(Exported) /\ kmscount + fails = Cardinality(Finished)

\* Where the send rights are.
RightInv == srights = rights + passing + unpacked + Cardinality(InvokeAt)

\* Messages are numbered as received.  Those up to next_seqno are counted, each
\* of the others is with a handler that has yet to look the object up.
SeqnoInv ==
    /\ next_seqno <= seqno
    /\ \A h \in Handlers : Active(h) => msg[h].seqno < seqno
    /\ \A h, g \in Handlers : Active(h) /\ Active(g) /\ msg[h].seqno = msg[g].seqno => h = g
    /\ \A h \in Handlers : pc[h] \in {"has", "done"} => msg[h].seqno < next_seqno
    /\ \A n \in next_seqno..(seqno - 1) :
           \E h \in Handlers : pc[h] \in {"got", "again"} /\ msg[h].seqno = n

\* There is one notification: requested, or queued, or with one handler, or past.
\* Its count is still the kernel's only if no right was made since, and then it
\* was the last message.
NoticeInv ==
    /\ nsrequest => NoticeAt = {} /\ Noticed = {}
    /\ NoticeAt # {} => Noticed = {}
    /\ \A i, j \in NoticeAt : i = j
    /\ \A h, g \in Noticed : h = g
    /\ \A i \in NoticeAt : /\ queue[i].count <= kmscount
                           /\ queue[i].count = kmscount => srights = 0
    /\ \A h \in Believers : /\ msg[h].count <= kmscount
                            /\ msg[h].count = kmscount => srights = 0 /\ msg[h].seqno = seqno - 1

\* After the notification was believed, and until the object is exported again.
GoneInv ==
    no_senders => /\ srights = 0 /\ next_seqno = seqno /\ ~nsrequest /\ NoticeAt = {} /\ Believers = {}
                  /\ \A e \in Exporters : epc[e] \notin {"packed", "sending"}

IInv == /\ TypeOK /\ RefExact /\ PortInv /\ MakeSendInv /\ RightInv
        /\ SeqnoInv /\ NoticeInv /\ GoneInv

-----------------------------------------------------------------------------
(* Counting.                                                               *)

\* Two sets that differ at most in x differ at most by one in size.
LEMMA OneMoves ==
    ASSUME NEW S, IsFiniteSet(S), NEW A \in SUBSET S, NEW B \in SUBSET S, NEW x, A \ {x} = B \ {x}
    PROVE  /\ Cardinality(A) \in Nat /\ Cardinality(B) \in Nat
           /\ (x \in A <=> x \in B) => Cardinality(B) = Cardinality(A)
           /\ x \in B /\ x \notin A => Cardinality(B) = Cardinality(A) + 1
           /\ x \in A /\ x \notin B => Cardinality(B) = Cardinality(A) - 1
  <1>1. IsFiniteSet(A) /\ IsFiniteSet(B) BY FS_Subset
  <1>2. Cardinality(A) \in Nat /\ Cardinality(B) \in Nat BY <1>1, FS_CardinalityType
  <1>3. ASSUME x \in A <=> x \in B PROVE Cardinality(B) = Cardinality(A)
    <2>1. A = B BY <1>3
    <2> QED BY <2>1
  <1>4. ASSUME x \in B, x \notin A PROVE Cardinality(B) = Cardinality(A) + 1
    <2>1. B = A \cup {x} BY <1>4
    <2> QED BY <1>1, <1>4, <2>1, FS_AddElement
  <1>5. ASSUME x \in A, x \notin B PROVE Cardinality(B) = Cardinality(A) - 1
    <2>1. A = B \cup {x} BY <1>5
    <2> QED BY <1>1, <1>2, <1>5, <2>1, FS_AddElement
  <1> QED BY <1>2, <1>3, <1>4, <1>5

\* A finite set and one its elements are paired with have the same size.
LEMMA SameSize ==
    ASSUME NEW S, NEW T, IsFiniteSet(S), NEW f \in [S -> T],
           \A x, y \in S : f[x] = f[y] => x = y, \A z \in T : \E x \in S : f[x] = z
    PROVE  IsFiniteSet(T) /\ Cardinality(T) = Cardinality(S)
  <1>1. f \in Bijection(S, T) BY DEF Bijection, Injection, Surjection, IsInjective
  <1> QED BY <1>1, FS_Bijection DEF ExistsBijection

\* The places of a kind of message in a queue that one message joins.
LEMMA AppendAt ==
    ASSUME NEW q \in Seq(PortMsg), NEW m \in PortMsg, NEW k
    PROVE  /\ IsFiniteSet(At(q, k)) /\ Cardinality(At(q, k)) \in Nat
           /\ At(Append(q, m), k) = IF m.kind = k THEN At(q, k) \cup {Len(q) + 1} ELSE At(q, k)
           /\ Cardinality(At(Append(q, m), k)) = Cardinality(At(q, k)) + Bit(m.kind = k)
  <1>1. IsFiniteSet(At(q, k))
    <2>1. Len(q) \in Nat /\ At(q, k) \subseteq 1..Len(q) BY DEF At
    <2>2. IsFiniteSet(1..Len(q)) BY <2>1, FS_Interval
    <2> QED BY <2>1, <2>2, FS_Subset
  <1>2. Cardinality(At(q, k)) \in Nat BY <1>1, FS_CardinalityType
  <1>3. /\ At(Append(q, m), k) = IF m.kind = k THEN At(q, k) \cup {Len(q) + 1} ELSE At(q, k)
        /\ Len(q) + 1 \notin At(q, k)
    <2>1. /\ Len(q) \in Nat /\ Len(Append(q, m)) = Len(q) + 1 /\ Append(q, m)[Len(q) + 1] = m
          /\ \A i \in 1..Len(q) : Append(q, m)[i] = q[i]
      OBVIOUS
    <2> QED BY <2>1 DEF At
  <1>4. Cardinality(At(Append(q, m), k)) = Cardinality(At(q, k)) + Bit(m.kind = k)
    <2>1. CASE m.kind = k BY <1>1, <1>2, <1>3, <2>1, FS_AddElement DEF Bit
    <2>2. CASE m.kind # k BY <1>2, <1>3, <2>2 DEF Bit
    <2> QED BY <2>1, <2>2
  <1> QED BY <1>1, <1>2, <1>3, <1>4

\* The places in a queue that its first message leaves.
LEMMA TailAt ==
    ASSUME NEW q \in Seq(PortMsg), q # <<>>, NEW k
    PROVE  /\ \A i \in At(Tail(q), k) : i + 1 \in At(q, k) /\ Tail(q)[i] = q[i + 1]
           /\ Cardinality(At(Tail(q), k)) = Cardinality(At(q, k)) - Bit(Head(q).kind = k)
           /\ 1 \in At(q, k) <=> Head(q).kind = k
  <1> DEFINE S == At(q, k) \ {1}  T == At(Tail(q), k)  f == [i \in S |-> i - 1]
  <1>1. /\ Len(q) \in Nat /\ Len(q) >= 1 /\ Len(Tail(q)) = Len(q) - 1 /\ Head(q) = q[1]
        /\ \A i \in 1..Len(Tail(q)) : Tail(q)[i] = q[i + 1]
    OBVIOUS
  <1>2. \A i \in T : i \in Nat /\ i + 1 \in S /\ Tail(q)[i] = q[i + 1] BY <1>1 DEF At
  <1>3. \A i \in S : i \in Nat /\ i - 1 \in T BY <1>1 DEF At
  <1>4. 1 \in At(q, k) <=> Head(q).kind = k BY <1>1 DEF At
  <1>5. IsFiniteSet(At(q, k)) /\ Cardinality(At(q, k)) \in Nat
    <2>1. At(q, k) \subseteq 1..Len(q) BY DEF At
    <2>2. IsFiniteSet(1..Len(q)) BY <1>1, FS_Interval
    <2>3. IsFiniteSet(At(q, k)) BY <2>1, <2>2, FS_Subset
    <2> QED BY <2>3, FS_CardinalityType
  <1>6. /\ IsFiniteSet(S)
        /\ Cardinality(S) = Cardinality(At(q, k)) - Bit(Head(q).kind = k)
    <2>1. IsFiniteSet(S) /\ Cardinality(S) = IF 1 \in At(q, k) THEN Cardinality(At(q, k)) - 1
                                             ELSE Cardinality(At(q, k))
      BY <1>5, FS_RemoveElement
    <2> QED BY <1>4, <1>5, <2>1 DEF Bit
  <1>7. /\ f \in [S -> T] /\ \A x, y \in S : f[x] = f[y] => x = y
        /\ \A z \in T : \E x \in S : f[x] = z
    <2>1. \A x, y \in S : f[x] = f[y] => x = y BY <1>3
    <2>2. \A z \in T : z + 1 \in S /\ f[z + 1] = z BY <1>2
    <2> QED BY <1>3, <2>1, <2>2
  <1> HIDE DEF S, T, f
  <1>8. Cardinality(T) = Cardinality(S) BY <1>6, <1>7, SameSize
  <1> QED BY <1>2, <1>4, <1>6, <1>8 DEF T, S

Places == {"idle", "got", "again", "has", "done"}
ReplyPlaces == {"start", "held", "packed", "sending", "done"}

\* The sizes that the invariant adds up are numbers.
LEMMA Sizes ==
    ASSUME TypeOK
    PROVE  /\ Count(epc, {"held", "packed"}) = Cardinality(Holding) /\ Cardinality(Holding) \in Nat
           /\ Count(pc, {"has", "done"}) = Cardinality(Working) /\ Cardinality(Working) \in Nat
           /\ IsFiniteSet(Counted) /\ Cardinality(Counted) \in Nat
           /\ IsFiniteSet(Exported) /\ Cardinality(Exported) \in Nat
           /\ IsFiniteSet(Finished) /\ Cardinality(Finished) \in Nat
           /\ IsFiniteSet(InvokeAt) /\ Cardinality(InvokeAt) \in Nat
           /\ Bit(registered) \in {0, 1} /\ Cardinality(Exported) <= Cardinality(Exporters)
           /\ Cardinality(Finished) <= Cardinality(Exported) /\ Cardinality(Exporters) \in Nat
  <1> USE BoundAssumption
  <1>1. IsFiniteSet(Counted) BY FS_Subset DEF Counted
  <1>2. IsFiniteSet(Exported) /\ Cardinality(Exported) <= Cardinality(Exporters) BY FS_Subset DEF Exported
  <1>3. Finished \subseteq Exported BY DEF Finished, Exported
  <1>4. IsFiniteSet(Finished) /\ Cardinality(Finished) <= Cardinality(Exported) BY <1>2, <1>3, FS_Subset
  <1>5. IsFiniteSet(InvokeAt) /\ Cardinality(InvokeAt) \in Nat
    <2>1. queue \in Seq(PortMsg) /\ InvokeMsg \in PortMsg BY DEF TypeOK, InvokeMsg, PortMsg
    <2> QED BY <2>1, AppendAt DEF InvokeAt
  <1>6. Count(epc, {"held", "packed"}) = Cardinality(Holding) /\ Cardinality(Holding) \in Nat
    <2>1. {e \in DOMAIN epc : epc[e] \in {"held", "packed"}} = Holding BY DEF TypeOK, Holding
    <2> QED BY <2>1, FS_Subset, FS_CardinalityType DEF Count, Holding
  <1>7. Count(pc, {"has", "done"}) = Cardinality(Working) /\ Cardinality(Working) \in Nat
    <2>1. {h \in DOMAIN pc : pc[h] \in {"has", "done"}} = Working BY DEF TypeOK, Working
    <2> QED BY <2>1, FS_Subset, FS_CardinalityType DEF Count, Working
  <1>8. Bit(registered) \in {0, 1} BY DEF Bit
  <1> QED BY <1>1, <1>2, <1>4, <1>5, <1>6, <1>7, <1>8, FS_CardinalityType

\* One reply moves on.
LEMMA ReplyMove ==
    ASSUME TypeOK, NEW e \in Exporters, NEW v \in ReplyPlaces, epc' = [epc EXCEPT ![e] = v]
    PROVE  /\ epc' \in [Exporters -> ReplyPlaces] /\ epc'[e] = v
           /\ \A d \in Exporters \ {e} : epc'[d] = epc[d]
           /\ Count(epc', {"held", "packed"}) = Cardinality(Holding')
           /\ Cardinality(Holding') = Cardinality(Holding) + Bit(v \in {"held", "packed"})
                                      - Bit(epc[e] \in {"held", "packed"})
           /\ Cardinality(Exported') = Cardinality(Exported) + Bit(v \in {"packed", "sending", "done"})
                                       - Bit(epc[e] \in {"packed", "sending", "done"})
           /\ Cardinality(Finished') = Cardinality(Finished) + Bit(v = "done") - Bit(epc[e] = "done")
           /\ Cardinality(Exported') <= Cardinality(Exporters)
           /\ Cardinality(Finished') <= Cardinality(Exporters)
  <1> USE BoundAssumption DEF ReplyPlaces
  <1>1. /\ epc' \in [Exporters -> ReplyPlaces] /\ epc'[e] = v
        /\ \A d \in Exporters \ {e} : epc'[d] = epc[d]
    BY DEF TypeOK
  <1>2. /\ Count(epc', {"held", "packed"}) = Cardinality(Holding')
        /\ Cardinality(Holding') = Cardinality(Holding) + Bit(v \in {"held", "packed"})
                                   - Bit(epc[e] \in {"held", "packed"})
    <2>1. /\ Holding \ {e} = Holding' \ {e} /\ (e \in Holding <=> epc[e] \in {"held", "packed"})
          /\ e \in Holding' <=> v \in {"held", "packed"}
          /\ Holding \in SUBSET Exporters /\ Holding' \in SUBSET Exporters
      BY <1>1 DEF Holding
    <2>2. {d \in DOMAIN epc' : epc'[d] \in {"held", "packed"}} = Holding' BY <1>1 DEF Holding
    <2> QED BY <2>1, <2>2, OneMoves DEF Bit, Count
  <1>3. /\ Exported \ {e} = Exported' \ {e} /\ (e \in Exported <=> epc[e] \in {"packed", "sending", "done"})
        /\ e \in Exported' <=> v \in {"packed", "sending", "done"}
    BY <1>1 DEF Exported
  <1>4. /\ Finished \ {e} = Finished' \ {e} /\ (e \in Finished <=> epc[e] = "done")
        /\ e \in Finished' <=> v = "done"
    BY <1>1 DEF Finished
  <1>5. Cardinality(Exported') = Cardinality(Exported) + Bit(v \in {"packed", "sending", "done"})
                                 - Bit(epc[e] \in {"packed", "sending", "done"})
    <2>1. Exported \in SUBSET Exporters /\ Exported' \in SUBSET Exporters BY DEF Exported
    <2> QED BY <1>3, <2>1, OneMoves DEF Bit
  <1>6. Cardinality(Finished') = Cardinality(Finished) + Bit(v = "done") - Bit(epc[e] = "done")
    <2>1. Finished \in SUBSET Exporters /\ Finished' \in SUBSET Exporters BY DEF Finished
    <2> QED BY <1>4, <2>1, OneMoves DEF Bit
  <1>7. Cardinality(Exported') <= Cardinality(Exporters) /\ Cardinality(Finished') <= Cardinality(Exporters)
    BY FS_Subset DEF Exported, Finished
  <1> QED BY <1>1, <1>2, <1>5, <1>6, <1>7

\* One handler moves on.
LEMMA HandlerMove ==
    ASSUME TypeOK, NEW h \in Handlers, NEW v \in Places, pc' = [pc EXCEPT ![h] = v], next_seqno' = next_seqno,
           \A g \in Handlers \ {h} : msg'[g] = msg[g]
    PROVE  /\ pc' \in [Handlers -> Places] /\ pc'[h] = v /\ \A g \in Handlers \ {h} : pc'[g] = pc[g]
           /\ Count(pc', {"has", "done"}) = Cardinality(Working')
           /\ Cardinality(Working') = Cardinality(Working) + Bit(v \in {"has", "done"})
                                      - Bit(pc[h] \in {"has", "done"})
           /\ Cardinality(Counted') =
                 Cardinality(Counted) + Bit(v \in {"got", "again"} /\ msg'[h].seqno < next_seqno)
                                      - Bit(pc[h] \in {"got", "again"} /\ msg[h].seqno < next_seqno)
  <1> USE BoundAssumption DEF Places
  <1>1. pc' \in [Handlers -> Places] /\ pc'[h] = v /\ \A g \in Handlers \ {h} : pc'[g] = pc[g]
    BY DEF TypeOK
  <1>2. /\ Count(pc', {"has", "done"}) = Cardinality(Working')
        /\ Cardinality(Working') = Cardinality(Working) + Bit(v \in {"has", "done"})
                                   - Bit(pc[h] \in {"has", "done"})
    <2>1. /\ Working \ {h} = Working' \ {h} /\ (h \in Working <=> pc[h] \in {"has", "done"})
          /\ h \in Working' <=> v \in {"has", "done"}
          /\ Working \in SUBSET Handlers /\ Working' \in SUBSET Handlers
      BY <1>1 DEF Working
    <2>2. {g \in DOMAIN pc' : pc'[g] \in {"has", "done"}} = Working' BY <1>1 DEF Working
    <2> QED BY <2>1, <2>2, OneMoves DEF Bit, Count
  <1>3. /\ Counted \ {h} = Counted' \ {h}
        /\ h \in Counted <=> pc[h] \in {"got", "again"} /\ msg[h].seqno < next_seqno
        /\ h \in Counted' <=> v \in {"got", "again"} /\ msg'[h].seqno < next_seqno
    BY <1>1 DEF Counted
  <1>4. Cardinality(Counted') = Cardinality(Counted) + Bit(h \in Counted') - Bit(h \in Counted)
    <2>1. Counted \in SUBSET Handlers /\ Counted' \in SUBSET Handlers BY DEF Counted
    <2> QED BY <1>3, <2>1, OneMoves DEF Bit
  <1> QED BY <1>1, <1>2, <1>3, <1>4 DEF Bit

\* The counts of rights made and promised.
LEMMA Promised ==
    ASSUME IInv
    PROVE  /\ kmscount <= mscount
           /\ kmscount = mscount => \A e \in Exporters : epc[e] \notin {"packed", "sending"}
  <1> USE DEF IInv
  <1>1. kmscount \in Nat /\ mscount \in Nat /\ fails \in Nat
    <2>1. Cardinality(Exporters) \in Nat BY Sizes
    <2> QED BY <2>1, BoundAssumption DEF TypeOK
  <1>2. kmscount <= Cardinality(Finished) /\ Cardinality(Finished) <= mscount BY <1>1, Sizes DEF MakeSendInv
  <1>3. ASSUME kmscount = mscount PROVE \A e \in Exporters : epc[e] \notin {"packed", "sending"}
    <2>1. Cardinality(Finished) = Cardinality(Exported) BY <1>1, <1>2, <1>3, Sizes DEF MakeSendInv
    <2>2. Finished \subseteq Exported BY DEF Finished, Exported
    <2>3. Finished = Exported BY <2>1, <2>2, Sizes, FS_Subset
    <2> QED BY <2>3 DEF Finished, Exported
  <1> QED BY <1>1, <1>2, <1>3, Sizes

\* No send right: nobody can send, and only the notification can be queued.
LEMMA NoRights ==
    ASSUME IInv
    PROVE  /\ rights > 0 \/ passing > 0 \/ unpacked > 0 \/ InvokeAt # {} => srights > 0
           /\ srights = 0 /\ NoticeAt = {} => queue = <<>>
           /\ queue # <<>> => srights > 0 \/ (Len(queue) = 1 /\ NoticeAt = {1})
  <1> USE DEF IInv
  <1>1. /\ rights \in Nat /\ passing \in Nat /\ unpacked \in Nat /\ srights \in Nat
        /\ queue \in Seq(PortMsg)
    BY DEF TypeOK
  <1>2. rights > 0 \/ passing > 0 \/ unpacked > 0 \/ InvokeAt # {} => srights > 0
    BY <1>1, Sizes, FS_EmptySet DEF RightInv
  <1>3. 1..Len(queue) = InvokeAt \cup NoticeAt /\ Len(queue) \in Nat
    <2>1. Len(queue) \in Nat /\ \A i \in 1..Len(queue) : queue[i] \in PortMsg BY <1>1
    <2>2. \A i \in 1..Len(queue) : queue[i].kind \in {"invoke", "no_senders"} BY <2>1 DEF PortMsg
    <2> QED BY <2>1, <2>2 DEF InvokeAt, NoticeAt, At
  <1>4. ASSUME srights = 0 PROVE Len(queue) <= 1 /\ (Len(queue) = 1 => NoticeAt = {1})
    <2>1. InvokeAt = {} BY <1>1, <1>2, <1>4
    <2>2. 1..Len(queue) = NoticeAt BY <1>3, <2>1
    <2>3. \A i, j \in 1..Len(queue) : i = j BY <2>2 DEF NoticeInv
    <2>4. Len(queue) <= 1 BY <1>3, <2>3
    <2> QED BY <1>3, <2>2, <2>4
  <1>5. Len(queue) = 0 <=> queue = <<>> BY <1>1
  <1>6. ASSUME srights = 0, NoticeAt = {} PROVE queue = <<>>
    <2>1. Len(queue) # 1 BY <1>4, <1>6
    <2> QED BY <1>3, <1>4, <1>5, <1>6, <2>1
  <1>7. ASSUME queue # <<>>, srights = 0 PROVE Len(queue) = 1 /\ NoticeAt = {1}
    <2>1. Len(queue) # 0 BY <1>5, <1>7
    <2>2. Len(queue) <= 1 BY <1>4, <1>7
    <2>3. Len(queue) \in Nat BY <1>3
    <2>4. ASSUME NEW n \in Nat, n # 0, n <= 1 PROVE n = 1 BY <2>4
    <2>5. Len(queue) = 1 BY <2>1, <2>2, <2>3, <2>4
    <2> QED BY <1>4, <1>7, <2>5
  <1> QED BY <1>1, <1>2, <1>6, <1>7

\* Whoever can still reach the object has it registered, and so alive.
LEMMA Kept ==
    ASSUME IInv
    PROVE  /\ srights > 0 \/ nsrequest \/ NoticeAt # {} \/ Believers # {} => registered
           /\ (\E e \in Exporters : epc[e] \in {"packed", "sending"}) => registered
           /\ registered => external_port = "live" /\ ref_cnt > 0
           /\ locals > 0 \/ (\E h \in Handlers : pc[h] \in {"has", "done"})
              \/ (\E e \in Exporters : epc[e] \in {"held", "packed"}) => ref_cnt > Bit(registered)
  <1> USE DEF IInv
  <1>1. /\ ref_cnt \in Nat /\ locals \in Nat /\ unknown \in Nat /\ srights \in Nat
        /\ external_port \in {"null", "live", "destroyed"}
        /\ pc \in [Handlers -> Places] /\ epc \in [Exporters -> ReplyPlaces]
    BY DEF TypeOK, Places, ReplyPlaces
  <1>2. registered => ref_cnt > 0 BY <1>1, Sizes DEF RefExact, Bit
  <1>3. registered => external_port = "live" BY <1>1, <1>2 DEF PortInv
  <1>4. external_port = "null" => NoticeAt = {} /\ Believers = {}
    BY DEF PortInv, NoticeAt, At, Believers, Noticed, Active
  <1>5. srights > 0 \/ nsrequest \/ NoticeAt # {} \/ Believers # {} => registered
    BY <1>1, <1>4 DEF PortInv, GoneInv
  <1>6. (\E e \in Exporters : epc[e] \in {"packed", "sending"}) => registered
    BY DEF PortInv, GoneInv
  <1>7. ASSUME NEW h \in Handlers, pc[h] \in {"has", "done"} PROVE Cardinality(Working) > 0
    <2>1. h \in Working /\ Working \subseteq Handlers BY <1>7 DEF Working
    <2>2. IsFiniteSet(Working) BY <2>1, BoundAssumption, FS_Subset
    <2>3. Cardinality(Working) # 0 BY <2>1, <2>2, FS_EmptySet
    <2> QED BY <2>3, Sizes
  <1>8. ASSUME NEW e \in Exporters, epc[e] \in {"held", "packed"} PROVE Cardinality(Holding) > 0
    <2>1. e \in Holding /\ Holding \subseteq Exporters BY <1>8 DEF Holding
    <2>2. IsFiniteSet(Holding) BY <2>1, BoundAssumption, FS_Subset
    <2>3. Cardinality(Holding) # 0 BY <2>1, <2>2, FS_EmptySet
    <2> QED BY <2>3, Sizes
  <1>9. locals > 0 \/ (\E h \in Handlers : pc[h] \in {"has", "done"})
        \/ (\E e \in Exporters : epc[e] \in {"held", "packed"}) => ref_cnt > Bit(registered)
    <2>1. locals > 0 \/ Cardinality(Working) > 0 \/ Cardinality(Holding) > 0
             => ref_cnt > Bit(registered)
      BY <1>1, Sizes DEF RefExact
    <2> QED BY <1>7, <1>8, <2>1
  <1> QED BY <1>2, <1>3, <1>5, <1>6, <1>9

\* dereference_proc by the holder of a reference: the last one finds the port
\* without senders and without messages.
LEMMA DereferenceSafe ==
    ASSUME IInv, Dereference(registered), ref_cnt > Bit(registered)
    PROVE  /\ ref_cnt' = ref_cnt - 1 /\ ref_cnt' \in Nat /\ (alive' <=> ref_cnt' > 0) /\ alive' \in BOOLEAN
           /\ registered' = registered /\ queue' = queue
           /\ external_port' \in {"null", "live", "destroyed"}
           /\ external_port' = "null" <=> external_port = "null"
           /\ external_port' = "destroyed" => ref_cnt' = 0
  <1> USE DEF IInv, Dereference
  <1>1. /\ ref_cnt \in Nat /\ ref_cnt > 0 /\ registered \in BOOLEAN /\ alive \in BOOLEAN
        /\ external_port \in {"null", "live", "destroyed"}
    BY Sizes DEF TypeOK
  <1>2. ref_cnt' = ref_cnt - 1 /\ ref_cnt' \in Nat /\ (alive' <=> ref_cnt' > 0) /\ alive' \in BOOLEAN
    <2>1. ref_cnt' = ref_cnt - 1 /\ alive' = (ref_cnt # 1) OBVIOUS
    <2>2. ref_cnt # 1 <=> ref_cnt' > 0 BY <1>1, <2>1
    <2>3. alive' \in BOOLEAN BY <2>1
    <2>4. ref_cnt' \in Nat BY <1>1, <2>1
    <2>5. alive' <=> ref_cnt' > 0 BY <2>1, <2>2, Zenon
    <2> QED BY <2>1, <2>3, <2>4, <2>5
  <1>3. CASE ref_cnt = 1 /\ external_port = "live"
    <2>1. ~registered BY <1>1, <1>3 DEF Bit
    <2>2. no_senders BY <1>3, <2>1 DEF PortInv
    <2>3. queue = <<>> BY <2>2, NoRights DEF GoneInv
    <2> QED BY <1>1, <1>2, <1>3, <2>1, <2>3
  <1>4. CASE ~(ref_cnt = 1 /\ external_port = "live")
    BY <1>1, <1>2, <1>4 DEF PortInv
  <1> QED BY <1>3, <1>4

-----------------------------------------------------------------------------
(* Replies that return the object.                                         *)

LEMMA TakeHolds ==
    ASSUME IInv, NEW e \in Exporters, Take(e)
    PROVE  IInv'
  <1> USE DEF IInv
  <1>0. /\ epc[e] = "start" /\ ref_cnt' = ref_cnt + 1 /\ epc' = [epc EXCEPT ![e] = "held"]
        /\ UNCHANGED <<alive, external_port, mscount, no_senders, next_seqno, registered, kernel,
                       pc, msg, locals, passing, unpacked, clients, unknown>>
    BY DEF Take
  <1>1. /\ epc' \in [Exporters -> ReplyPlaces] /\ epc'[e] = "held"
        /\ \A d \in Exporters \ {e} : epc'[d] = epc[d]
        /\ Count(epc', {"held", "packed"}) = Cardinality(Holding) + 1
        /\ Cardinality(Exported') = Cardinality(Exported) /\ Cardinality(Finished') = Cardinality(Finished)
    <2>1. "held" \in ReplyPlaces BY DEF ReplyPlaces
    <2>2. /\ Bit("held" \in {"held", "packed"}) = 1 /\ Bit(epc[e] \in {"held", "packed"}) = 0
          /\ Bit("held" \in {"packed", "sending", "done"}) = 0 /\ Bit("held" = "done") = 0
          /\ Bit(epc[e] \in {"packed", "sending", "done"}) = 0 /\ Bit(epc[e] = "done") = 0
      BY <1>0 DEF Bit
    <2>3. /\ epc' \in [Exporters -> ReplyPlaces] /\ epc'[e] = "held"
          /\ \A d \in Exporters \ {e} : epc'[d] = epc[d]
      BY <1>0, <2>1, ReplyMove
    <2>4. /\ Count(epc', {"held", "packed"}) = Cardinality(Holding) + 1 - 0
          /\ Cardinality(Exported') = Cardinality(Exported) + 0 - 0
          /\ Cardinality(Finished') = Cardinality(Finished) + 0 - 0
      BY <1>0, <2>1, <2>2, ReplyMove
    <2> QED BY <2>3, <2>4, Sizes
  <1>2. ref_cnt \in Nat /\ ref_cnt > 0
    <2>1. ref_cnt \in Nat /\ locals \in Nat BY DEF TypeOK
    <2>2. locals > 0 \/ \E h \in Handlers : pc[h] \in {"has", "done"} BY DEF Take
    <2>3. ref_cnt > Bit(registered) BY <2>2, Kept
    <2> QED BY <2>1, <2>3, Sizes
  <1>3. TypeOK' BY <1>0, <1>1, <1>2 DEF TypeOK, ReplyPlaces, kernel, clients
  <1>4. RefExact'
    <2>1. Counted' = Counted /\ Count(pc, {"has", "done"})' = Count(pc, {"has", "done"})
      BY <1>0 DEF Counted, Count
    <2>2. locals \in Nat /\ unknown \in Nat BY DEF TypeOK
    <2> QED BY <1>0, <1>1, <2>1, <2>2, Sizes DEF RefExact
  <1>5. PortInv'
    <2>1. alive /\ external_port # "destroyed" BY <1>2 DEF PortInv
    <2> QED BY <1>0, <1>1, <1>2, <2>1 DEF PortInv, kernel
  <1>6. MakeSendInv' BY <1>0, <1>1 DEF MakeSendInv, kernel, clients
  <1>7. RightInv' BY <1>0 DEF RightInv, kernel, clients, InvokeAt, At
  <1>8. SeqnoInv' BY <1>0 DEF SeqnoInv, kernel, Active
  <1>9. NoticeAt' = NoticeAt /\ Noticed' = Noticed /\ Believers' = Believers
    BY <1>0 DEF kernel, NoticeAt, At, Noticed, Believers, Active
  <1>10. NoticeInv' BY <1>0, <1>9 DEF NoticeInv, kernel
  <1>11. GoneInv' BY <1>0, <1>1, <1>9 DEF GoneInv, kernel
  <1> QED BY <1>3, <1>4, <1>5, <1>6, <1>7, <1>8, <1>10, <1>11

LEMMA GetTransferPortHolds ==
    ASSUME IInv, NEW e \in Exporters, GetTransferPort(e)
    PROVE  IInv'
  <1> USE DEF IInv
  <1>0. /\ epc[e] = "held" /\ epc' = [epc EXCEPT ![e] = "packed"]
        /\ UNCHANGED <<alive, srights, kmscount, seqno, queue, pc, msg, locals,
                       passing, unpacked, clients, unknown>>
    BY DEF GetTransferPort
  <1>1. /\ epc' \in [Exporters -> ReplyPlaces] /\ epc'[e] = "packed"
        /\ \A d \in Exporters \ {e} : epc'[d] = epc[d]
        /\ Count(epc', {"held", "packed"}) = Cardinality(Holding)
        /\ Cardinality(Exported') = Cardinality(Exported) + 1 /\ Cardinality(Finished') = Cardinality(Finished)
        /\ Cardinality(Exported') <= Cardinality(Exporters)
    <2>1. "packed" \in ReplyPlaces BY DEF ReplyPlaces
    <2>2. /\ Bit("packed" \in {"held", "packed"}) = 1 /\ Bit(epc[e] \in {"held", "packed"}) = 1
          /\ Bit("packed" \in {"packed", "sending", "done"}) = 1 /\ Bit("packed" = "done") = 0
          /\ Bit(epc[e] \in {"packed", "sending", "done"}) = 0 /\ Bit(epc[e] = "done") = 0
      BY <1>0 DEF Bit
    <2>3. /\ epc' \in [Exporters -> ReplyPlaces] /\ epc'[e] = "packed"
          /\ \A d \in Exporters \ {e} : epc'[d] = epc[d]
          /\ Cardinality(Exported') <= Cardinality(Exporters)
      BY <1>0, <2>1, ReplyMove
    <2>4. /\ Count(epc', {"held", "packed"}) = Cardinality(Holding) + 1 - 1
          /\ Cardinality(Exported') = Cardinality(Exported) + 1 - 0
          /\ Cardinality(Finished') = Cardinality(Finished) + 0 - 0
      BY <1>0, <2>1, <2>2, ReplyMove
    <2> QED BY <2>3, <2>4, Sizes
  <1>2. ref_cnt \in Nat /\ ref_cnt > 0
    <2>1. ref_cnt \in Nat BY DEF TypeOK
    <2>2. ref_cnt > Bit(registered) BY <1>0, Kept
    <2> QED BY <2>1, <2>2, Sizes
  <1>3. alive /\ external_port # "destroyed" BY <1>2 DEF PortInv
  <1>4. ASSUME external_port = "null" PROVE mscount = 0
    <2>1. Exported = {} BY <1>4 DEF PortInv, Exported
    <2> QED BY <2>1, FS_EmptySet DEF MakeSendInv
  <1>5. /\ mscount' = mscount + 1 /\ next_seqno' = next_seqno /\ ~no_senders'
        /\ external_port' = "live" /\ registered'
        /\ ref_cnt' = ref_cnt + 1 - Bit(registered)
        /\ IF external_port = "null" THEN nsrequest' ELSE nsrequest' = nsrequest
    <2>1. mscount \in Nat /\ external_port \in {"null", "live", "destroyed"} /\ no_senders \in BOOLEAN
      BY Sizes DEF TypeOK
    <2>2. CASE external_port # "null"
      <3>1. external_port = "live" BY <1>3, <2>1, <2>2
      <3>2. CASE no_senders
        <4>1. ~registered BY <3>2 DEF PortInv
        <4> QED BY <1>2, <2>2, <3>1, <3>2, <4>1 DEF GetTransferPort, Bit
      <3>3. CASE ~no_senders
        <4>1. registered BY <2>2, <3>3 DEF PortInv
        <4> QED BY <1>2, <2>2, <3>1, <3>3, <4>1 DEF GetTransferPort, Bit
      <3> QED BY <3>2, <3>3
    <2>3. CASE external_port = "null"
      <3>1. ~registered /\ next_seqno = 0 BY <2>3 DEF PortInv
      <3> QED BY <1>2, <1>4, <2>3, <3>1 DEF GetTransferPort, Bit
    <2> QED BY <2>2, <2>3
  <1>6. ref_cnt' \in Nat /\ ref_cnt' > 0 BY <1>2, <1>5, Sizes
  <1>7. TypeOK'
    <2>1. mscount' \in 0..Cardinality(Exporters)
      BY <1>1, <1>5, Sizes DEF MakeSendInv
    <2>2. registered' \in BOOLEAN /\ no_senders' \in BOOLEAN /\ nsrequest' \in BOOLEAN
      <3>1. registered' = TRUE /\ no_senders' = FALSE /\ (nsrequest' = TRUE \/ nsrequest' = nsrequest)
        BY <1>3, <1>5 DEF GetTransferPort, TypeOK, PortInv
      <3> QED BY <3>1 DEF TypeOK
    <2> QED BY <1>0, <1>1, <1>5, <1>6, <2>1, <2>2 DEF TypeOK, ReplyPlaces, clients
  <1>8. RefExact'
    <2>1. Counted' = Counted /\ Count(pc, {"has", "done"})' = Count(pc, {"has", "done"})
      BY <1>0, <1>5 DEF Counted, Count
    <2>2. locals \in Nat /\ unknown \in Nat BY DEF TypeOK
    <2>3. Bit(registered') = 1 BY <1>5 DEF Bit
    <2>4. ref_cnt' = locals' + Count(epc', {"held", "packed"}) + 1
                     + Count(pc', {"has", "done"}) + Cardinality(Counted') + unknown'
      BY <1>0, <1>1, <1>5, <2>1, <2>2, Sizes DEF RefExact
    <2> QED BY <2>3, <2>4 DEF RefExact
  <1>9. PortInv' BY <1>0, <1>3, <1>5, <1>6 DEF PortInv
  <1>10. MakeSendInv' BY <1>0, <1>1, <1>5 DEF MakeSendInv, clients
  <1>11. RightInv' BY <1>0 DEF RightInv, clients, InvokeAt, At
  <1>12. SeqnoInv' BY <1>0, <1>5 DEF SeqnoInv, Active
  <1>13. NoticeInv'
    <2>1. NoticeAt' = NoticeAt /\ Noticed' = Noticed /\ Believers' = Believers
      BY <1>0 DEF NoticeAt, At, Noticed, Believers, Active
    <2>2. CASE external_port = "null"
      <3>1. NoticeAt = {} /\ Noticed = {} /\ Believers = {}
        BY <2>2 DEF PortInv, NoticeAt, At, Noticed, Believers, Active
      <3> QED BY <2>1, <3>1 DEF NoticeInv
    <2>3. CASE external_port # "null" BY <1>0, <1>5, <2>1, <2>3 DEF NoticeInv
    <2> QED BY <2>2, <2>3
  <1>14. GoneInv' BY <1>5 DEF GoneInv
  <1> QED BY <1>7, <1>8, <1>9, <1>10, <1>11, <1>12, <1>13, <1>14

LEMMA PackDereferenceHolds ==
    ASSUME IInv, NEW e \in Exporters, PackDereference(e)
    PROVE  IInv'
  <1> USE DEF IInv
  <1>0. /\ epc[e] = "packed" /\ epc' = [epc EXCEPT ![e] = "sending"] /\ Dereference(registered)
        /\ UNCHANGED <<mscount, no_senders, next_seqno, srights, kmscount, nsrequest,
                       seqno, pc, msg, locals, passing, unpacked, clients, unknown>>
    BY DEF PackDereference
  <1>1. /\ epc' \in [Exporters -> ReplyPlaces] /\ epc'[e] = "sending"
        /\ \A d \in Exporters \ {e} : epc'[d] = epc[d]
        /\ Count(epc', {"held", "packed"}) = Cardinality(Holding) - 1
        /\ Cardinality(Exported') = Cardinality(Exported) /\ Cardinality(Finished') = Cardinality(Finished)
    <2>1. "sending" \in ReplyPlaces BY DEF ReplyPlaces
    <2>2. /\ Bit("sending" \in {"held", "packed"}) = 0 /\ Bit(epc[e] \in {"held", "packed"}) = 1
          /\ Bit("sending" \in {"packed", "sending", "done"}) = 1 /\ Bit("sending" = "done") = 0
          /\ Bit(epc[e] \in {"packed", "sending", "done"}) = 1 /\ Bit(epc[e] = "done") = 0
      BY <1>0 DEF Bit
    <2>3. /\ epc' \in [Exporters -> ReplyPlaces] /\ epc'[e] = "sending"
          /\ \A d \in Exporters \ {e} : epc'[d] = epc[d]
      BY <1>0, <2>1, ReplyMove
    <2>4. /\ Count(epc', {"held", "packed"}) = Cardinality(Holding) + 0 - 1
          /\ Cardinality(Exported') = Cardinality(Exported) + 1 - 1
          /\ Cardinality(Finished') = Cardinality(Finished) + 0 - 0
      BY <1>0, <2>1, <2>2, ReplyMove
    <2> QED BY <2>3, <2>4, Sizes
  <1>2. registered /\ external_port = "live" BY <1>0, Kept
  <1>3. /\ ref_cnt' = ref_cnt - 1 /\ ref_cnt' \in Nat /\ (alive' <=> ref_cnt' > 0) /\ alive' \in BOOLEAN
        /\ registered' = registered /\ queue' = queue
        /\ external_port' \in {"null", "live", "destroyed"}
        /\ external_port' # "null" /\ (external_port' = "destroyed" => ref_cnt' = 0)
    <2>1. ref_cnt > Bit(registered) BY <1>0, Kept
    <2> QED BY <1>0, <1>2, <2>1, DereferenceSafe
  <1>4. TypeOK' BY <1>0, <1>1, <1>3 DEF TypeOK, ReplyPlaces, clients
  <1>5. RefExact'
    <2>1. Counted' = Counted /\ Count(pc, {"has", "done"})' = Count(pc, {"has", "done"})
      BY <1>0 DEF Counted, Count
    <2>2. locals \in Nat /\ unknown \in Nat BY DEF TypeOK
    <2> QED BY <1>0, <1>1, <1>3, <2>1, <2>2, Sizes DEF RefExact
  <1>6. PortInv' BY <1>0, <1>2, <1>3 DEF PortInv
  <1>7. MakeSendInv' BY <1>0, <1>1 DEF MakeSendInv, clients
  <1>8. RightInv' BY <1>0, <1>3 DEF RightInv, clients, InvokeAt, At
  <1>9. SeqnoInv' BY <1>0 DEF SeqnoInv, Active
  <1>10. NoticeAt' = NoticeAt /\ Noticed' = Noticed /\ Believers' = Believers
    BY <1>0, <1>3 DEF NoticeAt, At, Noticed, Believers, Active
  <1>11. NoticeInv' BY <1>0, <1>3, <1>10 DEF NoticeInv
  <1>12. GoneInv' BY <1>0, <1>2 DEF GoneInv, PortInv
  <1> QED BY <1>4, <1>5, <1>6, <1>7, <1>8, <1>9, <1>11, <1>12

\* A reply leaves "sending", with or without a send right made.
LEMMA ReplySent ==
    ASSUME IInv, NEW e \in Exporters, epc[e] = "sending", epc' = [epc EXCEPT ![e] = "done"]
    PROVE  /\ epc' \in [Exporters -> ReplyPlaces]
           /\ Count(epc', {"held", "packed"}) = Count(epc, {"held", "packed"})
           /\ Cardinality(Exported') = Cardinality(Exported)
           /\ Cardinality(Finished') = Cardinality(Finished) + 1
           /\ Cardinality(Finished') <= Cardinality(Exporters)
           /\ registered /\ ~no_senders /\ external_port = "live"
  <1> USE DEF IInv
  <1>1. PICK v \in ReplyPlaces : v = "done" BY DEF ReplyPlaces
  <1>2. /\ Bit(v \in {"held", "packed"}) = 0 /\ Bit(epc[e] \in {"held", "packed"}) = 0
        /\ Bit(v \in {"packed", "sending", "done"}) = 1 /\ Bit(v = "done") = 1
        /\ Bit(epc[e] \in {"packed", "sending", "done"}) = 1 /\ Bit(epc[e] = "done") = 0
    BY <1>1 DEF Bit
  <1>3. /\ epc' \in [Exporters -> ReplyPlaces]
        /\ Cardinality(Finished') <= Cardinality(Exporters)
    BY <1>1, ReplyMove
  <1>4. /\ Count(epc', {"held", "packed"}) = Cardinality(Holding) + 0 - 0
        /\ Cardinality(Exported') = Cardinality(Exported) + 1 - 1
        /\ Cardinality(Finished') = Cardinality(Finished) + 1 - 0
    <2>1. /\ Count(epc', {"held", "packed"}) = Cardinality(Holding')
          /\ Cardinality(Holding') = Cardinality(Holding) + Bit(v \in {"held", "packed"})
                                     - Bit(epc[e] \in {"held", "packed"})
      BY <1>1, ReplyMove
    <2>2. Cardinality(Exported') = Cardinality(Exported) + Bit(v \in {"packed", "sending", "done"})
                                   - Bit(epc[e] \in {"packed", "sending", "done"})
      BY <1>1, ReplyMove
    <2>3. Cardinality(Finished') = Cardinality(Finished) + Bit(v = "done") - Bit(epc[e] = "done")
      BY <1>1, ReplyMove
    <2> QED BY <1>2, <2>1, <2>2, <2>3
  <1>5. registered /\ external_port = "live" BY Kept
  <1>6. ~no_senders BY <1>5 DEF PortInv
  <1> QED BY <1>3, <1>4, <1>5, <1>6, Sizes

LEMMA SendReplyHolds ==
    ASSUME IInv, NEW e \in Exporters, SendReply(e)
    PROVE  IInv'
  <1> USE DEF IInv
  <1>0. /\ epc[e] = "sending" /\ epc' = [epc EXCEPT ![e] = "done"]
        /\ srights' = srights + 1 /\ kmscount' = kmscount + 1 /\ rights' = rights + 1
        /\ UNCHANGED <<object, nsrequest, seqno, queue, pc, msg, locals, passing,
                       unpacked, sends, passes, fails, unknown>>
    BY DEF SendReply
  <1>1. /\ epc' \in [Exporters -> ReplyPlaces]
        /\ Count(epc', {"held", "packed"}) = Count(epc, {"held", "packed"})
        /\ Cardinality(Exported') = Cardinality(Exported)
        /\ Cardinality(Finished') = Cardinality(Finished) + 1
        /\ Cardinality(Finished') <= Cardinality(Exporters)
        /\ registered /\ ~no_senders /\ external_port = "live"
    BY <1>0, ReplySent
  <1>2. kmscount \in Nat /\ fails \in Nat /\ srights \in Nat /\ rights \in Nat
        /\ passing \in Nat /\ unpacked \in Nat
    BY Sizes, BoundAssumption DEF TypeOK
  <1>3. kmscount' + fails' = Cardinality(Finished') BY <1>0, <1>1, <1>2, Sizes DEF MakeSendInv
  <1>4. TypeOK'
    <2>1. kmscount' \in 0..Cardinality(Exporters) BY <1>0, <1>1, <1>2, <1>3, Sizes
    <2> QED BY <1>0, <1>1, <2>1 DEF TypeOK, ReplyPlaces, object
  <1>5. RefExact'
    <2>1. Counted' = Counted /\ Count(pc, {"has", "done"})' = Count(pc, {"has", "done"})
      BY <1>0 DEF Counted, Count, object
    <2> QED BY <1>0, <1>1, <2>1 DEF RefExact, object
  <1>6. PortInv' BY <1>0, <1>1 DEF PortInv, object
  <1>7. MakeSendInv' BY <1>0, <1>1, <1>3 DEF MakeSendInv, object
  <1>8. RightInv'
    <2>1. InvokeAt' = InvokeAt BY <1>0 DEF InvokeAt, At
    <2> QED BY <1>0, <1>2, <2>1, Sizes DEF RightInv
  <1>9. SeqnoInv' BY <1>0 DEF SeqnoInv, Active, object
  <1>10. NoticeInv'
    <2>1. NoticeAt' = NoticeAt /\ Noticed' = Noticed /\ Believers' = Believers
      BY <1>0 DEF NoticeAt, At, Noticed, Believers, Active
    <2>2. \A i \in NoticeAt : queue[i].count \in Nat
      <3>1. queue \in Seq(PortMsg) BY DEF TypeOK
      <3>2. \A i \in 1..Len(queue) : queue[i] \in PortMsg BY <3>1
      <3> QED BY <3>2 DEF NoticeAt, At, PortMsg
    <2>3. \A h \in Believers : msg[h].count \in Nat
      BY DEF TypeOK, Believers, Noticed, Active, HandlerMsg
    <2>4. \A i \in NoticeAt : queue[i].count <= kmscount + 1 /\ queue[i].count # kmscount + 1
      BY <1>2, <2>2 DEF NoticeInv
    <2>5. \A h \in Believers : msg[h].count <= kmscount + 1 /\ msg[h].count # kmscount + 1
      BY <1>2, <2>3 DEF NoticeInv
    <2> QED BY <1>0, <2>1, <2>4, <2>5 DEF NoticeInv
  <1>11. GoneInv' BY <1>0, <1>1 DEF GoneInv, object
  <1> QED BY <1>4, <1>5, <1>6, <1>7, <1>8, <1>9, <1>10, <1>11

LEMMA SendReplyFailsHolds ==
    ASSUME IInv, NEW e \in Exporters, SendReplyFails(e)
    PROVE  IInv'
  <1> USE DEF IInv
  <1>0. /\ epc[e] = "sending" /\ epc' = [epc EXCEPT ![e] = "done"]
        /\ fails < MaxFails /\ fails' = fails + 1
        /\ UNCHANGED <<object, kernel, pc, msg, locals, passing, unpacked, rights,
                       sends, passes, unknown>>
    BY DEF SendReplyFails
  <1>1. /\ epc' \in [Exporters -> ReplyPlaces]
        /\ Count(epc', {"held", "packed"}) = Count(epc, {"held", "packed"})
        /\ Cardinality(Exported') = Cardinality(Exported)
        /\ Cardinality(Finished') = Cardinality(Finished) + 1
        /\ registered /\ ~no_senders /\ external_port = "live"
    BY <1>0, ReplySent
  <1>2. kmscount \in Nat /\ fails \in Nat BY Sizes, BoundAssumption DEF TypeOK
  <1>4. TypeOK'
    <2>1. fails' \in 0..MaxFails BY <1>0, <1>2, BoundAssumption
    <2> QED BY <1>0, <1>1, <2>1 DEF TypeOK, ReplyPlaces, object, kernel
  <1>5. RefExact'
    <2>1. Counted' = Counted /\ Count(pc, {"has", "done"})' = Count(pc, {"has", "done"})
      BY <1>0 DEF Counted, Count, object
    <2> QED BY <1>0, <1>1, <2>1 DEF RefExact, object
  <1>6. PortInv' BY <1>0, <1>1 DEF PortInv, object, kernel
  <1>7. MakeSendInv' BY <1>0, <1>1, <1>2, Sizes DEF MakeSendInv, object, kernel
  <1>8. RightInv' BY <1>0 DEF RightInv, InvokeAt, At, kernel
  <1>9. SeqnoInv' BY <1>0 DEF SeqnoInv, Active, object, kernel
  <1>10. NoticeAt' = NoticeAt /\ Noticed' = Noticed /\ Believers' = Believers
    BY <1>0 DEF NoticeAt, At, Noticed, Believers, Active, kernel
  <1>11. NoticeInv' BY <1>0, <1>10 DEF NoticeInv, kernel
  <1>12. GoneInv' BY <1>0, <1>1 DEF GoneInv, object
  <1> QED BY <1>4, <1>5, <1>6, <1>7, <1>8, <1>9, <1>11, <1>12

-----------------------------------------------------------------------------
(* Other references of the server, and the clients.                        *)

LEMMA LocalDereferenceHolds ==
    ASSUME IInv, LocalDereference
    PROVE  IInv'
  <1> USE DEF IInv
  <1>0. /\ locals > 0 /\ locals' = locals - 1 /\ Dereference(registered)
        /\ UNCHANGED <<mscount, no_senders, next_seqno, srights, kmscount, nsrequest,
                       seqno, pc, msg, epc, passing, unpacked, clients, unknown>>
    BY DEF LocalDereference
  <1>1. /\ ref_cnt' = ref_cnt - 1 /\ ref_cnt' \in Nat /\ (alive' <=> ref_cnt' > 0) /\ alive' \in BOOLEAN
        /\ registered' = registered /\ queue' = queue
        /\ external_port' \in {"null", "live", "destroyed"}
        /\ external_port' = "null" <=> external_port = "null"
        /\ external_port' = "destroyed" => ref_cnt' = 0
    <2>1. ref_cnt > Bit(registered) BY <1>0, Kept
    <2> QED BY <1>0, <2>1, DereferenceSafe
  <1>2. locals \in Nat /\ unknown \in Nat BY DEF TypeOK
  <1>3. TypeOK'
    <2>1. locals' \in Nat BY <1>0, <1>2
    <2> QED BY <1>0, <1>1, <2>1 DEF TypeOK, clients
  <1>4. RefExact'
    <2>1. /\ Counted' = Counted /\ Count(pc, {"has", "done"})' = Count(pc, {"has", "done"})
          /\ Count(epc, {"held", "packed"})' = Count(epc, {"held", "packed"})
      BY <1>0 DEF Counted, Count
    <2> QED BY <1>0, <1>1, <1>2, <2>1, Sizes DEF RefExact
  <1>5. PortInv' BY <1>0, <1>1 DEF PortInv
  <1>6. MakeSendInv' BY <1>0 DEF MakeSendInv, clients, Exported, Finished
  <1>7. RightInv' BY <1>0, <1>1 DEF RightInv, clients, InvokeAt, At
  <1>8. SeqnoInv' BY <1>0 DEF SeqnoInv, Active
  <1>9. NoticeAt' = NoticeAt /\ Noticed' = Noticed /\ Believers' = Believers
    BY <1>0, <1>1 DEF NoticeAt, At, Noticed, Believers, Active
  <1>10. NoticeInv' BY <1>0, <1>1, <1>9 DEF NoticeInv
  <1>11. GoneInv' BY <1>0, <1>9 DEF GoneInv
  <1> QED BY <1>3, <1>4, <1>5, <1>6, <1>7, <1>8, <1>10, <1>11

LEMMA UnpackLookupHolds ==
    ASSUME IInv, UnpackLookup
    PROVE  IInv'
  <1> USE DEF IInv
  <1>0. /\ passing > 0 /\ registered /\ ref_cnt' = ref_cnt + 1 /\ locals' = locals + 1
        /\ passing' = passing - 1 /\ unpacked' = unpacked + 1
        /\ UNCHANGED <<alive, external_port, mscount, no_senders, next_seqno, registered,
                       kernel, pc, msg, epc, clients, unknown>>
    BY DEF UnpackLookup
  <1>1. /\ ref_cnt \in Nat /\ locals \in Nat /\ unknown \in Nat /\ passing \in Nat /\ unpacked \in Nat
        /\ rights \in Nat
    BY DEF TypeOK
  <1>2. external_port = "live" /\ ref_cnt > 0 BY <1>0, Kept
  <1>3. TypeOK'
    <2>1. passing' \in Nat BY <1>0, <1>1
    <2> QED BY <1>0, <1>1, <2>1 DEF TypeOK, clients, kernel
  <1>4. RefExact'
    <2>1. /\ Counted' = Counted /\ Count(pc, {"has", "done"})' = Count(pc, {"has", "done"})
          /\ Count(epc, {"held", "packed"})' = Count(epc, {"held", "packed"})
      BY <1>0 DEF Counted, Count
    <2>2. Bit(registered') = Bit(registered) BY <1>0 DEF Bit
    <2>3. ref_cnt' = ref_cnt + 1 /\ locals' = locals + 1 /\ unknown' = unknown BY <1>0
    <2> QED BY <1>1, <2>1, <2>2, <2>3, Sizes DEF RefExact
  <1>5. PortInv'
    <2>1. alive' /\ ref_cnt' > 0 BY <1>0, <1>1, <1>2 DEF PortInv
    <2> QED BY <1>0, <1>2, <2>1 DEF PortInv
  <1>6. MakeSendInv' BY <1>0 DEF MakeSendInv, clients, Exported, Finished, kernel
  <1>7. RightInv'
    <2>1. InvokeAt' = InvokeAt BY <1>0 DEF InvokeAt, At, kernel
    <2> QED BY <1>0, <1>1, <2>1, Sizes DEF RightInv, kernel, clients
  <1>8. SeqnoInv' BY <1>0 DEF SeqnoInv, Active, kernel
  <1>9. NoticeAt' = NoticeAt /\ Noticed' = Noticed /\ Believers' = Believers
    BY <1>0 DEF NoticeAt, At, Noticed, Believers, Active, kernel
  <1>10. NoticeInv' BY <1>0, <1>9 DEF NoticeInv, kernel
  <1>11. GoneInv' BY <1>0, <1>9 DEF GoneInv, kernel
  <1> QED BY <1>3, <1>4, <1>5, <1>6, <1>7, <1>8, <1>10, <1>11

\* While there is a send right, a notification under way is out of date.
LEMMA Stale ==
    ASSUME IInv, srights > 0
    PROVE  /\ \A i \in NoticeAt : queue[i].count # kmscount
           /\ \A h \in Believers : msg[h].count # kmscount
           /\ external_port = "live" /\ ~no_senders /\ registered
  <1> USE DEF IInv
  <1>1. srights # 0 BY DEF TypeOK
  <1>2. registered /\ external_port = "live" BY Kept
  <1> QED BY <1>1, <1>2 DEF NoticeInv, PortInv

LEMMA PassBackHolds ==
    ASSUME IInv, PassBack
    PROVE  IInv'
  <1> USE DEF IInv
  <1>0. /\ rights > 0 /\ passes < MaxPasses /\ passes' = passes + 1
        /\ srights' = srights + 1 /\ passing' = passing + 1
        /\ UNCHANGED <<object, kmscount, nsrequest, seqno, queue, pc, msg, epc, locals,
                       unpacked, rights, sends, fails, unknown>>
    BY DEF PassBack
  <1>1. srights \in Nat /\ passing \in Nat /\ unpacked \in Nat /\ rights \in Nat /\ passes \in Nat
    BY BoundAssumption DEF TypeOK
  <1>2. /\ \A i \in NoticeAt : queue[i].count # kmscount
        /\ \A h \in Believers : msg[h].count # kmscount
        /\ external_port = "live" /\ ~no_senders
    BY <1>0, NoRights, Stale
  <1>3. TypeOK'
    <2>1. passes' \in 0..MaxPasses BY <1>0, <1>1, BoundAssumption
    <2> QED BY <1>0, <1>1, <2>1 DEF TypeOK, object
  <1>4. RefExact' BY <1>0 DEF RefExact, object, Counted, Count
  <1>5. PortInv' BY <1>0, <1>2 DEF PortInv, object
  <1>6. MakeSendInv' BY <1>0 DEF MakeSendInv, Exported, Finished, object
  <1>7. RightInv'
    <2>1. InvokeAt' = InvokeAt BY <1>0 DEF InvokeAt, At
    <2> QED BY <1>0, <1>1, <2>1, Sizes DEF RightInv
  <1>8. SeqnoInv' BY <1>0 DEF SeqnoInv, Active, object
  <1>9. NoticeAt' = NoticeAt /\ Noticed' = Noticed /\ Believers' = Believers
    BY <1>0 DEF NoticeAt, At, Noticed, Believers, Active
  <1>10. NoticeInv' BY <1>0, <1>2, <1>9 DEF NoticeInv
  <1>11. GoneInv' BY <1>0, <1>2 DEF GoneInv, object
  <1> QED BY <1>3, <1>4, <1>5, <1>6, <1>7, <1>8, <1>10, <1>11

LEMMA ClientSendHolds ==
    ASSUME IInv, ClientSend
    PROVE  IInv'
  <1> USE DEF IInv
  <1>0. /\ rights > 0 /\ sends < MaxSends /\ sends' = sends + 1
        /\ srights' = srights + 1 /\ queue' = Append(queue, InvokeMsg)
        /\ UNCHANGED <<object, kmscount, nsrequest, seqno, threads, rights, passes, fails, unknown>>
    BY DEF ClientSend
  <1>1. /\ srights \in Nat /\ passing \in Nat /\ unpacked \in Nat /\ rights \in Nat /\ sends \in Nat
        /\ queue \in Seq(PortMsg)
    BY BoundAssumption DEF TypeOK
  <1>2. /\ \A i \in NoticeAt : queue[i].count # kmscount
        /\ \A h \in Believers : msg[h].count # kmscount
        /\ external_port = "live" /\ ~no_senders
    BY <1>0, NoRights, Stale
  <1>3. InvokeMsg \in PortMsg /\ InvokeMsg.kind = "invoke" BY DEF InvokeMsg, PortMsg
  <1>4. TypeOK'
    <2>1. sends' \in 0..MaxSends BY <1>0, <1>1, BoundAssumption
    <2>2. queue' \in Seq(PortMsg) BY <1>0, <1>1, <1>3
    <2> QED BY <1>0, <1>1, <2>1, <2>2 DEF TypeOK, object, threads
  <1>5. RefExact' BY <1>0 DEF RefExact, object, Counted, Count, threads
  <1>6. PortInv' BY <1>0, <1>2 DEF PortInv, object
  <1>7. MakeSendInv' BY <1>0 DEF MakeSendInv, Exported, Finished, object, threads
  <1>8. RightInv'
    <2>1. Bit(InvokeMsg.kind = "invoke") = 1 BY <1>3 DEF Bit
    <2>2. InvokeAt' = At(Append(queue, InvokeMsg), "invoke") BY <1>0 DEF InvokeAt, At
    <2>3. Cardinality(InvokeAt') = Cardinality(InvokeAt) + 1
      BY <1>1, <1>3, <2>1, <2>2, AppendAt DEF InvokeAt
    <2> QED BY <1>0, <1>1, <2>3, Sizes DEF RightInv, threads
  <1>9. SeqnoInv' BY <1>0 DEF SeqnoInv, Active, object, threads
  <1>10. /\ NoticeAt' = NoticeAt /\ Noticed' = Noticed /\ Believers' = Believers
         /\ \A i \in NoticeAt : queue'[i] = queue[i]
    <2>1. NoticeAt' = At(Append(queue, InvokeMsg), "no_senders") BY <1>0 DEF NoticeAt, At
    <2>2. NoticeAt' = NoticeAt BY <1>1, <1>3, <2>1, AppendAt DEF NoticeAt
    <2>3. \A i \in 1..Len(queue) : queue'[i] = queue[i] BY <1>0, <1>1, <1>3
    <2> QED BY <1>0, <2>2, <2>3 DEF NoticeAt, At, Noticed, Believers, Active, threads
  <1>11. NoticeInv' BY <1>0, <1>2, <1>10 DEF NoticeInv, threads
  <1>12. GoneInv' BY <1>0, <1>2 DEF GoneInv, object
  <1> QED BY <1>4, <1>5, <1>6, <1>7, <1>8, <1>9, <1>11, <1>12

\* One send right goes while q is queued, and with the last the notification of
\* the kernel's present count.
LEMMA Released ==
    ASSUME IInv, NEW q \in Seq(PortMsg), ReleaseRight(q), srights > 0,
           \A i \in At(q, "no_senders") : \E j \in NoticeAt : q[i] = queue[j],
           \A i, j \in At(q, "no_senders") : i = j
    PROVE  /\ srights' = srights - 1 /\ srights' \in Nat /\ nsrequest' \in BOOLEAN
           /\ queue' \in Seq(PortMsg) /\ Cardinality(InvokeAt') = Cardinality(At(q, "invoke"))
           /\ nsrequest' => nsrequest /\ NoticeAt' = {}
           /\ NoticeAt' # {} => Noticed = {}
           /\ \A i, j \in NoticeAt' : i = j
           /\ \A i \in NoticeAt' : /\ queue'[i].count <= kmscount
                                   /\ queue'[i].count = kmscount => srights' = 0
  <1> USE DEF IInv
  <1>1. srights \in Nat /\ kmscount \in Nat /\ nsrequest \in BOOLEAN BY Sizes DEF TypeOK
  <1>2. srights' = srights - 1 /\ srights' \in Nat BY <1>1 DEF ReleaseRight
  <1>3. At(q, "no_senders") # {} => NoticeAt # {} OBVIOUS
  <1>4. \A i \in At(q, "no_senders") : q[i].count <= kmscount /\ q[i].count # kmscount
    BY Stale DEF NoticeInv
  <1>5. CASE srights = 1 /\ nsrequest
    <2> DEFINE m == NoSendersMsg(kmscount)
    <2>1. nsrequest' = FALSE /\ queue' = Append(q, m) BY <1>5 DEF ReleaseRight
    <2>2. m \in PortMsg /\ m.kind = "no_senders" /\ m.count = kmscount
      BY <1>1 DEF NoSendersMsg, PortMsg
    <2> HIDE DEF m
    <2>3. NoticeAt = {} /\ Noticed = {} BY <1>5 DEF NoticeInv
    <2>4. At(q, "no_senders") = {} BY <1>3, <2>3
    <2>5. queue' \in Seq(PortMsg) /\ queue'[Len(q) + 1] = m BY <2>1, <2>2
    <2>6. NoticeAt' = At(Append(q, m), "no_senders") /\ InvokeAt' = At(Append(q, m), "invoke")
      BY <2>1 DEF NoticeAt, InvokeAt, At
    <2>7. NoticeAt' = {Len(q) + 1} BY <2>2, <2>4, <2>6, AppendAt
    <2>8. InvokeAt' = At(q, "invoke") BY <2>2, <2>6, AppendAt
    <2>9. srights' = 0 BY <1>2, <1>5
    <2>10. \A i \in NoticeAt' : queue'[i].count <= kmscount BY <1>1, <2>2, <2>5, <2>7
    <2> QED BY <1>2, <2>1, <2>3, <2>5, <2>7, <2>8, <2>9, <2>10
  <1>6. CASE ~(srights = 1 /\ nsrequest)
    <2>1. nsrequest' = nsrequest /\ queue' = q BY <1>6 DEF ReleaseRight
    <2>2. NoticeAt' = At(q, "no_senders") /\ InvokeAt' = At(q, "invoke")
      BY <2>1 DEF NoticeAt, InvokeAt, At
    <2>3. nsrequest' => NoticeAt' = {} BY <1>3, <2>1, <2>2 DEF NoticeInv
    <2>4. NoticeAt' # {} => Noticed = {} BY <1>3, <2>2 DEF NoticeInv
    <2> QED BY <1>1, <1>2, <1>4, <2>1, <2>2, <2>3, <2>4
  <1> QED BY <1>5, <1>6

\* A right that is given back, by a client or by the server itself.
LEMMA ReleasedIdle ==
    ASSUME IInv, ReleaseRight(queue), srights > 0,
           UNCHANGED <<object, kmscount, seqno, pc, msg, epc, locals, sends, passes, fails, unknown>>,
           rights' \in Nat, passing' \in Nat, unpacked' \in Nat,
           rights' + passing' + unpacked' = rights + passing + unpacked - 1
    PROVE  IInv'
  <1> USE DEF IInv
  <1>1. queue \in Seq(PortMsg) /\ rights \in Nat /\ passing \in Nat /\ unpacked \in Nat BY DEF TypeOK
  <1>2. /\ \A i \in At(queue, "no_senders") : \E j \in NoticeAt : queue[i] = queue[j]
        /\ \A i, j \in At(queue, "no_senders") : i = j
    BY DEF NoticeInv, NoticeAt
  <1>3. /\ srights' = srights - 1 /\ srights' \in Nat /\ nsrequest' \in BOOLEAN
        /\ queue' \in Seq(PortMsg) /\ Cardinality(InvokeAt') = Cardinality(InvokeAt)
        /\ nsrequest' => nsrequest /\ NoticeAt' = {}
        /\ NoticeAt' # {} => Noticed = {}
        /\ \A i, j \in NoticeAt' : i = j
        /\ \A i \in NoticeAt' : /\ queue'[i].count <= kmscount
                                /\ queue'[i].count = kmscount => srights' = 0
    BY <1>1, <1>2, Released DEF InvokeAt
  <1>4. /\ \A h \in Believers : msg[h].count # kmscount
        /\ external_port = "live" /\ ~no_senders
    BY Stale
  <1>5. TypeOK' BY <1>3 DEF TypeOK, object
  <1>6. RefExact' BY DEF RefExact, object, Counted, Count
  <1>7. PortInv' BY <1>4 DEF PortInv, object
  <1>8. MakeSendInv' BY DEF MakeSendInv, Exported, Finished, object
  <1>9. RightInv' BY <1>1, <1>3, Sizes DEF RightInv
  <1>10. SeqnoInv' BY DEF SeqnoInv, Active, object
  <1>11. Noticed' = Noticed /\ Believers' = Believers BY DEF Noticed, Believers, Active
  <1>12. NoticeInv'
    <2>1. nsrequest' => NoticeAt' = {} /\ Noticed' = {} BY <1>3, <1>11 DEF NoticeInv
    <2> QED BY <1>3, <1>4, <1>11, <2>1 DEF NoticeInv
  <1>13. GoneInv' BY <1>4 DEF GoneInv, object
  <1> QED BY <1>5, <1>6, <1>7, <1>8, <1>9, <1>10, <1>12, <1>13

LEMMA UnpackDeallocateHolds ==
    ASSUME IInv, UnpackDeallocate
    PROVE  IInv'
  <1>1. rights \in Nat /\ passing \in Nat /\ unpacked \in Nat /\ unpacked > 0
    BY DEF IInv, TypeOK, UnpackDeallocate
  <1>2. /\ rights' \in Nat /\ passing' \in Nat /\ unpacked' \in Nat
        /\ rights' + passing' + unpacked' = rights + passing + unpacked - 1
    BY <1>1 DEF UnpackDeallocate, clients
  <1>3. srights > 0 BY <1>1, NoRights
  <1> QED BY <1>2, <1>3, ReleasedIdle DEF UnpackDeallocate, clients

LEMMA ClientDropHolds ==
    ASSUME IInv, ClientDrop
    PROVE  IInv'
  <1>1. rights \in Nat /\ passing \in Nat /\ unpacked \in Nat /\ rights > 0
    BY DEF IInv, TypeOK, ClientDrop
  <1>2. /\ rights' \in Nat /\ passing' \in Nat /\ unpacked' \in Nat
        /\ rights' + passing' + unpacked' = rights + passing + unpacked - 1
    BY <1>1 DEF ClientDrop, threads
  <1>3. srights > 0 BY <1>1, NoRights
  <1> QED BY <1>2, <1>3, ReleasedIdle DEF ClientDrop, threads

-----------------------------------------------------------------------------
(* The handlers.                                                           *)

\* A handler between its lookup and the end of its work: nothing is counted anew.
LEMMA HandlerWorks ==
    ASSUME IInv, NEW h \in Handlers, pc[h] = "has", pc' = [pc EXCEPT ![h] = "done"],
           UNCHANGED <<msg, next_seqno, seqno>>
    PROVE  /\ pc' \in [Handlers -> Places] /\ pc'[h] = "done" /\ \A g \in Handlers \ {h} : pc'[g] = pc[g]
           /\ Count(pc', {"has", "done"}) = Count(pc, {"has", "done"})
           /\ Cardinality(Counted') = Cardinality(Counted)
           /\ \A g \in Handlers : IF pc'[g] = "idle" THEN msg'[g] = NoMsg ELSE msg'[g] \in HandlerMsg
           /\ SeqnoInv' /\ Noticed' = Noticed /\ Believers' = Believers \ {h}
  <1> USE DEF IInv
  <1>1. PICK v \in Places : v = "done" BY DEF Places
  <1>2. /\ Bit(v \in {"has", "done"}) = 1 /\ Bit(pc[h] \in {"has", "done"}) = 1
        /\ Bit(v \in {"got", "again"} /\ msg'[h].seqno < next_seqno) = 0
        /\ Bit(pc[h] \in {"got", "again"} /\ msg[h].seqno < next_seqno) = 0
    BY <1>1 DEF Bit
  <1>3. /\ pc' \in [Handlers -> Places] /\ pc'[h] = v /\ \A g \in Handlers \ {h} : pc'[g] = pc[g]
        /\ Count(pc', {"has", "done"}) = Cardinality(Working')
        /\ Cardinality(Working') = Cardinality(Working) + Bit(v \in {"has", "done"})
                                   - Bit(pc[h] \in {"has", "done"})
        /\ Cardinality(Counted') =
              Cardinality(Counted) + Bit(v \in {"got", "again"} /\ msg'[h].seqno < next_seqno)
                                   - Bit(pc[h] \in {"got", "again"} /\ msg[h].seqno < next_seqno)
    BY <1>1, HandlerMove
  <1>4. Count(pc', {"has", "done"}) = Count(pc, {"has", "done"}) /\ Cardinality(Counted') = Cardinality(Counted)
    BY <1>2, <1>3, Sizes
  <1>5. \A g \in Handlers : IF pc'[g] = "idle" THEN msg'[g] = NoMsg ELSE msg'[g] \in HandlerMsg
    BY <1>1, <1>3 DEF TypeOK
  <1>6. \A g \in Handlers : Active(g)' <=> Active(g) BY <1>1, <1>3 DEF Active
  <1>7. SeqnoInv' BY <1>1, <1>3, <1>6 DEF SeqnoInv
  <1>8. Noticed' = Noticed BY <1>6 DEF Noticed
  <1>9. Believers' = Believers \ {h} BY <1>1, <1>3, <1>8 DEF Believers
  <1> QED BY <1>1, <1>3, <1>4, <1>5, <1>7, <1>8, <1>9

LEMMA InvokeHolds ==
    ASSUME IInv, NEW h \in Handlers, Invoke(h)
    PROVE  IInv'
  <1> USE DEF IInv
  <1>0. /\ pc[h] = "has" /\ msg[h].kind = "invoke" /\ pc' = [pc EXCEPT ![h] = "done"]
        /\ UNCHANGED <<object, kernel, msg, epc, locals, passing, unpacked, clients, unknown>>
    BY DEF Invoke
  <1>1. /\ pc' \in [Handlers -> Places] /\ pc'[h] = "done"
        /\ Count(pc', {"has", "done"}) = Count(pc, {"has", "done"})
        /\ Cardinality(Counted') = Cardinality(Counted)
        /\ \A g \in Handlers : IF pc'[g] = "idle" THEN msg'[g] = NoMsg ELSE msg'[g] \in HandlerMsg
        /\ SeqnoInv' /\ Noticed' = Noticed /\ Believers' = Believers \ {h}
    BY <1>0, HandlerWorks DEF object, kernel
  <1>2. h \notin Noticed BY <1>0 DEF Noticed
  <1>3. Believers' = Believers BY <1>1, <1>2 DEF Believers
  <1>4. TypeOK' BY <1>0, <1>1 DEF TypeOK, Places, object, kernel, clients
  <1>5. RefExact'
    <2>1. Count(epc, {"held", "packed"})' = Count(epc, {"held", "packed"}) BY <1>0 DEF Count
    <2> QED BY <1>0, <1>1, <2>1 DEF RefExact, object
  <1>6. PortInv' BY <1>0 DEF PortInv, object, kernel
  <1>7. MakeSendInv' BY <1>0 DEF MakeSendInv, Exported, Finished, object, kernel, clients
  <1>8. RightInv' BY <1>0 DEF RightInv, InvokeAt, At, kernel, clients
  <1>9. NoticeAt' = NoticeAt BY <1>0 DEF NoticeAt, At, kernel
  <1>10. NoticeInv' BY <1>0, <1>1, <1>3, <1>9 DEF NoticeInv, kernel
  <1>11. GoneInv' BY <1>0, <1>3, <1>9 DEF GoneInv, object, kernel
  <1> QED BY <1>1, <1>4, <1>5, <1>6, <1>7, <1>8, <1>10, <1>11

\* A notification whose count is the object's own is for real.
LEMMA Believed ==
    ASSUME IInv, NEW h \in Handlers, pc[h] = "has", msg[h].kind = "no_senders"
    PROVE  /\ h \in Believers /\ msg[h].count <= mscount
           /\ msg[h].count = mscount =>
                 /\ srights = 0 /\ next_seqno = seqno /\ ~nsrequest /\ NoticeAt = {}
                 /\ \A e \in Exporters : epc[e] \notin {"packed", "sending"}
                 /\ registered /\ ~no_senders /\ external_port = "live" /\ ref_cnt > 1
  <1> USE DEF IInv
  <1>1. h \in Noticed /\ h \in Believers BY DEF Noticed, Believers, Active
  <1>2. /\ msg[h].count \in Nat /\ msg[h].seqno \in Nat /\ mscount \in Nat /\ kmscount \in Nat
        /\ next_seqno \in Nat /\ seqno \in Nat /\ ref_cnt \in Nat
    <2>1. msg[h] \in HandlerMsg BY DEF TypeOK
    <2> QED BY <2>1, Sizes DEF HandlerMsg, TypeOK
  <1>3. msg[h].count <= kmscount /\ kmscount <= mscount BY <1>1, Promised DEF NoticeInv
  <1>4. msg[h].count <= mscount BY <1>2, <1>3
  <1>5. ASSUME msg[h].count = mscount
        PROVE  /\ srights = 0 /\ next_seqno = seqno /\ ~nsrequest /\ NoticeAt = {}
               /\ \A e \in Exporters : epc[e] \notin {"packed", "sending"}
               /\ registered /\ ~no_senders /\ external_port = "live" /\ ref_cnt > 1
    <2>1. kmscount = mscount /\ msg[h].count = kmscount BY <1>2, <1>3, <1>5
    <2>2. srights = 0 /\ msg[h].seqno = seqno - 1 BY <1>1, <2>1 DEF NoticeInv
    <2>3. msg[h].seqno < next_seqno /\ next_seqno <= seqno BY DEF SeqnoInv
    <2>4. next_seqno = seqno BY <1>2, <2>2, <2>3
    <2>5. ~nsrequest /\ NoticeAt = {} BY <1>1 DEF NoticeInv
    <2>6. registered /\ external_port = "live" BY <1>1, Kept
    <2>7. ~no_senders BY <2>6 DEF PortInv
    <2>8. ref_cnt > Bit(registered) /\ Bit(registered) = 1 BY <2>6, Kept DEF Bit
    <2> QED BY <1>2, <2>1, <2>2, <2>4, <2>5, <2>6, <2>7, <2>8, Promised
  <1> QED BY <1>1, <1>4, <1>5

LEMMA NoRemoteSendersHolds ==
    ASSUME IInv, NEW h \in Handlers, NoRemoteSenders(h)
    PROVE  IInv'
  <1> USE DEF IInv
  <1>0. /\ pc[h] = "has" /\ msg[h].kind = "no_senders" /\ pc' = [pc EXCEPT ![h] = "done"]
        /\ UNCHANGED <<mscount, next_seqno, srights, kmscount, nsrequest, seqno, msg,
                       epc, locals, passing, unpacked, clients, unknown>>
    BY DEF NoRemoteSenders
  <1>1. /\ pc' \in [Handlers -> Places] /\ pc'[h] = "done"
        /\ Count(pc', {"has", "done"}) = Count(pc, {"has", "done"})
        /\ Cardinality(Counted') = Cardinality(Counted)
        /\ \A g \in Handlers : IF pc'[g] = "idle" THEN msg'[g] = NoMsg ELSE msg'[g] \in HandlerMsg
        /\ SeqnoInv' /\ Noticed' = Noticed /\ Believers' = Believers \ {h}
    BY <1>0, HandlerWorks
  <1>2. Count(epc, {"held", "packed"})' = Count(epc, {"held", "packed"}) BY <1>0 DEF Count
  <1>3. CASE msg[h].count # mscount
    <2>1. UNCHANGED <<ref_cnt, alive, external_port, registered, queue, no_senders>>
      BY <1>3 DEF NoRemoteSenders
    <2>2. TypeOK' BY <1>0, <1>1, <2>1 DEF TypeOK, Places, clients
    <2>3. RefExact' BY <1>0, <1>1, <1>2, <2>1 DEF RefExact
    <2>4. PortInv' BY <1>0, <2>1 DEF PortInv
    <2>5. MakeSendInv' BY <1>0 DEF MakeSendInv, Exported, Finished, clients
    <2>6. RightInv' BY <1>0, <2>1 DEF RightInv, InvokeAt, At, clients
    <2>7. NoticeAt' = NoticeAt BY <2>1 DEF NoticeAt, At
    <2>8. NoticeInv' BY <1>0, <1>1, <2>1, <2>7 DEF NoticeInv
    <2>9. GoneInv' BY <1>0, <1>1, <2>1, <2>7 DEF GoneInv
    <2> QED BY <1>1, <2>2, <2>3, <2>4, <2>5, <2>6, <2>8, <2>9
  <1>4. CASE msg[h].count = mscount
    <2>1. /\ srights = 0 /\ next_seqno = seqno /\ ~nsrequest /\ NoticeAt = {}
          /\ \A e \in Exporters : epc[e] \notin {"packed", "sending"}
          /\ registered /\ ~no_senders /\ external_port = "live" /\ ref_cnt > 1
      BY <1>0, <1>4, Believed
    <2>2. no_senders' = TRUE /\ Dereference(FALSE) BY <1>4, <2>1 DEF NoRemoteSenders
    <2>3. ref_cnt \in Nat /\ locals \in Nat /\ unknown \in Nat BY DEF TypeOK
    <2>4. ref_cnt # 1 /\ ref_cnt - 1 \in Nat /\ ref_cnt - 1 > 0 BY <2>1, <2>3
    <2>5. /\ ref_cnt' = ref_cnt - 1 /\ alive' = TRUE /\ external_port' = external_port
          /\ queue' = queue /\ registered' = FALSE
      BY <2>2, <2>4 DEF Dereference
    <2>6. TypeOK' BY <1>0, <1>1, <2>2, <2>4, <2>5 DEF TypeOK, Places, clients
    <2>7. RefExact'
      <3>1. Bit(registered) = 1 /\ Bit(registered') = 0 BY <2>1, <2>5 DEF Bit
      <3>2. /\ ref_cnt' = ref_cnt - 1 /\ locals' = locals /\ unknown' = unknown
        BY <1>0, <2>5
      <3> QED BY <1>1, <1>2, <2>3, <3>1, <3>2, Sizes DEF RefExact
    <2>8. PortInv' BY <2>1, <2>2, <2>4, <2>5 DEF PortInv
    <2>9. MakeSendInv' BY <1>0 DEF MakeSendInv, Exported, Finished, clients
    <2>10. RightInv' BY <1>0, <2>5 DEF RightInv, InvokeAt, At, clients
    <2>11. NoticeAt' = NoticeAt BY <2>5 DEF NoticeAt, At
    <2>12. Believers' = {}
      <3>1. h \in Noticed BY <1>0, Believed DEF Believers
      <3>2. \A g \in Noticed : g = h BY <3>1 DEF NoticeInv
      <3> QED BY <1>1, <3>2 DEF Believers
    <2>13. NoticeInv' BY <1>0, <1>1, <2>1, <2>11, <2>12 DEF NoticeInv
    <2>14. GoneInv' BY <1>0, <2>1, <2>11, <2>12 DEF GoneInv
    <2> QED BY <1>1, <2>6, <2>7, <2>8, <2>9, <2>10, <2>13, <2>14
  <1> QED BY <1>3, <1>4

LEMMA HandlerDereferenceHolds ==
    ASSUME IInv, NEW h \in Handlers, HandlerDereference(h)
    PROVE  IInv'
  <1> USE DEF IInv
  <1>0. /\ pc[h] = "done" /\ pc' = [pc EXCEPT ![h] = "idle"] /\ msg' = [msg EXCEPT ![h] = NoMsg]
        /\ Dereference(registered)
        /\ UNCHANGED <<mscount, no_senders, next_seqno, srights, kmscount, nsrequest,
                       seqno, epc, locals, passing, unpacked, clients, unknown>>
    BY DEF HandlerDereference
  <1>1. PICK v \in Places : v = "idle" BY DEF Places
  <1>2. /\ Bit(v \in {"has", "done"}) = 0 /\ Bit(pc[h] \in {"has", "done"}) = 1
        /\ Bit(v \in {"got", "again"} /\ msg'[h].seqno < next_seqno) = 0
        /\ Bit(pc[h] \in {"got", "again"} /\ msg[h].seqno < next_seqno) = 0
    BY <1>0, <1>1 DEF Bit
  <1>3. /\ msg' \in [Handlers -> HandlerMsg \cup {NoMsg}] /\ msg'[h] = NoMsg
        /\ \A g \in Handlers \ {h} : msg'[g] = msg[g]
    BY <1>0 DEF TypeOK
  <1>4. /\ pc' \in [Handlers -> Places] /\ pc'[h] = v /\ \A g \in Handlers \ {h} : pc'[g] = pc[g]
        /\ Count(pc', {"has", "done"}) = Cardinality(Working')
        /\ Cardinality(Working') = Cardinality(Working) + Bit(v \in {"has", "done"})
                                   - Bit(pc[h] \in {"has", "done"})
        /\ Cardinality(Counted') =
              Cardinality(Counted) + Bit(v \in {"got", "again"} /\ msg'[h].seqno < next_seqno)
                                   - Bit(pc[h] \in {"got", "again"} /\ msg[h].seqno < next_seqno)
    BY <1>0, <1>1, <1>3, HandlerMove
  <1>5. /\ ref_cnt' = ref_cnt - 1 /\ ref_cnt' \in Nat /\ (alive' <=> ref_cnt' > 0) /\ alive' \in BOOLEAN
        /\ registered' = registered /\ queue' = queue
        /\ external_port' \in {"null", "live", "destroyed"}
        /\ external_port' # "null" /\ (external_port' = "destroyed" => ref_cnt' = 0)
    <2>1. ref_cnt > Bit(registered) BY <1>0, Kept
    <2>2. external_port # "null" BY <1>0 DEF PortInv
    <2> QED BY <1>0, <2>1, <2>2, DereferenceSafe
  <1>6. TypeOK'
    <2>1. \A g \in Handlers : IF pc'[g] = "idle" THEN msg'[g] = NoMsg ELSE msg'[g] \in HandlerMsg
      BY <1>1, <1>3, <1>4 DEF TypeOK
    <2> QED BY <1>0, <1>3, <1>4, <1>5, <2>1 DEF TypeOK, Places, clients
  <1>7. RefExact'
    <2>1. Count(epc, {"held", "packed"})' = Count(epc, {"held", "packed"}) BY <1>0 DEF Count
    <2>2. locals \in Nat /\ unknown \in Nat BY DEF TypeOK
    <2>3. Count(pc', {"has", "done"}) = Count(pc, {"has", "done"}) - 1 /\ Cardinality(Counted') = Cardinality(Counted)
      BY <1>2, <1>4, Sizes
    <2>4. Bit(registered') = Bit(registered) BY <1>5
    <2>5. ref_cnt' = ref_cnt - 1 /\ locals' = locals /\ unknown' = unknown BY <1>0, <1>5
    <2> QED BY <2>1, <2>2, <2>3, <2>4, <2>5, Sizes DEF RefExact
  <1>8. PortInv' BY <1>0, <1>5 DEF PortInv
  <1>9. MakeSendInv' BY <1>0 DEF MakeSendInv, Exported, Finished, clients
  <1>10. RightInv' BY <1>0, <1>5 DEF RightInv, InvokeAt, At, clients
  <1>11. \A g \in Handlers : Active(g)' <=> g # h /\ Active(g) BY <1>1, <1>4 DEF Active
  <1>12. SeqnoInv' BY <1>0, <1>1, <1>3, <1>4, <1>11 DEF SeqnoInv
  <1>13. /\ NoticeAt' = NoticeAt /\ Noticed' = Noticed \ {h} /\ Believers' = Believers
         /\ h \notin Believers
    <2>1. Noticed' = Noticed \ {h} BY <1>3, <1>11 DEF Noticed
    <2> QED BY <1>0, <1>4, <1>5, <2>1 DEF NoticeAt, At, Believers
  <1>14. NoticeInv'
    <2>1. \A g \in Believers : g \in Handlers /\ g # h BY <1>13 DEF Believers, Noticed
    <2>2. \A g \in Believers : msg'[g] = msg[g] BY <1>3, <2>1
    <2> QED BY <1>0, <1>5, <1>13, <2>2 DEF NoticeInv
  <1>15. GoneInv' BY <1>0, <1>13 DEF GoneInv
  <1> QED BY <1>6, <1>7, <1>8, <1>9, <1>10, <1>12, <1>14, <1>15

LEMMA ReceiveHolds ==
    ASSUME IInv, NEW h \in Handlers, Receive(h)
    PROVE  IInv'
  <1> USE DEF IInv
  <1> DEFINE m == Head(queue)  r == [kind |-> m.kind, count |-> m.count, seqno |-> seqno]
  <1>0. /\ pc[h] = "idle" /\ queue # <<>> /\ msg' = [msg EXCEPT ![h] = r]
        /\ seqno' = seqno + 1 /\ pc' = [pc EXCEPT ![h] = "got"]
        /\ UNCHANGED <<object, kmscount, epc, locals, passing, unpacked, clients, unknown>>
        /\ IF m.kind = "invoke" THEN ReleaseRight(Tail(queue))
           ELSE queue' = Tail(queue) /\ UNCHANGED <<srights, nsrequest>>
    BY DEF Receive
  <1>1. queue \in Seq(PortMsg) /\ m \in PortMsg /\ Tail(queue) \in Seq(PortMsg)
    <2>1. queue \in Seq(PortMsg) BY DEF TypeOK
    <2> QED BY <1>0, <2>1
  <1>2. /\ seqno \in Nat /\ next_seqno \in Nat /\ kmscount \in Nat /\ next_seqno <= seqno
        /\ locals \in Nat /\ unknown \in Nat
    BY Sizes DEF TypeOK, SeqnoInv
  <1>3. r \in HandlerMsg /\ r.kind = m.kind /\ r.count = m.count /\ r.seqno = seqno
    BY <1>1, <1>2 DEF PortMsg, HandlerMsg
  <1>4. m.kind \in {"invoke", "no_senders"} /\ m = queue[1] /\ 1 \in 1..Len(queue)
    <2>1. m.kind \in {"invoke", "no_senders"} BY <1>1 DEF PortMsg
    <2> QED BY <1>0, <1>1, <2>1
  <1> HIDE DEF m, r
  <1>5. ~no_senders /\ external_port # "null"
    <2>1. ~no_senders BY <1>0, NoRights DEF GoneInv
    <2> QED BY <1>0, <2>1 DEF PortInv
  <1>6. /\ msg' \in [Handlers -> HandlerMsg \cup {NoMsg}] /\ msg'[h] = r
        /\ \A g \in Handlers \ {h} : msg'[g] = msg[g]
    BY <1>0, <1>3 DEF TypeOK
  <1>7. PICK v \in Places : v = "got" BY DEF Places
  <1>8. /\ pc' \in [Handlers -> Places] /\ pc'[h] = v /\ \A g \in Handlers \ {h} : pc'[g] = pc[g]
        /\ Count(pc', {"has", "done"}) = Cardinality(Working')
        /\ Cardinality(Working') = Cardinality(Working) + Bit(v \in {"has", "done"})
                                   - Bit(pc[h] \in {"has", "done"})
        /\ Cardinality(Counted') =
              Cardinality(Counted) + Bit(v \in {"got", "again"} /\ msg'[h].seqno < next_seqno)
                                   - Bit(pc[h] \in {"got", "again"} /\ msg[h].seqno < next_seqno)
    BY <1>0, <1>6, <1>7, HandlerMove DEF object
  <1>9. \A g \in Handlers : Active(g)' <=> g = h \/ Active(g) BY <1>7, <1>8 DEF Active
  <1>10. RefExact'
    <2>1. ~(msg'[h].seqno < next_seqno) BY <1>2, <1>3, <1>6
    <2>2. /\ Bit(v \in {"has", "done"}) = 0 /\ Bit(pc[h] \in {"has", "done"}) = 0
          /\ Bit(v \in {"got", "again"} /\ msg'[h].seqno < next_seqno) = 0
          /\ Bit(pc[h] \in {"got", "again"} /\ msg[h].seqno < next_seqno) = 0
      BY <1>0, <1>7, <2>1 DEF Bit
    <2>3. Count(epc, {"held", "packed"})' = Count(epc, {"held", "packed"}) BY <1>0 DEF Count
    <2>4. Count(pc', {"has", "done"}) = Count(pc, {"has", "done"}) /\ Cardinality(Counted') = Cardinality(Counted)
      BY <1>8, <2>2, Sizes
    <2> QED BY <1>0, <2>3, <2>4 DEF RefExact, object
  <1>11. PortInv' BY <1>0, <1>5 DEF PortInv, object
  <1>12. MakeSendInv' BY <1>0 DEF MakeSendInv, Exported, Finished, object, clients
  <1>13. SeqnoInv'
    <2>1. \A g \in Handlers : Active(g) => g # h /\ msg[g].seqno \in Nat
      BY <1>0 DEF TypeOK, HandlerMsg, Active
    <2>2. \A g \in Handlers : Active(g)' => msg'[g].seqno < seqno'
      BY <1>0, <1>2, <1>3, <1>6, <1>9, <2>1 DEF SeqnoInv
    <2>3. \A f, g \in Handlers : Active(f)' /\ Active(g)' /\ msg'[f].seqno = msg'[g].seqno => f = g
      <3>1. \A g \in Handlers : Active(g) => msg'[g].seqno = msg[g].seqno /\ msg[g].seqno < seqno
        BY <1>6, <2>1 DEF SeqnoInv
      <3>2. \A g \in Handlers : Active(g) => msg'[g].seqno # msg'[h].seqno
        BY <1>2, <1>3, <1>6, <2>1, <3>1
      <3> QED BY <1>9, <3>1, <3>2 DEF SeqnoInv
    <2>4. \A g \in Handlers : pc'[g] \in {"has", "done"} => msg'[g].seqno < next_seqno'
      BY <1>0, <1>6, <1>7, <1>8 DEF SeqnoInv, object
    <2>5. ASSUME NEW n \in next_seqno'..(seqno' - 1)
          PROVE  \E g \in Handlers : pc'[g] \in {"got", "again"} /\ msg'[g].seqno = n
      <3>1. n \in next_seqno..(seqno - 1) \/ n = seqno BY <1>0, <1>2 DEF object
      <3>2. CASE n = seqno BY <1>3, <1>6, <1>7, <1>8, <3>2
      <3>3. CASE n \in next_seqno..(seqno - 1)
        <4>1. PICK g \in Handlers : pc[g] \in {"got", "again"} /\ msg[g].seqno = n BY <3>3 DEF SeqnoInv
        <4>2. g # h BY <1>0, <4>1
        <4> QED BY <1>6, <1>8, <4>1, <4>2
      <3> QED BY <3>1, <3>2, <3>3
    <2>6. next_seqno' <= seqno' BY <1>0, <1>2 DEF object
    <2> QED BY <2>2, <2>3, <2>4, <2>5, <2>6 DEF SeqnoInv
  <1>14. GoneInv' BY <1>0, <1>5 DEF GoneInv, object
  <1>15. \A g \in Handlers : IF pc'[g] = "idle" THEN msg'[g] = NoMsg ELSE msg'[g] \in HandlerMsg
    BY <1>3, <1>6, <1>7, <1>8 DEF TypeOK
  <1>16. ASSUME queue' \in Seq(PortMsg), srights' \in Nat, nsrequest' \in BOOLEAN PROVE TypeOK'
    BY <1>0, <1>2, <1>6, <1>8, <1>15, <1>16 DEF TypeOK, Places, object, clients
  <1>17. \A g \in Noticed : g \in Handlers /\ g # h /\ msg'[g] = msg[g]
    BY <1>0, <1>6 DEF Noticed, Active
  <1>18. /\ rights \in Nat /\ passing \in Nat /\ unpacked \in Nat /\ srights \in Nat
         /\ rights' = rights /\ passing' = passing /\ unpacked' = unpacked
    BY <1>0 DEF TypeOK, clients
  <1>19. /\ \A i \in At(Tail(queue), "no_senders") : i \in Nat /\ i > 0 /\ i + 1 \in NoticeAt
                                                     /\ Tail(queue)[i] = queue[i + 1]
         /\ Cardinality(At(Tail(queue), "invoke")) = Cardinality(InvokeAt) - Bit(m.kind = "invoke")
    <2>1. \A i \in At(Tail(queue), "no_senders") : i \in Nat /\ i > 0
      <3>1. Len(Tail(queue)) \in Nat BY <1>1
      <3> QED BY <3>1 DEF At
    <2>2. \A i \in At(Tail(queue), "no_senders") : i + 1 \in NoticeAt /\ Tail(queue)[i] = queue[i + 1]
      <3>1. queue \in Seq(PortMsg) /\ queue # <<>> BY <1>0, <1>1
      <3>2. \A i \in At(Tail(queue), "no_senders") : i + 1 \in At(queue, "no_senders")
                                                     /\ Tail(queue)[i] = queue[i + 1]
        BY <3>1, TailAt
      <3> QED BY <3>2 DEF NoticeAt
    <2> QED BY <1>0, <1>1, <2>1, <2>2, TailAt DEF InvokeAt, m
  <1>20. CASE m.kind = "invoke"
    <2>1. 1 \in InvokeAt BY <1>4, <1>20 DEF InvokeAt, At
    <2>2. srights > 0 BY <2>1, NoRights
    <2>3. \A i \in At(Tail(queue), "no_senders") : \E j \in NoticeAt : Tail(queue)[i] = queue[j] BY <1>19
    <2>4. ASSUME NEW i \in At(Tail(queue), "no_senders"), NEW j \in At(Tail(queue), "no_senders") PROVE i = j
      <3>1. i + 1 = j + 1 /\ i \in Nat /\ j \in Nat BY <1>19 DEF NoticeInv
      <3> QED BY <3>1
    <2>5. ReleaseRight(Tail(queue)) BY <1>0, <1>20
    <2>6. /\ srights' = srights - 1 /\ srights' \in Nat /\ nsrequest' \in BOOLEAN
          /\ queue' \in Seq(PortMsg) /\ Cardinality(InvokeAt') = Cardinality(At(Tail(queue), "invoke"))
          /\ nsrequest' => nsrequest /\ NoticeAt' = {}
          /\ NoticeAt' # {} => Noticed = {}
          /\ \A i, j \in NoticeAt' : i = j
          /\ \A i \in NoticeAt' : /\ queue'[i].count <= kmscount
                                  /\ queue'[i].count = kmscount => srights' = 0
      BY <1>1, <2>2, <2>3, <2>4, <2>5, Released
    <2>7. RightInv'
      <3>1. Cardinality(InvokeAt') = Cardinality(InvokeAt) - 1 BY <1>19, <1>20, <2>6, Sizes DEF Bit
      <3> QED BY <1>18, <2>6, <3>1, Sizes DEF RightInv
    <2>8. Noticed' = Noticed
      <3>1. h \notin Noticed /\ h \notin Noticed' BY <1>3, <1>6, <1>17, <1>20 DEF Noticed
      <3> QED BY <1>6, <1>9, <3>1 DEF Noticed
    <2>9. Believers' = Believers BY <1>8, <1>17, <2>8 DEF Believers
    <2>10. \A g \in Believers : msg[g].count <= kmscount /\ msg[g].count # kmscount /\ msg'[g] = msg[g]
      BY <1>17, <2>2, Stale DEF Believers, NoticeInv
    <2>11. NoticeInv'
      <3>1. nsrequest' => NoticeAt' = {} /\ Noticed' = {} BY <2>6, <2>8 DEF NoticeInv
      <3>2. kmscount' = kmscount BY <1>0
      <3>3. \A g, f \in Noticed' : g = f BY <2>8 DEF NoticeInv
      <3>4. \A g \in Believers' : /\ msg'[g].count <= kmscount'
                                  /\ msg'[g].count # kmscount'
        BY <2>9, <2>10, <3>2
      <3> QED BY <2>6, <2>8, <3>1, <3>2, <3>3, <3>4 DEF NoticeInv
    <2> QED BY <1>10, <1>11, <1>12, <1>13, <1>14, <1>16, <2>6, <2>7, <2>11
  <1>21. CASE m.kind = "no_senders"
    <2>1. queue' = Tail(queue) /\ srights' = srights /\ nsrequest' = nsrequest BY <1>0, <1>21
    <2>2. 1 \in NoticeAt BY <1>4, <1>21 DEF NoticeAt, At
    <2>3. ~nsrequest /\ Noticed = {} BY <2>2 DEF NoticeInv
    <2>4. NoticeAt' = {}
      <3>1. NoticeAt' = At(Tail(queue), "no_senders") BY <2>1 DEF NoticeAt, At
      <3>2. ASSUME NEW i \in NoticeAt' PROVE FALSE
        <4>1. i \in Nat /\ i > 0 /\ i + 1 \in NoticeAt BY <1>19, <3>1
        <4>2. i + 1 = 1 BY <2>2, <4>1 DEF NoticeInv
        <4> QED BY <4>1, <4>2
      <3> QED BY <3>2
    <2>5. RightInv'
      <3>1. InvokeAt' = At(Tail(queue), "invoke") BY <2>1 DEF InvokeAt, At
      <3>2. Bit(m.kind = "invoke") = 0 BY <1>21 DEF Bit
      <3>3. Cardinality(InvokeAt') = Cardinality(InvokeAt) BY <1>19, <3>1, <3>2, Sizes
      <3> QED BY <1>18, <2>1, <3>3 DEF RightInv
    <2>6. \A g \in Noticed' : g = h
      <3>1. \A g \in Noticed' : g # h => g \in Noticed BY <1>6, <1>9 DEF Noticed
      <3> QED BY <2>3, <3>1
    <2>7. r.count <= kmscount /\ (r.count = kmscount => srights = 0)
      BY <1>3, <1>4, <2>2 DEF NoticeInv
    <2>8. NoticeInv'
      <3>1. kmscount' = kmscount BY <1>0
      <3>2. \A g \in Believers' : g = h BY <2>6 DEF Believers
      <3>3. msg'[h].seqno = seqno' - 1 BY <1>0, <1>2, <1>3, <1>6
      <3>4. \A g \in Believers' : /\ msg'[g].count <= kmscount'
                                  /\ msg'[g].count = kmscount' => srights' = 0 /\ msg'[g].seqno = seqno' - 1
        BY <1>6, <2>1, <2>7, <3>1, <3>2, <3>3
      <3> QED BY <2>1, <2>3, <2>4, <2>6, <3>4 DEF NoticeInv
    <2>9. queue' \in Seq(PortMsg) /\ srights' \in Nat /\ nsrequest' \in BOOLEAN
      BY <1>1, <1>18, <2>1 DEF TypeOK
    <2> QED BY <1>10, <1>11, <1>12, <1>13, <1>14, <1>16, <2>5, <2>8, <2>9
  <1> QED BY <1>4, <1>20, <1>21

\* _lookup_external_port finds nothing: the notification was believed, so every
\* message has its reference, and the one of this message stays behind.
LEMMA LookupFailsHolds ==
    ASSUME IInv, NEW h \in Handlers, ~registered, pc[h] = "again", pc' = [pc EXCEPT ![h] = "idle"],
           msg' = [msg EXCEPT ![h] = NoMsg], unknown' = unknown + 1, ref_cnt' = ref_cnt,
           next_seqno' = next_seqno,
           UNCHANGED <<alive, external_port, mscount, no_senders, registered, kernel,
                       epc, locals, passing, unpacked, clients>>
    PROVE  IInv'
  <1> USE DEF IInv
  <1>1. no_senders /\ next_seqno = seqno /\ Believers = {} BY DEF PortInv, GoneInv
  <1>2. msg[h].seqno < next_seqno BY <1>1 DEF SeqnoInv, Active
  <1>3. PICK v \in Places : v = "idle" BY DEF Places
  <1>4. /\ msg' \in [Handlers -> HandlerMsg \cup {NoMsg}] /\ msg'[h] = NoMsg
        /\ \A g \in Handlers \ {h} : msg'[g] = msg[g]
    BY DEF TypeOK
  <1>5. /\ pc' \in [Handlers -> Places] /\ pc'[h] = v /\ \A g \in Handlers \ {h} : pc'[g] = pc[g]
        /\ Count(pc', {"has", "done"}) = Cardinality(Working')
        /\ Cardinality(Working') = Cardinality(Working) + Bit(v \in {"has", "done"})
                                   - Bit(pc[h] \in {"has", "done"})
        /\ Cardinality(Counted') =
              Cardinality(Counted) + Bit(v \in {"got", "again"} /\ msg'[h].seqno < next_seqno)
                                   - Bit(pc[h] \in {"got", "again"} /\ msg[h].seqno < next_seqno)
    BY <1>3, <1>4, HandlerMove
  <1>6. TypeOK'
    <2>1. \A g \in Handlers : IF pc'[g] = "idle" THEN msg'[g] = NoMsg ELSE msg'[g] \in HandlerMsg
      BY <1>3, <1>4, <1>5 DEF TypeOK
    <2> QED BY <1>4, <1>5, <2>1 DEF TypeOK, Places, kernel, clients
  <1>7. RefExact'
    <2>1. /\ Bit(v \in {"has", "done"}) = 0 /\ Bit(pc[h] \in {"has", "done"}) = 0
          /\ Bit(v \in {"got", "again"} /\ msg'[h].seqno < next_seqno) = 0
          /\ Bit(pc[h] \in {"got", "again"} /\ msg[h].seqno < next_seqno) = 1
      BY <1>2, <1>3 DEF Bit
    <2>2. Count(epc, {"held", "packed"})' = Count(epc, {"held", "packed"}) BY DEF Count
    <2>3. Count(pc', {"has", "done"}) = Count(pc, {"has", "done"}) /\ Cardinality(Counted') = Cardinality(Counted) - 1
      BY <1>5, <2>1, Sizes
    <2>4. locals \in Nat /\ unknown \in Nat BY DEF TypeOK
    <2>5. Bit(registered') = Bit(registered) BY DEF Bit
    <2> QED BY <2>2, <2>3, <2>4, <2>5, Sizes DEF RefExact
  <1>8. PortInv' BY DEF PortInv, kernel
  <1>9. MakeSendInv' BY DEF MakeSendInv, Exported, Finished, clients, kernel
  <1>10. RightInv' BY DEF RightInv, InvokeAt, At, clients, kernel
  <1>11. \A g \in Handlers : Active(g)' <=> g # h /\ Active(g) BY <1>3, <1>5 DEF Active
  <1>12. SeqnoInv'
    <2>1. seqno \in Nat /\ next_seqno \in Nat BY DEF TypeOK
    <2>2. next_seqno'..(seqno' - 1) = {} BY <1>1, <2>1 DEF kernel
    <2> QED BY <1>3, <1>4, <1>5, <1>11, <2>2 DEF SeqnoInv, kernel
  <1>13. Noticed' = Noticed \ {h} BY <1>4, <1>11 DEF Noticed
  <1>14. Believers' = {}
    <2>1. \A g \in Believers' : g \in Believers BY <1>5, <1>13 DEF Believers
    <2> QED BY <1>1, <2>1
  <1>15. NoticeAt' = NoticeAt BY DEF NoticeAt, At, kernel
  <1>16. NoticeInv' BY <1>13, <1>14, <1>15 DEF NoticeInv, kernel
  <1>17. GoneInv' BY <1>14, <1>15 DEF GoneInv, kernel
  <1> QED BY <1>6, <1>7, <1>8, <1>9, <1>10, <1>12, <1>16, <1>17

\* Messages that a lookup with sequence number s is the first to count.
Fresh(s) == {g \in Handlers : pc[g] \in {"got", "again"} /\ msg[g].seqno \in next_seqno..s}

\* There is one such message for every number.
LEMMA FreshSize ==
    ASSUME IInv, NEW s \in Nat, next_seqno <= s, s < seqno
    PROVE  IsFiniteSet(Fresh(s)) /\ Cardinality(Fresh(s)) = s - next_seqno + 1
  <1> USE DEF IInv
  <1> DEFINE S == Fresh(s)  T == next_seqno..s  f == [g \in S |-> msg[g].seqno]
  <1>1. next_seqno \in Nat /\ seqno \in Nat BY DEF TypeOK
  <1>2. IsFiniteSet(S)
    <2>1. S \subseteq Handlers BY DEF Fresh
    <2> QED BY <2>1, BoundAssumption, FS_Subset
  <1>3. \A g \in S : g \in Handlers /\ Active(g) /\ msg[g].seqno \in T BY DEF Fresh, Active
  <1>4. f \in [S -> T] BY <1>3
  <1>5. \A x, y \in S : f[x] = f[y] => x = y BY <1>3 DEF SeqnoInv
  <1>6. ASSUME NEW z \in T PROVE \E x \in S : f[x] = z
    <2>1. z \in next_seqno..(seqno - 1) BY <1>1
    <2>2. PICK g \in Handlers : pc[g] \in {"got", "again"} /\ msg[g].seqno = z BY <2>1 DEF SeqnoInv
    <2>3. g \in S BY <2>2 DEF Fresh
    <2> QED BY <2>2, <2>3
  <1>7. Cardinality(T) = s - next_seqno + 1 BY <1>1, FS_Interval
  <1> HIDE DEF S, T, f
  <1>8. Cardinality(T) = Cardinality(S) BY <1>2, <1>4, <1>5, <1>6, SameSize
  <1> QED BY <1>2, <1>7, <1>8 DEF S

\* What a lookup that finds the object does to the count: it takes one reference
\* for each fresh message, and the handler's own passes from Counted to Working.
LEMMA LookupCounts ==
    ASSUME IInv, NEW h \in Handlers, pc[h] \in {"got", "again"}, pc' = [pc EXCEPT ![h] = "has"],
           ReferenceWithSeqno(msg[h].seqno), msg' = msg
    PROVE  /\ pc' \in [Handlers -> Places] /\ pc'[h] = "has" /\ \A g \in Handlers \ {h} : pc'[g] = pc[g]
           /\ next_seqno' \in Nat /\ next_seqno <= next_seqno' /\ next_seqno' <= seqno
           /\ msg[h].seqno < next_seqno'
           /\ ref_cnt' \in Nat /\ ref_cnt <= ref_cnt'
           /\ Count(pc', {"has", "done"}) = Count(pc, {"has", "done"}) + 1
           /\ Cardinality(Counted') = Cardinality(Counted) + (ref_cnt' - ref_cnt) - 1
  <1> USE DEF IInv
  <1> DEFINE s == msg[h].seqno
  <1>1. /\ s \in Nat /\ next_seqno \in Nat /\ seqno \in Nat /\ ref_cnt \in Nat /\ s < seqno
        /\ next_seqno <= seqno
    <2>1. msg[h] \in HandlerMsg BY DEF TypeOK
    <2>2. s \in Nat BY <2>1 DEF HandlerMsg
    <2>3. s < seqno BY DEF SeqnoInv, Active
    <2> QED BY <2>2, <2>3 DEF TypeOK, SeqnoInv
  <1>2. /\ pc' \in [Handlers -> Places] /\ pc'[h] = "has" /\ \A g \in Handlers \ {h} : pc'[g] = pc[g]
    BY DEF TypeOK, Places
  <1>3. Count(pc', {"has", "done"}) = Count(pc, {"has", "done"}) + 1
    <2>1. /\ Working \ {h} = Working' \ {h} /\ h \notin Working /\ h \in Working'
          /\ Working \in SUBSET Handlers /\ Working' \in SUBSET Handlers
      BY <1>2 DEF Working
    <2>2. {g \in DOMAIN pc' : pc'[g] \in {"has", "done"}} = Working' BY <1>2 DEF Working
    <2>3. Cardinality(Working') = Cardinality(Working) + 1 BY <2>1, BoundAssumption, OneMoves
    <2> QED BY <2>2, <2>3, Sizes DEF Count
  <1>4. CASE s < next_seqno
    <2>1. ref_cnt' = ref_cnt /\ next_seqno' = next_seqno BY <1>1, <1>4 DEF ReferenceWithSeqno
    <2>2. /\ Counted \ {h} = Counted' \ {h} /\ h \in Counted /\ h \notin Counted'
          /\ Counted \in SUBSET Handlers /\ Counted' \in SUBSET Handlers
      BY <1>2, <1>4, <2>1 DEF Counted
    <2>3. Cardinality(Counted') = Cardinality(Counted) - 1 BY <2>2, BoundAssumption, OneMoves
    <2> QED BY <1>1, <1>2, <1>3, <1>4, <2>1, <2>3, Sizes
  <1>5. CASE s >= next_seqno
    <2>1. ref_cnt' = ref_cnt + (s - next_seqno) + 1 /\ next_seqno' = s + 1
      BY <1>5 DEF ReferenceWithSeqno
    <2>2. IsFiniteSet(Fresh(s)) /\ Cardinality(Fresh(s)) = s - next_seqno + 1
      BY <1>1, <1>5, FreshSize
    <2>3. \A g \in Handlers : pc[g] \in {"got", "again"} => msg[g].seqno \in Nat
      BY DEF TypeOK, HandlerMsg
    <2>4. Counted \cap Fresh(s) = {} /\ h \in Fresh(s) /\ h \notin Counted
      BY <1>1, <1>5, <2>3 DEF Counted, Fresh
    <2>5. Counted' = (Counted \cup Fresh(s)) \ {h}
      <3>1. \A g \in Handlers : g # h /\ pc[g] \in {"got", "again"} =>
               (msg[g].seqno < s + 1 <=> msg[g].seqno < next_seqno \/ msg[g].seqno \in next_seqno..s)
        BY <1>1, <1>5, <2>3
      <3>2. \A g \in Handlers : g \in Counted' <=> g # h /\ pc[g] \in {"got", "again"} /\ msg[g].seqno < s + 1
        BY <1>2, <2>1 DEF Counted
      <3>3. \A g \in Handlers : g \in Counted' <=> g \in (Counted \cup Fresh(s)) \ {h}
        BY <3>1, <3>2 DEF Counted, Fresh
      <3>4. Counted' \subseteq Handlers /\ Counted \subseteq Handlers /\ Fresh(s) \subseteq Handlers
        BY DEF Counted, Fresh
      <3> QED BY <3>3, <3>4
    <2>6. /\ IsFiniteSet(Counted \cup Fresh(s))
          /\ Cardinality(Counted \cup Fresh(s)) = Cardinality(Counted) + Cardinality(Fresh(s))
      <3>1. Cardinality(Counted \cap Fresh(s)) = 0 BY <2>4, FS_EmptySet
      <3>2. /\ IsFiniteSet(Counted \cup Fresh(s))
            /\ Cardinality(Counted \cup Fresh(s)) =
                  Cardinality(Counted) + Cardinality(Fresh(s)) - Cardinality(Counted \cap Fresh(s))
        BY <2>2, Sizes, FS_Union
      <3> QED BY <1>1, <1>5, <2>2, <3>1, <3>2, Sizes
    <2>7. Cardinality(Counted') = Cardinality(Counted \cup Fresh(s)) - 1
      <3>1. h \in Counted \cup Fresh(s) BY <2>4
      <3> QED BY <2>5, <2>6, <3>1, FS_RemoveElement
    <2> QED BY <1>1, <1>2, <1>3, <1>5, <2>1, <2>2, <2>6, <2>7, Sizes
  <1> QED BY <1>1, <1>4, <1>5

LEMMA LookupRefExact ==
    ASSUME IInv, NEW h \in Handlers, pc[h] \in {"got", "again"}, pc' = [pc EXCEPT ![h] = "has"],
           ReferenceWithSeqno(msg[h].seqno), msg' = msg, UNCHANGED <<registered, epc, locals, unknown>>
    PROVE  RefExact'
  <1> USE DEF IInv
  <1>1. /\ ref_cnt' \in Nat /\ Count(pc', {"has", "done"}) = Count(pc, {"has", "done"}) + 1
        /\ Cardinality(Counted') = Cardinality(Counted) + (ref_cnt' - ref_cnt) - 1
    BY LookupCounts
  <1>2. ref_cnt \in Nat /\ locals \in Nat /\ unknown \in Nat BY DEF TypeOK
  <1>3. Count(epc, {"held", "packed"})' = Count(epc, {"held", "packed"}) BY DEF Count
  <1>4. Bit(registered') = Bit(registered) OBVIOUS
  <1> QED BY <1>1, <1>2, <1>3, <1>4, Sizes DEF RefExact

LEMMA LookupFindsHolds ==
    ASSUME IInv, NEW h \in Handlers, registered, pc[h] \in {"got", "again"}, pc' = [pc EXCEPT ![h] = "has"],
           ReferenceWithSeqno(msg[h].seqno), UNCHANGED <<msg, unknown>>,
           UNCHANGED <<alive, external_port, mscount, no_senders, registered, kernel,
                       epc, locals, passing, unpacked, clients>>
    PROVE  IInv'
  <1> USE DEF IInv
  <1>1. /\ pc' \in [Handlers -> Places] /\ pc'[h] = "has" /\ \A g \in Handlers \ {h} : pc'[g] = pc[g]
        /\ next_seqno' \in Nat /\ next_seqno <= next_seqno' /\ next_seqno' <= seqno
        /\ msg[h].seqno < next_seqno'
        /\ ref_cnt' \in Nat /\ ref_cnt <= ref_cnt'
        /\ Count(pc', {"has", "done"}) = Count(pc, {"has", "done"}) + 1
        /\ Cardinality(Counted') = Cardinality(Counted) + (ref_cnt' - ref_cnt) - 1
    BY LookupCounts
  <1>2. external_port = "live" /\ ref_cnt > 0 /\ ~no_senders BY Kept DEF PortInv
  <1>3. /\ ref_cnt \in Nat /\ next_seqno \in Nat /\ seqno \in Nat /\ locals \in Nat /\ unknown \in Nat
    BY DEF TypeOK
  <1>4. TypeOK'
    <2>1. \A g \in Handlers : IF pc'[g] = "idle" THEN msg'[g] = NoMsg ELSE msg'[g] \in HandlerMsg
      BY <1>1 DEF TypeOK
    <2> QED BY <1>1, <2>1 DEF TypeOK, Places, kernel, clients
  <1>5. RefExact' BY LookupRefExact
  <1>6. PortInv'
    <2>1. ref_cnt' > 0 /\ alive BY <1>1, <1>2, <1>3 DEF PortInv
    <2> QED BY <1>2, <2>1 DEF PortInv
  <1>7. MakeSendInv' BY DEF MakeSendInv, Exported, Finished, clients, kernel
  <1>8. RightInv' BY DEF RightInv, InvokeAt, At, clients, kernel
  <1>9. \A g \in Handlers : Active(g)' <=> Active(g) BY <1>1 DEF Active
  <1>10. SeqnoInv'
    <2>1. \A g \in Handlers : Active(g) => msg[g].seqno \in Nat BY DEF TypeOK, HandlerMsg, Active
    <2>2. \A g \in Handlers : pc'[g] \in {"has", "done"} => msg'[g].seqno < next_seqno'
      <3>1. \A g \in Handlers \ {h} : pc[g] \in {"has", "done"} => msg[g].seqno < next_seqno /\ Active(g)
        BY DEF SeqnoInv, Active
      <3> QED BY <1>1, <1>3, <2>1, <3>1
    <2>3. ASSUME NEW n \in next_seqno'..(seqno' - 1)
          PROVE  \E g \in Handlers : pc'[g] \in {"got", "again"} /\ msg'[g].seqno = n
      <3>1. n \in next_seqno..(seqno - 1) /\ next_seqno' <= n /\ n \in Nat BY <1>1, <1>3 DEF kernel
      <3>2. PICK g \in Handlers : pc[g] \in {"got", "again"} /\ msg[g].seqno = n BY <3>1 DEF SeqnoInv
      <3>3. Active(h) BY DEF Active
      <3>4. g # h BY <1>1, <2>1, <3>1, <3>2, <3>3
      <3> QED BY <1>1, <3>2, <3>4
    <2> QED BY <1>1, <1>9, <2>2, <2>3 DEF SeqnoInv, kernel
  <1>11. NoticeAt' = NoticeAt /\ Noticed' = Noticed BY <1>9 DEF NoticeAt, At, Noticed, kernel
  <1>12. Believers' = Believers BY <1>1, <1>11 DEF Believers
  <1>13. NoticeInv' BY <1>11, <1>12 DEF NoticeInv, kernel
  <1>14. GoneInv' BY <1>2 DEF GoneInv
  <1> QED BY <1>4, <1>5, <1>6, <1>7, <1>8, <1>10, <1>13, <1>14

LEMMA LookupHolds ==
    ASSUME IInv, NEW h \in Handlers, Lookup(h)
    PROVE  IInv'
  <1>0. UNCHANGED <<alive, external_port, mscount, no_senders, registered, kernel,
                    epc, locals, passing, unpacked, clients>>
    BY DEF Lookup
  <1>1. CASE /\ registered /\ ReferenceWithSeqno(msg[h].seqno)
             /\ pc' = [pc EXCEPT ![h] = "has"] /\ UNCHANGED <<msg, unknown>>
    BY <1>0, <1>1, LookupFindsHolds DEF Lookup
  <1>2. CASE /\ ~registered /\ pc[h] = "got" /\ pc' = [pc EXCEPT ![h] = "again"]
             /\ UNCHANGED <<ref_cnt, next_seqno, msg, unknown>>
    <2> USE DEF IInv
    <2>1. pc' \in [Handlers -> Places] /\ pc'[h] = "again" /\ \A g \in Handlers \ {h} : pc'[g] = pc[g]
      BY <1>2 DEF TypeOK, Places
    <2>2. TypeOK'
      <3>1. \A g \in Handlers : IF pc'[g] = "idle" THEN msg'[g] = NoMsg ELSE msg'[g] \in HandlerMsg
        BY <1>2, <2>1 DEF TypeOK
      <3> QED BY <1>0, <1>2, <2>1, <3>1 DEF TypeOK, Places, kernel, clients
    <2>3. RefExact'
      <3>1. Counted' = Counted BY <1>2, <2>1 DEF Counted
      <3>2. {g \in DOMAIN pc' : pc'[g] \in {"has", "done"}} = {g \in DOMAIN pc : pc[g] \in {"has", "done"}}
        BY <1>2, <2>1 DEF TypeOK
      <3> QED BY <1>0, <1>2, <3>1, <3>2 DEF RefExact, Count
    <2>4. PortInv'
      <3>1. external_port # "null" BY <1>2 DEF PortInv
      <3> QED BY <1>0, <1>2, <3>1 DEF PortInv
    <2>5. MakeSendInv' BY <1>0 DEF MakeSendInv, Exported, Finished, clients, kernel
    <2>6. RightInv' BY <1>0 DEF RightInv, InvokeAt, At, clients, kernel
    <2>7. \A g \in Handlers : Active(g)' <=> Active(g) BY <1>2, <2>1 DEF Active
    <2>8. SeqnoInv'
      <3>1. \A g \in Handlers : /\ pc'[g] \in {"got", "again"} <=> pc[g] \in {"got", "again"}
                                /\ pc'[g] \in {"has", "done"} <=> pc[g] \in {"has", "done"}
        BY <1>2, <2>1
      <3> QED BY <1>0, <1>2, <2>7, <3>1 DEF SeqnoInv, kernel
    <2>9. NoticeAt' = NoticeAt /\ Noticed' = Noticed
      BY <1>0, <1>2, <2>7 DEF NoticeAt, At, Noticed, kernel
    <2>10. Believers' = Believers BY <1>2, <2>1, <2>9 DEF Believers
    <2>11. NoticeInv' BY <1>0, <1>2, <2>9, <2>10 DEF NoticeInv, kernel
    <2>12. GoneInv' BY <1>0, <1>2, <2>9, <2>10 DEF GoneInv, kernel
    <2> QED BY <2>2, <2>3, <2>4, <2>5, <2>6, <2>8, <2>11, <2>12
  <1>3. CASE /\ ~registered /\ pc[h] = "again" /\ pc' = [pc EXCEPT ![h] = "idle"]
             /\ msg' = [msg EXCEPT ![h] = NoMsg] /\ unknown' = unknown + 1
             /\ UNCHANGED <<ref_cnt, next_seqno>>
    BY <1>0, <1>3, LookupFailsHolds
  <1> QED BY <1>1, <1>2, <1>3 DEF Lookup

-----------------------------------------------------------------------------
(* The theorems.                                                           *)

LEMMA InitHolds ==
    ASSUME Init
    PROVE  IInv
  <1> USE BoundAssumption DEF Init
  <1>1. TypeOK
    <2>1. Cardinality(Exporters) \in Nat BY FS_CardinalityType
    <2>2. queue \in Seq(PortMsg) OBVIOUS
    <2>3. /\ pc \in [Handlers -> {"idle", "got", "again", "has", "done"}]
          /\ msg \in [Handlers -> HandlerMsg \cup {NoMsg}]
          /\ epc \in [Exporters -> {"start", "held", "packed", "sending", "done"}]
      OBVIOUS
    <2>4. \A h \in Handlers : pc[h] = "idle" /\ msg[h] = NoMsg OBVIOUS
    <2>5. /\ mscount \in 0..Cardinality(Exporters) /\ kmscount \in 0..Cardinality(Exporters)
          /\ sends \in 0..MaxSends /\ passes \in 0..MaxPasses /\ fails \in 0..MaxFails
      BY <2>1
    <2> QED BY <2>2, <2>3, <2>4, <2>5 DEF TypeOK
  <1>2. Holding = {} /\ Working = {} /\ Counted = {} /\ Exported = {} /\ Finished = {}
    BY DEF Holding, Working, Counted, Exported, Finished
  <1>3. RefExact
    <2>1. Bit(registered) = 0 BY DEF Bit
    <2>2. Cardinality(Holding) = 0 /\ Cardinality(Working) = 0 /\ Cardinality(Counted) = 0
      BY <1>2, FS_EmptySet
    <2> QED BY <1>1, <2>1, <2>2, Sizes DEF RefExact
  <1>4. PortInv BY DEF PortInv
  <1>5. MakeSendInv BY <1>2, FS_EmptySet DEF MakeSendInv
  <1>6. InvokeAt = {} /\ NoticeAt = {}
    <2>1. 1..Len(queue) = {} OBVIOUS
    <2> QED BY <2>1 DEF InvokeAt, NoticeAt, At
  <1>7. RightInv BY <1>6, FS_EmptySet DEF RightInv
  <1>8. SeqnoInv BY DEF SeqnoInv, Active
  <1>9. Noticed = {} /\ Believers = {} BY DEF Noticed, Believers, Active
  <1>10. NoticeInv BY <1>6, <1>9 DEF NoticeInv
  <1>11. GoneInv BY DEF GoneInv
  <1> QED BY <1>1, <1>3, <1>4, <1>5, <1>7, <1>8, <1>10, <1>11 DEF IInv

LEMMA NextHolds ==
    ASSUME IInv, [Next]_vars
    PROVE  IInv'
  <1>1. ASSUME NEW h \in Handlers, HandlerStep(h) PROVE IInv'
    BY <1>1, ReceiveHolds, LookupHolds, InvokeHolds, NoRemoteSendersHolds, HandlerDereferenceHolds
    DEF HandlerStep
  <1>2. ASSUME NEW e \in Exporters, Take(e) \/ ReplyStep(e) \/ SendReplyFails(e) PROVE IInv'
    BY <1>2, TakeHolds, GetTransferPortHolds, PackDereferenceHolds, SendReplyHolds, SendReplyFailsHolds
    DEF ReplyStep
  <1>3. CASE LocalDereference BY <1>3, LocalDereferenceHolds
  <1>4. CASE PassBack BY <1>4, PassBackHolds
  <1>5. CASE UnpackLookup BY <1>5, UnpackLookupHolds
  <1>6. CASE UnpackDeallocate BY <1>6, UnpackDeallocateHolds
  <1>7. CASE ClientSend BY <1>7, ClientSendHolds
  <1>8. CASE ClientDrop BY <1>8, ClientDropHolds
  <1>9. CASE UNCHANGED vars
    BY <1>9 DEF vars, object, kernel, threads, clients, IInv, TypeOK, RefExact, Count, Bit, Counted,
                PortInv, MakeSendInv, Exported, Finished, RightInv, InvokeAt, NoticeAt, At, SeqnoInv,
                Active, NoticeInv, Noticed, Believers, GoneInv
  <1> QED BY <1>1, <1>2, <1>3, <1>4, <1>5, <1>6, <1>7, <1>8, <1>9 DEF Next

\* The inductive invariant holds in every reachable state: the exact reference
\* count, the places of the send rights, the numbering of the messages and the
\* single no-senders notification.
THEOREM Invariance == Spec => []IInv
  <1>1. Init => IInv BY InitHolds
  <1>2. IInv /\ [Next]_vars => IInv' BY NextHolds
  <1> QED BY <1>1, <1>2, PTL DEF Spec

\* usTop::ref_cnt counts exactly the holders of the object, the replies that are
\* being packed, the handlers at work, the messages reference_with_seqno counted
\* for others, the table entry, and the messages lost "on an unknown port".
THEOREM RefsAreSound == Spec => []RefsSound
  <1>1. IInv => RefsSound BY DEF IInv, RefsSound
  <1> QED BY <1>1, Invariance, PTL

\* Nobody who can reach the object finds it deleted, its port comes back as an
\* argument to a table that has it, and it is deleted only after the no-senders
\* notification of its port was believed.
THEOREM AlwaysReachable == Spec => []Reachable
  <1>1. ASSUME IInv PROVE Reachable
    <2> USE <1>1 DEF IInv
    <2>1. ref_cnt \in Nat /\ srights \in Nat /\ locals \in Nat BY DEF TypeOK
    <2>2. ref_cnt > 0 => alive BY DEF PortInv
    <2>3. registered => alive BY <2>2, Kept
    <2>4. rights > 0 \/ passing > 0 \/ InvokeAt # {} => registered BY NoRights, Kept
    <2>5. ref_cnt > Bit(registered) => alive BY <2>1, <2>2, Sizes
    <2>6. NoDangling
      <3>1. (\E i \in 1..Len(queue) : queue[i].kind = "invoke") => InvokeAt # {} BY DEF InvokeAt, At
      <3>2. (\E e \in Exporters : epc[e] \in {"held", "packed", "sending"}) => alive
        BY <2>3, <2>5, Kept
      <3> QED BY <2>3, <2>4, <2>5, <3>1, <3>2, Kept DEF NoDangling
    <2>7. TerminatesClean BY <2>3 DEF TerminatesClean, PortInv
    <2>8. ArgumentFound BY <2>4 DEF ArgumentFound
    <2> QED BY <2>6, <2>7, <2>8 DEF Reachable
  <1> QED BY <1>1, Invariance, PTL

\* When _no_remote_senders sees the object's own make-send count there is no send
\* right and none on its way, and its assertion on the count holds always.
THEOREM NotificationIsForReal == Spec => []ForReal
  <1>1. IInv => ForReal BY Believed DEF ForReal
  <1> QED BY <1>1, Invariance, PTL
=============================================================================
