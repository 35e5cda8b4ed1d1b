--------------------------- MODULE CthreadsProofs ---------------------------
(***************************************************************************)
(* Proofs about module Cthreads, for any number of cprocs, structures,     *)
(* forks and limits: the bookkeeping of the package and the results that   *)
(* cthread_join returns.                                                   *)
(***************************************************************************)
EXTENDS Cthreads, FiniteSetTheorems, TLAPS

-----------------------------------------------------------------------------
(* The inductive invariant.                                                *)

\* A cproc with no thread, one that executes a thread and so owns its structure,
\* and one whose thread has returned: the structure may be anybody's by now.
Asleep == {"none", "lock", "needed"}
Owning == {"run", "f_signal", "returned", "r_free", "d_free", "join", "j_wait", "j_woken",
           "j_free", "x_lock", "x_wait", "exited"}
Late == {"r_signal", "r_count"}

\* Where a cproc has a claim on the structure arg[p]: to join it or to free it.
Claiming == {"join", "j_wait", "j_woken", "j_free", "d_free"}

\* Where a cproc is on the way to the queue, or to waking one that sleeps.
Coming == {"lock", "f_signal", "returned", "r_free", "r_signal", "r_count"}

PlacedIn(f, S) == {p \in Cprocs : f[p] \in S}
In(S) == PlacedIn(pc, S)

\* The conditions cthread_needed and cthread_idle.
WaitInv == /\ IsInjective(needed) /\ \A p \in Range(needed) : pc[p] = "needed"
           /\ IsInjective(idle) /\ \A p \in Range(idle) : pc[p] = "x_wait"

\* A structure is queued, free, or executed by one cproc.
PlaceInv ==
    /\ IsInjective(cthreads) /\ IsInjective(free_cthreads)
    /\ Range(cthreads) \cap Range(free_cthreads) = {}
    /\ Range(cthreads) \cup Range(free_cthreads) \subseteq heap
    /\ \A p \in Cprocs : IF pc[p] \in Asleep THEN cur[p] = None ELSE cur[p] \in Slots
    /\ \A p \in In(Owning) : /\ cur[p] \in heap /\ cur[p] \notin Range(cthreads)
                             /\ cur[p] \notin Range(free_cthreads)
    /\ \A p, q \in In(Owning) : cur[p] = cur[q] => p = q

\* The flags of a structure, and the result it holds.
FlagInv ==
    /\ \A t \in Range(cthreads) : tstate[t] \cap {"T_RETURNED", "T_MAIN"} = {}
    /\ \A p \in In(Owning) : "T_RETURNED" \notin tstate[cur[p]]
    /\ \A p \in In(Late \cup {"returned", "r_free"}) : "T_MAIN" \notin tstate[cur[p]]
    /\ \A p \in In({"r_free"}) : "T_DETACHED" \in tstate[cur[p]]
    /\ \A p \in In({"returned"}) : result[cur[p]] = inv[cur[p]]
    /\ \A t \in Slots : "T_RETURNED" \in tstate[t] => result[t] = inv[t]

\* Somebody executes the main thread.
MainInv == \E m \in In(Owning) : "T_MAIN" \in tstate[cur[m]]

\* Whoever may still join or detach fork i with structure t.
Claimed(i, t) == /\ i \in 1..forks /\ t \in heap /\ t \notin Range(free_cthreads)
                 /\ inv[t] = i /\ tstate[t] \cap {"T_DETACHED", "T_MAIN"} = {}

\* A fork has at most one claim: the client's handle, or one join or detach.
ClaimInv ==
    /\ \A i \in Invocations : handle[i] # None => Claimed(i, handle[i])
    /\ \A p \in In(Claiming) : Claimed(want[p], arg[p]) /\ handle[want[p]] = None
    /\ \A p, q \in In(Claiming) : want[p] = want[q] => p = q
    /\ \A p \in In({"j_free", "d_free"}) : "T_RETURNED" \in tstate[arg[p]]

\* Only its one joiner waits for a thread that is queued or executed.
DoneInv ==
    \A t \in Slots :
        /\ t \in Range(cthreads) \/ \E p \in Cprocs : cur[p] = t
        /\ "T_MAIN" \notin tstate[t]
        => done[t] = <<>> \/ \E q \in In({"j_wait"}) : done[t] = <<q>> /\ arg[q] = t

\* The counts, and enough cprocs on the way for the queue while any sleeps.
CountInv ==
    /\ n_cprocs = Cardinality({p \in Cprocs : pc[p] # "none"})
    /\ n_cthreads <= forks + 1
    /\ Cardinality(heap) <= forks + 1
    /\ needed # <<>> => Len(cthreads) <= Cardinality(In(Coming))

IInv == /\ TypeOK /\ CountExact /\ ExitLast /\ JoinGetsResult
        /\ WaitInv /\ PlaceInv /\ FlagInv /\ MainInv /\ ClaimInv /\ DoneInv /\ CountInv

-----------------------------------------------------------------------------
(* Sequences and sizes.                                                    *)

LEMMA AppendSeq ==
    ASSUME NEW S, NEW q \in Seq(S), NEW x \in S
    PROVE  /\ Append(q, x) \in Seq(S) /\ Append(q, x) # <<>>
           /\ Len(Append(q, x)) = Len(q) + 1 /\ Len(q) \in Nat
           /\ Range(Append(q, x)) = Range(q) \cup {x}
           /\ IsInjective(q) /\ x \notin Range(q) => IsInjective(Append(q, x))
  <1>1. /\ Append(q, x) \in Seq(S) /\ Append(q, x) # <<>> /\ Len(q) \in Nat
        /\ Len(Append(q, x)) = Len(q) + 1
    OBVIOUS
  <1>2. /\ DOMAIN q = 1..Len(q) /\ DOMAIN Append(q, x) = 1..(Len(q) + 1)
        /\ Append(q, x)[Len(q) + 1] = x /\ \A i \in 1..Len(q) : Append(q, x)[i] = q[i]
    OBVIOUS
  <1>3. \A i \in 1..(Len(q) + 1) : i \in 1..Len(q) \/ i = Len(q) + 1 BY <1>1
  <1>4. Len(q) + 1 \in 1..(Len(q) + 1) /\ \A i \in 1..Len(q) : i \in 1..(Len(q) + 1) BY <1>1
  <1>5. Range(Append(q, x)) = Range(q) \cup {x} BY <1>2, <1>3, <1>4 DEF Range
  <1>6. IsInjective(q) /\ x \notin Range(q) => IsInjective(Append(q, x))
    BY <1>2, <1>3, <1>4 DEF Range, IsInjective
  <1> QED BY <1>1, <1>5, <1>6

LEMMA TailSeq ==
    ASSUME NEW S, NEW q \in Seq(S), q # <<>>
    PROVE  /\ Head(q) \in S /\ Tail(q) \in Seq(S) /\ Len(q) \in Nat /\ Len(Tail(q)) = Len(q) - 1
           /\ Range(q) = Range(Tail(q)) \cup {Head(q)}
           /\ IsInjective(q) => IsInjective(Tail(q)) /\ Head(q) \notin Range(Tail(q))
  <1>1. Head(q) \in S /\ Tail(q) \in Seq(S) /\ Len(q) \in Nat /\ Len(q) >= 1 /\ Len(Tail(q)) = Len(q) - 1
    OBVIOUS
  <1>2. /\ DOMAIN q = 1..Len(q) /\ DOMAIN Tail(q) = 1..(Len(q) - 1) /\ Head(q) = q[1]
        /\ \A i \in 1..(Len(q) - 1) : Tail(q)[i] = q[i + 1]
    OBVIOUS
  <1>3. /\ 1 \in 1..Len(q)
        /\ \A i \in 1..(Len(q) - 1) : i + 1 \in 1..Len(q) /\ i + 1 # 1
        /\ \A i \in 1..Len(q) : i = 1 \/ (i - 1 \in 1..(Len(q) - 1) /\ (i - 1) + 1 = i)
        /\ \A i, j \in 1..(Len(q) - 1) : i + 1 = j + 1 => i = j
    BY <1>1
  <1>4. Range(q) = Range(Tail(q)) \cup {Head(q)}
    <2>1. ASSUME NEW i \in 1..Len(q) PROVE q[i] \in Range(Tail(q)) \cup {Head(q)}
      <3>1. CASE i = 1 BY <1>2, <3>1
      <3>2. CASE i # 1
        <4>1. i - 1 \in DOMAIN Tail(q) /\ Tail(q)[i - 1] = q[i] BY <1>2, <1>3, <3>2
        <4> QED BY <4>1 DEF Range
      <3> QED BY <3>1, <3>2
    <2>2. \A y \in Range(Tail(q)) \cup {Head(q)} : y \in Range(q) BY <1>2, <1>3 DEF Range
    <2>3. \A y \in Range(q) : \E i \in 1..Len(q) : y = q[i] BY <1>2 DEF Range
    <2> QED BY <2>1, <2>2, <2>3
  <1>5. ASSUME IsInjective(q) PROVE IsInjective(Tail(q)) /\ Head(q) \notin Range(Tail(q))
    BY <1>2, <1>3, <1>5 DEF Range, IsInjective
  <1> QED BY <1>1, <1>4, <1>5

LEMMA PushSeq ==
    ASSUME NEW S, NEW q \in Seq(S), NEW x \in S
    PROVE  /\ <<x>> \o q \in Seq(S) /\ Range(<<x>> \o q) = Range(q) \cup {x}
           /\ IsInjective(q) /\ x \notin Range(q) => IsInjective(<<x>> \o q)
  <1> DEFINE r == <<x>> \o q
  <1>1. /\ r \in Seq(S) /\ Len(q) \in Nat /\ DOMAIN q = 1..Len(q) /\ DOMAIN r = 1..(Len(q) + 1)
        /\ r[1] = x /\ \A i \in 2..(Len(q) + 1) : r[i] = q[i - 1]
    OBVIOUS
  <1>2. /\ 1 \in 1..(Len(q) + 1)
        /\ \A i \in 1..(Len(q) + 1) : i = 1 \/ (i \in 2..(Len(q) + 1) /\ i - 1 \in 1..Len(q))
        /\ \A i \in 1..Len(q) : i + 1 \in 2..(Len(q) + 1) /\ i + 1 \in 1..(Len(q) + 1) /\ (i + 1) - 1 = i
        /\ \A i, j \in 1..(Len(q) + 1) : i - 1 = j - 1 => i = j
    BY <1>1
  <1> HIDE DEF r
  <1>3. Range(r) = Range(q) \cup {x}
    <2>1. \A y \in Range(r) : y \in Range(q) \cup {x} BY <1>1, <1>2 DEF Range
    <2>2. ASSUME NEW i \in 1..Len(q) PROVE q[i] \in Range(r)
      <3>1. i + 1 \in DOMAIN r /\ r[i + 1] = q[i] BY <1>1, <1>2
      <3> QED BY <3>1 DEF Range
    <2>3. x \in Range(r) BY <1>1, <1>2 DEF Range
    <2>4. \A y \in Range(q) : y \in Range(r) BY <1>1, <2>2 DEF Range
    <2> QED BY <2>1, <2>3, <2>4
  <1>4. ASSUME IsInjective(q), x \notin Range(q) PROVE IsInjective(r)
    <2>1. \A i \in 2..(Len(q) + 1) : r[i] = q[i - 1] /\ i - 1 \in DOMAIN q /\ q[i - 1] # x
      BY <1>1, <1>2, <1>4 DEF Range
    <2>2. ASSUME NEW i \in 1..(Len(q) + 1), NEW j \in 1..(Len(q) + 1), r[i] = r[j] PROVE i = j
      <3>1. CASE i = 1 \/ j = 1 BY <1>1, <1>2, <2>1, <2>2, <3>1
      <3>2. CASE i # 1 /\ j # 1
        <4>1. i \in 2..(Len(q) + 1) /\ j \in 2..(Len(q) + 1) BY <1>2, <3>2
        <4>2. i - 1 = j - 1 BY <1>4, <2>1, <2>2, <4>1 DEF IsInjective
        <4> QED BY <1>2, <4>2
      <3> QED BY <3>1, <3>2
    <2> QED BY <1>1, <2>2 DEF IsInjective
  <1> QED BY <1>1, <1>3, <1>4 DEF r

Present == Pcs \ {"none"}
Working == Owning \cup Late

\* What a move from one place to another does to the size of S.
Diff(from, to, S) == IF to \in S /\ from \notin S THEN 1
                     ELSE IF from \in S /\ to \notin S THEN 0 - 1 ELSE 0

LEMMA OneIn ==
    ASSUME NEW f \in [Cprocs -> Pcs], NEW p \in Cprocs, NEW v \in Pcs,
           NEW g \in [Cprocs -> Pcs], g[p] = v, \A r \in Cprocs \ {p} : g[r] = f[r], NEW S
    PROVE  /\ Cardinality(PlacedIn(f, S)) \in Nat
           /\ Cardinality(PlacedIn(g, S)) = Cardinality(PlacedIn(f, S)) + Diff(f[p], v, S)
  <1> DEFINE A == PlacedIn(f, S)  B == PlacedIn(g, S)
  <1>1. /\ (p \in A <=> f[p] \in S) /\ (p \in B <=> v \in S) /\ A \ {p} = B \ {p} BY DEF PlacedIn
  <1>2. A \subseteq Cprocs /\ B \subseteq Cprocs BY DEF PlacedIn
  <1> HIDE DEF A, B
  <1>3. IsFiniteSet(A) /\ IsFiniteSet(B) BY <1>2, ConstAssumption, FS_Subset
  <1>4. Cardinality(A) \in Nat /\ Cardinality(B) \in Nat BY <1>3, FS_CardinalityType
  <1>5. Cardinality(B) = Cardinality(A) + Diff(f[p], v, S)
    <2>1. CASE v \in S /\ f[p] \notin S
      <3>1. B = A \cup {p} /\ p \notin A BY <1>1, <2>1
      <3> QED BY <1>3, <2>1, <3>1, FS_AddElement DEF Diff
    <2>2. CASE f[p] \in S /\ v \notin S
      <3>1. A = B \cup {p} /\ p \notin B BY <1>1, <2>2
      <3> QED BY <1>3, <1>4, <2>2, <3>1, FS_AddElement DEF Diff
    <2>3. CASE v \in S <=> f[p] \in S
      <3>1. A = B BY <1>1, <2>3
      <3> QED BY <1>4, <2>3, <3>1 DEF Diff
    <2> QED BY <2>1, <2>2, <2>3
  <1> QED BY <1>4, <1>5 DEF A, B

\* One cproc moves.
LEMMA Move ==
    ASSUME TypeOK, NEW p \in Cprocs, NEW v \in Pcs, pc' = [pc EXCEPT ![p] = v]
    PROVE  /\ pc' \in [Cprocs -> Pcs] /\ pc'[p] = v /\ \A q \in Cprocs \ {p} : pc'[q] = pc[q]
           /\ Cardinality(In(Working)') = Cardinality(In(Working)) + Diff(pc[p], v, Working)
           /\ Cardinality(In(Present)') = Cardinality(In(Present)) + Diff(pc[p], v, Present)
           /\ Cardinality(In(Coming)') = Cardinality(In(Coming)) + Diff(pc[p], v, Coming)
  <1>1. pc' \in [Cprocs -> Pcs] /\ pc'[p] = v /\ \A q \in Cprocs \ {p} : pc'[q] = pc[q] BY DEF TypeOK
  <1>2. ASSUME NEW S
        PROVE  Cardinality(In(S)) \in Nat /\ Cardinality(In(S)') = Cardinality(In(S)) + Diff(pc[p], v, S)
    <2>1. pc \in [Cprocs -> Pcs] BY DEF TypeOK
    <2> DEFINE g == pc'
    <2>2. g \in [Cprocs -> Pcs] /\ g[p] = v /\ \A q \in Cprocs \ {p} : g[q] = pc[q] BY <1>1
    <2> HIDE DEF g
    <2>3. /\ Cardinality(PlacedIn(pc, S)) \in Nat
          /\ Cardinality(PlacedIn(g, S)) = Cardinality(PlacedIn(pc, S)) + Diff(pc[p], v, S)
      BY <2>1, <2>2, OneIn
    <2> QED BY <2>3 DEF In, g
  <1> QED BY <1>1, <1>2

LEMMA MoveTwoIn ==
    ASSUME TypeOK, NEW p \in Cprocs, NEW v \in Pcs, NEW r \in Cprocs, NEW w \in Pcs, r # p,
           pc' \in [Cprocs -> Pcs], pc'[p] = v, pc'[r] = w, \A q \in Cprocs \ {p, r} : pc'[q] = pc[q], NEW S
    PROVE  Cardinality(In(S)') = Cardinality(In(S)) + Diff(pc[p], v, S) + Diff(pc[r], w, S)
  <1> DEFINE f == [pc EXCEPT ![p] = v]  g == pc'
  <1>0. pc \in [Cprocs -> Pcs] BY DEF TypeOK
  <1>1. /\ f \in [Cprocs -> Pcs] /\ f[p] = v /\ \A q \in Cprocs \ {p} : f[q] = pc[q] /\ f[r] = pc[r]
    BY <1>0
  <1>2. g \in [Cprocs -> Pcs] /\ g[r] = w /\ \A q \in Cprocs \ {r} : g[q] = f[q] BY <1>1
  <1> HIDE DEF f, g
  <1>3. /\ Cardinality(PlacedIn(pc, S)) \in Nat
        /\ Cardinality(PlacedIn(f, S)) = Cardinality(PlacedIn(pc, S)) + Diff(pc[p], v, S)
    BY <1>0, <1>1, OneIn
  <1>4. Cardinality(PlacedIn(g, S)) = Cardinality(PlacedIn(f, S)) + Diff(f[r], w, S)
    BY <1>1, <1>2, OneIn
  <1>5. f[r] = pc[r] BY <1>1
  <1> QED BY <1>3, <1>4, <1>5 DEF In, g

\* One cproc moves and moves another.
LEMMA MoveTwo ==
    ASSUME TypeOK, NEW p \in Cprocs, NEW v \in Pcs, NEW r \in Cprocs, NEW w \in Pcs, r # p,
           pc' \in [Cprocs -> Pcs], pc'[p] = v, pc'[r] = w, \A q \in Cprocs \ {p, r} : pc'[q] = pc[q]
    PROVE  /\ Cardinality(In(Working)') = Cardinality(In(Working)) + Diff(pc[p], v, Working) + Diff(pc[r], w, Working)
           /\ Cardinality(In(Present)') = Cardinality(In(Present)) + Diff(pc[p], v, Present) + Diff(pc[r], w, Present)
           /\ Cardinality(In(Coming)') = Cardinality(In(Coming)) + Diff(pc[p], v, Coming) + Diff(pc[r], w, Coming)
  BY MoveTwoIn

\* The sizes are numbers.
LEMMA InSizes ==
    ASSUME NEW S
    PROVE  Cardinality(In(S)) \in Nat /\ IsFiniteSet(In(S))
  <1>1. In(S) \subseteq Cprocs BY DEF In, PlacedIn
  <1>2. IsFiniteSet(In(S)) BY <1>1, ConstAssumption, FS_Subset
  <1> QED BY <1>2, FS_CardinalityType

\* The places, and the two counts of the package by the places counted.
LEMMA Counts ==
    ASSUME NEW f \in [Cprocs -> Pcs]
    PROVE  /\ {p \in Cprocs : f[p] \notin {"none", "lock", "needed"}} = PlacedIn(f, Working)
           /\ {p \in Cprocs : f[p] # "none"} = PlacedIn(f, Present)
           /\ \A p \in Cprocs : f[p] \in Asleep \/ f[p] \in Owning \/ f[p] \in Late
           /\ \A p \in Cprocs : f[p] \in Asleep => f[p] \notin Working
  BY DEF PlacedIn, Working, Present, Pcs, Owning, Late, Asleep

\* The counts, by place.
CountForm == /\ n_cthreads = Len(cthreads) + Cardinality(In(Working))
             /\ n_cprocs = Cardinality(In(Present))
             /\ n_cthreads <= forks + 1 /\ Cardinality(heap) <= forks + 1
             /\ needed # <<>> => Len(cthreads) <= Cardinality(In(Coming))

LEMMA CountForms ==
    /\ pc \in [Cprocs -> Pcs] => (CountExact /\ CountInv <=> CountForm)
    /\ pc' \in [Cprocs -> Pcs] => (CountExact' /\ CountInv' <=> CountForm')
  <1>1. pc \in [Cprocs -> Pcs] => (CountExact /\ CountInv <=> CountForm)
    BY Counts DEF CountExact, CountInv, CountForm, In
  <1>2. ASSUME pc' \in [Cprocs -> Pcs] PROVE CountExact' /\ CountInv' <=> CountForm'
    BY <1>2, Counts DEF CountExact, CountInv, CountForm, In
  <1> QED BY <1>1, <1>2

-----------------------------------------------------------------------------
(* What a step leaves alone.                                               *)

\* The sets of places the invariant speaks of.
Roles == {Asleep, Owning, Late \cup {"returned", "r_free"}, {"r_free"}, {"returned"}, Claiming,
          {"j_free", "d_free"}, {"j_free"}, {"j_wait"}}

SameRole(a, b) == \A S \in Roles : a \in S <=> b \in S

LEMMA InSame ==
    ASSUME NEW S, \A p \in Cprocs : pc[p] \in S <=> pc'[p] \in S
    PROVE  In(S)' = In(S)
  BY DEF In, PlacedIn

LEMMA SameRoles ==
    ASSUME \A p \in Cprocs : SameRole(pc[p], pc'[p])
    PROVE  \A S \in Roles : In(S)' = In(S)
  <1> SUFFICES ASSUME NEW S \in Roles PROVE In(S)' = In(S) OBVIOUS
  <1>1. \A p \in Cprocs : pc[p] \in S <=> pc'[p] \in S BY DEF SameRole
  <1> QED BY <1>1, InSame

LEMMA PlaceSame ==
    ASSUME PlaceInv, UNCHANGED <<cthreads, free_cthreads, heap, cur>>,
           In(Asleep)' = In(Asleep), In(Owning)' = In(Owning)
    PROVE  PlaceInv'
  <1>1. \A p \in Cprocs : pc'[p] \in Asleep <=> pc[p] \in Asleep BY DEF In, PlacedIn
  <1> QED BY <1>1 DEF PlaceInv

LEMMA FlagSame ==
    ASSUME FlagInv, UNCHANGED <<cthreads, tstate, result, inv, cur>>,
           In(Owning)' = In(Owning), In({"r_free"})' = In({"r_free"}), In({"returned"})' = In({"returned"}),
           In(Late \cup {"returned", "r_free"})' = In(Late \cup {"returned", "r_free"})
    PROVE  FlagInv'
  BY DEF FlagInv

LEMMA MainSame ==
    ASSUME MainInv, UNCHANGED <<tstate, cur>>, In(Owning)' = In(Owning)
    PROVE  MainInv'
  BY DEF MainInv

LEMMA ClaimSame ==
    ASSUME ClaimInv, UNCHANGED <<free_cthreads, heap, tstate, inv, arg, want, handle, forks>>,
           In(Claiming)' = In(Claiming), In({"j_free", "d_free"})' = In({"j_free", "d_free"})
    PROVE  ClaimInv'
  BY DEF ClaimInv, Claimed

LEMMA DoneSame ==
    ASSUME DoneInv, UNCHANGED <<cthreads, tstate, done, cur, arg>>, In({"j_wait"})' = In({"j_wait"})
    PROVE  DoneInv'
  BY DEF DoneInv

LEMMA JoinedSame ==
    ASSUME JoinGetsResult, UNCHANGED <<joined, want>>, In({"j_free"})' = In({"j_free"})
    PROVE  JoinGetsResult'
  <1>1. \A p \in Cprocs : pc'[p] = "j_free" <=> pc[p] = "j_free" BY DEF In, PlacedIn
  <1> QED BY <1>1 DEF JoinGetsResult

\* A step that moves cprocs within their roles and touches no structure.
LEMMA StructuresSame ==
    ASSUME IInv, \A p \in Cprocs : SameRole(pc[p], pc'[p]),
           UNCHANGED <<cthreads, free_cthreads, heap, tstate, done, result, inv, cur, arg, want, handle, joined, forks>>
    PROVE  JoinGetsResult' /\ PlaceInv' /\ FlagInv' /\ MainInv' /\ ClaimInv' /\ DoneInv'
  <1>1. \A S \in Roles : In(S)' = In(S) BY SameRoles
  <1>2. /\ In(Owning)' = In(Owning) /\ In(Asleep)' = In(Asleep) /\ In(Claiming)' = In(Claiming)
        /\ In({"j_free", "d_free"})' = In({"j_free", "d_free"}) /\ In({"j_wait"})' = In({"j_wait"})
        /\ In({"j_free"})' = In({"j_free"})
        /\ In({"r_free"})' = In({"r_free"}) /\ In({"returned"})' = In({"returned"})
        /\ In(Late \cup {"returned", "r_free"})' = In(Late \cup {"returned", "r_free"})
    BY <1>1 DEF Roles
  <1> QED BY <1>2, PlaceSame, FlagSame, MainSame, ClaimSame, DoneSame, JoinedSame DEF IInv

\* Nobody exits.
LEMMA NobodyExits ==
    ASSUME \A p \in Cprocs : pc'[p] # "exited"
    PROVE  ExitLast'
  BY DEF ExitLast

\* The moves within a role.
LEMMA RoleMoves ==
    /\ SameRole("f_signal", "run") /\ SameRole("run", "f_signal") /\ SameRole("needed", "lock")
    /\ SameRole("none", "lock") /\ SameRole("lock", "needed")
    /\ SameRole("x_lock", "x_wait") /\ SameRole("x_wait", "x_lock") /\ SameRole("x_lock", "exited")
    /\ SameRole("run", "x_lock") /\ \A a : SameRole(a, a)
  BY DEF SameRole, Roles, Asleep, Owning, Late, Claiming

\* The sizes as numbers.
LEMMA CountTypes ==
    ASSUME TypeOK
    PROVE  /\ pc \in [Cprocs -> Pcs] /\ cthreads \in Seq(Slots) /\ Len(cthreads) \in Nat
           /\ n_cprocs \in Nat /\ n_cthreads \in Nat /\ forks \in Nat /\ MaxForks \in Nat
           /\ Cardinality(Cprocs) \in Nat /\ Cardinality(Slots) \in Nat
           /\ Cardinality(heap) \in Nat /\ IsFiniteSet(heap)
  <1> USE ConstAssumption
  <1>1. Cardinality(Cprocs) \in Nat /\ Cardinality(Slots) \in Nat BY FS_CardinalityType
  <1>2. cthreads \in Seq(Slots) /\ heap \subseteq Slots BY DEF TypeOK
  <1>3. IsFiniteSet(heap) BY <1>2, FS_Subset
  <1>4. Cardinality(heap) \in Nat BY <1>3, FS_CardinalityType
  <1>5. Len(cthreads) \in Nat BY <1>2
  <1> QED BY <1>1, <1>2, <1>3, <1>4, <1>5 DEF TypeOK

-----------------------------------------------------------------------------
(* The steps.                                                              *)

LEMMA SetLimitHolds ==
    ASSUME IInv, NEW p \in Cprocs, NEW n \in Limits, SetLimit(p, n)
    PROVE  IInv'
  <1> USE DEF IInv
  <1>0. /\ max_cprocs' = n /\ pc' = pc
        /\ UNCHANGED <<cthreads, needed, idle, n_cprocs, n_cthreads, free_cthreads,
                       heap, tstate, done, result, inv, cur, arg, want, handle, joined, forks, unixforks>>
    BY DEF SetLimit, client
  <1>1. TypeOK' BY <1>0 DEF TypeOK
  <1>2. CountExact' /\ ExitLast' /\ CountInv' BY <1>0 DEF CountExact, ExitLast, CountInv, In, PlacedIn
  <1>3. WaitInv' BY <1>0 DEF WaitInv
  <1>4. \A q \in Cprocs : SameRole(pc[q], pc'[q]) BY <1>0, RoleMoves
  <1>5. JoinGetsResult' /\ PlaceInv' /\ FlagInv' /\ MainInv' /\ ClaimInv' /\ DoneInv'
    BY <1>0, <1>4, StructuresSame
  <1> QED BY <1>1, <1>2, <1>3, <1>5

LEMMA ForkSignalHolds ==
    ASSUME IInv, Alive, NEW p \in Cprocs, ForkSignal(p)
    PROVE  IInv'
  <1> USE DEF IInv
  <1>0. /\ pc[p] = "f_signal"
        /\ UNCHANGED <<cthreads, idle, n_cprocs, n_cthreads, max_cprocs, free_cthreads, heap, tstate, done,
                       result, inv, cur, arg, want, handle, joined, forks, unixforks>>
    BY DEF ForkSignal, client, counts
  <1>1. pc \in [Cprocs -> Pcs] /\ needed \in Seq(Cprocs) BY DEF TypeOK
  <1>2. CASE needed = <<>>
    <2>1. pc' = [pc EXCEPT ![p] = "run"] /\ needed' = needed BY <1>2 DEF ForkSignal, Goto
    <2>2. "run" \in Pcs BY DEF Pcs
    <2>3. /\ pc' \in [Cprocs -> Pcs] /\ pc'[p] = "run" /\ \A q \in Cprocs \ {p} : pc'[q] = pc[q]
          /\ Cardinality(In(Working)') = Cardinality(In(Working)) + Diff(pc[p], "run", Working)
          /\ Cardinality(In(Present)') = Cardinality(In(Present)) + Diff(pc[p], "run", Present)
      BY <2>1, <2>2, Move
    <2>4. Diff(pc[p], "run", Working) = 0 /\ Diff(pc[p], "run", Present) = 0
      BY <1>0 DEF Diff, Working, Owning, Late, Present, Pcs
    <2>5. Cardinality(In(Working)') = Cardinality(In(Working)) /\ Cardinality(In(Present)') = Cardinality(In(Present))
      BY <2>3, <2>4, InSizes
    <2>6. TypeOK' BY <1>0, <2>1, <2>3 DEF TypeOK
    <2>7. CountExact' /\ CountInv'
      <3>1. CountForm BY <1>1, CountForms
      <3>2. CountForm' BY <1>0, <1>2, <2>1, <2>5, <3>1 DEF CountForm
      <3> QED BY <2>3, <3>2, CountForms
    <2>8. ExitLast' BY <2>3, NobodyExits DEF Alive
    <2>9. WaitInv' BY <1>0, <1>1, <1>2, <2>1, <2>3 DEF WaitInv
    <2>10. \A q \in Cprocs : SameRole(pc[q], pc'[q]) BY <1>0, <2>3, RoleMoves
    <2>11. JoinGetsResult' /\ PlaceInv' /\ FlagInv' /\ MainInv' /\ ClaimInv' /\ DoneInv'
      BY <1>0, <2>10, StructuresSame
    <2> QED BY <2>6, <2>7, <2>8, <2>9, <2>11
  <1>3. CASE needed # <<>>
    <2> DEFINE r == Head(needed)
    <2>1. pc' = [pc EXCEPT ![p] = "run", ![r] = "lock"] /\ needed' = Tail(needed) BY <1>3 DEF ForkSignal
    <2>2. /\ r \in Cprocs /\ needed' \in Seq(Cprocs) /\ Range(needed) = Range(needed') \cup {r}
          /\ IsInjective(needed') /\ r \notin Range(needed')
      BY <1>1, <1>3, <2>1, TailSeq DEF WaitInv
    <2> HIDE DEF r
    <2>3. pc[r] = "needed" /\ r # p BY <1>0, <2>2 DEF WaitInv
    <2>4. "run" \in Pcs /\ "lock" \in Pcs BY DEF Pcs
    <2>5. /\ pc' \in [Cprocs -> Pcs] /\ pc'[p] = "run" /\ pc'[r] = "lock"
          /\ \A q \in Cprocs \ {p, r} : pc'[q] = pc[q]
      BY <1>1, <2>1, <2>2, <2>3, <2>4
    <2>6. /\ Diff("f_signal", "run", Working) = 0 /\ Diff("needed", "lock", Working) = 0
          /\ Diff("f_signal", "run", Present) = 0 /\ Diff("needed", "lock", Present) = 0
          /\ Diff("f_signal", "run", Coming) = 0 - 1 /\ Diff("needed", "lock", Coming) = 1
      BY DEF Diff, Working, Owning, Late, Present, Pcs, Coming
    <2>7. /\ Cardinality(In(Working)') = Cardinality(In(Working))
          /\ Cardinality(In(Present)') = Cardinality(In(Present))
          /\ Cardinality(In(Coming)') = Cardinality(In(Coming))
      <3>1. /\ Cardinality(In(Working)') = Cardinality(In(Working)) + 0 + 0
            /\ Cardinality(In(Present)') = Cardinality(In(Present)) + 0 + 0
            /\ Cardinality(In(Coming)') = Cardinality(In(Coming)) + (0 - 1) + 1
        BY <1>0, <2>2, <2>3, <2>4, <2>5, <2>6, MoveTwo
      <3> QED BY <3>1, InSizes
    <2>8. TypeOK' BY <1>0, <2>2, <2>5 DEF TypeOK
    <2>9. CountExact' /\ CountInv'
      <3>1. CountForm BY <1>1, CountForms
      <3>2. CountForm' BY <1>0, <1>3, <2>7, <3>1 DEF CountForm
      <3> QED BY <2>5, <3>2, CountForms
    <2>10. ExitLast' BY <2>5, NobodyExits DEF Alive
    <2>11. WaitInv'
      <3>1. \A q \in Range(needed') : q \in Cprocs /\ q # r /\ q # p /\ pc[q] = "needed"
        <4>1. Range(needed) \subseteq Cprocs BY <1>1 DEF Range
        <4> QED BY <1>0, <2>2, <4>1 DEF WaitInv
      <3>2. \A q \in Range(idle) : q \in Cprocs /\ q # r /\ q # p /\ pc[q] = "x_wait"
        <4>1. idle \in Seq(Cprocs) BY DEF TypeOK
        <4>2. Range(idle) \subseteq Cprocs BY <4>1 DEF Range
        <4> QED BY <1>0, <2>3, <4>2 DEF WaitInv
      <3> QED BY <1>0, <2>2, <2>5, <3>1, <3>2 DEF WaitInv
    <2>12. \A q \in Cprocs : SameRole(pc[q], pc'[q])
      BY <1>0, <2>3, <2>5, RoleMoves
    <2>13. JoinGetsResult' /\ PlaceInv' /\ FlagInv' /\ MainInv' /\ ClaimInv' /\ DoneInv'
      BY <1>0, <2>12, StructuresSame
    <2> QED BY <2>8, <2>9, <2>10, <2>11, <2>13
  <1> QED BY <1>2, <1>3

\* A cproc that executes a thread moves on.
LEMMA BusyMove ==
    ASSUME IInv, Alive, NEW p \in Cprocs, NEW v \in Working, pc[p] \in Working \ {"x_wait"},
           pc[p] \in Coming => v \in Coming, pc' = [pc EXCEPT ![p] = v],
           UNCHANGED <<cthreads, needed, n_cprocs, n_cthreads, heap, forks>>
    PROVE  /\ pc' \in [Cprocs -> Pcs] /\ pc'[p] = v /\ \A q \in Cprocs \ {p} : pc'[q] = pc[q]
           /\ CountExact' /\ CountInv' /\ (idle' = idle => WaitInv') /\ (v # "exited" => ExitLast')
  <1> USE DEF IInv
  <1>1. v \in Pcs /\ v \in Present /\ pc[p] \in Present /\ pc[p] # "needed" /\ pc[p] # "x_wait"
    BY DEF Working, Owning, Late, Pcs, Present
  <1>2. /\ pc' \in [Cprocs -> Pcs] /\ pc'[p] = v /\ \A q \in Cprocs \ {p} : pc'[q] = pc[q]
        /\ Cardinality(In(Working)') = Cardinality(In(Working)) + Diff(pc[p], v, Working)
        /\ Cardinality(In(Present)') = Cardinality(In(Present)) + Diff(pc[p], v, Present)
        /\ Cardinality(In(Coming)') = Cardinality(In(Coming)) + Diff(pc[p], v, Coming)
    BY <1>1, Move
  <1>3. Diff(pc[p], v, Working) = 0 /\ Diff(pc[p], v, Present) = 0 /\ Diff(pc[p], v, Coming) \in {0, 1}
    BY <1>1 DEF Diff
  <1>4. /\ Cardinality(In(Working)') = Cardinality(In(Working))
        /\ Cardinality(In(Present)') = Cardinality(In(Present))
        /\ Cardinality(In(Coming)') >= Cardinality(In(Coming)) /\ Cardinality(In(Coming)') \in Nat
        /\ Cardinality(In(Coming)) \in Nat
    BY <1>2, <1>3, InSizes
  <1>5. CountExact' /\ CountInv'
    <2>1. CountForm BY CountTypes, CountForms
    <2>2. CountForm' BY <1>4, <2>1, CountTypes DEF CountForm
    <2> QED BY <1>2, <2>2, CountForms
  <1>6. idle' = idle => WaitInv'
    <2>1. Range(needed) \subseteq Cprocs /\ Range(idle) \subseteq Cprocs BY DEF TypeOK, Range
    <2> QED BY <1>1, <1>2, <2>1 DEF WaitInv
  <1>7. v # "exited" => ExitLast' BY <1>2, NobodyExits DEF Alive
  <1> QED BY <1>2, <1>5, <1>6, <1>7

\* The places that one cproc's move leaves as they are, and those it changes.
LEMMA MoveRole ==
    ASSUME NEW p \in Cprocs, NEW v, pc'[p] = v, \A q \in Cprocs \ {p} : pc'[q] = pc[q], NEW S
    PROVE  /\ (pc[p] \in S <=> v \in S) => In(S)' = In(S)
           /\ In(S)' = IF v \in S THEN In(S) \cup {p} ELSE In(S) \ {p}
  BY DEF In, PlacedIn

LEMMA ExitMainHolds ==
    ASSUME IInv, Alive, NEW p \in Cprocs, ExitMain(p)
    PROVE  IInv'
  <1> USE DEF IInv
  <1>0. /\ pc[p] = "x_lock"
        /\ UNCHANGED <<cthreads, needed, n_cprocs, n_cthreads, max_cprocs, free_cthreads, heap, tstate, done,
                       result, inv, cur, arg, want, handle, joined, forks, unixforks>>
    BY DEF ExitMain, client, counts
  <1>1. pc[p] \in Working \ {"x_wait"} /\ pc[p] \notin Coming BY <1>0 DEF Working, Owning, Coming
  <1>2. CASE n_cthreads > 1
    <2>1. idle' = Append(idle, p) /\ pc' = [pc EXCEPT ![p] = "x_wait"] BY <1>2 DEF ExitMain, Goto
    <2>2. "x_wait" \in Working BY DEF Working, Owning
    <2>3. /\ pc' \in [Cprocs -> Pcs] /\ pc'[p] = "x_wait" /\ \A q \in Cprocs \ {p} : pc'[q] = pc[q]
          /\ CountExact' /\ CountInv' /\ ExitLast'
      BY <1>0, <1>1, <2>1, <2>2, BusyMove
    <2>4. idle \in Seq(Cprocs) /\ needed \in Seq(Cprocs) BY DEF TypeOK
    <2>5. Range(idle) \subseteq Cprocs /\ Range(needed) \subseteq Cprocs BY <2>4 DEF Range
    <2>6. p \notin Range(idle) /\ p \notin Range(needed) BY <1>0 DEF WaitInv
    <2>7. idle' \in Seq(Cprocs) /\ IsInjective(idle') /\ Range(idle') = Range(idle) \cup {p}
      BY <2>1, <2>4, <2>6, AppendSeq DEF WaitInv
    <2>8. WaitInv' BY <1>0, <2>3, <2>5, <2>6, <2>7 DEF WaitInv
    <2>9. TypeOK' BY <1>0, <2>3, <2>7 DEF TypeOK
    <2>10. \A q \in Cprocs : SameRole(pc[q], pc'[q]) BY <1>0, <2>3, RoleMoves
    <2>11. JoinGetsResult' /\ PlaceInv' /\ FlagInv' /\ MainInv' /\ ClaimInv' /\ DoneInv'
      BY <1>0, <2>10, StructuresSame
    <2> QED BY <2>3, <2>8, <2>9, <2>11
  <1>3. CASE ~(n_cthreads > 1)
    <2>1. idle' = idle /\ pc' = [pc EXCEPT ![p] = "exited"] BY <1>3 DEF ExitMain, Goto
    <2>2. "exited" \in Working BY DEF Working, Owning
    <2>3. /\ pc' \in [Cprocs -> Pcs] /\ pc'[p] = "exited" /\ \A q \in Cprocs \ {p} : pc'[q] = pc[q]
          /\ CountExact' /\ CountInv' /\ WaitInv'
      BY <1>0, <1>1, <2>1, <2>2, BusyMove
    <2>4. TypeOK' BY <1>0, <2>1, <2>3 DEF TypeOK
    <2>5. \A q \in Cprocs : SameRole(pc[q], pc'[q]) BY <1>0, <2>3, RoleMoves
    <2>6. JoinGetsResult' /\ PlaceInv' /\ FlagInv' /\ MainInv' /\ ClaimInv' /\ DoneInv'
      BY <1>0, <2>5, StructuresSame
    <2>7. ExitLast'
      <3>1. p \in In(Working) BY <1>1 DEF In, PlacedIn
      <3>2. Cardinality(In(Working)) + Len(cthreads) <= 1
        <4>1. CountForm BY CountTypes, CountForms
        <4> QED BY <1>3, <4>1, CountTypes, InSizes DEF CountForm
      <3>3. /\ Cardinality(In(Working) \ {p}) = Cardinality(In(Working)) - 1
            /\ Cardinality(In(Working) \ {p}) \in Nat /\ IsFiniteSet(In(Working) \ {p})
        <4>1. IsFiniteSet(In(Working)) BY InSizes
        <4>2. IsFiniteSet(In(Working) \ {p}) /\ Cardinality(In(Working) \ {p}) = Cardinality(In(Working)) - 1
          BY <3>1, <4>1, FS_RemoveElement
        <4> QED BY <4>2, FS_CardinalityType
      <3>4. Len(cthreads) = 0 /\ Cardinality(In(Working) \ {p}) = 0 BY <3>2, <3>3, CountTypes, InSizes
      <3>5. In(Working) \ {p} = {} BY <3>3, <3>4, FS_EmptySet
      <3>6. \A q \in Cprocs \ {p} : pc[q] \notin Working BY <3>5 DEF In, PlacedIn
      <3>7. \A q \in Cprocs \ {p} : pc[q] \in {"none", "lock", "needed"}
        BY <3>6, CountTypes, Counts DEF Working, Asleep
      <3>8. cthreads = <<>> BY <3>4, CountTypes
      <3> QED BY <1>0, <2>3, <3>7, <3>8 DEF ExitLast
    <2> QED BY <2>3, <2>4, <2>6, <2>7
  <1> QED BY <1>2, <1>3

\* Owners of different structures.
LEMMA OwnerAlone ==
    ASSUME IInv, NEW p \in In(Owning)
    PROVE  /\ p \in Cprocs /\ cur[p] \in Slots /\ cur[p] \in heap /\ cur[p] \notin Range(cthreads)
           /\ cur[p] \notin Range(free_cthreads) /\ "T_RETURNED" \notin tstate[cur[p]]
           /\ \A q \in In(Owning) \ {p} : cur[q] # cur[p]
  BY DEF IInv, PlaceInv, FlagInv, In, PlacedIn, TypeOK

LEMMA FinishHolds ==
    ASSUME IInv, Alive, NEW p \in Cprocs, Finish(p)
    PROVE  IInv'
  <1> USE DEF IInv
  <1> DEFINE v == IF "T_MAIN" \in tstate[cur[p]] THEN "x_lock" ELSE "returned"
  <1>0. /\ pc[p] = "run" /\ result' = [result EXCEPT ![cur[p]] = inv[cur[p]]] /\ pc' = [pc EXCEPT ![p] = v]
        /\ UNCHANGED <<cthreads, needed, idle, n_cprocs, n_cthreads, max_cprocs, free_cthreads, heap, tstate,
                       done, inv, cur, arg, want, handle, joined, forks, unixforks>>
    BY DEF Finish, Goto, client, counts
  <1>1. /\ v \in {"x_lock", "returned"} /\ (v = "returned" => "T_MAIN" \notin tstate[cur[p]]) OBVIOUS
  <1> HIDE DEF v
  <1>2. /\ pc[p] \in Working \ {"x_wait"} /\ pc[p] \notin Coming /\ pc[p] \in Owning
        /\ v \in Working /\ v \in Owning /\ v # "exited"
    BY <1>0, <1>1 DEF Working, Owning, Coming
  <1>3. /\ pc' \in [Cprocs -> Pcs] /\ pc'[p] = v /\ \A q \in Cprocs \ {p} : pc'[q] = pc[q]
        /\ CountExact' /\ CountInv' /\ WaitInv' /\ ExitLast'
    BY <1>0, <1>2, BusyMove
  <1>4. /\ In(Owning)' = In(Owning) /\ In(Asleep)' = In(Asleep) /\ In(Claiming)' = In(Claiming)
        /\ In({"j_free", "d_free"})' = In({"j_free", "d_free"}) /\ In({"j_wait"})' = In({"j_wait"})
        /\ In({"j_free"})' = In({"j_free"}) /\ In({"r_free"})' = In({"r_free"})
    <2>1. \A S \in {Owning, Asleep, Claiming, {"j_free", "d_free"}, {"j_wait"}, {"j_free"}, {"r_free"}} :
             pc[p] \in S <=> v \in S
      BY <1>0, <1>1 DEF Owning, Asleep, Claiming
    <2> QED BY <1>3, <2>1, MoveRole
  <1>5. /\ In({"returned"})' \subseteq In({"returned"}) \cup {p} /\ (v # "returned" => In({"returned"})' = In({"returned"}))
        /\ In(Late \cup {"returned", "r_free"})' \subseteq In(Late \cup {"returned", "r_free"}) \cup {p}
        /\ v # "returned" => In(Late \cup {"returned", "r_free"})' = In(Late \cup {"returned", "r_free"})
    <2>1. v # "returned" => v = "x_lock" BY <1>1
    <2> QED BY <1>0, <1>3, <2>1, MoveRole DEF Late
  <1>6. /\ p \in In(Owning) /\ cur[p] \in Slots /\ "T_RETURNED" \notin tstate[cur[p]]
        /\ \A q \in In(Owning) \ {p} : cur[q] # cur[p]
    <2>1. p \in In(Owning) BY <1>2 DEF In, PlacedIn
    <2> QED BY <2>1, OwnerAlone
  <1>7. /\ result' \in [Slots -> Invocations \cup {None}] /\ result'[cur[p]] = inv[cur[p]]
        /\ \A t \in Slots \ {cur[p]} : result'[t] = result[t]
    BY <1>0, <1>6 DEF TypeOK
  <1>8. TypeOK' BY <1>0, <1>3, <1>7 DEF TypeOK
  <1>9. PlaceInv' /\ MainInv' /\ ClaimInv' /\ DoneInv' /\ JoinGetsResult'
    BY <1>0, <1>4, PlaceSame, MainSame, ClaimSame, DoneSame, JoinedSame
  <1>10. FlagInv'
    <2>1. \A q \in In(Late \cup {"returned", "r_free"})' : "T_MAIN" \notin tstate[cur[q]]
      BY <1>1, <1>5 DEF FlagInv
    <2>2. ASSUME NEW q \in In({"returned"})' PROVE result'[cur[q]] = inv[cur[q]]
      <3>1. CASE q = p BY <1>7, <3>1
      <3>2. CASE q # p
        <4>1. q \in In({"returned"}) BY <1>5, <3>2
        <4>2. q \in In(Owning) BY <4>1 DEF In, PlacedIn, Owning
        <4>3. cur[q] \in Slots /\ cur[q] # cur[p] BY <1>6, <3>2, <4>2, OwnerAlone
        <4> QED BY <1>7, <4>1, <4>3 DEF FlagInv
      <3> QED BY <3>1, <3>2
    <2>3. \A t \in Slots : "T_RETURNED" \in tstate[t] => result'[t] = inv[t]
      BY <1>6, <1>7 DEF FlagInv
    <2> QED BY <1>0, <1>4, <2>1, <2>2, <2>3 DEF FlagInv
  <1> QED BY <1>3, <1>8, <1>9, <1>10

LEMMA ReturnedHolds ==
    ASSUME IInv, Alive, NEW p \in Cprocs, Returned(p)
    PROVE  IInv'
  <1> USE DEF IInv
  <1>0. /\ pc[p] = "returned"
        /\ UNCHANGED <<cthreads, needed, idle, n_cprocs, n_cthreads, max_cprocs, free_cthreads, heap, done,
                       result, inv, cur, arg, want, handle, joined, forks, unixforks>>
    BY DEF Returned, client, counts
  <1>1. /\ pc[p] \in Working \ {"x_wait"} /\ p \in In(Owning) /\ p \in In({"returned"})
        /\ p \in In(Late \cup {"returned", "r_free"})
    BY <1>0 DEF Working, Owning, In, PlacedIn
  <1>2. /\ cur[p] \in Slots /\ cur[p] \in heap /\ cur[p] \notin Range(cthreads)
        /\ \A q \in In(Owning) \ {p} : cur[q] # cur[p]
    BY <1>1, OwnerAlone
  <1>3. CASE "T_DETACHED" \in tstate[cur[p]]
    <2>1. pc' = [pc EXCEPT ![p] = "r_free"] /\ tstate' = tstate BY <1>3 DEF Returned, Goto
    <2>2. "r_free" \in Working /\ "r_free" \in Coming BY DEF Working, Owning, Coming
    <2>3. /\ pc' \in [Cprocs -> Pcs] /\ pc'[p] = "r_free" /\ \A q \in Cprocs \ {p} : pc'[q] = pc[q]
          /\ CountExact' /\ CountInv' /\ WaitInv' /\ ExitLast'
      BY <1>0, <1>1, <2>1, <2>2, BusyMove
    <2>4. /\ In(Owning)' = In(Owning) /\ In(Asleep)' = In(Asleep) /\ In(Claiming)' = In(Claiming)
          /\ In({"j_free", "d_free"})' = In({"j_free", "d_free"}) /\ In({"j_wait"})' = In({"j_wait"})
          /\ In({"j_free"})' = In({"j_free"})
          /\ In(Late \cup {"returned", "r_free"})' = In(Late \cup {"returned", "r_free"})
      <3>1. \A S \in {Owning, Asleep, Claiming, {"j_free", "d_free"}, {"j_wait"}, {"j_free"},
                      Late \cup {"returned", "r_free"}} : pc[p] \in S <=> "r_free" \in S
        BY <1>0 DEF Owning, Asleep, Claiming, Late
      <3> QED BY <2>3, <3>1, MoveRole
    <2>5. In({"returned"})' \subseteq In({"returned"}) /\ In({"r_free"})' = In({"r_free"}) \cup {p}
      BY <2>3, MoveRole
    <2>6. TypeOK' BY <1>0, <2>1, <2>3 DEF TypeOK
    <2>7. PlaceInv' /\ MainInv' /\ ClaimInv' /\ DoneInv' /\ JoinGetsResult'
      BY <1>0, <2>1, <2>4, PlaceSame, MainSame, ClaimSame, DoneSame, JoinedSame
    <2>8. FlagInv' BY <1>0, <1>3, <2>1, <2>4, <2>5 DEF FlagInv
    <2> QED BY <2>3, <2>6, <2>7, <2>8
  <1>4. CASE "T_DETACHED" \notin tstate[cur[p]]
    <2>1. /\ pc' = [pc EXCEPT ![p] = "r_signal"]
          /\ tstate' = [tstate EXCEPT ![cur[p]] = tstate[cur[p]] \cup {"T_RETURNED"}]
      BY <1>4 DEF Returned, Goto
    <2>2. "r_signal" \in Working /\ "r_signal" \in Coming BY DEF Working, Late, Coming
    <2>3. /\ pc' \in [Cprocs -> Pcs] /\ pc'[p] = "r_signal" /\ \A q \in Cprocs \ {p} : pc'[q] = pc[q]
          /\ CountExact' /\ CountInv' /\ WaitInv' /\ ExitLast'
      BY <1>0, <1>1, <2>1, <2>2, BusyMove
    <2>4. /\ In(Asleep)' = In(Asleep) /\ In(Claiming)' = In(Claiming)
          /\ In({"j_free", "d_free"})' = In({"j_free", "d_free"}) /\ In({"j_wait"})' = In({"j_wait"})
          /\ In({"j_free"})' = In({"j_free"}) /\ In({"r_free"})' = In({"r_free"})
          /\ In(Late \cup {"returned", "r_free"})' = In(Late \cup {"returned", "r_free"})
      <3>1. \A S \in {Asleep, Claiming, {"j_free", "d_free"}, {"j_wait"}, {"j_free"}, {"r_free"},
                      Late \cup {"returned", "r_free"}} : pc[p] \in S <=> "r_signal" \in S
        BY <1>0 DEF Asleep, Claiming, Late
      <3> QED BY <2>3, <3>1, MoveRole
    <2>5. In({"returned"})' = In({"returned"}) \ {p} /\ In(Owning)' = In(Owning) \ {p}
      BY <2>3, MoveRole DEF Owning
    <2>6. /\ tstate' \in [Slots -> SUBSET Flags] /\ \A t \in Slots \ {cur[p]} : tstate'[t] = tstate[t]
          /\ tstate'[cur[p]] = tstate[cur[p]] \cup {"T_RETURNED"}
      BY <1>2, <2>1 DEF TypeOK, Flags
    <2>7. /\ \A t \in Slots : tstate[t] \subseteq tstate'[t]
          /\ \A t \in Slots : /\ "T_MAIN" \in tstate'[t] <=> "T_MAIN" \in tstate[t]
                              /\ "T_DETACHED" \in tstate'[t] <=> "T_DETACHED" \in tstate[t]
      BY <2>6
    <2>8. TypeOK' BY <1>0, <2>3, <2>6 DEF TypeOK
    <2>9. PlaceInv'
      <3>1. \A q \in Cprocs : pc'[q] \in Asleep <=> pc[q] \in Asleep BY <2>4 DEF In, PlacedIn
      <3> QED BY <1>0, <2>5, <3>1 DEF PlaceInv
    <2>10. MainInv'
      <3>1. PICK m \in In(Owning) : "T_MAIN" \in tstate[cur[m]] BY DEF MainInv
      <3>2. m # p BY <1>1, <3>1 DEF FlagInv
      <3>3. cur[m] \in Slots BY <3>1, OwnerAlone
      <3> QED BY <1>0, <2>5, <2>7, <3>1, <3>2, <3>3 DEF MainInv
    <2>11. ClaimInv'
      <3>1. heap \subseteq Slots BY DEF TypeOK
      <3>2. \A i, t : Claimed(i, t) => Claimed(i, t)' BY <1>0, <2>7, <3>1 DEF Claimed
      <3>3. \A q \in In({"j_free", "d_free"}) : arg[q] \in Slots
        <4>1. \A q \in In({"j_free", "d_free"}) : q \in In(Claiming) BY DEF In, PlacedIn, Claiming
        <4> QED BY <3>1, <4>1 DEF ClaimInv, Claimed
      <3> QED BY <1>0, <2>4, <2>7, <3>2, <3>3 DEF ClaimInv
    <2>12. DoneInv' BY <1>0, <2>4, <2>7 DEF DoneInv
    <2>13. JoinGetsResult' BY <1>0, <2>4, JoinedSame
    <2>14. FlagInv'
      <3>1. \A t \in Range(cthreads) : t \in Slots /\ t # cur[p]
        <4>1. cthreads \in Seq(Slots) BY DEF TypeOK
        <4> QED BY <1>2, <4>1 DEF Range
      <3>2. \A q \in In(Owning)' : cur[q] \in Slots /\ cur[q] # cur[p] BY <1>2, <2>5, OwnerAlone
      <3>3. \A q \in In(Late \cup {"returned", "r_free"}) : cur[q] \in Slots
        <4>1. \A q \in In(Late \cup {"returned", "r_free"}) : q \in Cprocs /\ pc[q] \notin Asleep
          BY DEF In, PlacedIn, Late, Asleep
        <4> QED BY <4>1 DEF PlaceInv
      <3>4. In({"r_free"}) \subseteq In(Late \cup {"returned", "r_free"}) BY DEF In, PlacedIn
      <3>5. result[cur[p]] = inv[cur[p]] BY <1>1 DEF FlagInv
      <3>6. \A t \in Slots : "T_RETURNED" \in tstate'[t] => result[t] = inv[t]
        BY <2>6, <3>5 DEF FlagInv
      <3>7. \A t \in Range(cthreads) : tstate'[t] \cap {"T_RETURNED", "T_MAIN"} = {}
        BY <2>6, <3>1 DEF FlagInv
      <3>8. \A q \in In(Owning)' : "T_RETURNED" \notin tstate'[cur[q]] BY <2>5, <2>6, <3>2 DEF FlagInv
      <3>9. /\ \A q \in In(Late \cup {"returned", "r_free"}) : "T_MAIN" \notin tstate'[cur[q]]
            /\ \A q \in In({"r_free"}) : "T_DETACHED" \in tstate'[cur[q]]
        BY <2>7, <3>3, <3>4 DEF FlagInv
      <3> QED BY <1>0, <2>4, <2>5, <3>6, <3>7, <3>8, <3>9 DEF FlagInv
    <2> QED BY <2>3, <2>8, <2>9, <2>10, <2>11, <2>12, <2>13, <2>14
  <1> QED BY <1>3, <1>4

\* The client's handle passes to cproc p, which joins or frees the thread.
LEMMA NewClaim ==
    ASSUME IInv, NEW p \in Cprocs, pc[p] = "run", NEW i \in Invocations, handle[i] # None, NEW v \in {"join", "d_free"},
           handle' = [handle EXCEPT ![i] = None], arg' = [arg EXCEPT ![p] = handle[i]], want' = [want EXCEPT ![p] = i],
           v = "d_free" => "T_RETURNED" \in tstate[handle[i]],
           pc'[p] = v, \A q \in Cprocs \ {p} : pc'[q] = pc[q],
           UNCHANGED <<free_cthreads, heap, tstate, inv, forks, joined, cthreads, done, result, cur>>
    PROVE  /\ handle' \in [Invocations -> Slots \cup {None}] /\ arg' \in [Cprocs -> Slots \cup {None}]
           /\ want' \in [Cprocs -> Invocations \cup {None}]
           /\ ClaimInv' /\ DoneInv' /\ JoinGetsResult' /\ PlaceInv' /\ FlagInv' /\ MainInv'
  <1> USE DEF IInv
  <1>0. Claimed(i, handle[i]) /\ handle[i] \in Slots BY DEF ClaimInv, Claimed, TypeOK
  <1>1. /\ handle' \in [Invocations -> Slots \cup {None}] /\ handle'[i] = None
        /\ \A j \in Invocations \ {i} : handle'[j] = handle[j]
    BY DEF TypeOK
  <1>2. /\ arg' \in [Cprocs -> Slots \cup {None}] /\ arg'[p] = handle[i]
        /\ \A q \in Cprocs \ {p} : arg'[q] = arg[q]
    BY <1>0 DEF TypeOK
  <1>3. /\ want' \in [Cprocs -> Invocations \cup {None}] /\ want'[p] = i
        /\ \A q \in Cprocs \ {p} : want'[q] = want[q]
    BY DEF TypeOK
  <1>4. In(Claiming)' = In(Claiming) \cup {p} /\ p \notin In(Claiming)
    <2>1. v \in Claiming BY DEF Claiming
    <2> QED BY <2>1, MoveRole DEF Claiming, In, PlacedIn
  <1>5. /\ In(Owning)' = In(Owning) /\ In(Asleep)' = In(Asleep)
        /\ In({"j_wait"})' = In({"j_wait"}) /\ In({"j_free"})' = In({"j_free"})
        /\ In({"r_free"})' = In({"r_free"}) /\ In({"returned"})' = In({"returned"})
        /\ In(Late \cup {"returned", "r_free"})' = In(Late \cup {"returned", "r_free"})
    <2>1. \A S \in {Owning, Asleep, {"j_wait"}, {"j_free"}, {"r_free"}, {"returned"},
                    Late \cup {"returned", "r_free"}} : pc[p] \in S <=> v \in S
      BY DEF Owning, Asleep, Late
    <2> QED BY <2>1, MoveRole
  <1>6. \A q \in In(Claiming) : q \in Cprocs /\ q # p /\ want[q] \in Invocations /\ want[q] # i
    <2>1. In(Claiming) \subseteq Cprocs BY DEF In, PlacedIn
    <2>2. \A q \in In(Claiming) : want[q] \in 1..forks /\ handle[want[q]] = None BY DEF ClaimInv, Claimed
    <2>3. 1..forks \subseteq Invocations
      <3>1. forks \in 0..MaxForks /\ MaxForks \in Nat BY ConstAssumption DEF TypeOK
      <3> QED BY <3>1 DEF Invocations
    <2> QED BY <1>4, <2>1, <2>2, <2>3
  <1>7. \A j, t : Claimed(j, t)' <=> Claimed(j, t) BY DEF Claimed
  <1>8. ClaimInv'
    <2>1. \A j \in Invocations : handle'[j] # None => Claimed(j, handle'[j]) BY <1>1 DEF ClaimInv
    <2>2. \A q \in In(Claiming)' : Claimed(want'[q], arg'[q]) /\ handle'[want'[q]] = None
      BY <1>0, <1>1, <1>2, <1>3, <1>4, <1>6 DEF ClaimInv
    <2>3. \A q, r \in In(Claiming)' : want'[q] = want'[r] => q = r
      BY <1>3, <1>4, <1>6 DEF ClaimInv
    <2>4. ASSUME NEW q \in In({"j_free", "d_free"})' PROVE "T_RETURNED" \in tstate[arg'[q]]
      <3>1. CASE q = p
        <4>1. v = "d_free" BY <2>4, <3>1 DEF In, PlacedIn
        <4> QED BY <1>2, <3>1, <4>1
      <3>2. CASE q # p
        <4>1. q \in Cprocs /\ q \in In({"j_free", "d_free"}) BY <2>4, <3>2 DEF In, PlacedIn
        <4> QED BY <1>2, <3>2, <4>1 DEF ClaimInv
      <3> QED BY <3>1, <3>2
    <2> QED BY <1>7, <2>1, <2>2, <2>3, <2>4 DEF ClaimInv
  <1>9. DoneInv'
    <2>1. \A q \in In({"j_wait"}) : q \in Cprocs /\ q # p BY DEF In, PlacedIn
    <2> QED BY <1>2, <1>5, <2>1 DEF DoneInv
  <1>10. JoinGetsResult'
    <2>1. \A q \in Cprocs : pc'[q] = "j_free" => q # p /\ pc[q] = "j_free" OBVIOUS
    <2> QED BY <1>3, <2>1 DEF JoinGetsResult
  <1> QED BY <1>1, <1>2, <1>3, <1>5, <1>8, <1>9, <1>10, PlaceSame, FlagSame, MainSame

LEMMA JoinHolds ==
    ASSUME IInv, Alive, NEW p \in Cprocs, NEW i \in Invocations, Join(p, i)
    PROVE  IInv'
  <1> USE DEF IInv
  <1>0. /\ pc[p] = "run" /\ handle[i] # None /\ handle' = [handle EXCEPT ![i] = None]
        /\ arg' = [arg EXCEPT ![p] = handle[i]] /\ want' = [want EXCEPT ![p] = i]
        /\ pc' = [pc EXCEPT ![p] = "join"]
        /\ UNCHANGED <<cthreads, needed, idle, n_cprocs, n_cthreads, max_cprocs, free_cthreads, heap, tstate,
                       done, result, inv, cur, joined, forks, unixforks>>
    BY DEF Join, Goto, counts
  <1>1. pc[p] \in Working \ {"x_wait"} /\ pc[p] \notin Coming /\ "join" \in Working
    BY <1>0 DEF Working, Owning, Coming
  <1>2. /\ pc' \in [Cprocs -> Pcs] /\ pc'[p] = "join" /\ \A q \in Cprocs \ {p} : pc'[q] = pc[q]
        /\ CountExact' /\ CountInv' /\ WaitInv' /\ ExitLast'
    BY <1>0, <1>1, BusyMove
  <1>3. /\ handle' \in [Invocations -> Slots \cup {None}] /\ arg' \in [Cprocs -> Slots \cup {None}]
        /\ want' \in [Cprocs -> Invocations \cup {None}]
        /\ ClaimInv' /\ DoneInv' /\ JoinGetsResult' /\ PlaceInv' /\ FlagInv' /\ MainInv'
    BY <1>0, <1>2, NewClaim
  <1>4. TypeOK' BY <1>0, <1>2, <1>3 DEF TypeOK
  <1> QED BY <1>2, <1>3, <1>4

LEMMA DetachHolds ==
    ASSUME IInv, Alive, NEW p \in Cprocs, NEW i \in Invocations, Detach(p, i)
    PROVE  IInv'
  <1> USE DEF IInv
  <1> DEFINE t == handle[i]
  <1>0. /\ pc[p] = "run" /\ handle[i] # None /\ handle' = [handle EXCEPT ![i] = None]
        /\ arg' = [arg EXCEPT ![p] = handle[i]] /\ want' = [want EXCEPT ![p] = i]
        /\ UNCHANGED <<cthreads, needed, idle, n_cprocs, n_cthreads, max_cprocs, free_cthreads, heap,
                       done, result, inv, cur, joined, forks, unixforks>>
    BY DEF Detach, counts
  <1>1. CASE "T_RETURNED" \in tstate[t]
    <2>1. pc' = [pc EXCEPT ![p] = "d_free"] /\ tstate' = tstate BY <1>1 DEF Detach, Goto
    <2>2. pc[p] \in Working \ {"x_wait"} /\ pc[p] \notin Coming /\ "d_free" \in Working
      BY <1>0 DEF Working, Owning, Coming
    <2>3. /\ pc' \in [Cprocs -> Pcs] /\ pc'[p] = "d_free" /\ \A q \in Cprocs \ {p} : pc'[q] = pc[q]
          /\ CountExact' /\ CountInv' /\ WaitInv' /\ ExitLast'
      BY <1>0, <2>1, <2>2, BusyMove
    <2>4. /\ handle' \in [Invocations -> Slots \cup {None}] /\ arg' \in [Cprocs -> Slots \cup {None}]
          /\ want' \in [Cprocs -> Invocations \cup {None}]
          /\ ClaimInv' /\ DoneInv' /\ JoinGetsResult' /\ PlaceInv' /\ FlagInv' /\ MainInv'
      BY <1>0, <1>1, <2>1, <2>3, NewClaim
    <2>5. TypeOK' BY <1>0, <2>1, <2>3, <2>4 DEF TypeOK
    <2> QED BY <2>3, <2>4, <2>5
  <1>2. CASE "T_RETURNED" \notin tstate[t]
    <2>1. tstate' = [tstate EXCEPT ![t] = tstate[t] \cup {"T_DETACHED"}] /\ pc' = pc
      BY <1>2 DEF Detach
    <2>2. Claimed(i, t) /\ t \in Slots /\ inv[t] = i BY <1>0 DEF ClaimInv, Claimed, TypeOK
    <2> HIDE DEF t
    <2>3. /\ tstate' \in [Slots -> SUBSET Flags] /\ \A u \in Slots \ {t} : tstate'[u] = tstate[u]
          /\ tstate'[t] = tstate[t] \cup {"T_DETACHED"}
      BY <2>1, <2>2 DEF TypeOK, Flags
    <2>4. \A u \in Slots : /\ "T_MAIN" \in tstate'[u] <=> "T_MAIN" \in tstate[u]
                           /\ "T_RETURNED" \in tstate'[u] <=> "T_RETURNED" \in tstate[u]
                           /\ "T_DETACHED" \in tstate[u] => "T_DETACHED" \in tstate'[u]
      BY <2>3
    <2>5. /\ handle' \in [Invocations -> Slots \cup {None}] /\ handle'[i] = None
          /\ \A j \in Invocations \ {i} : handle'[j] = handle[j]
      BY <1>0 DEF TypeOK
    <2>6. /\ arg' \in [Cprocs -> Slots \cup {None}] /\ \A q \in Cprocs \ {p} : arg'[q] = arg[q]
      BY <1>0, <2>2 DEF TypeOK, t
    <2>7. /\ want' \in [Cprocs -> Invocations \cup {None}] /\ \A q \in Cprocs \ {p} : want'[q] = want[q]
      BY <1>0 DEF TypeOK
    <2>8. TypeOK' BY <1>0, <2>1, <2>3, <2>5, <2>6, <2>7 DEF TypeOK
    <2>9. CountExact' /\ CountInv' /\ WaitInv' /\ ExitLast'
      BY <1>0, <2>1 DEF CountExact, CountInv, WaitInv, ExitLast, In, PlacedIn
    <2>10. \A S : In(S)' = In(S) BY <2>1 DEF In
    <2>11. PlaceInv' BY <1>0, <2>10, PlaceSame
    <2>12. \A q \in Cprocs : pc[q] \notin Asleep => cur[q] \in Slots BY DEF PlaceInv
    <2>13. FlagInv'
      <3>1. Range(cthreads) \subseteq Slots
        <4>1. cthreads \in Seq(Slots) BY DEF TypeOK
        <4> QED BY <4>1 DEF Range
      <3>2. /\ \A q \in In(Owning) : cur[q] \in Slots
            /\ \A q \in In(Late \cup {"returned", "r_free"}) : cur[q] \in Slots
            /\ \A q \in In({"r_free"}) : cur[q] \in Slots
        BY <2>12 DEF In, PlacedIn, Asleep, Owning, Late
      <3>3. \A u \in Range(cthreads) : tstate'[u] \cap {"T_RETURNED", "T_MAIN"} = {}
        BY <2>4, <3>1 DEF FlagInv
      <3>4. /\ \A q \in In(Owning) : "T_RETURNED" \notin tstate'[cur[q]]
            /\ \A q \in In(Late \cup {"returned", "r_free"}) : "T_MAIN" \notin tstate'[cur[q]]
            /\ \A q \in In({"r_free"}) : "T_DETACHED" \in tstate'[cur[q]]
            /\ \A u \in Slots : "T_RETURNED" \in tstate'[u] => result[u] = inv[u]
        BY <2>4, <3>2 DEF FlagInv
      <3> QED BY <1>0, <2>10, <3>3, <3>4 DEF FlagInv
    <2>14. MainInv'
      <3>1. PICK m \in In(Owning) : "T_MAIN" \in tstate[cur[m]] BY DEF MainInv
      <3>2. cur[m] \in Slots BY <3>1, OwnerAlone
      <3> QED BY <1>0, <2>4, <2>10, <3>1, <3>2 DEF MainInv
    <2>15. ClaimInv'
      <3>1. \A j, u : Claimed(j, u) /\ j # i => Claimed(j, u)'
        <4>1. heap \subseteq Slots BY DEF TypeOK
        <4>2. \A j, u : Claimed(j, u) /\ j # i => u \in Slots \ {t} BY <2>2, <4>1 DEF Claimed
        <4> QED BY <1>0, <2>3, <4>2 DEF Claimed
      <3>2. \A q \in In(Claiming) : q \in Cprocs /\ q # p /\ want[q] # i
        BY <1>0 DEF ClaimInv, In, PlacedIn, Claiming
      <3>3. \A q \in In(Claiming) : want[q] \in Invocations /\ arg[q] \in Slots
        <4>1. forks \in 0..MaxForks /\ MaxForks \in Nat /\ heap \subseteq Slots BY ConstAssumption DEF TypeOK
        <4>2. 1..forks \subseteq Invocations BY <4>1 DEF Invocations
        <4> QED BY <4>1, <4>2 DEF ClaimInv, Claimed
      <3>4. \A j \in Invocations : handle'[j] # None => handle'[j] = handle[j] /\ j # i BY <2>5
      <3>5. \A q \in In(Claiming) : arg'[q] = arg[q] /\ want'[q] = want[q] /\ handle'[want[q]] = None
        BY <2>5, <2>6, <2>7, <3>2, <3>3 DEF ClaimInv
      <3>8. /\ \A j \in Invocations : handle'[j] # None => Claimed(j, handle[j])'
            /\ \A q \in In(Claiming) : Claimed(want[q], arg[q])'
        <4>1. \A j \in Invocations : \A u : handle'[j] = u /\ u # None => Claimed(j, u)'
          BY <3>1, <3>4 DEF ClaimInv
        <4>2. \A q \in In(Claiming) : \A j, u : want'[q] = j /\ arg'[q] = u => Claimed(j, u)'
          BY <3>1, <3>2, <3>5 DEF ClaimInv
        <4>3. \A q \in In(Claiming) : Claimed(want[q], arg[q])' BY <4>2 DEF Claimed
        <4>4. \A j \in Invocations : handle'[j] # None => Claimed(j, handle[j])' BY <4>1 DEF Claimed
        <4> QED BY <4>3, <4>4
      <3>6. \A q, r \in In(Claiming) : want'[q] = want'[r] => q = r BY <2>7, <3>2 DEF ClaimInv
      <3>7. \A q \in In({"j_free", "d_free"}) : "T_RETURNED" \in tstate'[arg'[q]]
        <4>1. \A q \in In({"j_free", "d_free"}) : q \in In(Claiming) BY DEF In, PlacedIn, Claiming
        <4> QED BY <2>4, <2>6, <3>2, <3>3, <4>1 DEF ClaimInv
      <3> QED BY <2>10, <3>5, <3>6, <3>7, <3>8 DEF ClaimInv
    <2>16. DoneInv'
      <3>1. \A q \in In({"j_wait"}) : q \in Cprocs /\ q # p BY <1>0 DEF In, PlacedIn
      <3> QED BY <1>0, <2>4, <2>6, <2>10, <3>1 DEF DoneInv
    <2>17. JoinGetsResult'
      <3>1. \A q \in Cprocs : pc'[q] = "j_free" => q # p /\ pc[q] = "j_free" BY <1>0, <2>1
      <3> QED BY <1>0, <2>7, <3>1 DEF JoinGetsResult
    <2> QED BY <2>8, <2>9, <2>11, <2>13, <2>14, <2>15, <2>16, <2>17
  <1> QED BY <1>1, <1>2

LEMMA JoinTestHolds ==
    ASSUME IInv, Alive, NEW p \in Cprocs, JoinTest(p)
    PROVE  IInv'
  <1> USE DEF IInv
  <1> DEFINE t == arg[p]
  <1>0. /\ pc[p] \in {"join", "j_woken"}
        /\ UNCHANGED <<cthreads, needed, idle, n_cprocs, n_cthreads, max_cprocs, free_cthreads, heap, tstate,
                       result, inv, cur, arg, want, handle, forks, unixforks>>
    BY DEF JoinTest, counts
  <1>1. p \in In(Claiming) /\ pc[p] \in Working \ {"x_wait"} /\ pc[p] \notin Coming
    BY <1>0 DEF In, PlacedIn, Claiming, Working, Owning, Coming
  <1>2. /\ Claimed(want[p], t) /\ t \in Slots /\ inv[t] = want[p] /\ want[p] \in Invocations
    <2>1. forks \in 0..MaxForks /\ MaxForks \in Nat /\ heap \subseteq Slots BY ConstAssumption DEF TypeOK
    <2>2. 1..forks \subseteq Invocations BY <2>1 DEF Invocations
    <2> QED BY <1>1, <2>1, <2>2 DEF ClaimInv, Claimed
  <1> HIDE DEF t
  <1>3. CASE "T_RETURNED" \in tstate[t]
    <2>1. /\ joined' = [joined EXCEPT ![want[p]] = result[t]] /\ pc' = [pc EXCEPT ![p] = "j_free"]
          /\ done' = done
      BY <1>3 DEF JoinTest, Goto, t
    <2>2. "j_free" \in Working BY DEF Working, Owning
    <2>3. /\ pc' \in [Cprocs -> Pcs] /\ pc'[p] = "j_free" /\ \A q \in Cprocs \ {p} : pc'[q] = pc[q]
          /\ CountExact' /\ CountInv' /\ WaitInv' /\ ExitLast'
      BY <1>0, <1>1, <2>1, <2>2, BusyMove
    <2>4. /\ In(Owning)' = In(Owning) /\ In(Asleep)' = In(Asleep) /\ In(Claiming)' = In(Claiming)
          /\ In({"j_wait"})' = In({"j_wait"})
          /\ In({"r_free"})' = In({"r_free"}) /\ In({"returned"})' = In({"returned"})
          /\ In(Late \cup {"returned", "r_free"})' = In(Late \cup {"returned", "r_free"})
      <3>1. \A S \in {Owning, Asleep, Claiming, {"j_wait"}, {"r_free"}, {"returned"},
                      Late \cup {"returned", "r_free"}} : pc[p] \in S <=> "j_free" \in S
        BY <1>0 DEF Owning, Asleep, Claiming, Late
      <3> QED BY <2>3, <3>1, MoveRole
    <2>5. result[t] = want[p] BY <1>2, <1>3 DEF FlagInv
    <2>6. /\ joined' \in [Invocations -> Invocations \cup {None}] /\ joined'[want[p]] = want[p]
          /\ \A j \in Invocations \ {want[p]} : joined'[j] = joined[j]
      BY <1>2, <2>1, <2>5 DEF TypeOK
    <2>7. TypeOK' BY <1>0, <2>1, <2>3, <2>6 DEF TypeOK
    <2>8. PlaceInv' /\ FlagInv' /\ MainInv' /\ DoneInv'
      BY <1>0, <2>1, <2>4, PlaceSame, FlagSame, MainSame, DoneSame
    <2>9. ClaimInv'
      <3>1. \A q \in In({"j_free", "d_free"})' : q \in In({"j_free", "d_free"}) \/ q = p
        BY <2>3 DEF In, PlacedIn
      <3>2. \A j, u : Claimed(j, u) => Claimed(j, u)' BY <1>0 DEF Claimed
      <3> QED BY <1>0, <1>3, <2>4, <3>1, <3>2 DEF ClaimInv, t
    <2>10. JoinGetsResult'
      <3>1. ASSUME NEW q \in Cprocs, pc'[q] = "j_free", q # p PROVE joined'[want[q]] = want[q]
        <4>1. pc[q] = "j_free" BY <2>3, <3>1
        <4>2. q \in In(Claiming) BY <4>1 DEF In, PlacedIn, Claiming
        <4>3. want[q] # want[p] BY <1>1, <3>1, <4>2 DEF ClaimInv
        <4>4. want[q] \in Invocations
          <5>1. forks \in 0..MaxForks /\ MaxForks \in Nat BY ConstAssumption DEF TypeOK
          <5>2. 1..forks \subseteq Invocations BY <5>1 DEF Invocations
          <5> QED BY <4>2, <5>2 DEF ClaimInv, Claimed
        <4> QED BY <2>6, <4>1, <4>3, <4>4 DEF JoinGetsResult
      <3> QED BY <1>0, <2>6, <3>1 DEF JoinGetsResult
    <2> QED BY <2>3, <2>7, <2>8, <2>9, <2>10
  <1>4. CASE "T_RETURNED" \notin tstate[t]
    <2>1. /\ done' = [done EXCEPT ![t] = Append(done[t], p)] /\ pc' = [pc EXCEPT ![p] = "j_wait"]
          /\ joined' = joined
      BY <1>4 DEF JoinTest, Goto, t
    <2>2. "j_wait" \in Working BY DEF Working, Owning
    <2>3. /\ pc' \in [Cprocs -> Pcs] /\ pc'[p] = "j_wait" /\ \A q \in Cprocs \ {p} : pc'[q] = pc[q]
          /\ CountExact' /\ CountInv' /\ WaitInv' /\ ExitLast'
      BY <1>0, <1>1, <2>1, <2>2, BusyMove
    <2>4. /\ In(Owning)' = In(Owning) /\ In(Asleep)' = In(Asleep) /\ In(Claiming)' = In(Claiming)
          /\ In({"j_free", "d_free"})' = In({"j_free", "d_free"}) /\ In({"j_free"})' = In({"j_free"})
          /\ In({"r_free"})' = In({"r_free"}) /\ In({"returned"})' = In({"returned"})
          /\ In(Late \cup {"returned", "r_free"})' = In(Late \cup {"returned", "r_free"})
      <3>1. \A S \in {Owning, Asleep, Claiming, {"j_free", "d_free"}, {"j_free"}, {"r_free"}, {"returned"},
                      Late \cup {"returned", "r_free"}} : pc[p] \in S <=> "j_wait" \in S
        BY <1>0 DEF Owning, Asleep, Claiming, Late
      <3> QED BY <2>3, <3>1, MoveRole
    <2>5. In({"j_wait"})' = In({"j_wait"}) \cup {p} /\ p \notin In({"j_wait"})
      BY <1>0, <2>3, MoveRole DEF In, PlacedIn
    <2>6. /\ done' \in [Slots -> Seq(Cprocs)] /\ done'[t] = Append(done[t], p)
          /\ \A u \in Slots \ {t} : done'[u] = done[u]
      <3>1. done[t] \in Seq(Cprocs) /\ done \in [Slots -> Seq(Cprocs)] BY <1>2 DEF TypeOK
      <3>2. Append(done[t], p) \in Seq(Cprocs) BY <3>1
      <3> QED BY <1>2, <2>1, <3>1, <3>2
    <2>7. TypeOK' BY <1>0, <2>1, <2>3, <2>6 DEF TypeOK
    <2>8. PlaceInv' /\ FlagInv' /\ MainInv' /\ ClaimInv' /\ JoinGetsResult'
      BY <1>0, <2>1, <2>4, PlaceSame, FlagSame, MainSame, ClaimSame, JoinedSame
    <2>9. DoneInv'
      <3>1. ASSUME NEW q \in In({"j_wait"}), arg[q] = t PROVE FALSE
        <4>1. q \in In(Claiming) BY <3>1 DEF In, PlacedIn, Claiming
        <4>2. want[q] = inv[t] BY <3>1, <4>1 DEF ClaimInv, Claimed
        <4>3. q = p BY <1>1, <1>2, <4>1, <4>2 DEF ClaimInv
        <4> QED BY <2>5, <4>3
      <3>2. ASSUME NEW u \in Slots, u \in Range(cthreads) \/ \E q \in Cprocs : cur[q] = u,
                   "T_MAIN" \notin tstate[u]
            PROVE  done'[u] = <<>> \/ \E q \in In({"j_wait"})' : done'[u] = <<q>> /\ arg[q] = u
        <4>1. done[u] = <<>> \/ \E q \in In({"j_wait"}) : done[u] = <<q>> /\ arg[q] = u
          BY <3>2 DEF DoneInv
        <4>2. CASE u = t
          <5>1. done[t] = <<>> BY <3>1, <4>1, <4>2
          <5>2. done'[t] = <<p>> BY <2>6, <5>1
          <5> QED BY <2>5, <4>2, <5>2 DEF t
        <4>3. CASE u # t BY <2>5, <2>6, <4>1, <4>3
        <4> QED BY <4>2, <4>3
      <3> QED BY <1>0, <3>2 DEF DoneInv
    <2> QED BY <2>3, <2>7, <2>8, <2>9
  <1> QED BY <1>3, <1>4

LEMMA ReturnSignalHolds ==
    ASSUME IInv, Alive, NEW p \in Cprocs, ReturnSignal(p)
    PROVE  IInv'
  <1> USE DEF IInv
  <1> DEFINE t == cur[p]
  <1>0. /\ pc[p] = "r_signal"
        /\ UNCHANGED <<cthreads, needed, idle, n_cprocs, n_cthreads, max_cprocs, free_cthreads, heap, tstate,
                       result, inv, cur, arg, want, handle, joined, forks, unixforks>>
    BY DEF ReturnSignal, client, counts
  <1>1. /\ pc[p] \in Working \ {"x_wait"} /\ "r_count" \in Working /\ "r_count" \in Coming
        /\ SameRole("r_signal", "r_count")
    BY <1>0 DEF Working, Owning, Late, Coming, SameRole, Roles, Asleep, Claiming
  <1>2. t \in Slots /\ "T_MAIN" \notin tstate[t]
    <2>1. pc[p] \notin Asleep /\ p \in In(Late \cup {"returned", "r_free"})
      BY <1>0 DEF Asleep, In, PlacedIn, Late
    <2> QED BY <2>1 DEF PlaceInv, FlagInv
  <1>3. CASE done[t] = <<>>
    <2>1. pc' = [pc EXCEPT ![p] = "r_count"] /\ done' = done BY <1>3 DEF ReturnSignal, Goto
    <2>2. /\ pc' \in [Cprocs -> Pcs] /\ pc'[p] = "r_count" /\ \A q \in Cprocs \ {p} : pc'[q] = pc[q]
          /\ CountExact' /\ CountInv' /\ WaitInv' /\ ExitLast'
      BY <1>0, <1>1, <2>1, BusyMove
    <2>3. TypeOK' BY <1>0, <2>1, <2>2 DEF TypeOK
    <2>4. \A q \in Cprocs : SameRole(pc[q], pc'[q]) BY <1>0, <1>1, <2>2, RoleMoves
    <2>5. JoinGetsResult' /\ PlaceInv' /\ FlagInv' /\ MainInv' /\ ClaimInv' /\ DoneInv'
      BY <1>0, <2>1, <2>4, StructuresSame
    <2> QED BY <2>2, <2>3, <2>5
  <1>4. CASE done[t] # <<>>
    <2>1. PICK r \in In({"j_wait"}) : done[t] = <<r>> /\ arg[r] = t BY <1>2, <1>4 DEF DoneInv
    <2>2. r \in Cprocs /\ pc[r] = "j_wait" /\ r # p BY <1>0, <2>1 DEF In, PlacedIn
    <2>3. /\ pc' = [pc EXCEPT ![p] = "r_count", ![r] = "j_woken"] /\ done' = [done EXCEPT ![t] = <<>>]
      <3>1. Head(done[t]) = r /\ Tail(done[t]) = <<>> BY <2>1
      <3> QED BY <1>4, <3>1 DEF ReturnSignal
    <2> HIDE DEF t
    <2>4. "r_count" \in Pcs /\ "j_woken" \in Pcs /\ pc \in [Cprocs -> Pcs] BY DEF Pcs, TypeOK
    <2>5. /\ pc' \in [Cprocs -> Pcs] /\ pc'[p] = "r_count" /\ pc'[r] = "j_woken"
          /\ \A q \in Cprocs \ {p, r} : pc'[q] = pc[q]
      BY <2>2, <2>3, <2>4
    <2>6. /\ Diff("r_signal", "r_count", Working) = 0 /\ Diff("j_wait", "j_woken", Working) = 0
          /\ Diff("r_signal", "r_count", Present) = 0 /\ Diff("j_wait", "j_woken", Present) = 0
          /\ Diff("r_signal", "r_count", Coming) = 0 /\ Diff("j_wait", "j_woken", Coming) = 0
      BY DEF Diff, Working, Owning, Late, Present, Pcs, Coming
    <2>7. /\ Cardinality(In(Working)') = Cardinality(In(Working))
          /\ Cardinality(In(Present)') = Cardinality(In(Present))
          /\ Cardinality(In(Coming)') = Cardinality(In(Coming))
      <3>1. /\ Cardinality(In(Working)') = Cardinality(In(Working)) + 0 + 0
            /\ Cardinality(In(Present)') = Cardinality(In(Present)) + 0 + 0
            /\ Cardinality(In(Coming)') = Cardinality(In(Coming)) + 0 + 0
        BY <1>0, <2>2, <2>4, <2>5, <2>6, MoveTwo
      <3> QED BY <3>1, InSizes
    <2>8. /\ done' \in [Slots -> Seq(Cprocs)] /\ done'[t] = <<>>
          /\ \A u \in Slots \ {t} : done'[u] = done[u]
      <3>1. <<>> \in Seq(Cprocs) /\ done \in [Slots -> Seq(Cprocs)] BY DEF TypeOK
      <3> QED BY <1>2, <2>3, <3>1
    <2>9. TypeOK' BY <1>0, <2>5, <2>8 DEF TypeOK
    <2>10. CountExact' /\ CountInv'
      <3>1. CountForm BY <2>4, CountForms
      <3>2. CountForm' BY <1>0, <2>7, <3>1 DEF CountForm
      <3> QED BY <2>5, <3>2, CountForms
    <2>11. ExitLast' BY <2>5, NobodyExits DEF Alive
    <2>12. WaitInv'
      <3>1. Range(needed) \subseteq Cprocs /\ Range(idle) \subseteq Cprocs BY DEF TypeOK, Range
      <3>2. \A q \in Range(needed) : q \notin {p, r} BY <1>0, <2>2 DEF WaitInv
      <3>3. \A q \in Range(idle) : q \notin {p, r} BY <1>0, <2>2 DEF WaitInv
      <3> QED BY <1>0, <2>5, <3>1, <3>2, <3>3 DEF WaitInv
    <2>13. \A S \in Roles \ {{"j_wait"}} : In(S)' = In(S)
      <3>1. \A S \in Roles \ {{"j_wait"}} : "j_wait" \in S <=> "j_woken" \in S
        BY DEF Roles, Asleep, Owning, Late, Claiming
      <3>2. ASSUME NEW S \in Roles \ {{"j_wait"}} PROVE In(S)' = In(S)
        <4>1. \A q \in Cprocs : pc[q] \in S <=> pc'[q] \in S BY <1>0, <1>1, <2>2, <2>5, <3>1 DEF SameRole
        <4> QED BY <4>1, InSame
      <3> QED BY <3>2
    <2>14. /\ In(Owning)' = In(Owning) /\ In(Asleep)' = In(Asleep) /\ In(Claiming)' = In(Claiming)
           /\ In({"j_free", "d_free"})' = In({"j_free", "d_free"}) /\ In({"j_free"})' = In({"j_free"})
           /\ In({"r_free"})' = In({"r_free"}) /\ In({"returned"})' = In({"returned"})
           /\ In(Late \cup {"returned", "r_free"})' = In(Late \cup {"returned", "r_free"})
      <3>1. \A S \in {Owning, Asleep, Claiming, {"j_free", "d_free"}, {"j_free"}, {"r_free"}, {"returned"},
                      Late \cup {"returned", "r_free"}} : S \in Roles /\ "j_wait" \in S => "j_woken" \in S
        BY DEF Roles, Asleep, Owning, Late, Claiming
      <3>2. \A S \in {Owning, Asleep, Claiming, {"j_free", "d_free"}, {"j_free"}, {"r_free"}, {"returned"},
                      Late \cup {"returned", "r_free"}} : S \in Roles \ {{"j_wait"}}
        BY <3>1 DEF Roles
      <3> QED BY <2>13, <3>2
    <2>15. JoinGetsResult' /\ PlaceInv' /\ FlagInv' /\ MainInv' /\ ClaimInv'
      BY <1>0, <2>14, PlaceSame, FlagSame, MainSame, ClaimSame, JoinedSame
    <2>16. DoneInv'
      <3>1. In({"j_wait"})' = In({"j_wait"}) \ {r} BY <1>0, <2>2, <2>5 DEF In, PlacedIn
      <3> QED BY <1>0, <2>1, <2>8, <3>1 DEF DoneInv
    <2> QED BY <2>9, <2>10, <2>11, <2>12, <2>15, <2>16
  <1> QED BY <1>3, <1>4

\* A structure nobody else uses goes onto the free list.
LEMMA FreeMoves ==
    ASSUME IInv, Alive, NEW p \in Cprocs, NEW from \in {"r_free", "d_free", "j_free"}, NEW to, NEW t \in heap,
           to = IF from = "r_free" THEN "r_count" ELSE "run", Free(p, from, t, to),
           t \notin Range(cthreads), t \notin Range(free_cthreads),
           \A q \in In(Owning)' : cur[q] # t, \A i \in Invocations : handle[i] # t,
           \A q \in In(Claiming)' : arg[q] # t
    PROVE  IInv'
  <1> USE DEF IInv
  <1>0. /\ pc[p] = from /\ pc' = [pc EXCEPT ![p] = to] /\ free_cthreads' = <<t>> \o free_cthreads
        /\ UNCHANGED <<cthreads, needed, idle, n_cprocs, n_cthreads, max_cprocs, heap, tstate, done,
                       result, inv, cur, arg, want, handle, joined, forks, unixforks>>
    BY DEF Free, Goto, client, counts
  <1>1. /\ pc[p] \in Working \ {"x_wait"} /\ to \in Working /\ (pc[p] \in Coming => to \in Coming) /\ to # "exited"
    BY <1>0 DEF Working, Owning, Late, Coming
  <1>2. /\ pc' \in [Cprocs -> Pcs] /\ pc'[p] = to /\ \A q \in Cprocs \ {p} : pc'[q] = pc[q]
        /\ CountExact' /\ CountInv' /\ WaitInv' /\ ExitLast'
    BY <1>0, <1>1, BusyMove
  <1>3. /\ In(Asleep)' = In(Asleep) /\ In({"j_wait"})' = In({"j_wait"}) /\ In({"returned"})' = In({"returned"})
        /\ In(Late \cup {"returned", "r_free"})' = In(Late \cup {"returned", "r_free"})
    <2>1. \A S \in {Asleep, {"j_wait"}, {"returned"}, Late \cup {"returned", "r_free"}} : pc[p] \in S <=> to \in S
      BY <1>0 DEF Asleep, Late
    <2> QED BY <1>2, <2>1, MoveRole
  <1>4. /\ In(Owning)' \subseteq In(Owning) /\ In(Claiming)' \subseteq In(Claiming)
        /\ In({"j_free", "d_free"})' \subseteq In({"j_free", "d_free"})
        /\ In({"j_free"})' \subseteq In({"j_free"}) /\ In({"r_free"})' \subseteq In({"r_free"})
    <2>1. \A S \in {Owning, Claiming, {"j_free", "d_free"}, {"j_free"}, {"r_free"}} : to \in S => pc[p] \in S
      BY <1>0 DEF Owning, Claiming
    <2>2. ASSUME NEW S, to \in S => pc[p] \in S PROVE In(S)' \subseteq In(S)
      BY <1>2, <2>2 DEF In, PlacedIn
    <2> QED BY <2>1, <2>2
  <1>5. heap \subseteq Slots /\ free_cthreads \in Seq(Slots) BY DEF TypeOK
  <1>6. /\ free_cthreads' \in Seq(Slots) /\ Range(free_cthreads') = Range(free_cthreads) \cup {t}
        /\ IsInjective(free_cthreads')
    BY <1>0, <1>5, PushSeq DEF PlaceInv
  <1>7. TypeOK' BY <1>0, <1>2, <1>6 DEF TypeOK
  <1>8. PlaceInv'
    <2>1. \A q \in Cprocs : pc'[q] \in Asleep <=> pc[q] \in Asleep BY <1>3 DEF In, PlacedIn
    <2> QED BY <1>0, <1>4, <1>6, <2>1 DEF PlaceInv
  <1>9. FlagInv' BY <1>0, <1>3, <1>4 DEF FlagInv
  <1>10. MainInv'
    <2>1. PICK m \in In(Owning) : "T_MAIN" \in tstate[cur[m]] BY DEF MainInv
    <2>2. m \in In(Owning)'
      <3>1. CASE m = p
        <4>1. p \notin In(Late \cup {"returned", "r_free"}) BY <2>1, <3>1 DEF FlagInv
        <4>2. from # "r_free" BY <1>0, <4>1 DEF In, PlacedIn
        <4>3. to \in Owning BY <4>2 DEF Owning
        <4> QED BY <1>2, <3>1, <4>3 DEF In, PlacedIn
      <3>2. CASE m # p BY <1>2, <2>1, <3>2 DEF In, PlacedIn
      <3> QED BY <3>1, <3>2
    <2> QED BY <1>0, <2>1, <2>2 DEF MainInv
  <1>11. ClaimInv'
    <2>1. \A i, u : Claimed(i, u) /\ u # t => Claimed(i, u)' BY <1>0, <1>6 DEF Claimed
    <2>2. \A q \in In(Claiming)' : Claimed(want[q], arg[q])' BY <1>0, <1>4, <2>1 DEF ClaimInv
    <2>3. \A i \in Invocations : handle[i] # None => Claimed(i, handle[i])' BY <1>0, <2>1 DEF ClaimInv
    <2>4. /\ \A q \in In(Claiming)' : handle[want[q]] = None
          /\ \A q, r \in In(Claiming)' : want[q] = want[r] => q = r
          /\ \A q \in In({"j_free", "d_free"})' : "T_RETURNED" \in tstate[arg[q]]
      BY <1>4 DEF ClaimInv
    <2> QED BY <1>0, <2>2, <2>3, <2>4 DEF ClaimInv
  <1>12. DoneInv' BY <1>0, <1>3, DoneSame
  <1>13. JoinGetsResult'
    <2>1. \A q \in Cprocs : pc'[q] = "j_free" => pc[q] = "j_free" BY <1>4 DEF In, PlacedIn
    <2> QED BY <1>0, <2>1 DEF JoinGetsResult
  <1> QED BY <1>2, <1>7, <1>8, <1>9, <1>10, <1>11, <1>12, <1>13

\* A detached thread frees its own structure.
LEMMA ReturnFreeHolds ==
    ASSUME IInv, Alive, NEW p \in Cprocs, Free(p, "r_free", cur[p], "r_count")
    PROVE  IInv'
  <1> USE DEF IInv
  <1>0. pc[p] = "r_free" /\ pc' = [pc EXCEPT ![p] = "r_count"] BY DEF Free, Goto
  <1>1. p \in In(Owning) /\ p \in In({"r_free"}) BY <1>0 DEF In, PlacedIn, Owning
  <1>2. /\ cur[p] \in heap /\ cur[p] \notin Range(cthreads) /\ cur[p] \notin Range(free_cthreads)
        /\ \A q \in In(Owning) \ {p} : cur[q] # cur[p]
    BY <1>1, OwnerAlone
  <1>3. \A i : ~Claimed(i, cur[p]) BY <1>1 DEF FlagInv, Claimed
  <1>4. \A q \in In(Owning)' : cur[q] # cur[p]
    <2>1. \A q \in In(Owning)' : q \in In(Owning) \ {p} BY <1>0 DEF In, PlacedIn, Owning, TypeOK
    <2> QED BY <1>2, <2>1
  <1>5. \A q \in In(Claiming)' : arg[q] # cur[p]
    <2>1. \A q \in In(Claiming)' : q \in In(Claiming) BY <1>0 DEF In, PlacedIn, Claiming, TypeOK
    <2> QED BY <1>3, <2>1 DEF ClaimInv
  <1>6. \A i \in Invocations : handle[i] # cur[p]
    <2>1. cur[p] # None BY <1>2, ConstAssumption DEF TypeOK
    <2> QED BY <1>3, <2>1 DEF ClaimInv
  <1> QED BY <1>2, <1>4, <1>5, <1>6, FreeMoves

\* The one who joined or detached a thread that has returned frees its structure.
LEMMA ClaimFreeHolds ==
    ASSUME IInv, Alive, NEW p \in Cprocs, NEW from \in {"d_free", "j_free"}, Free(p, from, arg[p], "run")
    PROVE  IInv'
  <1> USE DEF IInv
  <1> DEFINE t == arg[p]
  <1>0. pc[p] = from /\ pc' = [pc EXCEPT ![p] = "run"] BY DEF Free, Goto
  <1>1. p \in In(Claiming) /\ p \in In({"j_free", "d_free"}) BY <1>0 DEF In, PlacedIn, Claiming
  <1>2. /\ t \in heap /\ t \notin Range(free_cthreads) /\ inv[t] = want[p] /\ handle[want[p]] = None
        /\ "T_RETURNED" \in tstate[t]
    BY <1>1 DEF ClaimInv, Claimed
  <1>3. \A i : Claimed(i, t) => i = want[p] BY <1>2 DEF Claimed
  <1>4. t \notin Range(cthreads) BY <1>2 DEF FlagInv
  <1>5. \A q \in In(Owning)' : cur[q] # t
    <2>1. from \in Owning /\ pc \in [Cprocs -> Pcs] BY DEF Owning, TypeOK
    <2>2. \A q \in In(Owning)' : q \in In(Owning) BY <1>0, <2>1 DEF In, PlacedIn
    <2> QED BY <1>2, <2>2 DEF FlagInv
  <1>6. \A q \in In(Claiming)' : arg[q] # t
    <2>1. \A q \in In(Claiming)' : q \in In(Claiming) /\ q # p
      BY <1>0 DEF In, PlacedIn, Claiming, TypeOK
    <2> QED BY <1>1, <1>3, <2>1 DEF ClaimInv
  <1>7. \A i \in Invocations : handle[i] # t
    <2>1. t # None BY <1>2, ConstAssumption DEF TypeOK
    <2> QED BY <1>2, <1>3, <2>1 DEF ClaimInv
  <1>8. from # "r_free" OBVIOUS
  <1> QED BY <1>2, <1>4, <1>5, <1>6, <1>7, <1>8, FreeMoves

\* The roles when a cproc without a thread takes one or goes to sleep.
LEMMA TurnRoles ==
    ASSUME NEW p \in Cprocs, pc[p] \in {"lock", "r_count"}, pc'[p] \in {"run", "needed"},
           \A q \in Cprocs \ {p} : SameRole(pc[q], pc'[q])
    PROVE  /\ In(Claiming)' = In(Claiming) /\ In({"j_free", "d_free"})' = In({"j_free", "d_free"})
           /\ In({"j_free"})' = In({"j_free"}) /\ In({"j_wait"})' = In({"j_wait"})
           /\ In({"r_free"})' = In({"r_free"}) /\ In({"returned"})' = In({"returned"})
           /\ p \notin In({"r_free"}) /\ p \notin In({"returned"}) /\ p \notin In(Owning)
           /\ In(Owning)' = IF pc'[p] = "run" THEN In(Owning) \cup {p} ELSE In(Owning)
           /\ In(Late \cup {"returned", "r_free"})' = In(Late \cup {"returned", "r_free"}) \ {p}
           /\ \A q \in Cprocs \ {p} : pc'[q] \in Asleep <=> pc[q] \in Asleep
  <1>1. \A S \in {Claiming, {"j_free", "d_free"}, {"j_free"}, {"j_wait"}, {"r_free"}, {"returned"}} :
           S \in Roles /\ pc[p] \notin S /\ pc'[p] \notin S
    BY DEF Roles, Claiming
  <1>2. /\ Owning \in Roles /\ Asleep \in Roles /\ (Late \cup {"returned", "r_free"}) \in Roles
        /\ pc[p] \notin Owning /\ (pc'[p] \in Owning <=> pc'[p] = "run")
        /\ pc'[p] \notin Late \cup {"returned", "r_free"}
    BY DEF Roles, Owning, Late
  <1>3. ASSUME NEW S \in Roles, pc[p] \notin S, pc'[p] \notin S PROVE In(S)' = In(S)
    <2>1. \A q \in Cprocs : pc[q] \in S <=> pc'[q] \in S BY <1>3 DEF SameRole
    <2> QED BY <2>1, InSame
  <1>4. ASSUME NEW S \in Roles
        PROVE  In(S)' = IF pc'[p] \in S THEN In(S) \cup {p} ELSE In(S) \ {p}
    <2>1. \A q \in Cprocs \ {p} : pc[q] \in S <=> pc'[q] \in S BY DEF SameRole
    <2> QED BY <2>1 DEF In, PlacedIn
  <1>5. \A q \in Cprocs \ {p} : pc'[q] \in Asleep <=> pc[q] \in Asleep BY <1>2 DEF SameRole
  <1>6. p \notin In({"r_free"}) /\ p \notin In({"returned"}) /\ p \notin In(Owning) BY <1>2 DEF In, PlacedIn
  <1>7. In(Owning)' = IF pc'[p] = "run" THEN In(Owning) \cup {p} ELSE In(Owning)
    <2>1. In(Owning)' = IF pc'[p] \in Owning THEN In(Owning) \cup {p} ELSE In(Owning) \ {p} BY <1>2, <1>4
    <2> QED BY <1>2, <1>6, <2>1
  <1>8. In(Late \cup {"returned", "r_free"})' = In(Late \cup {"returned", "r_free"}) \ {p} BY <1>2, <1>4
  <1>9. /\ In(Claiming)' = In(Claiming) /\ In({"j_free", "d_free"})' = In({"j_free", "d_free"})
        /\ In({"j_free"})' = In({"j_free"}) /\ In({"j_wait"})' = In({"j_wait"})
        /\ In({"r_free"})' = In({"r_free"}) /\ In({"returned"})' = In({"returned"})
    BY <1>1, <1>3
  <1> QED BY <1>5, <1>6, <1>7, <1>8, <1>9

\* The counts after a turn; somebody else executes the main thread.
LEMMA TurnCounts ==
    ASSUME IInv, NEW p \in Cprocs, NEW d \in {0, 1}, TypeOK', Cardinality(In(Present)') = Cardinality(In(Present)),
           Cardinality(In(Working)') + Len(cthreads') = Cardinality(In(Working)) + Len(cthreads) - d,
           needed' # <<>> => Len(cthreads') <= Cardinality(In(Coming)'),
           n_cthreads' = n_cthreads - d, UNCHANGED <<n_cprocs, heap, forks>>
    PROVE  CountExact' /\ CountInv'
  <1> USE DEF IInv
  <1>1. CountForm BY CountTypes, CountForms
  <1>2. /\ n_cthreads \in Nat /\ n_cthreads' = n_cthreads - d /\ n_cthreads' \in Nat /\ forks \in Nat
        /\ Len(cthreads) \in Nat /\ Len(cthreads') \in Nat
        /\ Cardinality(In(Working)) \in Nat /\ Cardinality(In(Working)') \in Nat
    <2>1. cthreads' \in Seq(Slots) /\ n_cthreads' \in 1..(MaxForks + 1) /\ MaxForks \in Nat
      BY ConstAssumption DEF TypeOK
    <2>2. Cardinality(In(Working)') \in Nat
      <3>1. In(Working)' \subseteq Cprocs BY DEF In, PlacedIn
      <3> QED BY <3>1, ConstAssumption, FS_Subset, FS_CardinalityType
    <2> QED BY <2>1, <2>2, CountTypes, InSizes
  <1>3. n_cthreads' = Len(cthreads') + Cardinality(In(Working)') /\ n_cthreads' <= forks + 1
    BY <1>1, <1>2 DEF CountForm
  <1>4. CountForm' BY <1>1, <1>3 DEF CountForm
  <1>5. pc' \in [Cprocs -> Pcs] BY DEF TypeOK
  <1> QED BY <1>4, <1>5, CountForms

\* Another cproc executes the main thread, so the count stays positive.
LEMMA OthersWork ==
    ASSUME IInv, NEW p \in Cprocs, pc[p] = "r_count"
    PROVE  n_cthreads > 1
  <1> USE DEF IInv
  <1>1. PICK m \in In(Owning) : "T_MAIN" \in tstate[cur[m]] BY DEF MainInv
  <1>2. p \in In(Working) /\ m \in In(Working) /\ m # p
    BY <1>1 DEF In, PlacedIn, Working, Owning, Late
  <1>3. IsFiniteSet(In(Working)) /\ Cardinality(In(Working)) \in Nat BY InSizes
  <1>4. /\ IsFiniteSet(In(Working) \ {p}) /\ Cardinality(In(Working) \ {p}) = Cardinality(In(Working)) - 1
        /\ Cardinality(In(Working) \ {p}) \in Nat
    BY <1>2, <1>3, FS_RemoveElement, FS_CardinalityType
  <1>5. In(Working) \ {p} # {} BY <1>2
  <1>6. Cardinality(In(Working) \ {p}) # 0 BY <1>4, <1>5, FS_EmptySet
  <1>7. CountForm BY CountTypes, CountForms
  <1> QED BY <1>3, <1>4, <1>6, <1>7, CountTypes DEF CountForm

\* The queue has a thread for the cproc.
LEMMA TakeHolds ==
    ASSUME IInv, Alive, NEW p \in Cprocs, pc[p] \in {"lock", "r_count"}, cthreads # <<>>, Turn(p, pc),
           NEW d, d = IF pc[p] = "r_count" THEN 1 ELSE 0, n_cthreads' = n_cthreads - d,
           UNCHANGED <<n_cprocs, max_cprocs, free_cthreads, heap, tstate, done,
                       result, inv, arg, want, handle, joined, forks, unixforks>>
    PROVE  IInv'
  <1> USE DEF IInv
  <1> DEFINE t == Head(cthreads)
  <1>0. /\ cthreads' = Tail(cthreads) /\ cur' = [cur EXCEPT ![p] = t] /\ pc' = [pc EXCEPT ![p] = "run"]
        /\ UNCHANGED <<needed, idle>>
    BY DEF Turn
  <1>1. /\ t \in Slots /\ cthreads' \in Seq(Slots) /\ Len(cthreads') = Len(cthreads) - 1
        /\ Range(cthreads) = Range(cthreads') \cup {t} /\ IsInjective(cthreads') /\ t \notin Range(cthreads')
    BY <1>0, CountTypes, TailSeq DEF PlaceInv
  <1> HIDE DEF t
  <1>2. "run" \in Pcs BY DEF Pcs
  <1>3. /\ pc' \in [Cprocs -> Pcs] /\ pc'[p] = "run" /\ \A q \in Cprocs \ {p} : pc'[q] = pc[q]
        /\ Cardinality(In(Working)') = Cardinality(In(Working)) + Diff(pc[p], "run", Working)
        /\ Cardinality(In(Present)') = Cardinality(In(Present)) + Diff(pc[p], "run", Present)
        /\ Cardinality(In(Coming)') = Cardinality(In(Coming)) + Diff(pc[p], "run", Coming)
    BY <1>0, <1>2, Move
  <1>4. /\ Diff(pc[p], "run", Working) = 1 - d /\ Diff(pc[p], "run", Present) = 0
        /\ Diff(pc[p], "run", Coming) = 0 - 1 /\ d \in {0, 1}
    <2>1. CASE pc[p] = "lock" BY <2>1 DEF Diff, Working, Owning, Late, Present, Pcs, Coming
    <2>2. CASE pc[p] = "r_count" BY <2>2 DEF Diff, Working, Owning, Late, Present, Pcs, Coming
    <2> QED BY <2>1, <2>2
  <1>5. /\ cur' \in [Cprocs -> Slots \cup {None}] /\ cur'[p] = t /\ \A q \in Cprocs \ {p} : cur'[q] = cur[q]
    BY <1>0, <1>1 DEF TypeOK
  <1>6. n_cthreads' \in 1..(MaxForks + 1)
    <2>1. n_cthreads \in 1..(MaxForks + 1) /\ MaxForks \in Nat BY ConstAssumption DEF TypeOK
    <2>2. d = 1 => n_cthreads > 1 BY OthersWork
    <2> QED BY <1>4, <2>1, <2>2
  <1>7. TypeOK' BY <1>0, <1>1, <1>3, <1>5, <1>6 DEF TypeOK
  <1>8. CountExact' /\ CountInv'
    <2>1. /\ Cardinality(In(Working)) \in Nat /\ Cardinality(In(Present)) \in Nat
          /\ Cardinality(In(Coming)) \in Nat /\ Len(cthreads) \in Nat
      BY InSizes, CountTypes
    <2>2. Cardinality(In(Working)') + Len(cthreads') = Cardinality(In(Working)) + Len(cthreads) - d
      BY <1>1, <1>3, <1>4, <2>1
    <2>3. needed' # <<>> => Len(cthreads') <= Cardinality(In(Coming)')
      BY <1>0, <1>1, <1>3, <1>4, <2>1 DEF CountInv
    <2>4. Cardinality(In(Present)') = Cardinality(In(Present)) BY <1>3, <1>4, <2>1
    <2> QED BY <1>4, <1>7, <2>2, <2>3, <2>4, TurnCounts
  <1>9. ExitLast' BY <1>3, NobodyExits DEF Alive
  <1>10. WaitInv'
    <2>1. Range(needed) \subseteq Cprocs /\ Range(idle) \subseteq Cprocs BY DEF TypeOK, Range
    <2> QED BY <1>0, <1>3, <2>1 DEF WaitInv
  <1>11. \A q \in Cprocs \ {p} : SameRole(pc[q], pc'[q]) BY <1>3, RoleMoves
  <1>12. /\ In(Claiming)' = In(Claiming) /\ In({"j_free", "d_free"})' = In({"j_free", "d_free"})
         /\ In({"j_free"})' = In({"j_free"}) /\ In({"j_wait"})' = In({"j_wait"})
         /\ In({"r_free"})' = In({"r_free"}) /\ In({"returned"})' = In({"returned"})
         /\ p \notin In({"r_free"}) /\ p \notin In({"returned"}) /\ p \notin In(Owning)
         /\ In(Owning)' = In(Owning) \cup {p}
         /\ In(Late \cup {"returned", "r_free"})' = In(Late \cup {"returned", "r_free"}) \ {p}
         /\ \A q \in Cprocs \ {p} : pc'[q] \in Asleep <=> pc[q] \in Asleep
    BY <1>3, <1>11, TurnRoles
  <1>13. In(Owning) \subseteq Cprocs /\ In({"r_free"}) \subseteq Cprocs /\ In({"returned"}) \subseteq Cprocs
         /\ In(Late \cup {"returned", "r_free"}) \subseteq Cprocs
    BY DEF In, PlacedIn
  <1>14. t \in Range(cthreads) BY <1>1
  <1>15. PlaceInv'
    <2>1. \A q \in Cprocs : IF pc'[q] \in Asleep THEN cur'[q] = None ELSE cur'[q] \in Slots
      <3>1. pc'[p] \notin Asleep BY <1>3 DEF Asleep
      <3> QED BY <1>1, <1>5, <1>12, <3>1 DEF PlaceInv
    <2>2. \A q \in In(Owning)' : /\ cur'[q] \in heap /\ cur'[q] \notin Range(cthreads')
                                 /\ cur'[q] \notin Range(free_cthreads)
      BY <1>1, <1>5, <1>12, <1>13 DEF PlaceInv
    <2>3. \A q, r \in In(Owning)' : cur'[q] = cur'[r] => q = r
      BY <1>5, <1>12, <1>13, <1>14 DEF PlaceInv
    <2>4. /\ Range(cthreads') \cap Range(free_cthreads) = {}
          /\ Range(cthreads') \cup Range(free_cthreads) \subseteq heap
      BY <1>1 DEF PlaceInv
    <2> QED BY <1>1, <2>1, <2>2, <2>3, <2>4 DEF PlaceInv
  <1>16. FlagInv'
    <2>1. \A q \in In(Owning)' : "T_RETURNED" \notin tstate[cur'[q]] BY <1>5, <1>12, <1>13, <1>14 DEF FlagInv
    <2>2. /\ \A q \in In(Late \cup {"returned", "r_free"})' : "T_MAIN" \notin tstate[cur'[q]]
          /\ \A q \in In({"r_free"})' : "T_DETACHED" \in tstate[cur'[q]]
          /\ \A q \in In({"returned"})' : result[cur'[q]] = inv[cur'[q]]
      BY <1>5, <1>12, <1>13 DEF FlagInv
    <2>3. \A u \in Range(cthreads') : tstate[u] \cap {"T_RETURNED", "T_MAIN"} = {} BY <1>1 DEF FlagInv
    <2>4. \A u \in Slots : "T_RETURNED" \in tstate[u] => result[u] = inv[u] BY DEF FlagInv
    <2> QED BY <2>1, <2>2, <2>3, <2>4 DEF FlagInv
  <1>17. MainInv'
    <2>1. PICK m \in In(Owning) : "T_MAIN" \in tstate[cur[m]] BY DEF MainInv
    <2> QED BY <1>5, <1>12, <1>13, <2>1 DEF MainInv
  <1>18. ClaimInv' /\ JoinGetsResult' BY <1>12, ClaimSame, JoinedSame
  <1>19. DoneInv'
    <2>1. \A u \in Slots : u \in Range(cthreads') \/ (\E q \in Cprocs : cur'[q] = u)
                           => u \in Range(cthreads) \/ \E q \in Cprocs : cur[q] = u
      BY <1>1, <1>5
    <2> QED BY <1>12, <2>1 DEF DoneInv
  <1> QED BY <1>7, <1>8, <1>9, <1>10, <1>15, <1>16, <1>17, <1>18, <1>19

\* The queue is empty: the cproc waits on cthread_needed, and wakes the main thread if it waits to exit.
LEMMA SleepHolds ==
    ASSUME IInv, Alive, NEW p \in Cprocs, pc[p] \in {"lock", "r_count"}, cthreads = <<>>, Turn(p, pc),
           NEW d, d = IF pc[p] = "r_count" THEN 1 ELSE 0, n_cthreads' = n_cthreads - d,
           UNCHANGED <<n_cprocs, max_cprocs, free_cthreads, heap, tstate, done,
                       result, inv, arg, want, handle, joined, forks, unixforks>>
    PROVE  IInv'
  <1> USE DEF IInv
  <1>0. /\ needed' = Append(needed, p) /\ cur' = [cur EXCEPT ![p] = None] /\ cthreads' = cthreads
    BY DEF Turn
  <1>1. /\ pc \in [Cprocs -> Pcs] /\ needed \in Seq(Cprocs) /\ idle \in Seq(Cprocs)
        /\ Range(needed) \subseteq Cprocs /\ Range(idle) \subseteq Cprocs
        /\ p \notin Range(needed) /\ p \notin Range(idle)
    <2>1. needed \in Seq(Cprocs) /\ idle \in Seq(Cprocs) /\ pc \in [Cprocs -> Pcs] BY DEF TypeOK
    <2>2. Range(needed) \subseteq Cprocs /\ Range(idle) \subseteq Cprocs BY <2>1 DEF Range
    <2> QED BY <2>1, <2>2 DEF WaitInv
  <1>2. /\ needed' \in Seq(Cprocs) /\ Range(needed') = Range(needed) \cup {p} /\ IsInjective(needed')
    BY <1>0, <1>1, AppendSeq DEF WaitInv
  <1>3. /\ d \in {0, 1} /\ Diff(pc[p], "needed", Working) = 0 - d /\ Diff(pc[p], "needed", Present) = 0
    <2>1. CASE pc[p] = "lock" BY <2>1 DEF Diff, Working, Owning, Late, Present, Pcs
    <2>2. CASE pc[p] = "r_count" BY <2>2 DEF Diff, Working, Owning, Late, Present, Pcs
    <2> QED BY <2>1, <2>2
  <1>4. "needed" \in Pcs /\ "x_lock" \in Pcs BY DEF Pcs
  <1>5. /\ pc' \in [Cprocs -> Pcs] /\ pc'[p] = "needed" /\ \A q \in Cprocs \ {p} : SameRole(pc[q], pc'[q])
        /\ \A q \in Cprocs \ {p} : pc'[q] = pc[q] \/ pc[q] = "x_wait"
        /\ \A q \in Cprocs : pc'[q] # "exited"
        /\ idle' \in Seq(Cprocs) /\ IsInjective(idle') /\ \A q \in Range(idle') : pc'[q] = "x_wait"
        /\ Cardinality(In(Working)') = Cardinality(In(Working)) - d
        /\ Cardinality(In(Present)') = Cardinality(In(Present))
    <2>1. CASE idle = <<>>
      <3>1. pc' = [pc EXCEPT ![p] = "needed"] /\ idle' = idle BY <2>1 DEF Turn
      <3>2. /\ pc' \in [Cprocs -> Pcs] /\ pc'[p] = "needed" /\ \A q \in Cprocs \ {p} : pc'[q] = pc[q]
            /\ Cardinality(In(Working)') = Cardinality(In(Working)) + Diff(pc[p], "needed", Working)
            /\ Cardinality(In(Present)') = Cardinality(In(Present)) + Diff(pc[p], "needed", Present)
        BY <1>4, <3>1, Move
      <3>3. /\ Cardinality(In(Working)') = Cardinality(In(Working)) - d
            /\ Cardinality(In(Present)') = Cardinality(In(Present))
        BY <1>3, <3>2, InSizes
      <3>4. \A q \in Cprocs : pc'[q] # "exited" BY <3>2 DEF Alive
      <3>5. \A q \in Range(idle') : pc'[q] = "x_wait" BY <1>1, <3>1, <3>2 DEF WaitInv
      <3>6. idle' \in Seq(Cprocs) /\ IsInjective(idle') BY <1>1, <3>1 DEF WaitInv
      <3> QED BY <3>2, <3>3, <3>4, <3>5, <3>6, RoleMoves
    <2>2. CASE idle # <<>>
      <3> DEFINE r == Head(idle)
      <3>1. pc' = [pc EXCEPT ![p] = "needed", ![r] = "x_lock"] /\ idle' = Tail(idle) BY <2>2 DEF Turn
      <3>2. /\ r \in Cprocs /\ idle' \in Seq(Cprocs) /\ Range(idle) = Range(idle') \cup {r}
            /\ IsInjective(idle') /\ r \notin Range(idle')
        BY <1>1, <2>2, <3>1, TailSeq DEF WaitInv
      <3> HIDE DEF r
      <3>3. pc[r] = "x_wait" /\ r # p BY <1>1, <3>2 DEF WaitInv
      <3>4. /\ pc' \in [Cprocs -> Pcs] /\ pc'[p] = "needed" /\ pc'[r] = "x_lock"
            /\ \A q \in Cprocs \ {p, r} : pc'[q] = pc[q]
        BY <1>1, <1>4, <3>1, <3>2, <3>3
      <3>5. Diff("x_wait", "x_lock", Working) = 0 /\ Diff("x_wait", "x_lock", Present) = 0
        BY DEF Diff, Working, Owning, Late, Present, Pcs
      <3>6. /\ Cardinality(In(Working)') = Cardinality(In(Working)) - d
            /\ Cardinality(In(Present)') = Cardinality(In(Present))
        <4>1. /\ Cardinality(In(Working)') = Cardinality(In(Working)) + (0 - d) + 0
              /\ Cardinality(In(Present)') = Cardinality(In(Present)) + 0 + 0
          BY <1>3, <1>4, <3>2, <3>3, <3>4, <3>5, MoveTwo
        <4> QED BY <1>3, <4>1, InSizes
      <3>7. \A q \in Cprocs : pc'[q] # "exited" BY <3>4 DEF Alive
      <3>8. \A q \in Range(idle') : pc'[q] = "x_wait" BY <1>1, <3>2, <3>4 DEF WaitInv
      <3>9. \A q \in Cprocs \ {p} : SameRole(pc[q], pc'[q]) BY <3>3, <3>4, RoleMoves
      <3>10. \A q \in Cprocs \ {p} : pc'[q] = pc[q] \/ pc[q] = "x_wait" BY <3>3, <3>4
      <3> QED BY <3>2, <3>4, <3>6, <3>7, <3>8, <3>9, <3>10
    <2> QED BY <2>1, <2>2
  <1>6. /\ cur' \in [Cprocs -> Slots \cup {None}] /\ cur'[p] = None /\ \A q \in Cprocs \ {p} : cur'[q] = cur[q]
    BY <1>0 DEF TypeOK
  <1>7. n_cthreads' \in 1..(MaxForks + 1)
    <2>1. n_cthreads \in 1..(MaxForks + 1) /\ MaxForks \in Nat BY ConstAssumption DEF TypeOK
    <2>2. d = 1 => n_cthreads > 1 BY OthersWork
    <2> QED BY <1>3, <2>1, <2>2
  <1>8. TypeOK' BY <1>0, <1>2, <1>5, <1>6, <1>7 DEF TypeOK
  <1>9. CountExact' /\ CountInv'
    <2>1. Len(cthreads) = 0 /\ Len(cthreads') = 0 /\ Cardinality(In(Working)) \in Nat BY <1>0, InSizes
    <2>2. Cardinality(In(Coming)') \in Nat
      <3>1. In(Coming)' \subseteq Cprocs BY DEF In, PlacedIn
      <3> QED BY <3>1, ConstAssumption, FS_Subset, FS_CardinalityType
    <2>3. Cardinality(In(Working)') + Len(cthreads') = Cardinality(In(Working)) + Len(cthreads) - d
      BY <1>3, <1>5, <2>1
    <2>4. Len(cthreads') <= Cardinality(In(Coming)') BY <2>1, <2>2
    <2> QED BY <1>3, <1>5, <1>8, <2>3, <2>4, TurnCounts
  <1>10. ExitLast' BY <1>5, NobodyExits
  <1>11. WaitInv'
    <2>1. \A q \in Range(needed) : pc[q] = "needed" /\ q \in Cprocs \ {p} BY <1>1 DEF WaitInv
    <2>2. \A q \in Range(needed') : pc'[q] = "needed" BY <1>2, <1>5, <2>1
    <2> QED BY <1>2, <1>5, <2>2 DEF WaitInv
  <1>12. /\ In(Claiming)' = In(Claiming) /\ In({"j_free", "d_free"})' = In({"j_free", "d_free"})
         /\ In({"j_free"})' = In({"j_free"}) /\ In({"j_wait"})' = In({"j_wait"})
         /\ In({"r_free"})' = In({"r_free"}) /\ In({"returned"})' = In({"returned"})
         /\ p \notin In({"r_free"}) /\ p \notin In({"returned"}) /\ p \notin In(Owning)
         /\ In(Owning)' = In(Owning)
         /\ In(Late \cup {"returned", "r_free"})' = In(Late \cup {"returned", "r_free"}) \ {p}
         /\ \A q \in Cprocs \ {p} : pc'[q] \in Asleep <=> pc[q] \in Asleep
    BY <1>5, TurnRoles
  <1>13. In(Owning) \subseteq Cprocs /\ In({"r_free"}) \subseteq Cprocs /\ In({"returned"}) \subseteq Cprocs
         /\ In(Late \cup {"returned", "r_free"}) \subseteq Cprocs
    BY DEF In, PlacedIn
  <1>14. PlaceInv'
    <2>1. \A q \in Cprocs : IF pc'[q] \in Asleep THEN cur'[q] = None ELSE cur'[q] \in Slots
      <3>1. pc'[p] \in Asleep BY <1>5 DEF Asleep
      <3> QED BY <1>6, <1>12, <3>1 DEF PlaceInv
    <2>2. \A q \in In(Owning)' : cur'[q] = cur[q] BY <1>6, <1>12, <1>13
    <2> QED BY <1>0, <1>12, <2>1, <2>2 DEF PlaceInv
  <1>15. FlagInv'
    <2>1. /\ \A q \in In(Owning)' : "T_RETURNED" \notin tstate[cur'[q]]
          /\ \A q \in In(Late \cup {"returned", "r_free"})' : "T_MAIN" \notin tstate[cur'[q]]
          /\ \A q \in In({"r_free"})' : "T_DETACHED" \in tstate[cur'[q]]
          /\ \A q \in In({"returned"})' : result[cur'[q]] = inv[cur'[q]]
      BY <1>6, <1>12, <1>13 DEF FlagInv
    <2> QED BY <1>0, <2>1 DEF FlagInv
  <1>16. MainInv'
    <2>1. PICK m \in In(Owning) : "T_MAIN" \in tstate[cur[m]] BY DEF MainInv
    <2> QED BY <1>6, <1>12, <1>13, <2>1 DEF MainInv
  <1>17. ClaimInv' /\ JoinGetsResult' BY <1>12, ClaimSame, JoinedSame
  <1>18. DoneInv'
    <2>1. \A u \in Slots : (\E q \in Cprocs : cur'[q] = u) => \E q \in Cprocs : cur[q] = u
      BY <1>6, ConstAssumption
    <2> QED BY <1>0, <1>12, <2>1 DEF DoneInv
  <1> QED BY <1>8, <1>9, <1>10, <1>11, <1>14, <1>15, <1>16, <1>17, <1>18

LEMMA TurnHolds ==
    ASSUME IInv, Alive, NEW p \in Cprocs, BodyLoop(p) \/ ReturnCount(p)
    PROVE  IInv'
  <1> DEFINE d == IF pc[p] = "r_count" THEN 1 ELSE 0
  <1>1. /\ pc[p] \in {"lock", "r_count"} /\ Turn(p, pc) /\ n_cthreads' = n_cthreads - d
        /\ UNCHANGED <<n_cprocs, max_cprocs, free_cthreads, heap, tstate, done,
                       result, inv, arg, want, handle, joined, forks, unixforks>>
    <2>1. n_cthreads \in Nat BY CountTypes DEF IInv
    <2>2. CASE BodyLoop(p) BY <2>1, <2>2 DEF BodyLoop, counts, client
    <2>3. CASE ReturnCount(p) BY <2>1, <2>3 DEF ReturnCount, client
    <2> QED BY <2>2, <2>3
  <1>2. CASE cthreads # <<>> BY <1>1, <1>2, TakeHolds
  <1>3. CASE cthreads = <<>> BY <1>1, <1>3, SleepHolds
  <1> QED BY <1>2, <1>3

\* Only p is left, with the main thread: the state of a new task, and of the child of fork().
LEMMA Alone ==
    ASSUME NEW f \in [Cprocs -> Pcs], NEW p \in Cprocs, f[p] = "run", \A q \in Cprocs \ {p} : f[q] = "none"
    PROVE  /\ PlacedIn(f, Working) = {p} /\ PlacedIn(f, Present) = {p} /\ PlacedIn(f, Owning) = {p}
           /\ PlacedIn(f, Late \cup {"returned", "r_free"}) = {} /\ PlacedIn(f, {"r_free"}) = {}
           /\ PlacedIn(f, {"returned"}) = {} /\ PlacedIn(f, Claiming) = {} /\ PlacedIn(f, {"j_free", "d_free"}) = {}
           /\ Cardinality(PlacedIn(f, Working)) = 1 /\ Cardinality(PlacedIn(f, Present)) = 1
  <1>1. \A S : "run" \in S /\ "none" \notin S => PlacedIn(f, S) = {p} BY DEF PlacedIn
  <1>2. \A S : "run" \notin S /\ "none" \notin S => PlacedIn(f, S) = {} BY DEF PlacedIn
  <1>3. PlacedIn(f, Working) = {p} /\ PlacedIn(f, Present) = {p} /\ PlacedIn(f, Owning) = {p}
    BY <1>1 DEF Working, Owning, Late, Present, Pcs
  <1>4. /\ PlacedIn(f, Late \cup {"returned", "r_free"}) = {} /\ PlacedIn(f, {"r_free"}) = {}
        /\ PlacedIn(f, {"returned"}) = {} /\ PlacedIn(f, Claiming) = {} /\ PlacedIn(f, {"j_free", "d_free"}) = {}
    BY <1>2 DEF Late, Claiming
  <1>5. Cardinality({p}) = 1 BY FS_Singleton
  <1> QED BY <1>1, <1>2, <1>3, <1>4, <1>5

LEMMA EmptySeq ==
    ASSUME NEW S
    PROVE  <<>> \in Seq(S) /\ Len(<<>>) = 0 /\ Range(<<>>) = {} /\ IsInjective(<<>>)
  BY DEF Range, IsInjective

LEMMA Sizes ==
    /\ Cardinality(Cprocs) \in Nat \ {0} /\ Cardinality(Slots) \in Nat \ {0} /\ Slots # {}
    /\ MaxForks \in Nat /\ MaxUnixForks \in Nat
  <1>1. Cardinality(Cprocs) \in Nat /\ Cardinality(Slots) \in Nat BY ConstAssumption, FS_CardinalityType
  <1>2. Cardinality(Slots) # 0 /\ Cardinality(Cprocs) # 0 BY <1>1, ConstAssumption
  <1> QED BY <1>1, <1>2, ConstAssumption, FS_EmptySet

LEMMA InitHolds == Init => IInv
  <1> SUFFICES ASSUME Init PROVE IInv OBVIOUS
  <1> DEFINE s == Malloc({})
  <1>0. /\ cthreads = <<>> /\ needed = <<>> /\ idle = <<>> /\ free_cthreads = <<>>
        /\ n_cprocs = 1 /\ n_cthreads = 1 /\ max_cprocs = 0 /\ heap = {s}
        /\ tstate = [t \in Slots |-> IF t = s THEN {"T_MAIN"} ELSE {}]
        /\ inv = [t \in Slots |-> IF t = s THEN 0 ELSE None]
        /\ cur = [p \in Cprocs |-> IF p = First THEN s ELSE None]
        /\ done = [t \in Slots |-> <<>>] /\ result = [t \in Slots |-> None]
        /\ pc = [p \in Cprocs |-> IF p = First THEN "run" ELSE "none"]
        /\ arg = [p \in Cprocs |-> None] /\ want = [p \in Cprocs |-> None]
        /\ handle = [i \in Invocations |-> None] /\ joined = [i \in Invocations |-> None]
        /\ forks = 0 /\ unixforks = 0
    BY DEF Init
  <1>1. s \in Slots BY Sizes DEF Malloc
  <1> HIDE DEF s
  <1>2. First \in Cprocs /\ None \notin Slots BY ConstAssumption
  <1>3. 0 \in Invocations BY Sizes DEF Invocations
  <1>4. pc \in [Cprocs -> Pcs] BY <1>0 DEF Pcs
  <1>5. TypeOK
    <2>1. n_cprocs \in 1..Cardinality(Cprocs) /\ n_cthreads \in 1..(MaxForks + 1) BY <1>0, Sizes
    <2>2. forks \in 0..MaxForks /\ unixforks \in 0..MaxUnixForks BY <1>0, Sizes
    <2>3. /\ cthreads \in Seq(Slots) /\ free_cthreads \in Seq(Slots)
          /\ needed \in Seq(Cprocs) /\ idle \in Seq(Cprocs) /\ done \in [Slots -> Seq(Cprocs)]
      BY <1>0, EmptySeq
    <2>4. tstate \in [Slots -> SUBSET Flags] BY <1>0 DEF Flags
    <2> QED BY <1>0, <1>1, <1>3, <1>4, <2>1, <2>2, <2>3, <2>4 DEF TypeOK
  <1>6. /\ In(Working) = {First} /\ In(Present) = {First} /\ In(Owning) = {First}
        /\ In(Late \cup {"returned", "r_free"}) = {} /\ In({"r_free"}) = {}
        /\ In({"returned"}) = {} /\ In(Claiming) = {} /\ In({"j_free", "d_free"}) = {}
        /\ Cardinality(In(Working)) = 1 /\ Cardinality(In(Present)) = 1
    <2>1. First \in Cprocs /\ pc[First] = "run" /\ \A q \in Cprocs \ {First} : pc[q] = "none" BY <1>0, <1>2
    <2> QED BY <1>4, <2>1, Alone DEF In
  <1>7. CountExact /\ CountInv
    <2>1. Cardinality(heap) = 1 BY <1>0, FS_Singleton
    <2>2. CountForm BY <1>0, <1>6, <2>1, EmptySeq DEF CountForm
    <2> QED BY <1>4, <2>2, CountForms
  <1>8. ExitLast /\ JoinGetsResult BY <1>0 DEF ExitLast, JoinGetsResult
  <1>9. WaitInv BY <1>0, EmptySeq DEF WaitInv
  <1>10. cur[First] = s /\ \A p \in Cprocs : (pc[p] \in Asleep <=> p # First) /\ (p # First => cur[p] = None)
    BY <1>0, <1>2 DEF Asleep
  <1>11. PlaceInv BY <1>0, <1>1, <1>6, <1>10, EmptySeq DEF PlaceInv
  <1>12. tstate[s] = {"T_MAIN"} /\ \A t \in Slots : "T_RETURNED" \notin tstate[t] BY <1>0, <1>1
  <1>13. FlagInv BY <1>0, <1>1, <1>6, <1>10, <1>12, EmptySeq DEF FlagInv
  <1>14. MainInv BY <1>6, <1>10, <1>12 DEF MainInv
  <1>15. ClaimInv BY <1>0, <1>6 DEF ClaimInv
  <1>16. DoneInv BY <1>0 DEF DoneInv
  <1> QED BY <1>5, <1>7, <1>8, <1>9, <1>11, <1>13, <1>14, <1>15, <1>16 DEF IInv

LEMMA ForkChildHolds ==
    ASSUME IInv, NEW p \in Cprocs, ForkChild(p)
    PROVE  IInv'
  <1> USE DEF IInv
  <1> DEFINE s == cur[p]
  <1>0. /\ pc[p] = "run" /\ unixforks < MaxUnixForks /\ unixforks' = unixforks + 1
        /\ needed' = <<>> /\ idle' = <<>> /\ cthreads' = <<>> /\ free_cthreads' = <<>>
        /\ heap' = heap \ (Range(cthreads) \cup Range(free_cthreads))
        /\ max_cprocs' = 0 /\ n_cprocs' = 1 /\ n_cthreads' = 1
        /\ tstate' = [tstate EXCEPT ![s] = {"T_MAIN"}]
        /\ pc' = [q \in Cprocs |-> IF q = p THEN "run" ELSE "none"]
        /\ cur' = [q \in Cprocs |-> IF q = p THEN s ELSE None]
        /\ arg' = [q \in Cprocs |-> None] /\ want' = [q \in Cprocs |-> None]
        /\ handle' = [i \in Invocations |-> None]
        /\ UNCHANGED <<done, result, inv, joined, forks>>
    BY DEF ForkChild
  <1>1. p \in In(Owning) BY <1>0 DEF In, PlacedIn, Owning
  <1>2. s \in Slots /\ s \in heap' BY <1>0, <1>1, OwnerAlone
  <1> HIDE DEF s
  <1>3. None \notin Slots BY ConstAssumption
  <1>4. pc' \in [Cprocs -> Pcs] BY <1>0 DEF Pcs
  <1>5. /\ tstate' \in [Slots -> SUBSET Flags] /\ tstate'[s] = {"T_MAIN"}
        /\ \A t \in Slots \ {s} : tstate'[t] = tstate[t]
    BY <1>0, <1>2 DEF TypeOK, Flags
  <1>6. TypeOK'
    <2>1. n_cprocs' \in 1..Cardinality(Cprocs) /\ n_cthreads' \in 1..(MaxForks + 1) BY <1>0, Sizes
    <2>2. unixforks' \in 0..MaxUnixForks
      <3>1. unixforks \in 0..MaxUnixForks BY DEF TypeOK
      <3> QED BY <1>0, <3>1, Sizes
    <2>3. /\ cthreads' \in Seq(Slots) /\ free_cthreads' \in Seq(Slots)
          /\ needed' \in Seq(Cprocs) /\ idle' \in Seq(Cprocs)
      BY <1>0, EmptySeq
    <2>4. heap' \subseteq Slots BY <1>0 DEF TypeOK
    <2>5. /\ cur' \in [Cprocs -> Slots \cup {None}] /\ arg' \in [Cprocs -> Slots \cup {None}]
          /\ want' \in [Cprocs -> Invocations \cup {None}] /\ handle' \in [Invocations -> Slots \cup {None}]
      BY <1>0, <1>2
    <2>6. /\ done' \in [Slots -> Seq(Cprocs)] /\ result' \in [Slots -> Invocations \cup {None}]
          /\ inv' \in [Slots -> Invocations \cup {None}] /\ joined' \in [Invocations -> Invocations \cup {None}]
          /\ forks' \in 0..MaxForks /\ max_cprocs' \in Limits \cup {0}
      BY <1>0 DEF TypeOK
    <2> QED BY <1>4, <1>5, <2>1, <2>2, <2>3, <2>4, <2>5, <2>6 DEF TypeOK
  <1>7. /\ In(Working)' = {p} /\ In(Present)' = {p} /\ In(Owning)' = {p}
        /\ In(Late \cup {"returned", "r_free"})' = {} /\ In({"r_free"})' = {}
        /\ In({"returned"})' = {} /\ In(Claiming)' = {} /\ In({"j_free", "d_free"})' = {}
        /\ Cardinality(In(Working)') = 1 /\ Cardinality(In(Present)') = 1
    <2> DEFINE g == pc'
    <2>1. g \in [Cprocs -> Pcs] /\ g[p] = "run" /\ \A q \in Cprocs \ {p} : g[q] = "none" BY <1>0, <1>4
    <2> HIDE DEF g
    <2>2. /\ PlacedIn(g, Working) = {p} /\ PlacedIn(g, Present) = {p} /\ PlacedIn(g, Owning) = {p}
          /\ PlacedIn(g, Late \cup {"returned", "r_free"}) = {} /\ PlacedIn(g, {"r_free"}) = {}
          /\ PlacedIn(g, {"returned"}) = {} /\ PlacedIn(g, Claiming) = {} /\ PlacedIn(g, {"j_free", "d_free"}) = {}
          /\ Cardinality(PlacedIn(g, Working)) = 1 /\ Cardinality(PlacedIn(g, Present)) = 1
      BY <2>1, Alone
    <2> QED BY <2>2 DEF In, g
  <1>8. CountExact' /\ CountInv'
    <2>1. Cardinality(heap') <= Cardinality(heap) /\ Cardinality(heap') \in Nat
      <3>1. heap' \subseteq heap BY <1>0
      <3> QED BY <3>1, CountTypes, FS_Subset, FS_CardinalityType
    <2>2. CountForm BY CountTypes, CountForms
    <2>3. Cardinality(heap') <= forks + 1 /\ 1 <= forks + 1 BY <2>1, <2>2, CountTypes DEF CountForm
    <2>4. CountForm' BY <1>0, <1>7, <2>3, EmptySeq DEF CountForm
    <2> QED BY <1>4, <2>4, CountForms
  <1>9. ExitLast' /\ JoinGetsResult' BY <1>0 DEF ExitLast, JoinGetsResult
  <1>10. WaitInv' BY <1>0, EmptySeq DEF WaitInv
  <1>11. cur'[p] = s /\ \A q \in Cprocs : (pc'[q] \in Asleep <=> q # p) /\ (q # p => cur'[q] = None)
    BY <1>0 DEF Asleep
  <1>12. PlaceInv' BY <1>0, <1>2, <1>7, <1>11, EmptySeq DEF PlaceInv
  <1>13. FlagInv'
    <2>1. \A t \in Slots : "T_RETURNED" \in tstate'[t] => result[t] = inv[t] BY <1>5 DEF FlagInv
    <2>2. Range(cthreads') = {} BY <1>0, EmptySeq
    <2>3. \A q \in In(Owning)' : "T_RETURNED" \notin tstate'[cur'[q]] BY <1>5, <1>7, <1>11
    <2> QED BY <1>0, <1>7, <2>1, <2>2, <2>3 DEF FlagInv
  <1>14. MainInv' BY <1>5, <1>7, <1>11 DEF MainInv
  <1>15. ClaimInv' BY <1>0, <1>7 DEF ClaimInv
  <1>16. DoneInv'
    <2>1. \A t \in Slots : (\E q \in Cprocs : cur'[q] = t) => t = s BY <1>3, <1>11
    <2> QED BY <1>0, <1>5, <2>1, EmptySeq DEF DoneInv
  <1> QED BY <1>6, <1>8, <1>9, <1>10, <1>12, <1>13, <1>14, <1>15, <1>16

\* What cthread_alloc returns: a structure nobody uses.
LEMMA Allocated ==
    ASSUME IInv, forks < MaxForks, NEW t, Allocate(t)
    PROVE  /\ t \in Slots /\ t \notin Range(cthreads) /\ \A q \in In(Owning) : cur[q] # t
           /\ \A i : ~Claimed(i, t)
           /\ free_cthreads' \in Seq(Slots) /\ IsInjective(free_cthreads')
           /\ Range(free_cthreads') \subseteq Range(free_cthreads) /\ t \notin Range(free_cthreads')
           /\ heap' = heap \cup {t} /\ Cardinality(heap') <= forks + 2
  <1> USE DEF IInv
  <1>1. /\ free_cthreads \in Seq(Slots) /\ heap \subseteq Slots /\ Cardinality(heap) <= forks + 1
        /\ Range(cthreads) \subseteq heap /\ Range(free_cthreads) \subseteq heap
    BY DEF TypeOK, PlaceInv, CountInv
  <1>2. CASE free_cthreads # <<>>
    <2>1. t = Head(free_cthreads) /\ free_cthreads' = Tail(free_cthreads) /\ heap' = heap
      BY <1>2 DEF Allocate
    <2>2. /\ t \in Slots /\ free_cthreads' \in Seq(Slots) /\ IsInjective(free_cthreads')
          /\ Range(free_cthreads) = Range(free_cthreads') \cup {t} /\ t \notin Range(free_cthreads')
      BY <1>1, <1>2, <2>1, TailSeq DEF PlaceInv
    <2>3. t \in Range(free_cthreads) BY <2>2
    <2>4. t \notin Range(cthreads) /\ \A q \in In(Owning) : cur[q] # t BY <2>3 DEF PlaceInv
    <2>5. \A i : ~Claimed(i, t) BY <2>3 DEF Claimed
    <2>6. heap' = heap \cup {t} BY <1>1, <2>1, <2>3
    <2>7. Cardinality(heap') <= forks + 2 BY <1>1, <2>1, CountTypes
    <2> QED BY <2>2, <2>4, <2>5, <2>6, <2>7
  <1>3. CASE free_cthreads = <<>>
    <2>1. t = Malloc(heap) /\ free_cthreads' = free_cthreads /\ heap' = heap \cup {t}
      BY <1>3 DEF Allocate
    <2>2. heap # Slots
      <3>1. Cardinality(Slots) > MaxForks /\ Cardinality(Slots) \in Nat BY ConstAssumption, Sizes
      <3>2. Cardinality(heap) < Cardinality(Slots) BY <1>1, <3>1, CountTypes
      <3> QED BY <3>1, <3>2
    <2>3. t \in Slots /\ t \notin heap BY <1>1, <2>1, <2>2 DEF Malloc
    <2>4. t \notin Range(cthreads) /\ t \notin Range(free_cthreads) BY <1>1, <2>3
    <2>5. \A q \in In(Owning) : cur[q] # t BY <2>3 DEF PlaceInv
    <2>6. \A i : ~Claimed(i, t) BY <2>3 DEF Claimed
    <2>7. Cardinality(heap') = Cardinality(heap) + 1 BY <2>1, <2>3, CountTypes, FS_AddElement
    <2>8. Cardinality(heap') <= forks + 2 BY <1>1, <2>7, CountTypes
    <2>9. free_cthreads' \in Seq(Slots) /\ IsInjective(free_cthreads') BY <1>1, <2>1 DEF PlaceInv
    <2> QED BY <2>1, <2>3, <2>4, <2>5, <2>6, <2>8, <2>9
  <1> QED BY <1>2, <1>3

\* Where cthread_fork leaves the cprocs: one more on the way to the queue, or two.
LEMMA ForkMoves ==
    ASSUME IInv, Alive, NEW p \in Cprocs, NEW t, Fork(p, t)
    PROVE  /\ pc' \in [Cprocs -> Pcs] /\ \A q \in Cprocs : SameRole(pc[q], pc'[q])
           /\ \A q \in Cprocs : pc[q] \in {"needed", "x_wait"} => pc'[q] = pc[q]
           /\ \A q \in Cprocs : pc'[q] # "exited"
           /\ Cardinality(In(Working)') = Cardinality(In(Working))
           /\ Cardinality(In(Coming)') >= Cardinality(In(Coming)) + 1
           /\ n_cprocs' = Cardinality(In(Present)')
  <1> USE DEF IInv
  <1>0. pc[p] = "run" /\ pc \in [Cprocs -> Pcs] /\ "f_signal" \in Pcs /\ "lock" \in Pcs BY DEF Fork, TypeOK, Pcs
  <1>1. /\ Diff("run", "f_signal", Working) = 0 /\ Diff("run", "f_signal", Present) = 0
        /\ Diff("run", "f_signal", Coming) = 1 /\ Diff("none", "lock", Working) = 0
        /\ Diff("none", "lock", Present) = 1 /\ Diff("none", "lock", Coming) = 1
    BY DEF Diff, Working, Owning, Late, Present, Pcs, Coming
  <1>2. n_cprocs = Cardinality(In(Present))
    <2>1. CountForm BY CountTypes, CountForms
    <2> QED BY <2>1 DEF CountForm
  <1>3. CASE ~NeedCproc
    <2>1. pc' = [pc EXCEPT ![p] = "f_signal"] /\ n_cprocs' = n_cprocs BY <1>3 DEF Fork, Goto
    <2>2. /\ pc' \in [Cprocs -> Pcs] /\ pc'[p] = "f_signal" /\ \A q \in Cprocs \ {p} : pc'[q] = pc[q]
          /\ Cardinality(In(Working)') = Cardinality(In(Working)) + Diff(pc[p], "f_signal", Working)
          /\ Cardinality(In(Present)') = Cardinality(In(Present)) + Diff(pc[p], "f_signal", Present)
          /\ Cardinality(In(Coming)') = Cardinality(In(Coming)) + Diff(pc[p], "f_signal", Coming)
      BY <1>0, <2>1, Move
    <2>3. /\ Cardinality(In(Working)') = Cardinality(In(Working)) + 0
          /\ Cardinality(In(Present)') = Cardinality(In(Present)) + 0
          /\ Cardinality(In(Coming)') = Cardinality(In(Coming)) + 1
      BY <1>0, <1>1, <2>2
    <2>4. /\ Cardinality(In(Working)') = Cardinality(In(Working))
          /\ Cardinality(In(Coming)') >= Cardinality(In(Coming)) + 1
          /\ n_cprocs' = Cardinality(In(Present)')
      BY <1>2, <2>1, <2>3, InSizes
    <2>5. \A q \in Cprocs : SameRole(pc[q], pc'[q]) BY <1>0, <2>2, RoleMoves
    <2>6. \A q \in Cprocs : pc'[q] # "exited" BY <2>2 DEF Alive
    <2>7. \A q \in Cprocs : pc[q] \in {"needed", "x_wait"} => pc'[q] = pc[q] BY <1>0, <2>2
    <2> QED BY <2>2, <2>4, <2>5, <2>6, <2>7
  <1>4. CASE NeedCproc
    <2>1. PICK r \in Cprocs : pc[r] = "none" /\ pc' = [pc EXCEPT ![p] = "f_signal", ![r] = "lock"]
      BY <1>4 DEF Fork
    <2>2. n_cprocs' = n_cprocs + 1 BY <1>4 DEF Fork
    <2>3. /\ r # p /\ pc' \in [Cprocs -> Pcs] /\ pc'[p] = "f_signal" /\ pc'[r] = "lock"
          /\ \A q \in Cprocs \ {p, r} : pc'[q] = pc[q]
      BY <1>0, <2>1
    <2>4. /\ Cardinality(In(Working)') = Cardinality(In(Working)) + 0 + 0
          /\ Cardinality(In(Present)') = Cardinality(In(Present)) + 0 + 1
          /\ Cardinality(In(Coming)') = Cardinality(In(Coming)) + 1 + 1
      BY <1>0, <1>1, <2>1, <2>3, MoveTwo
    <2>5. /\ Cardinality(In(Working)') = Cardinality(In(Working))
          /\ Cardinality(In(Coming)') >= Cardinality(In(Coming)) + 1
          /\ n_cprocs' = Cardinality(In(Present)')
      BY <1>2, <2>2, <2>4, InSizes
    <2>6. \A q \in Cprocs : SameRole(pc[q], pc'[q]) BY <1>0, <2>1, <2>3, RoleMoves
    <2>7. \A q \in Cprocs : pc'[q] # "exited" BY <2>3 DEF Alive
    <2>8. \A q \in Cprocs : pc[q] \in {"needed", "x_wait"} => pc'[q] = pc[q] BY <1>0, <2>1, <2>3
    <2> QED BY <2>3, <2>5, <2>6, <2>7, <2>8
  <1> QED BY <1>3, <1>4

LEMMA ForkHolds ==
    ASSUME IInv, Alive, NEW p \in Cprocs, NEW t \in Slots, Fork(p, t)
    PROVE  IInv'
  <1> USE DEF IInv
  <1> DEFINE n == forks + 1
  <1>0. /\ forks < MaxForks /\ Allocate(t)
        /\ tstate' = [tstate EXCEPT ![t] = {}] /\ done' = [done EXCEPT ![t] = <<>>]
        /\ result' = [result EXCEPT ![t] = None] /\ inv' = [inv EXCEPT ![t] = n]
        /\ cthreads' = Append(cthreads, t) /\ n_cthreads' = n_cthreads + 1
        /\ forks' = n /\ handle' = [handle EXCEPT ![n] = t]
        /\ UNCHANGED <<needed, idle, max_cprocs, cur, arg, want, joined, unixforks>>
    BY DEF Fork
  <1>1. /\ t \notin Range(cthreads) /\ \A q \in In(Owning) : cur[q] # t
        /\ \A i : ~Claimed(i, t)
        /\ free_cthreads' \in Seq(Slots) /\ IsInjective(free_cthreads')
        /\ Range(free_cthreads') \subseteq Range(free_cthreads) /\ t \notin Range(free_cthreads')
        /\ heap' = heap \cup {t} /\ Cardinality(heap') <= forks + 2
    BY <1>0, Allocated
  <1>2. /\ pc' \in [Cprocs -> Pcs] /\ \A q \in Cprocs : SameRole(pc[q], pc'[q])
        /\ \A q \in Cprocs : pc[q] \in {"needed", "x_wait"} => pc'[q] = pc[q]
        /\ \A q \in Cprocs : pc'[q] # "exited"
        /\ Cardinality(In(Working)') = Cardinality(In(Working))
        /\ Cardinality(In(Coming)') >= Cardinality(In(Coming)) + 1
        /\ n_cprocs' = Cardinality(In(Present)')
    BY ForkMoves
  <1>3. /\ cthreads' \in Seq(Slots) /\ Len(cthreads') = Len(cthreads) + 1
        /\ Range(cthreads') = Range(cthreads) \cup {t} /\ IsInjective(cthreads')
    BY <1>0, <1>1, CountTypes, AppendSeq DEF PlaceInv
  <1>4. /\ n \in Nat /\ n \in Invocations /\ n \in 0..MaxForks /\ 1..n = (1..forks) \cup {n}
        /\ n \notin 1..forks /\ n # None /\ 1..forks \subseteq Invocations
    <2>1. forks \in 0..MaxForks /\ MaxForks \in Nat BY Sizes DEF TypeOK
    <2>2. /\ n \in Nat /\ n \in 0..MaxForks /\ n \notin 1..forks /\ 1..n = (1..forks) \cup {n}
          /\ 1..forks \subseteq 0..MaxForks
      BY <1>0, <2>1
    <2> QED BY <2>2, ConstAssumption DEF Invocations
  <1>5. n_cthreads' \in 1..(MaxForks + 1) /\ n_cthreads' <= n + 1
    <2>1. /\ n_cthreads \in Nat /\ forks \in Nat /\ MaxForks \in Nat /\ n_cthreads >= 1
          /\ n_cthreads <= forks + 1 /\ n_cthreads' = n_cthreads + 1 /\ forks < MaxForks /\ n = forks + 1
      BY <1>0, CountTypes DEF TypeOK, CountInv
    <2> QED BY <2>1
  <1> HIDE DEF n
  <1>6. /\ tstate' \in [Slots -> SUBSET Flags] /\ tstate'[t] = {}
        /\ \A u \in Slots \ {t} : tstate'[u] = tstate[u]
    BY <1>0 DEF TypeOK
  <1>7. /\ done' \in [Slots -> Seq(Cprocs)] /\ done'[t] = <<>> /\ \A u \in Slots \ {t} : done'[u] = done[u]
    <2>1. done \in [Slots -> Seq(Cprocs)] /\ <<>> \in Seq(Cprocs) BY EmptySeq DEF TypeOK
    <2> QED BY <1>0, <2>1
  <1>8. /\ result' \in [Slots -> Invocations \cup {None}] /\ \A u \in Slots \ {t} : result'[u] = result[u]
        /\ inv' \in [Slots -> Invocations \cup {None}] /\ inv'[t] = n
        /\ \A u \in Slots \ {t} : inv'[u] = inv[u]
    BY <1>0, <1>4 DEF TypeOK
  <1>9. /\ handle' \in [Invocations -> Slots \cup {None}] /\ handle'[n] = t
        /\ \A i \in Invocations \ {n} : handle'[i] = handle[i]
    BY <1>0, <1>4 DEF TypeOK
  <1>10. TypeOK'
    <2>1. n_cprocs' \in 1..Cardinality(Cprocs)
      <3>1. In(Present)' \subseteq Cprocs /\ p \in In(Present)'
        <4>1. pc[p] = "run" BY DEF Fork
        <4>2. SameRole("run", pc'[p]) BY <1>2, <4>1
        <4>3. pc'[p] \in Owning BY <4>2 DEF SameRole, Roles, Owning
        <4>4. pc'[p] \in Present BY <4>3 DEF Owning, Present, Pcs
        <4> QED BY <4>4 DEF In, PlacedIn
      <3>2. /\ IsFiniteSet(In(Present)') /\ Cardinality(In(Present)') \in Nat
            /\ Cardinality(In(Present)') <= Cardinality(Cprocs)
        BY <3>1, ConstAssumption, FS_Subset, FS_CardinalityType
      <3>3. Cardinality(In(Present)') # 0 BY <3>1, <3>2, FS_EmptySet
      <3> QED BY <1>2, <3>2, <3>3, Sizes
    <2>2. heap' \subseteq Slots BY <1>1 DEF TypeOK
    <2>3. /\ needed' \in Seq(Cprocs) /\ idle' \in Seq(Cprocs) /\ max_cprocs' \in Limits \cup {0}
          /\ cur' \in [Cprocs -> Slots \cup {None}] /\ arg' \in [Cprocs -> Slots \cup {None}]
          /\ want' \in [Cprocs -> Invocations \cup {None}] /\ joined' \in [Invocations -> Invocations \cup {None}]
          /\ unixforks' \in 0..MaxUnixForks
      BY <1>0 DEF TypeOK
    <2> QED BY <1>0, <1>1, <1>2, <1>3, <1>4, <1>5, <1>6, <1>7, <1>8, <1>9, <2>1, <2>2, <2>3 DEF TypeOK
  <1>11. CountExact' /\ CountInv'
    <2>1. CountForm BY CountTypes, CountForms
    <2>2. n_cthreads' = Len(cthreads') + Cardinality(In(Working)')
      BY <1>0, <1>2, <1>3, <2>1, CountTypes, InSizes DEF CountForm
    <2>3. needed' # <<>> => Len(cthreads') <= Cardinality(In(Coming)')
      <3>1. Cardinality(In(Coming)') \in Nat
        <4>1. In(Coming)' \subseteq Cprocs BY DEF In, PlacedIn
        <4> QED BY <4>1, ConstAssumption, FS_Subset, FS_CardinalityType
      <3>2. needed # <<>> => Len(cthreads) <= Cardinality(In(Coming)) BY <2>1 DEF CountForm
      <3> QED BY <1>0, <1>2, <1>3, <3>1, <3>2, CountTypes, InSizes
    <2>4. Cardinality(heap') <= n + 1 BY <1>1, CountTypes DEF n
    <2>5. CountForm' BY <1>0, <1>2, <1>5, <2>2, <2>3, <2>4 DEF CountForm
    <2> QED BY <1>2, <2>5, CountForms
  <1>12. ExitLast' BY <1>2, NobodyExits
  <1>13. WaitInv'
    <2>1. Range(needed) \subseteq Cprocs /\ Range(idle) \subseteq Cprocs BY DEF TypeOK, Range
    <2> QED BY <1>0, <1>2, <2>1 DEF WaitInv
  <1>14. /\ In(Owning)' = In(Owning) /\ In(Asleep)' = In(Asleep) /\ In(Claiming)' = In(Claiming)
         /\ In({"j_free", "d_free"})' = In({"j_free", "d_free"}) /\ In({"j_wait"})' = In({"j_wait"})
         /\ In({"j_free"})' = In({"j_free"})
         /\ In({"r_free"})' = In({"r_free"}) /\ In({"returned"})' = In({"returned"})
         /\ In(Late \cup {"returned", "r_free"})' = In(Late \cup {"returned", "r_free"})
    <2>1. \A S \in Roles : In(S)' = In(S) BY <1>2, SameRoles
    <2> QED BY <2>1 DEF Roles
  <1>15. PlaceInv'
    <2>1. \A q \in Cprocs : pc'[q] \in Asleep <=> pc[q] \in Asleep BY <1>14 DEF In, PlacedIn
    <2>2. \A q \in Cprocs : IF pc'[q] \in Asleep THEN cur'[q] = None ELSE cur'[q] \in Slots
      BY <1>0, <2>1 DEF PlaceInv
    <2>3. /\ Range(cthreads') \cap Range(free_cthreads') = {}
          /\ Range(cthreads') \cup Range(free_cthreads') \subseteq heap'
      BY <1>1, <1>3 DEF PlaceInv
    <2>4. \A q \in In(Owning) : /\ cur[q] \in heap' /\ cur[q] \notin Range(cthreads')
                                /\ cur[q] \notin Range(free_cthreads')
      BY <1>1, <1>3 DEF PlaceInv
    <2>5. \A q, r \in In(Owning) : cur[q] = cur[r] => q = r BY DEF PlaceInv
    <2> QED BY <1>0, <1>1, <1>3, <1>14, <2>2, <2>3, <2>4, <2>5 DEF PlaceInv
  <1>16. \A q \in In(Owning) : cur[q] \in Slots \ {t} BY <1>1, OwnerAlone
  <1>17. FlagInv'
    <2>1. In({"r_free"}) \subseteq In(Owning) /\ In({"returned"}) \subseteq In(Owning)
      BY DEF In, PlacedIn, Owning
    <2>2. Range(cthreads) \subseteq Slots \ {t}
      <3>1. Range(cthreads) \subseteq heap /\ heap \subseteq Slots BY DEF PlaceInv, TypeOK
      <3> QED BY <1>1, <3>1
    <2>3. \A u \in Range(cthreads') : tstate'[u] \cap {"T_RETURNED", "T_MAIN"} = {}
      BY <1>3, <1>6, <2>2 DEF FlagInv
    <2>4. \A q \in In(Owning) : "T_RETURNED" \notin tstate'[cur[q]] BY <1>6, <1>16 DEF FlagInv
    <2>5. \A q \in In(Late \cup {"returned", "r_free"}) : "T_MAIN" \notin tstate'[cur[q]]
      <3>1. \A q \in In(Late \cup {"returned", "r_free"}) : cur[q] \in Slots
        <4>1. \A q \in In(Late \cup {"returned", "r_free"}) : q \in Cprocs /\ pc[q] \notin Asleep
          BY DEF In, PlacedIn, Late, Asleep
        <4> QED BY <4>1 DEF PlaceInv
      <3> QED BY <1>6, <3>1 DEF FlagInv
    <2>6. /\ \A q \in In({"r_free"}) : "T_DETACHED" \in tstate'[cur[q]]
          /\ \A q \in In({"returned"}) : result'[cur[q]] = inv'[cur[q]]
      BY <1>6, <1>8, <1>16, <2>1 DEF FlagInv
    <2>7. \A u \in Slots : "T_RETURNED" \in tstate'[u] => result'[u] = inv'[u] BY <1>6, <1>8 DEF FlagInv
    <2> QED BY <1>0, <1>14, <2>3, <2>4, <2>5, <2>6, <2>7 DEF FlagInv
  <1>18. MainInv'
    <2>1. PICK m \in In(Owning) : "T_MAIN" \in tstate[cur[m]] BY DEF MainInv
    <2> QED BY <1>0, <1>6, <1>14, <1>16, <2>1 DEF MainInv
  <1>19. ClaimInv'
    <2>1. \A i, u : Claimed(i, u) => Claimed(i, u)' /\ i # n /\ u \in Slots \ {t}
      <3>1. heap \subseteq Slots BY DEF TypeOK
      <3>2. \A i, u : Claimed(i, u) => u \in Slots \ {t} BY <1>1, <3>1 DEF Claimed
      <3>3. \A i, u : Claimed(i, u) => i \in 1..n /\ i # n BY <1>4 DEF Claimed
      <3>4. \A i, u : Claimed(i, u) => Claimed(i, u)'
        BY <1>0, <1>1, <1>6, <1>8, <3>2, <3>3 DEF Claimed
      <3> QED BY <3>2, <3>3, <3>4
    <2>3. \A i \in Invocations : handle'[i] # None => (i = n /\ handle'[i] = t) \/ Claimed(i, handle'[i])
      BY <1>9 DEF ClaimInv
    <2>4. \A i \in Invocations : \A u : handle'[i] = u /\ u # None => Claimed(i, u)'
      <3> SUFFICES ASSUME NEW i \in Invocations, NEW u, handle'[i] = u, u # None PROVE Claimed(i, u)' OBVIOUS
      <3>1. (i = n /\ u = t) \/ Claimed(i, u) BY <2>3
      <3>2. CASE i = n /\ u = t
        <4>1. /\ n \in 1..forks' /\ t \in heap' /\ t \notin Range(free_cthreads')
              /\ inv'[t] = n /\ tstate'[t] \cap {"T_DETACHED", "T_MAIN"} = {}
          BY <1>0, <1>1, <1>4, <1>6, <1>8
        <4> QED BY <3>2, <4>1 DEF Claimed
      <3>3. CASE Claimed(i, u) BY <2>1, <3>3
      <3> QED BY <3>1, <3>2, <3>3
    <2>5. \A q \in In(Claiming) : /\ Claimed(want[q], arg[q]) /\ want[q] \in Invocations \ {n}
                                  /\ arg[q] \in Slots \ {t} /\ handle'[want[q]] = None
      <3>1. \A q \in In(Claiming) : /\ Claimed(want[q], arg[q]) /\ want[q] \in 1..forks
                                    /\ handle[want[q]] = None
        BY DEF ClaimInv, Claimed
      <3> QED BY <1>4, <1>9, <2>1, <3>1
    <2>6. \A q \in In(Claiming) : \A i, u : want[q] = i /\ arg[q] = u => Claimed(i, u)' BY <2>1, <2>5
    <2>7. \A q \in In({"j_free", "d_free"}) : "T_RETURNED" \in tstate'[arg[q]]
      <3>1. In({"j_free", "d_free"}) \subseteq In(Claiming) BY DEF In, PlacedIn, Claiming
      <3> QED BY <1>6, <2>5, <3>1 DEF ClaimInv
    <2>8. \A i \in Invocations : handle'[i] # None => Claimed(i, handle[i])' BY <2>4 DEF Claimed
    <2>9. \A q \in In(Claiming) : Claimed(want[q], arg[q])' BY <1>0, <2>6 DEF Claimed
    <2>10. \A q, r \in In(Claiming) : want[q] = want[r] => q = r BY DEF ClaimInv
    <2> QED BY <1>0, <1>14, <2>5, <2>7, <2>8, <2>9, <2>10 DEF ClaimInv
  <1>20. DoneInv' BY <1>0, <1>3, <1>6, <1>7, <1>14 DEF DoneInv
  <1>21. JoinGetsResult' BY <1>0, <1>14, JoinedSame
  <1> QED BY <1>10, <1>11, <1>12, <1>13, <1>15, <1>17, <1>18, <1>19, <1>20, <1>21

LEMMA NextHolds == IInv /\ [Next]_vars => IInv'
  <1> SUFFICES ASSUME IInv, [Next]_vars PROVE IInv' OBVIOUS
  <1>1. CASE Next
    <2>1. Alive BY <1>1 DEF Next
    <2>2. PICK p \in Cprocs : LibraryStep(p) \/ ClientStep(p) BY <1>1 DEF Next
    <2>3. CASE BodyLoop(p) \/ ReturnCount(p) BY <2>1, <2>3, TurnHolds
    <2>4. CASE Returned(p) BY <2>1, <2>4, ReturnedHolds
    <2>5. CASE ReturnSignal(p) BY <2>1, <2>5, ReturnSignalHolds
    <2>6. CASE Free(p, "r_free", cur[p], "r_count") BY <2>1, <2>6, ReturnFreeHolds
    <2>7. CASE Free(p, "d_free", arg[p], "run") \/ Free(p, "j_free", arg[p], "run")
      BY <2>1, <2>7, ClaimFreeHolds
    <2>8. CASE ForkSignal(p) BY <2>1, <2>8, ForkSignalHolds
    <2>9. CASE JoinTest(p) BY <2>1, <2>9, JoinTestHolds
    <2>10. CASE ExitMain(p) BY <2>1, <2>10, ExitMainHolds
    <2>11. CASE \E t \in Slots : Fork(p, t) BY <2>1, <2>11, ForkHolds
    <2>12. CASE \E i \in Invocations : Join(p, i) \/ Detach(p, i) BY <2>1, <2>12, JoinHolds, DetachHolds
    <2>13. CASE \E n \in Limits : SetLimit(p, n) BY <2>13, SetLimitHolds
    <2>14. CASE Finish(p) BY <2>1, <2>14, FinishHolds
    <2>15. CASE ForkChild(p) BY <2>15, ForkChildHolds
    <2> QED
      BY <2>2, <2>3, <2>4, <2>5, <2>6, <2>7, <2>8, <2>9, <2>10, <2>11, <2>12, <2>13, <2>14, <2>15
      DEF LibraryStep, BodyStep, ClientStep
  <1>2. CASE UNCHANGED vars
    <2>1. UNCHANGED <<cthreads, needed, idle, n_cprocs, n_cthreads, max_cprocs, free_cthreads, heap, tstate, done,
                      result, inv, pc, cur, arg, want, handle, joined, forks, unixforks>>
      BY <1>2 DEF vars
    <2>2. TypeOK' /\ CountExact' /\ ExitLast' /\ JoinGetsResult' /\ WaitInv'
      BY <2>1 DEF IInv, TypeOK, CountExact, ExitLast, JoinGetsResult, WaitInv
    <2>3. \A S : In(S)' = In(S) BY <2>1 DEF In
    <2>4. CountInv' BY <2>1, <2>3 DEF IInv, CountInv
    <2>5. PlaceInv' /\ FlagInv' /\ MainInv' /\ ClaimInv' /\ DoneInv'
      BY <2>1, <2>3, PlaceSame, FlagSame, MainSame, ClaimSame, DoneSame DEF IInv
    <2> QED BY <2>2, <2>4, <2>5 DEF IInv
  <1> QED BY <1>1, <1>2

-----------------------------------------------------------------------------
(* The theorems.                                                           *)

\* The structure that holds the proofs together: every state the package
\* reaches satisfies the inductive invariant.
THEOREM Invariance == Spec => []IInv
  <1>1. Init => IInv BY InitHolds
  <1>2. IInv /\ [Next]_vars => IInv' BY NextHolds
  <1> QED BY <1>1, <1>2, PTL DEF Spec

\* cthread_free puts a structure on the free list once, when no queue, no cproc
\* and no handle needs it; n_cthreads is exact; a queued thread is not stranded by
\* a signal given too early or too late; and the main thread exits last.
THEOREM BookkeepingHolds == Spec => []Bookkeeping
  <1>1. IInv => Bookkeeping
    <2> SUFFICES ASSUME IInv PROVE Bookkeeping OBVIOUS
    <2> USE DEF IInv
    <2>1. FreeListSound
      <3>1. IsInjective(free_cthreads) BY DEF PlaceInv
      <3>2. ASSUME NEW t \in Range(free_cthreads), NEW i \in Invocations PROVE handle[i] # t
        <4>1. ~Claimed(i, t) BY <3>2 DEF Claimed
        <4>2. t # None
          <5>1. Range(free_cthreads) \subseteq heap /\ heap \subseteq Slots BY DEF PlaceInv, TypeOK
          <5> QED BY <3>2, <5>1, ConstAssumption
        <4> QED BY <4>1, <4>2 DEF ClaimInv
      <3>3. ASSUME NEW t \in Range(free_cthreads), NEW p \in Cprocs, cur[p] = t
            PROVE  pc[p] \in {"r_signal", "r_count"}
        <4>1. pc[p] \notin Owning BY <3>3 DEF PlaceInv, In, PlacedIn
        <4>2. pc[p] \notin Asleep
          <5>1. Range(free_cthreads) \subseteq heap /\ heap \subseteq Slots BY DEF PlaceInv, TypeOK
          <5> QED BY <3>3, <5>1, ConstAssumption DEF PlaceInv
        <4> QED BY <4>1, <4>2, Counts, CountTypes DEF Late
      <3>4. ASSUME NEW t \in Range(free_cthreads), NEW p \in Cprocs, arg[p] = t
            PROVE  pc[p] \notin {"join", "j_wait", "j_woken", "j_free", "d_free"}
        <4>1. ~Claimed(want[p], arg[p]) BY <3>4 DEF Claimed
        <4> QED BY <4>1 DEF ClaimInv, In, PlacedIn, Claiming
      <3>5. \A t \in Range(free_cthreads) : t \notin Range(cthreads) BY DEF PlaceInv
      <3> QED BY <3>1, <3>2, <3>3, <3>4, <3>5 DEF FreeListSound
    <2>2. NoStrandedWork
      <3> SUFFICES ASSUME cthreads # <<>>, needed # <<>> PROVE \E p \in Cprocs : pc[p] \in Coming
        BY DEF NoStrandedWork, Coming
      <3>1. Len(cthreads) <= Cardinality(In(Coming)) BY DEF CountInv
      <3>2. Len(cthreads) # 0 BY CountTypes
      <3>3. In(Coming) # {}
        <4>1. Cardinality(In(Coming)) # 0 BY <3>1, <3>2, CountTypes, InSizes
        <4> QED BY <4>1, FS_EmptySet
      <3> QED BY <3>3 DEF In, PlacedIn
    <2> QED BY <2>1, <2>2 DEF Bookkeeping
  <1> QED BY <1>1, Invariance, PTL

\* cthread_join returns the result of the thread it was called for, whichever
\* earlier user of the same structure woke the joiner.
THEOREM JoinsGetResults == Spec => []JoinGetsResult
  <1>1. IInv => JoinGetsResult BY DEF IInv
  <1> QED BY <1>1, Invariance, PTL
=============================================================================
