-------------------------- MODULE TaskGroupsProofs --------------------------
(***************************************************************************)
(* Proofs about module TaskGroups, for any number of tasks, names, entries *)
(* and groups: entries, objects and references agree, no sleeper is lost,  *)
(* a member finds its group, and an abandoned group disappears.            *)
(***************************************************************************)
EXTENDS TaskGroups, FiniteSetTheorems, TLAPS

-----------------------------------------------------------------------------
(* The inductive invariant.                                                *)

\* What a thread has at each place.
PlaceInv ==
    /\ \A t \in Threads :
          /\ pc[t] \in {"install", "have"} => my[t].obj \in Objs
          /\ pc[t] \notin {"install", "broadcast", "have"} => my[t].obj = None
          /\ pc[t] = "install" => my[t].tag \in Tags
          /\ pc[t] \in {"install", "broadcast", "have", "lookup", "asleep", "retry"} => held[t] = None
          /\ pc[t] \in {"lookup", "asleep", "retry"} => my[t].name \in Names
          /\ pc[t] \in {"entering", "tidy", "unlink", "unlinked"} => tgrp[t] \in Objs
          /\ pc[t] \in {"unlink agent", "unlinked agent"} => held[t] \in Objs
    /\ \A t \in sleepers : pc[t] = "asleep"

\* Thread t has shut o down and is on the way to drop its references.
Closes(t, o) == \/ pc[t] \in {"unlink", "unlinked"} /\ tgrp[t] = o
                \/ pc[t] \in {"unlink agent", "unlinked agent"} /\ held[t] = o

\* It has taken o out of the directory.
Parted(o) == \E t \in Threads : Closes(t, o) /\ pc[t] \in {"unlinked", "unlinked agent"}

\* The fields of an entry go together, and no two listed ones share a name.
EntryOK(x) == /\ x.listed <=> x.type \in {"RESERVED", "DIRECTORY"}
              /\ x.listed => x.name \in Names
              /\ IF x.type = "DIRECTORY" THEN x.obj \in Objs ELSE x.obj = None
EntryInv ==
    /\ \A e \in Tags : EntryOK(entry[e])
    /\ \A e, f \in Tags : entry[e].listed /\ entry[f].listed /\ entry[e].name = entry[f].name => e = f

\* A listed object knows its entry; the entry of an object is its own until it
\* has been taken out, and is invalid only if the object is shut down; links
\* counts the link of an object in use.
ListedInv == \A e \in Tags, o \in Objs :
    entry[e].type = "DIRECTORY" /\ entry[e].obj = o =>
        obj[o].parent = e /\ obj[o].temporary /\ ~Parted(o)
ParentInv == \A e \in Tags, o \in Objs :
    obj[o].parent = e /\ ~Parted(o) => \/ entry[e].type = "DIRECTORY" /\ entry[e].obj = o
                                       \/ entry[e].type = "INVALID" /\ ~obj[o].active
ParentUnique == \A o, p \in Objs :
    obj[o].parent # None /\ obj[o].parent = obj[p].parent => o = p \/ Parted(o) \/ Parted(p)
LinksAt(o) == obj[o].links = IF obj[o].active /\ obj[o].parent # None THEN 1 ELSE 0

LinkInv == ListedInv /\ ParentInv /\ ParentUnique /\ \A o \in Objs : LinksAt(o)

\* A freed object is as new; one that is not installed is with the thread that
\* made it; any other is temporary until it is shut down.
NewObj == [FreeObj EXCEPT !.refs = 1]
LifeAt(o) ==
    /\ obj[o].refs = 0 => obj[o] = FreeObj
    /\ \A t \in Threads : pc[t] = "install" /\ my[t].obj = o =>
          /\ obj[o] = NewObj
          /\ \A u \in Threads : held[u] # o /\ tgrp[u] # o /\ (my[u].obj = o => u = t)
    /\ \A t \in Threads : held[t] = o \/ tgrp[t] = o \/ (my[t].obj = o /\ pc[t] # "install") =>
                            (obj[o].active => obj[o].temporary)

\* The agents registered; whoever shuts the object down has unregistered its own.
Agents(o) == {t \in Threads : held[t] = o /\ pc[t] \notin {"unlink agent", "unlinked agent"}}
AgentAt(o) == obj[o].agents = Cardinality(Agents(o))

\* A member's task is in the group, which is active unless it was entered late.
MemberAt(o) ==
    \A t \in Threads :
        /\ obj[o].members[t] # "OUT" <=> tgrp[t] = o /\ pc[t] \notin {"tidy", "unlink", "unlinked"}
        /\ obj[o].members[t] # "OUT" /\ t \notin late => obj[o].active

\* A used object is kept by an agent, a member or one that is just leaving; one
\* that is shut down is closed by one thread, or by a lookup that is stuck.
CloseAt(o) ==
    /\ obj[o].used /\ obj[o].active => \/ obj[o].agents > 0 \/ ~Empty(o)
                                       \/ \E t \in Threads : pc[t] = "tidy" /\ tgrp[t] = o
    /\ ~obj[o].active /\ obj[o].temporary => lock # None \/ \E t \in Threads : Closes(t, o)
    /\ \A t \in Threads : Closes(t, o) => /\ ~obj[o].active /\ obj[o].temporary /\ obj[o].parent # None
                                          /\ \A u \in Threads : Closes(u, o) => u = t

ObjAt(o) == LifeAt(o) /\ AgentAt(o) /\ MemberAt(o) /\ CloseAt(o)

CountInv == entry_count = Cardinality({e \in Tags : entry[e].listed})

IInv == /\ TypeOK /\ RefExact /\ NoLostSleeper /\ PlaceInv /\ EntryInv /\ LinkInv
        /\ CountInv /\ \A o \in Objs : ObjAt(o)

-----------------------------------------------------------------------------
(* Counting.                                                               *)

\* Two sets that differ at most in x differ at most by one in size.
LEMMA OneMoves ==
    ASSUME NEW S, IsFiniteSet(S), NEW A \in SUBSET S, NEW B \in SUBSET S, NEW x, A \ {x} = B \ {x}
    PROVE  /\ Cardinality(A) \in Nat /\ Cardinality(B) \in Nat
           /\ (x \in A <=> x \in B) => Cardinality(B) = Cardinality(A)
           /\ x \in B /\ x \notin A => Cardinality(B) = Cardinality(A) + 1
           /\ x \in A /\ x \notin B => Cardinality(B) = Cardinality(A) - 1
  <1>1. IsFiniteSet(A) /\ IsFiniteSet(B) BY FS_Subset
  <1>2. Cardinality(A) \in Nat /\ Cardinality(B) \in Nat BY <1>1, FS_CardinalityType
  <1>3. ASSUME x \in A <=> x \in B PROVE Cardinality(B) = Cardinality(A)
    <2>1. A = B BY <1>3
    <2> QED BY <2>1
  <1>4. ASSUME x \in B, x \notin A PROVE Cardinality(B) = Cardinality(A) + 1
    <2>1. B = A \cup {x} BY <1>4
    <2> QED BY <1>1, <1>4, <2>1, FS_AddElement
  <1>5. ASSUME x \in A, x \notin B PROVE Cardinality(B) = Cardinality(A) - 1
    <2>1. A = B \cup {x} BY <1>5
    <2> QED BY <1>1, <1>2, <1>5, <2>1, FS_AddElement
  <1> QED BY <1>2, <1>3, <1>4, <1>5

\* A set with x in it has a member, and no other if it has only one.
LEMMA OnlyOne ==
    ASSUME NEW S, IsFiniteSet(S), NEW A \in SUBSET S, NEW x
    PROVE  /\ Cardinality(A) \in Nat
           /\ x \in A => Cardinality(A) >= 1
           /\ \A y \in A : y # x =>
                 /\ Cardinality(A) >= 1
                 /\ x \in A => Cardinality(A) >= 2
  <1>1. IsFiniteSet(A) /\ Cardinality(A) \in Nat BY FS_Subset, FS_CardinalityType
  <1>2. ASSUME NEW z \in A PROVE Cardinality(A) >= 1 BY <1>1, <1>2, FS_EmptySet
  <1>3. ASSUME NEW y \in A, x \in A, y # x PROVE Cardinality(A) >= 2
    <2>1. IsFiniteSet(A \ {x}) /\ Cardinality(A \ {x}) = Cardinality(A) - 1
      BY <1>1, <1>3, FS_RemoveElement
    <2>2. y \in A \ {x} BY <1>3
    <2>3. Cardinality(A \ {x}) # 0 /\ Cardinality(A \ {x}) \in Nat
      BY <2>1, <2>2, FS_EmptySet, FS_CardinalityType
    <2> QED BY <1>1, <2>1, <2>3
  <1> QED BY <1>1, <1>2, <1>3

\* How often thread t has o.
One(b) == IF b THEN 1 ELSE 0
Has(t, o) == One(held[t] = o) + One(tgrp[t] = o) + One(my[t].obj = o)

\* Only thread t changed what it has.
Alone(t) == \A u \in Threads \ {t} : held'[u] = held[u] /\ tgrp'[u] = tgrp[u] /\ my'[u].obj = my[u].obj

\* The holders of an object, when only thread t moves.
LEMMA HoldersMove ==
    ASSUME NEW t \in Threads, NEW o \in Objs, Alone(t)
    PROVE  /\ Holders(o) \in Nat /\ Holders(o)' \in Nat
           /\ Holders(o)' + Has(t, o) = Holders(o) + Has(t, o)'
  <1> DEFINE A(f) == {u \in Threads : f[u] = o}
             M(f) == {u \in Threads : f[u].obj = o}
             h == held'
             g == tgrp'
             m == my'
  <1>1. \A u \in Threads \ {t} : h[u] = held[u] /\ g[u] = tgrp[u] /\ m[u].obj = my[u].obj BY DEF Alone
  <1>2. Holders(o) = Cardinality(A(held)) + Cardinality(A(tgrp)) + Cardinality(M(my)) BY DEF Holders
  <1>3. Holders(o)' = Cardinality(A(h)) + Cardinality(A(g)) + Cardinality(M(m)) BY DEF Holders
  <1>4. /\ Has(t, o) = One(held[t] = o) + One(tgrp[t] = o) + One(my[t].obj = o)
        /\ Has(t, o)' = One(h[t] = o) + One(g[t] = o) + One(m[t].obj = o) BY DEF Has, One
  <1> HIDE DEF h, g, m
  <1>5. IsFiniteSet(Threads) BY DirectoryAssumption
  <1>6. /\ Cardinality(A(held)) \in Nat /\ Cardinality(A(h)) \in Nat
        /\ Cardinality(A(h)) + One(held[t] = o) = Cardinality(A(held)) + One(h[t] = o)
    <2>1. A(held) \ {t} = A(h) \ {t} BY <1>1
    <2> QED BY <1>5, <2>1, OneMoves DEF One
  <1>7. /\ Cardinality(A(tgrp)) \in Nat /\ Cardinality(A(g)) \in Nat
        /\ Cardinality(A(g)) + One(tgrp[t] = o) = Cardinality(A(tgrp)) + One(g[t] = o)
    <2>1. A(tgrp) \ {t} = A(g) \ {t} BY <1>1
    <2> QED BY <1>5, <2>1, OneMoves DEF One
  <1>8. /\ Cardinality(M(my)) \in Nat /\ Cardinality(M(m)) \in Nat
        /\ Cardinality(M(m)) + One(my[t].obj = o) = Cardinality(M(my)) + One(m[t].obj = o)
    <2>1. M(my) \ {t} = M(m) \ {t} BY <1>1
    <2> QED BY <1>5, <2>1, OneMoves DEF One
  <1> HIDE DEF A, M
  <1>9. \A b : One(b) \in Nat BY DEF One
  <1> QED BY <1>2, <1>3, <1>4, <1>6, <1>7, <1>8, <1>9

\* The holders are at least the one that is looked at, and another if there is one.
LEMMA HoldersLeast ==
    ASSUME NEW t \in Threads, NEW o \in Objs
    PROVE  /\ Holders(o) \in Nat /\ Has(t, o) \in Nat /\ Holders(o) >= Has(t, o)
           /\ \A u \in Threads : u # t /\ (held[u] = o \/ tgrp[u] = o \/ my[u].obj = o) =>
                 Holders(o) > Has(t, o)
  <1> DEFINE A(f) == {u \in Threads : f[u] = o}
             M == {u \in Threads : my[u].obj = o}
  <1>1. IsFiniteSet(Threads) BY DirectoryAssumption
  <1>2. ASSUME NEW f
        PROVE  /\ Cardinality(A(f)) \in Nat /\ Cardinality(A(f)) >= One(f[t] = o)
               /\ \A u \in Threads : u # t /\ f[u] = o => Cardinality(A(f)) > One(f[t] = o)
    BY <1>1, OnlyOne DEF One
  <1>3. /\ Cardinality(M) \in Nat /\ Cardinality(M) >= One(my[t].obj = o)
        /\ \A u \in Threads : u # t /\ my[u].obj = o => Cardinality(M) > One(my[t].obj = o)
    BY <1>1, OnlyOne DEF One
  <1>4. Holders(o) = Cardinality(A(held)) + Cardinality(A(tgrp)) + Cardinality(M) BY DEF Holders
  <1>5. \A b : One(b) \in Nat BY DEF One
  <1>6. Has(t, o) = One(held[t] = o) + One(tgrp[t] = o) + One(my[t].obj = o) BY DEF Has
  <1> HIDE DEF A, M
  <1> QED BY <1>2, <1>3, <1>4, <1>5, <1>6

\* What an object is, and what a thread knows.
ObjType == [refs : Nat, active : BOOLEAN, agents : Nat, links : Nat,
            parent : Tags \cup {None}, temporary : BOOLEAN,
            members : [Threads -> {"OUT", "RESERVED", "IN"}], stuck : BOOLEAN,
            leaks : Nat, used : BOOLEAN]

\* The fields of a freed object.
LEMMA FreeFields ==
    /\ FreeObj \in ObjType /\ FreeObj.refs = 0 /\ FreeObj.active /\ FreeObj.agents = 0
    /\ FreeObj.links = 0 /\ FreeObj.parent = None /\ ~FreeObj.temporary /\ FreeObj.leaks = 0
    /\ ~FreeObj.used /\ \A t \in Threads : FreeObj.members[t] = "OUT"
  BY DEF FreeObj, ObjType

\* The fields of an object just made.
LEMMA NewFields ==
    /\ NewObj \in ObjType /\ NewObj.refs = 1 /\ NewObj.active /\ NewObj.agents = 0
    /\ NewObj.links = 0 /\ NewObj.parent = None /\ ~NewObj.temporary /\ NewObj.leaks = 0
    /\ ~NewObj.used /\ \A t \in Threads : NewObj.members[t] = "OUT"
  BY DEF NewObj, FreeObj, ObjType

\* Nothing but object o changes, and thread t changes its hold on nothing else.
Only(t, o) ==
    /\ Alone(t)
    /\ \A p \in Objs \ {o} : /\ obj'[p] = obj[p]
                             /\ (held'[t] = p <=> held[t] = p) /\ (tgrp'[t] = p <=> tgrp[t] = p)
                             /\ (my'[t].obj = p <=> my[t].obj = p)

\* The references stay exact if those to o change as the holds of t do.
LEMMA RefStep ==
    ASSUME TypeOK, RefExact, NEW t \in Threads, NEW o \in Objs, Only(t, o), obj' \in [Objs -> ObjType],
           obj'[o].refs + Has(t, o) + obj[o].leaks + One(obj[o].temporary)
               = obj[o].refs + Has(t, o)' + obj'[o].leaks + One(obj'[o].temporary)
    PROVE  RefExact'
  <1> SUFFICES ASSUME NEW p \in Objs
               PROVE  obj'[p].refs = Holders(p)' + obj'[p].leaks + One(obj'[p].temporary)
    BY DEF RefExact, One
  <1>1. obj \in [Objs -> ObjType] BY DEF TypeOK, ObjType
  <1>2. obj[p].refs = Holders(p) + obj[p].leaks + One(obj[p].temporary) BY DEF RefExact, One
  <1>3. /\ Holders(p) \in Nat /\ Holders(p)' \in Nat
        /\ Holders(p)' + Has(t, p) = Holders(p) + Has(t, p)'
    BY HoldersMove DEF Only
  <1>4. /\ obj[p].refs \in Nat /\ obj'[p].refs \in Nat /\ obj[p].leaks \in Nat /\ obj'[p].leaks \in Nat
        /\ One(obj[p].temporary) \in Nat /\ One(obj'[p].temporary) \in Nat
        /\ Has(t, p) \in Nat /\ Has(t, p)' \in Nat
    BY <1>1 DEF ObjType, One, Has
  <1>5. CASE p = o
    <2> DEFINE r == obj[p].refs    rr == obj'[p].refs    l == obj[p].leaks    ll == obj'[p].leaks
               x == Holders(p)     xx == Holders(p)'     h == Has(t, p)       hh == Has(t, p)'
               s == One(obj[p].temporary)                ss == One(obj'[p].temporary)
    <2>1. rr + h + l + s = r + hh + ll + ss BY <1>5
    <2>2. /\ r \in Nat /\ rr \in Nat /\ l \in Nat /\ ll \in Nat /\ x \in Nat /\ xx \in Nat
          /\ h \in Nat /\ hh \in Nat /\ s \in Nat /\ ss \in Nat
          /\ r = x + l + s /\ xx + h = x + hh
      BY <1>2, <1>3, <1>4
    <2> HIDE DEF r, rr, l, ll, x, xx, h, hh, s, ss
    <2>3. rr = xx + ll + ss BY <2>1, <2>2
    <2> QED BY <2>3 DEF rr, xx, ll, ss
  <1>6. CASE p # o
    <2>1. obj'[p] = obj[p] BY <1>6 DEF Only
    <2>2. Has(t, p)' = Has(t, p) BY <1>6 DEF Only, Has, One
    <2> QED BY <1>2, <1>3, <1>4, <2>1, <2>2
  <1> QED BY <1>5, <1>6

\* A thread that has an object, and one that drops it with n references: its own
\* one, and the object's to itself if it ends being temporary.
LEMMA Enough ==
    ASSUME TypeOK, RefExact, NEW t \in Threads, NEW o \in Objs, Has(t, o) # 0
    PROVE  /\ obj[o].refs \in Nat /\ obj[o].leaks \in Nat /\ Has(t, o) \in Nat
           /\ obj[o].refs >= Has(t, o) + obj[o].leaks + One(obj[o].temporary)
           /\ \A u \in Threads : u # t /\ (held[u] = o \/ tgrp[u] = o \/ my[u].obj = o) =>
                 obj[o].refs > Has(t, o) + obj[o].leaks + One(obj[o].temporary)
  <1>1. obj[o].refs = Holders(o) + obj[o].leaks + One(obj[o].temporary) BY DEF RefExact, One
  <1>2. /\ obj[o].refs \in Nat /\ obj[o].leaks \in Nat /\ One(obj[o].temporary) \in Nat
    BY DEF TypeOK, One
  <1>3. /\ Holders(o) \in Nat /\ Has(t, o) \in Nat /\ Holders(o) >= Has(t, o)
        /\ \A u \in Threads : u # t /\ (held[u] = o \/ tgrp[u] = o \/ my[u].obj = o) =>
              Holders(o) > Has(t, o)
    BY HoldersLeast
  <1> QED BY <1>1, <1>2, <1>3

\* Dropping n references: the object is freed with the last one, and then nobody has it.
LEMMA Released ==
    ASSUME TypeOK, RefExact, NEW t \in Threads, NEW o \in Objs, NEW x \in ObjType, NEW n \in {1, 2},
           x.refs = obj[o].refs, x.leaks = obj[o].leaks,
           n + One(x.temporary) = 1 + One(obj[o].temporary),
           Only(t, o), Has(t, o) = Has(t, o)' + 1,
           obj' = [obj EXCEPT ![o] = Deref(x, n)]
    PROVE  /\ obj' \in [Objs -> ObjType] /\ RefExact'
           /\ \/ /\ obj'[o] = FreeObj /\ ~x.temporary
                 /\ \A u \in Threads : held'[u] # o /\ tgrp'[u] # o /\ my'[u].obj # o
              \/ /\ obj'[o] = [x EXCEPT !.refs = @ - n] /\ obj'[o].refs # 0
  <1>1. obj \in [Objs -> ObjType] BY DEF TypeOK, ObjType
  <1>2. Has(t, o)' \in Nat BY DEF Has, One
  <1>3. /\ obj[o].refs \in Nat /\ obj[o].leaks \in Nat /\ Has(t, o) \in Nat
        /\ obj[o].refs >= Has(t, o) + obj[o].leaks + One(obj[o].temporary)
        /\ \A u \in Threads : u # t /\ (held[u] = o \/ tgrp[u] = o \/ my[u].obj = o) =>
              obj[o].refs > Has(t, o) + obj[o].leaks + One(obj[o].temporary)
    BY <1>2, Enough
  <1>4. One(obj[o].temporary) \in {0, 1} /\ One(x.temporary) \in {0, 1} BY DEF One
  <1>5. obj'[o] = Deref(x, n) BY <1>1
  <1>6. CASE x.refs = n
    <2>1. obj'[o] = FreeObj /\ FreeObj \in ObjType BY <1>5, <1>6 DEF Deref, FreeObj, ObjType
    <2>2. Has(t, o) = 1 /\ Has(t, o)' = 0 /\ obj[o].leaks = 0 /\ One(x.temporary) = 0
      BY <1>2, <1>3, <1>4, <1>6
    <2>3. \A u \in Threads \ {t} : held[u] # o /\ tgrp[u] # o /\ my[u].obj # o
      BY <1>2, <1>3, <1>4, <1>6
    <2>4. held'[t] # o /\ tgrp'[t] # o /\ my'[t].obj # o BY <2>2 DEF Has, One
    <2>5. \A u \in Threads : held'[u] # o /\ tgrp'[u] # o /\ my'[u].obj # o
      BY <2>3, <2>4 DEF Only, Alone
    <2>6. obj' \in [Objs -> ObjType] BY <1>1, <1>5, <2>1
    <2>7. obj'[o].refs = 0 /\ obj'[o].leaks = 0 /\ One(obj'[o].temporary) = 0
      BY <2>1 DEF FreeObj, One
    <2>8. obj[o].refs + Has(t, o)' + 0 + 0 = 0 + Has(t, o) + obj[o].leaks + One(obj[o].temporary)
      BY <1>2, <1>3, <1>4, <1>6, <2>2
    <2>9. RefExact' BY <1>1, <2>6, <2>7, <2>8, RefStep
    <2>10. ~x.temporary BY <2>2 DEF One
    <2> QED BY <2>1, <2>5, <2>6, <2>9, <2>10
  <1>7. CASE x.refs # n
    <2>1. obj'[o] = [x EXCEPT !.refs = @ - n] BY <1>5, <1>7 DEF Deref
    <2>2. x.refs - n \in Nat /\ x.refs - n # 0 BY <1>2, <1>3, <1>4, <1>7
    <2>3. obj'[o] \in ObjType BY <2>1, <2>2 DEF ObjType
    <2>4. obj' \in [Objs -> ObjType] BY <1>1, <1>5, <2>3
    <2>5. obj'[o].refs = x.refs - n /\ obj'[o].leaks = x.leaks /\ obj'[o].temporary = x.temporary
      BY <2>1 DEF ObjType
    <2>6. obj'[o].refs + Has(t, o) + obj[o].leaks + One(obj[o].temporary)
             = obj[o].refs + Has(t, o)' + obj'[o].leaks + One(obj'[o].temporary)
      BY <1>2, <1>3, <1>4, <2>5
    <2>7. RefExact' BY <1>1, <2>4, <2>6, RefStep
    <2> QED BY <2>1, <2>2, <2>4, <2>5, <2>7
  <1> QED BY <1>6, <1>7

\* Nobody's hold changes.
LEMMA RefSame ==
    ASSUME RefExact,
           \A u \in Threads : held'[u] = held[u] /\ tgrp'[u] = tgrp[u] /\ my'[u].obj = my[u].obj,
           \A p \in Objs : /\ obj'[p].refs = obj[p].refs /\ obj'[p].leaks = obj[p].leaks
                          /\ obj'[p].temporary = obj[p].temporary
    PROVE  RefExact'
  <1> SUFFICES ASSUME NEW p \in Objs
               PROVE  obj'[p].refs = Holders(p)' + obj'[p].leaks + (IF obj'[p].temporary THEN 1 ELSE 0)
    BY DEF RefExact
  <1>1. Holders(p)' = Holders(p)
    <2>1. /\ {u \in Threads : held'[u] = p} = {u \in Threads : held[u] = p}
          /\ {u \in Threads : tgrp'[u] = p} = {u \in Threads : tgrp[u] = p}
          /\ {u \in Threads : my'[u].obj = p} = {u \in Threads : my[u].obj = p}
      OBVIOUS
    <2> QED BY <2>1 DEF Holders
  <1>2. obj[p].refs = Holders(p) + obj[p].leaks + (IF obj[p].temporary THEN 1 ELSE 0) BY DEF RefExact
  <1> QED BY <1>1, <1>2

\* The agents of an object, when only thread t moves.
LEMMA AgentsMove ==
    ASSUME NEW t \in Threads, NEW o \in Objs,
           \A u \in Threads \ {t} : held'[u] = held[u] /\ pc'[u] = pc[u]
    PROVE  /\ Cardinality(Agents(o)) \in Nat /\ Cardinality(Agents(o)') \in Nat
           /\ (t \in Agents(o) <=> t \in Agents(o)') => Cardinality(Agents(o)') = Cardinality(Agents(o))
           /\ t \in Agents(o)' /\ t \notin Agents(o) => Cardinality(Agents(o)') = Cardinality(Agents(o)) + 1
           /\ t \in Agents(o) /\ t \notin Agents(o)' => Cardinality(Agents(o)') = Cardinality(Agents(o)) - 1
  <1> DEFINE A == Agents(o)
             B == Agents(o)'
  <1>1. A \in SUBSET Threads /\ B \in SUBSET Threads BY DEF Agents
  <1>2. A \ {t} = B \ {t} BY DEF Agents
  <1>3. IsFiniteSet(Threads) BY DirectoryAssumption
  <1> HIDE DEF A, B
  <1>4. /\ Cardinality(A) \in Nat /\ Cardinality(B) \in Nat
        /\ (t \in A <=> t \in B) => Cardinality(B) = Cardinality(A)
        /\ t \in B /\ t \notin A => Cardinality(B) = Cardinality(A) + 1
        /\ t \in A /\ t \notin B => Cardinality(B) = Cardinality(A) - 1
    BY <1>1, <1>2, <1>3, OneMoves
  <1> QED BY <1>4 DEF A, B

\* The listed entries, when only entry e changes.
Listed == {e \in Tags : entry[e].listed}
\* The count of listed entries follows the one that changes.
LEMMA CountStep ==
    ASSUME TypeOK, CountInv, NEW e \in Tags, \A f \in Tags \ {e} : entry'[f] = entry[f]
    PROVE  /\ (entry'[e].listed <=> entry[e].listed) /\ entry_count' = entry_count => CountInv'
           /\ entry'[e].listed /\ ~entry[e].listed /\ entry_count' = entry_count + 1 => CountInv'
           /\ ~entry'[e].listed /\ entry[e].listed =>
                 /\ entry_count > 0
                 /\ entry_count' = entry_count - 1 => CountInv'
  <1> DEFINE A == Listed
             B == Listed'
  <1>1. A \in SUBSET Tags /\ B \in SUBSET Tags BY DEF Listed
  <1>2. A \ {e} = B \ {e} BY DEF Listed
  <1>3. IsFiniteSet(Tags) BY DirectoryAssumption
  <1>4. (e \in A <=> entry[e].listed) /\ (e \in B <=> entry'[e].listed) BY DEF Listed
  <1>5. (CountInv <=> entry_count = Cardinality(A)) /\ (CountInv' <=> entry_count' = Cardinality(B))
    BY DEF CountInv, Listed
  <1> HIDE DEF A, B
  <1>6. /\ Cardinality(A) \in Nat /\ Cardinality(B) \in Nat
        /\ (e \in A <=> e \in B) => Cardinality(B) = Cardinality(A)
        /\ e \in B /\ e \notin A => Cardinality(B) = Cardinality(A) + 1
        /\ e \in A /\ e \notin B => Cardinality(B) = Cardinality(A) - 1
    BY <1>1, <1>2, <1>3, OneMoves
  <1> QED BY <1>4, <1>5, <1>6

-----------------------------------------------------------------------------
(* Steps that leave the objects alone.                                     *)

\* Places without a claim on an object but the one in my.
Quiet == {"idle", "retry", "lookup", "asleep", "broadcast", "have", "stuck"}

QuietMove ==
    /\ \A u \in Threads : /\ held'[u] = held[u] /\ tgrp'[u] = tgrp[u] /\ my'[u].obj = my[u].obj
                          /\ pc'[u] = pc[u] \/ (pc[u] \in Quiet /\ pc'[u] \in Quiet)
                          /\ pc'[u] \in {"broadcast", "have"} => my'[u].obj = None \/ pc[u] \in {"broadcast", "have"}
    /\ UNCHANGED <<obj, late>>

\* A step between such places keeps what is said of every object.
LEMMA QuietStep ==
    ASSUME \A o \in Objs : ObjAt(o), QuietMove, UNCHANGED lock
    PROVE  \A o \in Objs : ObjAt(o)' /\ (Parted(o)' <=> Parted(o))
  <1> SUFFICES ASSUME NEW o \in Objs PROVE ObjAt(o)' /\ (Parted(o)' <=> Parted(o))
    OBVIOUS
  <1>0. LifeAt(o) /\ AgentAt(o) /\ MemberAt(o) /\ CloseAt(o) BY DEF ObjAt
  <1>1. \A u \in Threads : \A l \in {"unlink", "unlinked", "unlink agent", "unlinked agent", "tidy", "install"} :
            pc'[u] = l <=> pc[u] = l
    BY DEF QuietMove, Quiet
  <1>2. \A u \in Threads : Closes(u, o)' <=> Closes(u, o) BY <1>1 DEF Closes, QuietMove
  <1>3. Parted(o)' <=> Parted(o) BY <1>1, <1>2 DEF Parted
  <1>4. LifeAt(o)'
    <2>1. \A u \in Threads : pc'[u] = "install" <=> pc[u] = "install" BY <1>1
    <2> QED BY <1>0, <2>1 DEF LifeAt, QuietMove
  <1>5. AgentAt(o)'
    <2>1. Agents(o)' = Agents(o) BY <1>1 DEF Agents, QuietMove
    <2> QED BY <1>0, <2>1 DEF AgentAt, QuietMove
  <1>6. MemberAt(o)'
    <2>1. \A u \in Threads : pc'[u] \in {"tidy", "unlink", "unlinked"} <=> pc[u] \in {"tidy", "unlink", "unlinked"}
      BY <1>1
    <2>2. /\ obj' = obj /\ late' = late
          /\ \A u \in Threads : tgrp'[u] = tgrp[u]
      BY DEF QuietMove
    <2> QED BY <1>0, <2>1, <2>2 DEF MemberAt
  <1>7. CloseAt(o)'
    <2>1. \A u \in Threads : (pc'[u] = "tidy" <=> pc[u] = "tidy") /\ tgrp'[u] = tgrp[u]
      BY <1>1 DEF QuietMove
    <2>2. obj' = obj /\ lock' = lock BY DEF QuietMove
    <2>3. Empty(o)' <=> Empty(o) BY <2>2 DEF Empty
    <2> QED BY <1>0, <1>2, <2>1, <2>2, <2>3 DEF CloseAt
  <1> QED BY <1>3, <1>4, <1>5, <1>6, <1>7 DEF ObjAt

\* The name is taken: a lookup follows.
LEMMA FindExistsStep ==
    ASSUME IInv, NEW t \in Threads, NEW n \in Names, FindExists(t, n)
    PROVE  IInv'
  <1>1. /\ TypeOK /\ RefExact /\ NoLostSleeper /\ PlaceInv /\ EntryInv /\ CountInv
        /\ LinkInv /\ \A o \in Objs : ObjAt(o)
    BY DEF IInv
  <1>2. QuietMove BY <1>1 DEF FindExists, Goto, Nothing, dirvars, TypeOK, PlaceInv, QuietMove, Quiet
  <1>3. TypeOK' BY <1>1 DEF FindExists, Goto, Nothing, dirvars, TypeOK
  <1>4. RefExact' BY <1>1, <1>2, RefSame DEF QuietMove
  <1>5. NoLostSleeper' BY <1>1 DEF FindExists, Goto, Nothing, dirvars, TypeOK, NoLostSleeper, Found, PlaceInv
  <1>6. PlaceInv' BY <1>1 DEF FindExists, Goto, Nothing, dirvars, TypeOK, PlaceInv
  <1>7. EntryInv' /\ CountInv' BY <1>1 DEF FindExists, dirvars, EntryInv, CountInv
  <1>8. UNCHANGED <<lock, entry, obj>> BY DEF FindExists, dirvars
  <1>9. \A o \in Objs : ObjAt(o)' /\ (Parted(o)' <=> Parted(o))
    BY <1>1, <1>2, <1>8, QuietStep
  <1>10. LinkInv' BY <1>1, <1>8, <1>9 DEF LinkInv, ListedInv, ParentInv, ParentUnique, LinksAt
  <1> QED BY <1>3, <1>4, <1>5, <1>6, <1>7, <1>9, <1>10 DEF IInv

\* The sleepers are woken.
LEMMA BroadcastStep ==
    ASSUME IInv, NEW t \in Threads, Broadcast(t)
    PROVE  IInv'
  <1>1. /\ TypeOK /\ RefExact /\ NoLostSleeper /\ PlaceInv /\ EntryInv /\ CountInv
        /\ LinkInv /\ \A o \in Objs : ObjAt(o)
    BY DEF IInv
  <1>2. QuietMove BY <1>1 DEF Broadcast, Goto, Nothing, dirvars, TypeOK, PlaceInv, QuietMove, Quiet
  <1>3. TypeOK' BY <1>1 DEF Broadcast, Goto, Nothing, dirvars, TypeOK
  <1>4. RefExact' BY <1>1, <1>2, RefSame DEF QuietMove
  <1>5. NoLostSleeper' BY <1>1 DEF Broadcast, Goto, Nothing, dirvars, TypeOK, NoLostSleeper, Found, PlaceInv
  <1>6. PlaceInv' BY <1>1 DEF Broadcast, Goto, Nothing, dirvars, TypeOK, PlaceInv
  <1>7. EntryInv' /\ CountInv' BY <1>1 DEF Broadcast, dirvars, EntryInv, CountInv
  <1>8. UNCHANGED <<lock, entry, obj>> BY DEF Broadcast, dirvars
  <1>9. \A o \in Objs : ObjAt(o)' /\ (Parted(o)' <=> Parted(o))
    BY <1>1, <1>2, <1>8, QuietStep
  <1>10. LinkInv' BY <1>1, <1>8, <1>9 DEF LinkInv, ListedInv, ParentInv, ParentUnique, LinksAt
  <1> QED BY <1>3, <1>4, <1>5, <1>6, <1>7, <1>9, <1>10 DEF IInv

\* The entry is gone: start again.
LEMMA LookupMissingStep ==
    ASSUME IInv, NEW t \in Threads, LookupMissing(t)
    PROVE  IInv'
  <1>1. /\ TypeOK /\ RefExact /\ NoLostSleeper /\ PlaceInv /\ EntryInv /\ CountInv
        /\ LinkInv /\ \A o \in Objs : ObjAt(o)
    BY DEF IInv
  <1>2. QuietMove BY <1>1 DEF LookupMissing, Goto, Nothing, dirvars, TypeOK, PlaceInv, QuietMove, Quiet, Looking
  <1>3. TypeOK' BY <1>1 DEF LookupMissing, Goto, Nothing, dirvars, TypeOK
  <1>4. RefExact' BY <1>1, <1>2, RefSame DEF QuietMove
  <1>5. NoLostSleeper' BY <1>1 DEF LookupMissing, Goto, Nothing, dirvars, TypeOK, NoLostSleeper, Found, PlaceInv, Looking
  <1>6. PlaceInv' BY <1>1 DEF LookupMissing, Goto, Nothing, dirvars, TypeOK, PlaceInv, Looking
  <1>7. EntryInv' /\ CountInv' BY <1>1 DEF LookupMissing, dirvars, EntryInv, CountInv
  <1>8. UNCHANGED <<lock, entry, obj>> BY DEF LookupMissing, dirvars
  <1>9. \A o \in Objs : ObjAt(o)' /\ (Parted(o)' <=> Parted(o))
    BY <1>1, <1>2, <1>8, QuietStep
  <1>10. LinkInv' BY <1>1, <1>8, <1>9 DEF LinkInv, ListedInv, ParentInv, ParentUnique, LinksAt
  <1> QED BY <1>3, <1>4, <1>5, <1>6, <1>7, <1>9, <1>10 DEF IInv

\* The entry is reserved: sleep.
LEMMA LookupReservedStep ==
    ASSUME IInv, NEW t \in Threads, LookupReserved(t)
    PROVE  IInv'
  <1>1. /\ TypeOK /\ RefExact /\ NoLostSleeper /\ PlaceInv /\ EntryInv /\ CountInv
        /\ LinkInv /\ \A o \in Objs : ObjAt(o)
    BY DEF IInv
  <1>2. QuietMove BY <1>1 DEF LookupReserved, Goto, Nothing, dirvars, TypeOK, PlaceInv, QuietMove, Quiet, Looking
  <1>3. TypeOK' BY <1>1 DEF LookupReserved, Goto, Nothing, dirvars, TypeOK
  <1>4. RefExact' BY <1>1, <1>2, RefSame DEF QuietMove
  <1>5. NoLostSleeper' BY <1>1 DEF LookupReserved, Goto, Nothing, dirvars, TypeOK, NoLostSleeper, Found, PlaceInv, Looking
  <1>6. PlaceInv' BY <1>1 DEF LookupReserved, Goto, Nothing, dirvars, TypeOK, PlaceInv, Looking
  <1>7. EntryInv' /\ CountInv' BY <1>1 DEF LookupReserved, dirvars, EntryInv, CountInv
  <1>8. UNCHANGED <<lock, entry, obj>> BY DEF LookupReserved, dirvars
  <1>9. \A o \in Objs : ObjAt(o)' /\ (Parted(o)' <=> Parted(o))
    BY <1>1, <1>2, <1>8, QuietStep
  <1>10. LinkInv' BY <1>1, <1>8, <1>9 DEF LinkInv, ListedInv, ParentInv, ParentUnique, LinksAt
  <1> QED BY <1>3, <1>4, <1>5, <1>6, <1>7, <1>9, <1>10 DEF IInv

\* A sleeper gives up.
LEMMA InterruptedStep ==
    ASSUME IInv, NEW t \in Threads, Interrupted(t)
    PROVE  IInv'
  <1>1. /\ TypeOK /\ RefExact /\ NoLostSleeper /\ PlaceInv /\ EntryInv /\ CountInv
        /\ LinkInv /\ \A o \in Objs : ObjAt(o)
    BY DEF IInv
  <1>2. QuietMove BY <1>1 DEF Interrupted, Goto, Nothing, dirvars, TypeOK, PlaceInv, QuietMove, Quiet
  <1>3. TypeOK' BY <1>1 DEF Interrupted, Goto, Nothing, dirvars, TypeOK
  <1>4. RefExact' BY <1>1, <1>2, RefSame DEF QuietMove
  <1>5. NoLostSleeper' BY <1>1 DEF Interrupted, Goto, Nothing, dirvars, TypeOK, NoLostSleeper, Found, PlaceInv
  <1>6. PlaceInv' BY <1>1 DEF Interrupted, Goto, Nothing, dirvars, TypeOK, PlaceInv
  <1>7. EntryInv' /\ CountInv' BY <1>1 DEF Interrupted, dirvars, EntryInv, CountInv
  <1>8. UNCHANGED <<lock, entry, obj>> BY DEF Interrupted, dirvars
  <1>9. \A o \in Objs : ObjAt(o)' /\ (Parted(o)' <=> Parted(o))
    BY <1>1, <1>2, <1>8, QuietStep
  <1>10. LinkInv' BY <1>1, <1>8, <1>9 DEF LinkInv, ListedInv, ParentInv, ParentUnique, LinksAt
  <1> QED BY <1>3, <1>4, <1>5, <1>6, <1>7, <1>9, <1>10 DEF IInv

-----------------------------------------------------------------------------
(* Steps that change an entry.                                             *)

\* A reserved entry is left alone, and so is whoever waits for it or broadcasts.
LEMMA SleepersKept ==
    ASSUME NoLostSleeper, sleepers' \subseteq sleepers,
           \A f \in Tags : entry[f].type = "RESERVED" => entry'[f] = entry[f],
           \A u \in sleepers' : my'[u].name = my[u].name,
           \A u \in Threads : pc[u] = "broadcast" => pc'[u] = "broadcast"
    PROVE  NoLostSleeper'
  <1> SUFFICES ASSUME NEW u \in sleepers'
               PROVE  \/ \E e \in Tags : entry'[e].listed /\ entry'[e].name = my'[u].name /\ entry'[e].type = "RESERVED"
                      \/ \E v \in Threads : pc'[v] = "broadcast"
    BY DEF NoLostSleeper, Found
  <1>1. \/ \E e \in Tags : entry[e].listed /\ entry[e].name = my[u].name /\ entry[e].type = "RESERVED"
        \/ \E v \in Threads : pc[v] = "broadcast"
    BY DEF NoLostSleeper, Found
  <1> QED BY <1>1

\* An entry and its fields.
EntryType == [type : {"FREE", "RESERVED", "DIRECTORY", "INVALID"},
              name : Names \cup {None}, obj : Objs \cup {None}, listed : BOOLEAN]

\* The entry of a dead object is taken out and kept for ns_remove_tmplink.
LEMMA UnlistInv ==
    ASSUME TypeOK, EntryInv, LinkInv, CountInv, NEW e \in Tags,
           entry[e].type = "DIRECTORY", ~obj[entry[e].obj].active, Unlist(e),
           obj' = obj, \A o \in Objs : Parted(o)' <=> Parted(o)
    PROVE  /\ entry' \in [Tags -> EntryType] /\ entry_count' \in Nat
           /\ EntryInv' /\ LinkInv' /\ CountInv'
           /\ \A f \in Tags : entry[f].type = "RESERVED" => entry'[f] = entry[f]
  <1>1. entry \in [Tags -> EntryType] /\ entry_count \in Nat BY DEF TypeOK, EntryType
  <1>2. /\ \A f \in Tags \ {e} : entry'[f] = entry[f]
        /\ entry'[e] = [entry[e] EXCEPT !.listed = FALSE, !.type = "INVALID", !.obj = None]
        /\ entry' \in [Tags -> EntryType]
    BY <1>1 DEF Unlist, EntryType
  <1>3. ~entry'[e].listed /\ entry'[e].type = "INVALID" /\ entry'[e].obj = None
    BY <1>1, <1>2 DEF EntryType
  <1>4. entry[e].listed BY DEF EntryInv, EntryOK
  <1>5. entry_count > 0 /\ CountInv'
    <2>1. entry_count' = entry_count - 1 BY DEF Unlist
    <2> QED BY <1>2, <1>3, <1>4, <2>1, CountStep
  <1>6. entry_count' \in Nat BY <1>1, <1>5 DEF Unlist
  <1>7. EntryInv' BY <1>2, <1>3 DEF EntryInv, EntryOK
  <1>8. LinkInv'
    <2>1. ListedInv'
      <3>1. \A f \in Tags : entry'[f].type = "DIRECTORY" => f # e /\ entry'[f] = entry[f] BY <1>2, <1>3
      <3> QED BY <3>1 DEF LinkInv, ListedInv
    <2>2. ParentInv'
      <3>1. ParentInv /\ ListedInv BY DEF LinkInv
      <3>2. \A o \in Objs : obj[o].parent = e /\ ~Parted(o) => ~obj[o].active BY <3>1 DEF ParentInv
      <3>3. ASSUME NEW f \in Tags, NEW o \in Objs, obj[o].parent = f, ~Parted(o)
            PROVE  \/ entry'[f].type = "DIRECTORY" /\ entry'[f].obj = o
                   \/ entry'[f].type = "INVALID" /\ ~obj[o].active
        <4>1. CASE f = e BY <1>3, <3>2, <3>3, <4>1
        <4>2. CASE f # e BY <1>2, <3>1, <3>3, <4>2 DEF ParentInv
        <4> QED BY <4>1, <4>2
      <3> QED BY <3>3 DEF ParentInv
    <2>3. ParentUnique' /\ (\A p \in Objs : LinksAt(p)') BY DEF LinkInv, ParentUnique, LinksAt
    <2> QED BY <2>1, <2>2, <2>3 DEF LinkInv
  <1> QED BY <1>2, <1>5, <1>6, <1>7, <1>8

\* ns_unregister_tmplink, and what it leaves of an object.
LEMMA Unregistered ==
    ASSUME NEW x \in ObjType, x.links = 1, NEW y, y = [x EXCEPT !.links = x.links - 1, !.parent = None]
    PROVE  /\ y \in ObjType /\ y.refs = x.refs /\ y.leaks = x.leaks /\ y.temporary = x.temporary
           /\ y.active = x.active /\ y.used = x.used /\ y.agents = x.agents /\ y.members = x.members
           /\ y.parent = None /\ y.links = 0
  <1>1. y = [x EXCEPT !.links = 0, !.parent = None] OBVIOUS
  <1>2. y.refs = x.refs /\ y.leaks = x.leaks /\ y.agents = x.agents BY <1>1 DEF ObjType
  <1>3. y.temporary = x.temporary /\ y.active = x.active /\ y.used = x.used BY <1>1 DEF ObjType
  <1>4. y.members = x.members /\ y.parent = None /\ y.links = 0 BY <1>1 DEF ObjType
  <1>5. y \in ObjType
    <2> DEFINE z == [x EXCEPT !.links = 0]
    <2>1. z \in ObjType BY DEF ObjType
    <2>2. y = [z EXCEPT !.parent = None] BY <1>1 DEF ObjType
    <2> HIDE DEF z
    <2> QED BY <2>1, <2>2 DEF ObjType
  <1> QED BY <1>2, <1>3, <1>4, <1>5

\* A directory entry whose object is removed by name.
LEMMA RemoveStep ==
    ASSUME IInv, NEW t \in Threads, NEW n \in Names, Remove(t, n)
    PROVE  IInv'
  <1>1. /\ TypeOK /\ RefExact /\ NoLostSleeper /\ PlaceInv /\ EntryInv /\ CountInv
        /\ LinkInv /\ \A o \in Objs : ObjAt(o)
    BY DEF IInv
  <1>2. UNCHANGED <<lock, sleepers, pc, my, tgrp, held, events, late>> BY DEF Remove, uservars
  <1>3. PICK e \in Tags : ns_remove_entry(e) BY DEF Remove, Found
  <1>4. \A o \in Objs : Parted(o)' <=> Parted(o) BY <1>2 DEF Parted, Closes
  <1>5. PlaceInv' BY <1>1, <1>2 DEF PlaceInv
  <1>6. entry[e].type = "DIRECTORY" /\ entry[e].obj \in Objs BY <1>1, <1>3 DEF ns_remove_entry, EntryInv, EntryOK
  <1>7. CASE ~obj[entry[e].obj].active
    <2>1. Unlist(e) /\ obj' = obj BY <1>3, <1>7 DEF ns_remove_entry, UnlistDead
    <2>2. /\ entry' \in [Tags -> EntryType] /\ entry_count' \in Nat
          /\ EntryInv' /\ LinkInv' /\ CountInv'
          /\ \A f \in Tags : entry[f].type = "RESERVED" => entry'[f] = entry[f]
      BY <1>1, <1>4, <1>6, <1>7, <2>1, UnlistInv
    <2>3. TypeOK' BY <1>1, <1>2, <2>1, <2>2 DEF TypeOK, EntryType
    <2>4. NoLostSleeper' BY <1>1, <1>2, <2>2, SleepersKept
    <2>5. QuietMove BY <1>2, <2>1 DEF QuietMove
    <2>6. RefExact' BY <1>1, <2>5, RefSame DEF QuietMove
    <2>7. \A o \in Objs : ObjAt(o)' BY <1>1, <1>2, <2>5, QuietStep
    <2> QED BY <1>5, <2>2, <2>3, <2>4, <2>6, <2>7 DEF IInv
  <1>8. CASE obj[entry[e].obj].active
    <2> DEFINE o == entry[e].obj
    <2>1. /\ entry' = [entry EXCEPT ![e] = FreeEntry] /\ entry_count' = entry_count - 1
          /\ obj' = [obj EXCEPT ![o].links = @ - 1, ![o].parent = None]
      BY <1>3, <1>8 DEF ns_remove_entry
    <2>2. obj \in [Objs -> ObjType] /\ entry \in [Tags -> EntryType] BY <1>1 DEF TypeOK, ObjType, EntryType
    <2>3. o \in Objs /\ obj[o].active BY <1>6, <1>8
    <2>4. obj[o].parent = e /\ obj[o].temporary /\ ~Parted(o) /\ obj[o].links = 1
      BY <1>1, <1>6, <2>3, DirectoryAssumption DEF LinkInv, ListedInv, LinksAt
    <2> HIDE DEF o
    <2>5. /\ \A p \in Objs \ {o} : obj'[p] = obj[p]
          /\ obj'[o] = [obj[o] EXCEPT !.links = obj[o].links - 1, !.parent = None]
      BY <2>1, <2>2, <2>3
    <2>19. obj[o] \in ObjType /\ obj[o].links = 1 BY <2>2, <2>3, <2>4
    <2>6. /\ obj'[o].refs = obj[o].refs /\ obj'[o].leaks = obj[o].leaks
          /\ obj'[o].temporary = obj[o].temporary /\ obj'[o].active = obj[o].active
          /\ obj'[o].used = obj[o].used /\ obj'[o].agents = obj[o].agents
          /\ obj'[o].members = obj[o].members /\ obj'[o].parent = None /\ obj'[o].links = 0
          /\ obj'[o] \in ObjType
      BY <2>5, <2>19, Unregistered
    <2>7. \A p \in Objs : /\ obj'[p].refs = obj[p].refs /\ obj'[p].leaks = obj[p].leaks
                          /\ obj'[p].temporary = obj[p].temporary /\ obj'[p].active = obj[p].active
                          /\ obj'[p].used = obj[p].used /\ obj'[p].agents = obj[p].agents
                          /\ obj'[p].members = obj[p].members
      BY <2>5, <2>6
    <2>8. /\ entry' \in [Tags -> EntryType] /\ entry'[e] = FreeEntry
          /\ \A f \in Tags \ {e} : entry'[f] = entry[f]
      BY <2>1, <2>2 DEF EntryType, FreeEntry
    <2>9. entry_count' \in Nat /\ CountInv'
      <3>1. entry[e].listed /\ ~entry'[e].listed BY <1>1, <1>6, <2>8 DEF EntryInv, EntryOK, FreeEntry
      <3>2. entry_count > 0 /\ CountInv' BY <1>1, <2>1, <2>8, <3>1, CountStep
      <3>3. entry_count \in Nat /\ entry_count' = entry_count - 1 BY <1>1, <2>1 DEF TypeOK
      <3> QED BY <3>2, <3>3
    <2>10. TypeOK'
      <3>1. obj' \in [Objs -> ObjType] BY <2>1, <2>2, <2>5, <2>6
      <3> QED BY <1>1, <1>2, <2>8, <2>9, <3>1 DEF TypeOK, ObjType, EntryType
    <2>11. RefExact' BY <1>1, <1>2, <2>7, RefSame
    <2>12. NoLostSleeper' BY <1>1, <1>2, <1>6, <2>8, SleepersKept
    <2>13. EntryInv' BY <1>1, <2>8 DEF EntryInv, EntryOK, FreeEntry
    <2>14. LinkInv'
      <3>1. ListedInv'
        <4>1. \A f \in Tags : entry'[f].type = "DIRECTORY" => f # e /\ entry'[f] = entry[f]
          BY <2>8 DEF FreeEntry
        <4>2. \A f \in Tags : entry[f].type = "DIRECTORY" /\ f # e => entry[f].obj # o
          BY <1>1, <2>3, <2>4 DEF LinkInv, ListedInv
        <4> QED BY <1>1, <1>4, <2>5, <4>1, <4>2 DEF LinkInv, ListedInv
      <3>2. ParentInv'
        <4>1. \A p \in Objs : p # o /\ obj[p].parent = e => Parted(p)
          BY <1>1, <2>3, <2>4, DirectoryAssumption DEF LinkInv, ParentUnique
        <4>2. \A f \in Tags, p \in Objs : obj'[p].parent = f /\ ~Parted(p) => f # e /\ p # o
          BY <2>5, <2>6, <4>1, DirectoryAssumption
        <4> QED BY <1>1, <1>4, <2>5, <2>8, <4>2 DEF LinkInv, ParentInv
      <3>3. ParentUnique' BY <1>1, <1>4, <2>5, <2>6 DEF LinkInv, ParentUnique
      <3>4. (\A p \in Objs : LinksAt(p)')
        <4>1. obj'[o].links = IF obj'[o].active /\ obj'[o].parent # None THEN 1 ELSE 0 BY <2>6
        <4> QED BY <1>1, <2>5, <4>1 DEF LinkInv, LinksAt
      <3> QED BY <3>1, <3>2, <3>3, <3>4 DEF LinkInv
    <2>15. \A p \in Objs : LifeAt(p)'
      <3>1. obj[o].refs # 0 /\ obj[o] # NewObj BY <1>1, <2>3, <2>4, FreeFields, NewFields DEF ObjAt, LifeAt
      <3>2. \A u \in Threads : ~(pc[u] = "install" /\ my[u].obj = o) BY <1>1, <2>3, <3>1 DEF ObjAt, LifeAt
      <3>3. \A p \in Objs : obj'[p].refs = 0 => obj'[p] = FreeObj
        <4>1. obj'[o].refs # 0 BY <2>6, <3>1
        <4> QED BY <1>1, <2>5, <4>1 DEF ObjAt, LifeAt
      <3>4. \A u \in Threads, p \in Objs : pc[u] = "install" /\ my[u].obj = p => obj'[p] = NewObj
        BY <1>1, <2>5, <3>2 DEF ObjAt, LifeAt
      <3> QED BY <1>1, <1>2, <2>7, <3>3, <3>4 DEF ObjAt, LifeAt
    <2>16. \A p \in Objs : AgentAt(p)' BY <1>1, <1>2, <2>7 DEF ObjAt, AgentAt, Agents
    <2>17. \A p \in Objs : MemberAt(p)' BY <1>1, <1>2, <2>7 DEF ObjAt, MemberAt
    <2>18. \A p \in Objs : CloseAt(p)'
      <3>1. \A p \in Objs : (Empty(p)' <=> Empty(p)) /\ \A u \in Threads : Closes(u, p)' <=> Closes(u, p)
        BY <1>2, <2>7 DEF Empty, Closes
      <3>2. \A u \in Threads : ~Closes(u, o) BY <1>1, <2>3 DEF ObjAt, CloseAt
      <3> QED BY <1>1, <1>2, <2>5, <2>7, <3>1, <3>2 DEF ObjAt, CloseAt
    <2> QED BY <1>5, <2>9, <2>10, <2>11, <2>12, <2>13, <2>14, <2>15, <2>16, <2>17, <2>18 DEF IInv, ObjAt
  <1> QED BY <1>7, <1>8

-----------------------------------------------------------------------------
(* Steps of one thread with one object.                                    *)

\* Thread t works on object o, and on no other.
Focus(t, o) ==
    /\ Only(t, o) /\ \A u \in Threads \ {t} : pc'[u] = pc[u]
    /\ my[t].obj \in {o, None} /\ my'[t].obj \in {o, None}
    /\ tgrp[t] \in {o, None} \/ {pc[t], pc'[t]} \cap {"tidy", "unlink", "unlinked"} = {}
    /\ held[t] \in {o, None} \/ {pc[t], pc'[t]} \cap {"unlink agent", "unlinked agent"} = {}
    /\ \A u \in Threads \ {t} : u \in late' <=> u \in late
    /\ t \in late' \/ t \notin late \/ tgrp[t] = o
    /\ lock' = lock \/ lock' # None

\* So nothing else changes that is said of the others.
LEMMA Elsewhere ==
    ASSUME NEW t \in Threads, NEW o \in Objs, Focus(t, o), NEW p \in Objs \ {o}, ObjAt(p)
    PROVE  ObjAt(p)' /\ (Parted(p)' <=> Parted(p))
  <1>0. LifeAt(p) /\ AgentAt(p) /\ MemberAt(p) /\ CloseAt(p) BY DEF ObjAt
  <1>1. /\ obj'[p] = obj[p]
        /\ \A u \in Threads : /\ held'[u] = p <=> held[u] = p
                              /\ tgrp'[u] = p <=> tgrp[u] = p
                              /\ my'[u].obj = p <=> my[u].obj = p
    BY DEF Focus, Only, Alone
  <1>2. my[t].obj # p /\ p # None BY DirectoryAssumption DEF Focus
  <1>3. \A u \in Threads \ {t} : pc'[u] = pc[u] BY DEF Focus
  <1>4. tgrp[t] = p => {pc[t], pc'[t]} \cap {"tidy", "unlink", "unlinked"} = {} BY <1>2 DEF Focus
  <1>5. held[t] = p => {pc[t], pc'[t]} \cap {"unlink agent", "unlinked agent"} = {} BY <1>2 DEF Focus
  <1>6. \A u \in Threads : Closes(u, p)' <=> Closes(u, p) BY <1>1, <1>3, <1>4, <1>5 DEF Closes
  <1>7. Parted(p)' <=> Parted(p)
    <2>1. \A u \in Threads : Closes(u, p) => pc'[u] = pc[u] BY <1>3, <1>4, <1>5 DEF Closes
    <2> QED BY <1>6, <2>1 DEF Parted
  <1>8. LifeAt(p)'
    <2>1. obj'[p].refs = 0 => obj'[p] = FreeObj BY <1>0, <1>1 DEF LifeAt
    <2>2. ASSUME NEW u \in Threads, pc'[u] = "install", my'[u].obj = p
          PROVE  /\ obj'[p] = NewObj
                 /\ \A v \in Threads : held'[v] # p /\ tgrp'[v] # p /\ (my'[v].obj = p => v = u)
      <3>1. u # t /\ pc[u] = "install" /\ my[u].obj = p BY <1>1, <1>2, <1>3, <2>2
      <3> QED BY <1>0, <1>1, <3>1 DEF LifeAt
    <2>3. ASSUME NEW u \in Threads, held'[u] = p \/ tgrp'[u] = p \/ (my'[u].obj = p /\ pc'[u] # "install")
          PROVE  obj'[p].active => obj'[p].temporary
      <3>1. held[u] = p \/ tgrp[u] = p \/ (my[u].obj = p /\ pc[u] # "install") BY <1>1, <1>2, <1>3, <2>3
      <3> QED BY <1>0, <1>1, <3>1 DEF LifeAt
    <2> QED BY <2>1, <2>2, <2>3 DEF LifeAt
  <1>9. AgentAt(p)'
    <2>1. Agents(p)' = Agents(p) BY <1>1, <1>3, <1>5 DEF Agents
    <2> QED BY <1>0, <1>1, <2>1 DEF AgentAt
  <1>10. MemberAt(p)'
    <2>1. ASSUME NEW u \in Threads
          PROVE  obj'[p].members[u] # "OUT" <=> tgrp'[u] = p /\ pc'[u] \notin {"tidy", "unlink", "unlinked"}
      BY <1>0, <1>1, <1>3, <1>4 DEF MemberAt
    <2>2. ASSUME NEW u \in Threads, obj'[p].members[u] # "OUT", u \notin late'
          PROVE  obj'[p].active
      <3>1. tgrp[u] = p BY <1>0, <1>1, <2>2 DEF MemberAt
      <3>2. u \notin late BY <2>2, <3>1 DEF Focus
      <3> QED BY <1>0, <1>1, <2>2, <3>2 DEF MemberAt
    <2> QED BY <2>1, <2>2 DEF MemberAt
  <1>11. CloseAt(p)'
    <2>1. Empty(p)' <=> Empty(p) BY <1>1 DEF Empty
    <2>2. \A u \in Threads : pc[u] = "tidy" /\ tgrp[u] = p => pc'[u] = "tidy" /\ tgrp'[u] = p
      BY <1>1, <1>3, <1>4
    <2>3. lock # None => lock' # None BY DEF Focus
    <2> QED BY <1>0, <1>1, <1>6, <2>1, <2>2, <2>3 DEF CloseAt
  <1> QED BY <1>7, <1>8, <1>9, <1>10, <1>11 DEF ObjAt

\* An object that has been freed.
LEMMA Freed ==
    ASSUME NEW o \in Objs, obj'[o] = FreeObj,
           \A u \in Threads : held'[u] # o /\ tgrp'[u] # o /\ my'[u].obj # o
    PROVE  ObjAt(o)' /\ LinksAt(o)' /\ ~Parted(o)'
  <1>1. \A u \in Threads : ~Closes(u, o)' BY DEF Closes
  <1>2. ~Parted(o)' BY <1>1 DEF Parted
  <1>3. LifeAt(o)' BY DEF LifeAt
  <1>4. AgentAt(o)'
    <2>1. Agents(o)' = {} BY DEF Agents
    <2> QED BY <2>1, FS_EmptySet, FreeFields DEF AgentAt
  <1>5. MemberAt(o)' BY FreeFields DEF MemberAt
  <1>6. CloseAt(o)' BY <1>1, FreeFields DEF CloseAt
  <1>7. LinksAt(o)' BY FreeFields DEF LinksAt
  <1> QED BY <1>2, <1>3, <1>4, <1>5, <1>6, <1>7 DEF ObjAt

\* The links, when the entries do not change: o keeps its entry, or has none.
LEMMA LinkKept ==
    ASSUME NEW t \in Threads, NEW o \in Objs, Focus(t, o), LinkInv, \A p \in Objs : ObjAt(p),
           UNCHANGED entry, LinksAt(o)',
           \/ /\ obj'[o].parent = obj[o].parent /\ obj'[o].temporary = obj[o].temporary
              /\ obj'[o].active => obj[o].active
              /\ Parted(o)' <=> Parted(o)
           \/ /\ obj'[o].parent = None
              /\ \A e \in Tags : entry[e].type = "DIRECTORY" => entry[e].obj # o
    PROVE  LinkInv'
  <1>1. \A p \in Objs \ {o} : obj'[p] = obj[p] /\ (Parted(p)' <=> Parted(p))
    BY Elsewhere DEF Focus, Only
  <1>2. ListedInv' BY <1>1 DEF LinkInv, ListedInv
  <1>3. ParentInv'
    <2> SUFFICES ASSUME NEW e \in Tags, NEW p \in Objs, obj'[p].parent = e, ~Parted(p)'
                 PROVE  \/ entry[e].type = "DIRECTORY" /\ entry[e].obj = p
                        \/ entry[e].type = "INVALID" /\ ~obj'[p].active
      BY DEF ParentInv
    <2>1. CASE p = o
      <3>1. obj[o].parent = e /\ ~Parted(o) /\ (obj'[o].active => obj[o].active)
        BY <2>1, DirectoryAssumption
      <3> QED BY <2>1, <3>1 DEF LinkInv, ParentInv
    <2>2. CASE p # o BY <1>1, <2>2 DEF LinkInv, ParentInv
    <2> QED BY <2>1, <2>2
  <1>4. ParentUnique'
    <2> SUFFICES ASSUME NEW p \in Objs, NEW q \in Objs, obj'[p].parent # None, obj'[p].parent = obj'[q].parent, p # q
                 PROVE  Parted(p)' \/ Parted(q)'
      BY DEF ParentUnique
    <2>1. obj[p].parent # None /\ obj[p].parent = obj[q].parent BY <1>1
    <2>2. Parted(p) \/ Parted(q) BY <2>1 DEF LinkInv, ParentUnique
    <2> QED BY <1>1, <2>2
  <1>5. \A p \in Objs : LinksAt(p)'
    <2>1. \A p \in Objs \ {o} : LinksAt(p)' BY <1>1 DEF LinkInv, LinksAt
    <2> QED BY <2>1
  <1> QED BY <1>2, <1>3, <1>4, <1>5 DEF LinkInv

\* A step that leaves the directory alone.
LEMMA FocusStep ==
    ASSUME IInv, NEW t \in Threads, NEW o \in Objs, Focus(t, o),
           UNCHANGED <<entry, entry_count, sleepers>>,
           pc[t] # "broadcast", pc[t] = "asleep" => t \notin sleepers, \A u \in Threads \ {t} : my'[u] = my[u],
           TypeOK', RefExact', PlaceInv', ObjAt(o)', LinksAt(o)',
           \/ /\ obj'[o].parent = obj[o].parent /\ obj'[o].temporary = obj[o].temporary
              /\ obj'[o].active => obj[o].active
              /\ Parted(o)' <=> Parted(o)
           \/ /\ obj'[o].parent = None
              /\ \A e \in Tags : entry[e].type = "DIRECTORY" => entry[e].obj # o
    PROVE  IInv'
  <1>1. LinkInv' BY LinkKept DEF IInv
  <1>2. \A p \in Objs : ObjAt(p)' BY Elsewhere DEF IInv
  <1>3. EntryInv' /\ CountInv' BY DEF IInv, EntryInv, CountInv
  <1>4. NoLostSleeper'
    <2>1. NoLostSleeper /\ \A u \in sleepers : u # t BY DEF IInv, PlaceInv
    <2>2. sleepers \subseteq Threads BY DEF IInv, TypeOK
    <2>3. \A u \in Threads : pc[u] = "broadcast" => pc'[u] = "broadcast" BY DEF Focus
    <2> QED BY <2>1, <2>2, <2>3, SleepersKept
  <1> QED BY <1>1, <1>2, <1>3, <1>4 DEF IInv

\* The parts of the invariant, as the steps below need them.
LEMMA Parts ==
    ASSUME IInv
    PROVE  /\ TypeOK /\ RefExact /\ PlaceInv /\ LinkInv
           /\ obj \in [Objs -> ObjType] /\ None \notin Objs /\ sleepers \subseteq Threads
           /\ \A o \in Objs : LifeAt(o) /\ AgentAt(o) /\ MemberAt(o) /\ CloseAt(o) /\ LinksAt(o)
  BY DirectoryAssumption DEF IInv, ObjAt, LinkInv, TypeOK, ObjType

\* Whoever has an object that is installed, and leaves it alive.
LEMMA LifeKept ==
    ASSUME NEW t \in Threads, NEW o \in Objs, LifeAt(o), pc[t] # "install", pc'[t] # "install",
           held[t] = o \/ tgrp[t] = o \/ my[t].obj = o,
           \A u \in Threads \ {t} : pc'[u] = pc[u] /\ my'[u].obj = my[u].obj,
           obj'[o].refs # 0,
           obj'[o].active => obj[o].active /\ obj'[o].temporary = obj[o].temporary
    PROVE  LifeAt(o)'
  <1>1. \A u \in Threads : ~(pc[u] = "install" /\ my[u].obj = o) BY DEF LifeAt
  <1>2. \A u \in Threads : ~(pc'[u] = "install" /\ my'[u].obj = o) BY <1>1
  <1>3. obj[o].active => obj[o].temporary BY DEF LifeAt
  <1> QED BY <1>2, <1>3 DEF LifeAt

\* An object somebody has is not freed.
LEMMA AliveStep ==
    ASSUME IInv, NEW t \in Threads, NEW o \in Objs, held[t] = o \/ tgrp[t] = o \/ my[t].obj = o
    PROVE  obj[o].refs \in Nat /\ obj[o].refs > 0
  <1>3. Has(t, o) # 0 BY DEF Has, One
  <1>4. One(obj[o].temporary) \in Nat BY DEF One
  <1> QED BY <1>3, <1>4, Enough DEF IInv

\* register_agent.
LEMMA Registered ==
    ASSUME NEW x \in ObjType, NEW y, y = [x EXCEPT !.agents = x.agents + 1, !.used = TRUE]
    PROVE  /\ y \in ObjType /\ y.refs = x.refs /\ y.leaks = x.leaks /\ y.temporary = x.temporary
           /\ y.active = x.active /\ y.used /\ y.agents = x.agents + 1 /\ y.members = x.members
           /\ y.parent = x.parent /\ y.links = x.links
  <1> DEFINE z == [x EXCEPT !.agents = x.agents + 1]
  <1>1. z \in ObjType BY DEF ObjType
  <1>2. y = [z EXCEPT !.used = TRUE] BY DEF ObjType
  <1>3. /\ z.refs = x.refs /\ z.leaks = x.leaks /\ z.temporary = x.temporary /\ z.active = x.active
        /\ z.agents = x.agents + 1 /\ z.members = x.members /\ z.parent = x.parent /\ z.links = x.links
    BY DEF ObjType
  <1> HIDE DEF z
  <1>4. y \in ObjType BY <1>1, <1>2 DEF ObjType
  <1>5. /\ y.refs = z.refs /\ y.leaks = z.leaks /\ y.temporary = z.temporary /\ y.active = z.active
        /\ y.used /\ y.agents = z.agents /\ y.members = z.members /\ y.parent = z.parent /\ y.links = z.links
    BY <1>1, <1>2 DEF ObjType
  <1> QED BY <1>3, <1>4, <1>5

\* The reference becomes the agent's.
LEMMA NewAgentStep ==
    ASSUME IInv, NEW t \in Threads, NewAgent(t)
    PROVE  IInv'
  <1>0. PICK o \in Objs : my[t].obj = o BY Parts DEF NewAgent, PlaceInv
  <1>1. /\ TypeOK /\ RefExact /\ PlaceInv /\ LinkInv /\ obj \in [Objs -> ObjType] /\ None \notin Objs
        /\ LifeAt(o) /\ AgentAt(o) /\ MemberAt(o) /\ CloseAt(o) /\ LinksAt(o)
        /\ held[t] = None /\ pc[t] = "have" /\ sleepers \subseteq Threads
    BY Parts DEF NewAgent, PlaceInv
  <1>2. /\ obj' = [obj EXCEPT ![o].agents = @ + 1, ![o].used = TRUE]
        /\ held' = [held EXCEPT ![t] = o] /\ my' = [my EXCEPT ![t] = Nothing]
        /\ pc' = [pc EXCEPT ![t] = "idle"]
        /\ UNCHANGED <<lock, entry, entry_count, sleepers, tgrp, events, late>>
    BY <1>0 DEF NewAgent, Goto
  <1>3. /\ held' \in [Threads -> Objs \cup {None}] /\ held'[t] = o
        /\ my'[t] = Nothing /\ my[t].obj = o /\ my'[t].obj = None /\ pc'[t] = "idle"
        /\ \A u \in Threads \ {t} : held'[u] = held[u] /\ my'[u] = my[u] /\ pc'[u] = pc[u]
    BY <1>0, <1>1, <1>2 DEF TypeOK, Nothing
  <1>4. /\ \A p \in Objs \ {o} : obj'[p] = obj[p]
        /\ obj'[o] = [obj[o] EXCEPT !.agents = obj[o].agents + 1, !.used = TRUE]
    BY <1>1, <1>2
  <1>5. /\ obj'[o] \in ObjType /\ obj'[o].refs = obj[o].refs /\ obj'[o].leaks = obj[o].leaks
        /\ obj'[o].temporary = obj[o].temporary /\ obj'[o].active = obj[o].active
        /\ obj'[o].used /\ obj'[o].agents = obj[o].agents + 1 /\ obj'[o].members = obj[o].members
        /\ obj'[o].parent = obj[o].parent /\ obj'[o].links = obj[o].links
    <2>1. obj[o] \in ObjType BY <1>1
    <2> QED BY <2>1, <1>4, Registered
  <1>6. obj' \in [Objs -> ObjType] BY <1>1, <1>2, <1>4, <1>5
  <1>7. TypeOK' BY <1>1, <1>2, <1>6 DEF TypeOK, ObjType, Nothing
  <1>8. PlaceInv' BY <1>1, <1>2, <1>3 DEF PlaceInv
  <1>9. Focus(t, o) BY <1>1, <1>2, <1>3, <1>4 DEF Focus, Only, Alone
  <1>10. RefExact'
    <2>1. Has(t, o) = Has(t, o)' BY <1>1, <1>2, <1>3 DEF Has, One
    <2>2. Has(t, o) \in Nat BY DEF Has, One
    <2>3. Only(t, o) BY <1>9 DEF Focus
    <2> QED BY <1>1, <1>5, <1>6, <2>1, <2>2, <2>3, RefStep DEF ObjType
  <1>11. \A u \in Threads : Closes(u, o)' <=> Closes(u, o) BY <1>1, <1>2, <1>3 DEF Closes
  <1>12. Parted(o)' <=> Parted(o) BY <1>1, <1>3, <1>11 DEF Parted, Closes
  <1>13. LifeAt(o)'
    <2>1. obj'[o].refs # 0 BY <1>0, <1>5, AliveStep
    <2> QED BY <1>0, <1>1, <1>3, <1>5, <2>1, LifeKept
  <1>14. AgentAt(o)'
    <2>1. t \in Agents(o)' /\ t \notin Agents(o) BY <1>1, <1>3 DEF Agents
    <2> QED BY <1>1, <1>3, <1>5, <2>1, AgentsMove DEF AgentAt
  <1>15. MemberAt(o)' BY <1>1, <1>2, <1>3, <1>5 DEF MemberAt
  <1>16. CloseAt(o)' BY <1>1, <1>2, <1>5, <1>11 DEF CloseAt, ObjType
  <1>17. LinksAt(o)' BY <1>1, <1>5 DEF LinksAt
  <1> QED BY <1>1, <1>2, <1>3, <1>5, <1>7, <1>8, <1>9, <1>10, <1>12, <1>13, <1>14, <1>15, <1>16, <1>17, FocusStep DEF ObjAt

\* What entering and leaving a group, and an event to it, leave alone.
Like(y, x) == /\ y \in ObjType /\ y.temporary = x.temporary /\ y.active = x.active /\ y.agents = x.agents
              /\ y.parent = x.parent /\ y.links = x.links

\* A member enters, is in or leaves.
LEMMA MemberSet ==
    ASSUME NEW x \in ObjType, NEW t \in Threads, NEW v \in {"OUT", "RESERVED", "IN"},
           NEW y, y = [x EXCEPT !.members = [x.members EXCEPT ![t] = v]]
    PROVE  /\ Like(y, x) /\ y.refs = x.refs /\ y.leaks = x.leaks /\ y.used = x.used
           /\ y.members[t] = v /\ \A u \in Threads \ {t} : y.members[u] = x.members[u]
  <1>1. x.members \in [Threads -> {"OUT", "RESERVED", "IN"}] BY DEF ObjType
  <1>2. y \in ObjType BY <1>1 DEF ObjType
  <1>3. /\ y.temporary = x.temporary /\ y.active = x.active /\ y.agents = x.agents
        /\ y.parent = x.parent /\ y.links = x.links /\ y.refs = x.refs /\ y.leaks = x.leaks
        /\ y.used = x.used /\ y.members = [x.members EXCEPT ![t] = v]
    BY DEF ObjType
  <1> QED BY <1>1, <1>2, <1>3 DEF Like

\* The history variable is set.
LEMMA MarkUsed ==
    ASSUME NEW x \in ObjType, NEW y, y = [x EXCEPT !.used = TRUE]
    PROVE  Like(y, x) /\ y.refs = x.refs /\ y.leaks = x.leaks /\ y.members = x.members
  BY DEF Like, ObjType

\* One more reference.
LEMMA MoreRefs ==
    ASSUME NEW x \in ObjType, NEW y, y = [x EXCEPT !.refs = x.refs + 1]
    PROVE  Like(y, x) /\ y.refs = x.refs + 1 /\ y.leaks = x.leaks /\ y.members = x.members /\ y.used = x.used
  BY DEF Like, ObjType

\* A reference is left behind by an event.
LEMMA MoreLeaks ==
    ASSUME NEW x \in ObjType, NEW b \in BOOLEAN, NEW y, y = [x EXCEPT !.leaks = x.leaks + 1, !.stuck = b]
    PROVE  Like(y, x) /\ y.refs = x.refs /\ y.leaks = x.leaks + 1 /\ y.members = x.members /\ y.used = x.used
  <1> DEFINE z == [x EXCEPT !.leaks = x.leaks + 1]
  <1>1. Like(z, x) /\ z.refs = x.refs /\ z.leaks = x.leaks + 1 /\ z.members = x.members /\ z.used = x.used
    BY DEF Like, ObjType
  <1>2. y = [z EXCEPT !.stuck = b] OBVIOUS
  <1> HIDE DEF z
  <1>3. Like(y, z) /\ y.refs = z.refs /\ y.leaks = z.leaks /\ y.members = z.members /\ y.used = z.used
    BY <1>1, <1>2 DEF Like, ObjType
  <1> QED BY <1>1, <1>3 DEF Like

\* A step of a thread that has the object, in which no agent comes or goes.
LEMMA MemberStep ==
    ASSUME IInv, NEW t \in Threads, NEW o \in Objs, Focus(t, o),
           held[t] = o \/ tgrp[t] = o \/ my[t].obj = o,
           {pc[t], pc'[t]} \subseteq {"have", "idle", "entering", "tidy"},
           UNCHANGED <<lock, entry, entry_count, sleepers, held>>,
           \A u \in Threads \ {t} : my'[u] = my[u],
           Like(obj'[o], obj[o]), obj'[o].refs # 0,
           TypeOK', RefExact', PlaceInv', MemberAt(o)',
           obj'[o].used /\ obj[o].active => \/ obj[o].agents > 0
                                            \/ \E u \in Threads : obj'[o].members[u] # "OUT"
                                            \/ \E u \in Threads : pc'[u] = "tidy" /\ tgrp'[u] = o
    PROVE  IInv'
  <1>1. LifeAt(o) /\ AgentAt(o) /\ CloseAt(o) /\ LinksAt(o) BY Parts
  <1>2. /\ obj'[o].temporary = obj[o].temporary /\ obj'[o].active = obj[o].active
        /\ obj'[o].agents = obj[o].agents /\ obj'[o].parent = obj[o].parent /\ obj'[o].links = obj[o].links
    BY DEF Like
  <1>3. /\ \A u \in Threads \ {t} : pc'[u] = pc[u] /\ tgrp'[u] = tgrp[u]
        /\ pc[t] \notin {"unlink", "unlinked", "unlink agent", "unlinked agent", "install", "asleep", "broadcast"}
        /\ pc'[t] \notin {"unlink", "unlinked", "unlink agent", "unlinked agent", "install", "asleep", "broadcast"}
    BY DEF Focus, Only, Alone
  <1>4. \A u \in Threads : Closes(u, o)' <=> Closes(u, o) BY <1>3 DEF Closes
  <1>5. Parted(o)' <=> Parted(o) BY <1>3, <1>4 DEF Parted
  <1>6. LifeAt(o)' BY <1>1, <1>2, <1>3, LifeKept
  <1>7. AgentAt(o)'
    <2>1. Agents(o)' = Agents(o) BY <1>3 DEF Agents
    <2> QED BY <1>1, <1>2, <2>1 DEF AgentAt
  <1>8. CloseAt(o)'
    <2>1. obj'[o].used /\ obj'[o].active => \/ obj'[o].agents > 0 \/ ~Empty(o)'
                                            \/ \E u \in Threads : pc'[u] = "tidy" /\ tgrp'[u] = o
      BY <1>2 DEF Empty
    <2> QED BY <1>1, <1>2, <1>4, <2>1 DEF CloseAt
  <1>9. LinksAt(o)' BY <1>1, <1>2 DEF LinksAt
  <1>10. ObjAt(o)' BY <1>6, <1>7, <1>8 DEF ObjAt
  <1> QED BY <1>2, <1>3, <1>5, <1>9, <1>10, FocusStep

\* The reference of the lookup becomes the task's.
LEMMA JoinFoundStep ==
    ASSUME IInv, NEW t \in Threads, JoinFound(t)
    PROVE  IInv'
  <1>0. PICK o \in Objs : my[t].obj = o BY Parts DEF JoinFound, PlaceInv
  <1>1. /\ TypeOK /\ RefExact /\ PlaceInv /\ obj \in [Objs -> ObjType] /\ None \notin Objs
        /\ MemberAt(o) /\ sleepers \subseteq Threads
        /\ pc[t] = "have" /\ held[t] = None /\ tgrp[t] = None
    BY Parts DEF JoinFound, Enter, PlaceInv
  <1>2. /\ obj' = [obj EXCEPT ![o].members[t] = "RESERVED", ![o].used = TRUE]
        /\ tgrp' = [tgrp EXCEPT ![t] = o] /\ my' = [my EXCEPT ![t] = Nothing]
        /\ pc' = [pc EXCEPT ![t] = "entering"]
        /\ late' = IF obj[o].active THEN late ELSE late \cup {t}
        /\ UNCHANGED <<lock, entry, entry_count, sleepers, held, events>>
    BY <1>0 DEF JoinFound, Enter, Goto
  <1>3. /\ tgrp'[t] = o /\ my'[t] = Nothing /\ my'[t].obj = None /\ pc'[t] = "entering"
        /\ \A u \in Threads \ {t} : tgrp'[u] = tgrp[u] /\ my'[u] = my[u] /\ pc'[u] = pc[u]
    BY <1>1, <1>2 DEF TypeOK, Nothing
  <1>4. /\ obj[o] \in ObjType /\ \A p \in Objs \ {o} : obj'[p] = obj[p]
        /\ obj'[o] = [obj[o] EXCEPT !.members[t] = "RESERVED", !.used = TRUE]
    BY <1>1, <1>2
  <1>5. /\ Like(obj'[o], obj[o]) /\ obj'[o].refs = obj[o].refs /\ obj'[o].leaks = obj[o].leaks
        /\ obj'[o].members[t] = "RESERVED"
        /\ \A u \in Threads \ {t} : obj'[o].members[u] = obj[o].members[u]
    <2> DEFINE z == [obj[o] EXCEPT !.members = [obj[o].members EXCEPT ![t] = "RESERVED"]]
    <2>1. /\ Like(z, obj[o]) /\ z.refs = obj[o].refs /\ z.leaks = obj[o].leaks
          /\ z.members[t] = "RESERVED" /\ \A u \in Threads \ {t} : z.members[u] = obj[o].members[u]
      BY <1>4, MemberSet
    <2>2. obj'[o] = [z EXCEPT !.used = TRUE] BY <1>4
    <2> HIDE DEF z
    <2>3. /\ Like(obj'[o], z) /\ obj'[o].refs = z.refs /\ obj'[o].leaks = z.leaks
          /\ obj'[o].members = z.members
      BY <2>1, <2>2, MarkUsed DEF Like
    <2> QED BY <2>1, <2>3 DEF Like
  <1>6. obj' \in [Objs -> ObjType] BY <1>1, <1>2, <1>4, <1>5 DEF Like
  <1>7. TypeOK' BY <1>0, <1>1, <1>2, <1>6 DEF TypeOK, ObjType, Nothing
  <1>8. PlaceInv' BY <1>1, <1>2, <1>3 DEF PlaceInv
  <1>9. Focus(t, o) BY <1>0, <1>1, <1>2, <1>3, <1>4 DEF Focus, Only, Alone
  <1>10. RefExact'
    <2>1. Has(t, o) = Has(t, o)' BY <1>0, <1>1, <1>2, <1>3 DEF Has, One
    <2>2. Has(t, o) \in Nat BY DEF Has, One
    <2>3. Only(t, o) BY <1>9 DEF Focus
    <2> QED BY <1>1, <1>5, <1>6, <2>1, <2>2, <2>3, RefStep DEF ObjType, Like
  <1>11. MemberAt(o)' BY <1>1, <1>2, <1>3, <1>5 DEF MemberAt, Like
  <1>12. obj'[o].refs # 0 BY <1>0, <1>5, AliveStep
  <1> QED BY <1>0, <1>1, <1>2, <1>3, <1>5, <1>7, <1>8, <1>9, <1>10, <1>11, <1>12, MemberStep

\* The task takes a reference of its own.
LEMMA JoinHeldStep ==
    ASSUME IInv, NEW t \in Threads, JoinHeld(t)
    PROVE  IInv'
  <1>0. PICK o \in Objs : held[t] = o BY Parts DEF JoinHeld, TypeOK
  <1>1. /\ TypeOK /\ RefExact /\ PlaceInv /\ obj \in [Objs -> ObjType] /\ None \notin Objs
        /\ MemberAt(o) /\ sleepers \subseteq Threads
        /\ pc[t] = "idle" /\ my[t].obj = None /\ tgrp[t] = None
    BY Parts DEF JoinHeld, Enter, PlaceInv
  <1>2. /\ obj' = [obj EXCEPT ![o].members[t] = "RESERVED", ![o].refs = @ + 1]
        /\ tgrp' = [tgrp EXCEPT ![t] = o] /\ pc' = [pc EXCEPT ![t] = "entering"]
        /\ late' = IF obj[o].active THEN late ELSE late \cup {t}
        /\ UNCHANGED <<lock, entry, entry_count, sleepers, my, held, events>>
    BY <1>0 DEF JoinHeld, Enter, Goto
  <1>3. /\ tgrp'[t] = o /\ pc'[t] = "entering"
        /\ \A u \in Threads \ {t} : tgrp'[u] = tgrp[u] /\ pc'[u] = pc[u]
    BY <1>1, <1>2 DEF TypeOK
  <1>4. /\ obj[o] \in ObjType /\ \A p \in Objs \ {o} : obj'[p] = obj[p]
        /\ obj'[o] = [obj[o] EXCEPT !.members[t] = "RESERVED", !.refs = @ + 1]
    BY <1>1, <1>2
  <1>5. /\ Like(obj'[o], obj[o]) /\ obj'[o].refs = obj[o].refs + 1 /\ obj'[o].leaks = obj[o].leaks
        /\ obj'[o].members[t] = "RESERVED"
        /\ \A u \in Threads \ {t} : obj'[o].members[u] = obj[o].members[u]
    <2> DEFINE z == [obj[o] EXCEPT !.members = [obj[o].members EXCEPT ![t] = "RESERVED"]]
    <2>1. /\ Like(z, obj[o]) /\ z.refs = obj[o].refs /\ z.leaks = obj[o].leaks
          /\ z.members[t] = "RESERVED" /\ \A u \in Threads \ {t} : z.members[u] = obj[o].members[u]
      BY <1>4, MemberSet
    <2>2. obj'[o] = [z EXCEPT !.refs = z.refs + 1] BY <1>4
    <2> HIDE DEF z
    <2>3. /\ Like(obj'[o], z) /\ obj'[o].refs = z.refs + 1 /\ obj'[o].leaks = z.leaks
          /\ obj'[o].members = z.members
      BY <2>1, <2>2, MoreRefs DEF Like
    <2> QED BY <2>1, <2>3 DEF Like
  <1>6. obj' \in [Objs -> ObjType] BY <1>1, <1>2, <1>4, <1>5 DEF Like
  <1>7. TypeOK' BY <1>0, <1>1, <1>2, <1>6 DEF TypeOK, ObjType
  <1>8. PlaceInv' BY <1>0, <1>1, <1>2, <1>3 DEF PlaceInv
  <1>9. Focus(t, o) BY <1>0, <1>1, <1>2, <1>3, <1>4 DEF Focus, Only, Alone
  <1>10. RefExact'
    <2>1. Has(t, o)' = Has(t, o) + 1 BY <1>0, <1>1, <1>2, <1>3 DEF Has, One
    <2>2. Has(t, o) \in Nat BY DEF Has, One
    <2>3. Only(t, o) BY <1>9 DEF Focus
    <2>4. One(obj[o].temporary) \in Nat /\ obj'[o].temporary = obj[o].temporary BY <1>5 DEF One, Like
    <2>5. obj[o].refs \in Nat /\ obj[o].leaks \in Nat BY <1>4 DEF ObjType
    <2>6. obj'[o].refs + Has(t, o) + obj[o].leaks + One(obj[o].temporary)
             = obj[o].refs + Has(t, o)' + obj'[o].leaks + One(obj'[o].temporary)
      BY <1>5, <2>1, <2>2, <2>4, <2>5
    <2> QED BY <1>1, <1>6, <2>3, <2>6, RefStep
  <1>11. MemberAt(o)' BY <1>1, <1>2, <1>3, <1>5 DEF MemberAt, Like
  <1>12. obj'[o].refs # 0 BY <1>4, <1>5 DEF ObjType
  <1> QED BY <1>0, <1>1, <1>2, <1>3, <1>5, <1>7, <1>8, <1>9, <1>10, <1>11, <1>12, MemberStep

\* The task's entry in the group is installed.
LEMMA EnteredStep ==
    ASSUME IInv, NEW t \in Threads, Entered(t)
    PROVE  IInv'
  <1>0. PICK o \in Objs : tgrp[t] = o BY Parts DEF Entered, PlaceInv
  <1>1. /\ TypeOK /\ RefExact /\ PlaceInv /\ obj \in [Objs -> ObjType] /\ None \notin Objs
        /\ MemberAt(o) /\ sleepers \subseteq Threads /\ pc[t] = "entering" /\ my[t].obj = None
    BY Parts DEF Entered, PlaceInv
  <1>2. /\ obj' = [obj EXCEPT ![o].members[t] = "IN"] /\ pc' = [pc EXCEPT ![t] = "idle"]
        /\ UNCHANGED <<lock, entry, entry_count, sleepers, my, tgrp, held, events, late>>
    BY <1>0 DEF Entered, Goto
  <1>3. pc'[t] = "idle" /\ \A u \in Threads \ {t} : pc'[u] = pc[u] BY <1>1, <1>2 DEF TypeOK
  <1>4. /\ obj[o] \in ObjType /\ \A p \in Objs \ {o} : obj'[p] = obj[p]
        /\ obj'[o] = [obj[o] EXCEPT !.members = [obj[o].members EXCEPT ![t] = "IN"]]
    BY <1>1, <1>2
  <1>5. /\ Like(obj'[o], obj[o]) /\ obj'[o].refs = obj[o].refs /\ obj'[o].leaks = obj[o].leaks
        /\ obj'[o].members[t] = "IN"
        /\ \A u \in Threads \ {t} : obj'[o].members[u] = obj[o].members[u]
    BY <1>4, MemberSet
  <1>6. obj' \in [Objs -> ObjType] BY <1>1, <1>2, <1>4, <1>5 DEF Like
  <1>7. TypeOK' BY <1>1, <1>2, <1>6 DEF TypeOK, ObjType
  <1>8. PlaceInv' BY <1>1, <1>2, <1>3 DEF PlaceInv
  <1>9. Focus(t, o) BY <1>0, <1>1, <1>2, <1>3, <1>4 DEF Focus, Only, Alone
  <1>10. RefExact' BY <1>1, <1>2, <1>4, <1>5, RefSame DEF Like
  <1>11. MemberAt(o)' BY <1>0, <1>1, <1>2, <1>3, <1>5 DEF MemberAt, Like
  <1>12. obj'[o].refs # 0 BY <1>0, <1>5, AliveStep
  <1> QED BY <1>0, <1>1, <1>2, <1>3, <1>5, <1>7, <1>8, <1>9, <1>10, <1>11, <1>12, MemberStep

\* The task leaves, and has still to tidy.
LEMMA LeaveStep ==
    ASSUME IInv, NEW t \in Threads, Leave(t)
    PROVE  IInv'
  <1>0. PICK o \in Objs : tgrp[t] = o BY Parts DEF Leave, TypeOK
  <1>1. /\ TypeOK /\ RefExact /\ PlaceInv /\ obj \in [Objs -> ObjType] /\ None \notin Objs
        /\ MemberAt(o) /\ sleepers \subseteq Threads /\ pc[t] = "idle" /\ my[t].obj = None
    BY Parts DEF Leave, PlaceInv
  <1>2. /\ obj' = [obj EXCEPT ![o].members[t] = "OUT"] /\ pc' = [pc EXCEPT ![t] = "tidy"]
        /\ late' = late \ {t}
        /\ UNCHANGED <<lock, entry, entry_count, sleepers, my, tgrp, held, events>>
    BY <1>0 DEF Leave, Goto
  <1>3. pc'[t] = "tidy" /\ \A u \in Threads \ {t} : pc'[u] = pc[u] BY <1>1, <1>2 DEF TypeOK
  <1>4. /\ obj[o] \in ObjType /\ \A p \in Objs \ {o} : obj'[p] = obj[p]
        /\ obj'[o] = [obj[o] EXCEPT !.members = [obj[o].members EXCEPT ![t] = "OUT"]]
    BY <1>1, <1>2
  <1>5. /\ Like(obj'[o], obj[o]) /\ obj'[o].refs = obj[o].refs /\ obj'[o].leaks = obj[o].leaks
        /\ obj'[o].members[t] = "OUT"
        /\ \A u \in Threads \ {t} : obj'[o].members[u] = obj[o].members[u]
    BY <1>4, MemberSet
  <1>6. obj' \in [Objs -> ObjType] BY <1>1, <1>2, <1>4, <1>5 DEF Like
  <1>7. TypeOK' BY <1>1, <1>2, <1>6 DEF TypeOK, ObjType
  <1>8. PlaceInv' BY <1>0, <1>1, <1>2, <1>3 DEF PlaceInv
  <1>9. Focus(t, o) BY <1>0, <1>1, <1>2, <1>3, <1>4 DEF Focus, Only, Alone
  <1>10. RefExact' BY <1>1, <1>2, <1>4, <1>5, RefSame DEF Like
  <1>11. MemberAt(o)' BY <1>0, <1>1, <1>2, <1>3, <1>5 DEF MemberAt, Like
  <1>12. obj'[o].refs # 0 BY <1>0, <1>5, AliveStep
  <1> QED BY <1>0, <1>1, <1>2, <1>3, <1>5, <1>7, <1>8, <1>9, <1>10, <1>11, <1>12, MemberStep

\* An event leaves a reference behind.
LEMMA EventStep ==
    ASSUME IInv, NEW t \in Threads, Event(t)
    PROVE  IInv'
  <1>0. PICK o \in Objs : held[t] = o BY Parts DEF Event, TypeOK
  <1> DEFINE b == \E u \in Threads : obj[o].members[u] = "RESERVED"
  <1>1. /\ TypeOK /\ RefExact /\ PlaceInv /\ obj \in [Objs -> ObjType] /\ None \notin Objs
        /\ MemberAt(o) /\ CloseAt(o) /\ sleepers \subseteq Threads /\ pc[t] = "idle" /\ my[t].obj = None
    BY Parts DEF Event, PlaceInv
  <1>2. /\ obj' = [obj EXCEPT ![o].refs = @ + 1, ![o].leaks = @ + 1, ![o].stuck = b]
        /\ events < MaxEvents /\ events' = events + 1
        /\ UNCHANGED <<lock, entry, entry_count, sleepers, pc, my, tgrp, held, late>>
    BY <1>0 DEF Event
  <1>3. b \in BOOLEAN OBVIOUS
  <1> HIDE DEF b
  <1>4. /\ obj[o] \in ObjType /\ \A p \in Objs \ {o} : obj'[p] = obj[p]
        /\ obj'[o] = [obj[o] EXCEPT !.refs = @ + 1, !.leaks = @ + 1, !.stuck = b]
    BY <1>1, <1>2
  <1>5. /\ Like(obj'[o], obj[o]) /\ obj'[o].refs = obj[o].refs + 1 /\ obj'[o].leaks = obj[o].leaks + 1
        /\ obj'[o].members = obj[o].members /\ obj'[o].used = obj[o].used
    <2> DEFINE z == [obj[o] EXCEPT !.refs = obj[o].refs + 1]
    <2>1. /\ Like(z, obj[o]) /\ z.refs = obj[o].refs + 1 /\ z.leaks = obj[o].leaks
          /\ z.members = obj[o].members /\ z.used = obj[o].used
      BY <1>4, MoreRefs
    <2>2. obj'[o] = [z EXCEPT !.leaks = z.leaks + 1, !.stuck = b] BY <1>4
    <2> HIDE DEF z
    <2>3. /\ Like(obj'[o], z) /\ obj'[o].refs = z.refs /\ obj'[o].leaks = z.leaks + 1
          /\ obj'[o].members = z.members /\ obj'[o].used = z.used
      <3>1. z \in ObjType BY <2>1 DEF Like
      <3> QED BY <1>3, <2>2, <3>1, MoreLeaks
    <2> QED BY <2>1, <2>3 DEF Like
  <1>6. obj' \in [Objs -> ObjType] BY <1>1, <1>2, <1>4, <1>5 DEF Like
  <1>7. TypeOK'
    <2>0. events \in 0..MaxEvents BY <1>1 DEF TypeOK
    <2>1. events' \in 0..MaxEvents BY <1>2, <2>0, GroupsAssumption
    <2> QED BY <1>1, <1>2, <1>6, <2>1 DEF TypeOK, ObjType
  <1>8. PlaceInv' BY <1>1, <1>2 DEF PlaceInv
  <1>9. Focus(t, o) BY <1>0, <1>1, <1>2, <1>4 DEF Focus, Only, Alone
  <1>10. RefExact'
    <2>1. Has(t, o)' = Has(t, o) BY <1>2 DEF Has, One
    <2>2. Has(t, o) \in Nat BY DEF Has, One
    <2>3. Only(t, o) BY <1>9 DEF Focus
    <2>4. One(obj[o].temporary) \in Nat /\ obj'[o].temporary = obj[o].temporary BY <1>5 DEF One, Like
    <2>5. obj[o].refs \in Nat /\ obj[o].leaks \in Nat BY <1>4 DEF ObjType
    <2>6. obj'[o].refs + Has(t, o) + obj[o].leaks + One(obj[o].temporary)
             = obj[o].refs + Has(t, o)' + obj'[o].leaks + One(obj'[o].temporary)
      BY <1>5, <2>1, <2>2, <2>4, <2>5
    <2> QED BY <1>1, <1>6, <2>3, <2>6, RefStep
  <1>11. MemberAt(o)' BY <1>1, <1>2, <1>5 DEF MemberAt, Like
  <1>12. obj'[o].refs # 0 BY <1>4, <1>5 DEF ObjType
  <1>13. obj'[o].used /\ obj[o].active =>
            \/ obj[o].agents > 0
            \/ \E u \in Threads : obj'[o].members[u] # "OUT"
            \/ \E u \in Threads : pc'[u] = "tidy" /\ tgrp'[u] = o
    BY <1>1, <1>2, <1>5 DEF CloseAt, Empty
  <1> QED BY <1>0, <1>1, <1>2, <1>5, <1>7, <1>8, <1>9, <1>10, <1>11, <1>12, <1>13, MemberStep

-----------------------------------------------------------------------------
(* Steps that drop a reference.                                            *)

\* The members' tasks are those of the group, before and after.
SameMember(t, o) ==
    tgrp'[t] = o /\ pc'[t] \notin {"tidy", "unlink", "unlinked"}
        <=> tgrp[t] = o /\ pc[t] \notin {"tidy", "unlink", "unlinked"}

\* The registered agents, when t is one or ceases to be.
AgentsGo(t, o, x) ==
    \/ (t \in Agents(o)' <=> t \in Agents(o)) /\ x.agents = obj[o].agents
    \/ t \in Agents(o) /\ t \notin Agents(o)' /\ x.agents = obj[o].agents - 1

\* What both ways of dropping a reference share.
LEMMA DropParts ==
    ASSUME IInv, NEW t \in Threads, NEW o \in Objs, NEW x \in ObjType, Focus(t, o), UNCHANGED late,
           x.members = obj[o].members, AgentsGo(t, o, x), SameMember(t, o),
           obj'[o].agents = x.agents, obj'[o].members = x.members,
           \A u \in Threads : obj[o].members[u] # "OUT" /\ u \notin late => obj'[o].active
    PROVE  AgentAt(o)' /\ MemberAt(o)'
  <1>1. AgentAt(o) /\ MemberAt(o) BY Parts
  <1>2. \A u \in Threads \ {t} : held'[u] = held[u] /\ pc'[u] = pc[u] /\ tgrp'[u] = tgrp[u]
    BY DEF Focus, Only, Alone
  <1>3. AgentAt(o)' BY <1>1, <1>2, AgentsMove DEF AgentAt, AgentsGo
  <1>4. MemberAt(o)' BY <1>1, <1>2 DEF MemberAt, SameMember
  <1> QED BY <1>3, <1>4

\* The object stays as it is, or is freed.
LEMMA DropKeep ==
    ASSUME IInv, NEW t \in Threads, NEW o \in Objs, NEW x \in ObjType, Focus(t, o),
           UNCHANGED <<lock, entry, entry_count, sleepers, late>>, \A u \in Threads \ {t} : my'[u] = my[u],
           {pc[t], pc'[t]} \subseteq {"have", "idle", "tidy"},
           obj' = [obj EXCEPT ![o] = Deref(x, 1)], Has(t, o) = Has(t, o)' + 1,
           x.refs = obj[o].refs, x.leaks = obj[o].leaks, x.temporary = obj[o].temporary,
           x.active = obj[o].active, x.members = obj[o].members, x.used = obj[o].used,
           x.parent = obj[o].parent, x.links = obj[o].links,
           AgentsGo(t, o, x), SameMember(t, o),
           x.used /\ x.active => \/ x.agents > 0 \/ \E u \in Threads : x.members[u] # "OUT"
                                 \/ \E u \in Threads : pc'[u] = "tidy" /\ tgrp'[u] = o,
           obj' \in [Objs -> ObjType] => TypeOK', PlaceInv'
    PROVE  IInv'
  <1>1. /\ TypeOK /\ RefExact /\ LinkInv /\ LifeAt(o) /\ AgentAt(o) /\ MemberAt(o) /\ CloseAt(o) /\ LinksAt(o)
    BY Parts
  <1>2. /\ obj' \in [Objs -> ObjType] /\ RefExact'
        /\ \/ /\ obj'[o] = FreeObj /\ ~x.temporary
              /\ \A u \in Threads : held'[u] # o /\ tgrp'[u] # o /\ my'[u].obj # o
           \/ /\ obj'[o] = [x EXCEPT !.refs = @ - 1] /\ obj'[o].refs # 0
    BY <1>1, Released DEF Focus
  <1>3. CASE /\ obj'[o] = FreeObj /\ ~x.temporary
             /\ \A u \in Threads : held'[u] # o /\ tgrp'[u] # o /\ my'[u].obj # o
    <2>1. ObjAt(o)' /\ LinksAt(o)' BY <1>3, Freed
    <2>2. obj'[o].parent = None BY <1>3, FreeFields
    <2>3. \A e \in Tags : entry[e].type = "DIRECTORY" => entry[e].obj # o
      BY <1>1, <1>3 DEF LinkInv, ListedInv
    <2> QED BY <1>2, <2>1, <2>2, <2>3, FocusStep
  <1>4. CASE obj'[o] = [x EXCEPT !.refs = @ - 1] /\ obj'[o].refs # 0
    <2>1. /\ obj'[o].temporary = x.temporary /\ obj'[o].active = x.active /\ obj'[o].members = x.members
          /\ obj'[o].used = x.used /\ obj'[o].parent = x.parent /\ obj'[o].links = x.links
          /\ obj'[o].agents = x.agents
      BY <1>4 DEF ObjType
    <2>2. AgentAt(o)' /\ MemberAt(o)'
      <3>1. \A u \in Threads : obj[o].members[u] # "OUT" /\ u \notin late => obj'[o].active
        BY <1>1, <2>1 DEF MemberAt
      <3> QED BY <2>1, <3>1, DropParts
    <2>3. /\ \A u \in Threads \ {t} : pc'[u] = pc[u] /\ tgrp'[u] = tgrp[u] /\ held'[u] = held[u]
                                      /\ my'[u].obj = my[u].obj
          /\ pc[t] \notin {"unlink", "unlinked", "unlink agent", "unlinked agent", "install"}
          /\ pc'[t] \notin {"unlink", "unlinked", "unlink agent", "unlinked agent", "install"}
      BY DEF Focus, Only, Alone
    <2>4. \A u \in Threads : Closes(u, o)' <=> Closes(u, o) BY <2>3 DEF Closes
    <2>5. Parted(o)' <=> Parted(o) BY <2>3, <2>4 DEF Parted
    <2>6. LifeAt(o)'
      <3>1. Has(t, o)' \in Nat BY DEF Has, One
      <3>2. Has(t, o) # 0 BY <3>1
      <3>3. held[t] = o \/ tgrp[t] = o \/ my[t].obj = o BY <3>2 DEF Has, One
      <3> QED BY <1>1, <1>4, <2>1, <2>3, <3>3, LifeKept
    <2>7. CloseAt(o)'
      <3>1. Empty(o)' <=> \A u \in Threads : x.members[u] = "OUT" BY <2>1 DEF Empty
      <3> QED BY <1>1, <2>1, <2>4, <3>1 DEF CloseAt
    <2>8. LinksAt(o)' BY <1>1, <2>1 DEF LinksAt
    <2>9. ObjAt(o)' BY <2>2, <2>6, <2>7 DEF ObjAt
    <2> QED BY <1>2, <2>1, <2>5, <2>8, <2>9, FocusStep
  <1> QED BY <1>2, <1>3, <1>4

\* Object o was temporary, and is no more.
Over(o, x) == obj[o].temporary /\ ~x.temporary /\ ~x.active /\ x.parent = None /\ x.links = 0

\* The object ends being temporary, and is freed unless somebody else has it.
LEMMA DropFinish ==
    ASSUME IInv, NEW t \in Threads, NEW o \in Objs, NEW x \in ObjType, Focus(t, o),
           UNCHANGED <<lock, entry, entry_count, sleepers, late>>, \A u \in Threads \ {t} : my'[u] = my[u],
           pc[t] \notin {"asleep", "broadcast", "install"}, pc'[t] = "idle",
           obj' = [obj EXCEPT ![o] = Deref(x, 2)], Has(t, o) = Has(t, o)' + 1,
           Over(o, x), x.refs = obj[o].refs, x.leaks = obj[o].leaks, x.members = obj[o].members,
           AgentsGo(t, o, x), SameMember(t, o),
           \A u \in Threads : obj[o].members[u] # "OUT" => u \in late,
           \A u \in Threads \ {t} : ~Closes(u, o),
           \A e \in Tags : entry[e].type = "DIRECTORY" => entry[e].obj # o,
           obj' \in [Objs -> ObjType] => TypeOK', PlaceInv'
    PROVE  IInv'
  <1>1. /\ TypeOK /\ RefExact /\ LifeAt(o) /\ AgentAt(o) /\ MemberAt(o) BY Parts
  <1>2. /\ obj' \in [Objs -> ObjType] /\ RefExact'
        /\ \/ /\ obj'[o] = FreeObj /\ ~x.temporary
              /\ \A u \in Threads : held'[u] # o /\ tgrp'[u] # o /\ my'[u].obj # o
           \/ /\ obj'[o] = [x EXCEPT !.refs = @ - 2] /\ obj'[o].refs # 0
    <2>1. 2 + One(x.temporary) = 1 + One(obj[o].temporary) BY DEF One, Over
    <2> QED BY <1>1, <2>1, Released DEF Focus
  <1>3. CASE /\ obj'[o] = FreeObj
             /\ \A u \in Threads : held'[u] # o /\ tgrp'[u] # o /\ my'[u].obj # o
    <2>1. ObjAt(o)' /\ LinksAt(o)' BY <1>3, Freed
    <2>2. obj'[o].parent = None BY <1>3, FreeFields
    <2> QED BY <1>2, <2>1, <2>2, FocusStep
  <1>4. CASE obj'[o] = [x EXCEPT !.refs = @ - 2] /\ obj'[o].refs # 0
    <2>1. /\ obj'[o].temporary = x.temporary /\ obj'[o].active = x.active /\ obj'[o].members = x.members
          /\ obj'[o].parent = x.parent /\ obj'[o].links = x.links /\ obj'[o].agents = x.agents
      BY <1>4 DEF ObjType
    <2>2. AgentAt(o)' /\ MemberAt(o)' BY <2>1, DropParts
    <2>3. \A u \in Threads \ {t} : pc'[u] = pc[u] /\ tgrp'[u] = tgrp[u] /\ held'[u] = held[u]
                                   /\ my'[u].obj = my[u].obj
      BY DEF Focus, Only, Alone
    <2>4. \A u \in Threads : ~Closes(u, o)' BY <2>3 DEF Closes
    <2>5. LifeAt(o)'
      <3>1. Has(t, o)' \in Nat BY DEF Has, One
      <3>2. Has(t, o) # 0 BY <3>1
      <3>3. held[t] = o \/ tgrp[t] = o \/ my[t].obj = o BY <3>2 DEF Has, One
      <3>4. ~obj'[o].active BY <2>1 DEF Over
      <3> QED BY <1>1, <1>4, <2>3, <3>3, <3>4, LifeKept
    <2>6. CloseAt(o)' BY <2>1, <2>4 DEF CloseAt, Over
    <2>7. LinksAt(o)' BY <2>1 DEF LinksAt, Over
    <2>8. ObjAt(o)' BY <2>2, <2>5, <2>6 DEF ObjAt
    <2>9. obj'[o].parent = None BY <2>1 DEF Over
    <2> QED BY <1>2, <2>7, <2>8, <2>9, FocusStep
  <1> QED BY <1>2, <1>3, <1>4

\* tmp_shutdown_internal, before and after it takes the object out.
LEMMA Shut ==
    ASSUME NEW x \in ObjType, x.links \in {0, 1}, NEW y, y = ShutDown(x)
    PROVE  /\ y \in ObjType /\ ~y.active /\ y.links = 0 /\ y.refs = x.refs /\ y.leaks = x.leaks
           /\ y.temporary = x.temporary /\ y.members = x.members /\ y.parent = x.parent
           /\ y.agents = x.agents /\ y.used = x.used
  <1> DEFINE z == [x EXCEPT !.active = FALSE]
  <1>1. /\ z \in ObjType /\ ~z.active /\ z.refs = x.refs /\ z.leaks = x.leaks
        /\ z.temporary = x.temporary /\ z.members = x.members /\ z.parent = x.parent
        /\ z.agents = x.agents /\ z.used = x.used
    BY DEF ObjType
  <1>2. y = [z EXCEPT !.links = 0]
    <2>1. y = [x EXCEPT !.active = FALSE, !.links = IF x.links > 0 THEN x.links - 1 ELSE 0] BY DEF ShutDown
    <2>2. (IF x.links > 0 THEN x.links - 1 ELSE 0) = 0 OBVIOUS
    <2>3. y = [x EXCEPT !.active = FALSE, !.links = 0] BY <2>1, <2>2
    <2> QED BY <2>3
  <1> HIDE DEF z
  <1>3. y \in ObjType BY <1>1, <1>2 DEF ObjType
  <1>4. /\ y.active = z.active /\ y.links = 0 /\ y.refs = z.refs /\ y.leaks = z.leaks
        /\ y.temporary = z.temporary /\ y.members = z.members /\ y.parent = z.parent
        /\ y.agents = z.agents /\ y.used = z.used
    BY <1>1, <1>2 DEF ObjType
  <1> QED BY <1>1, <1>3, <1>4

\* The object has no entry and no reference to itself any more.
LEMMA Ended ==
    ASSUME NEW x \in ObjType, NEW y, y = [x EXCEPT !.parent = None, !.temporary = FALSE]
    PROVE  /\ y \in ObjType /\ y.parent = None /\ ~y.temporary /\ y.active = x.active
           /\ y.links = x.links /\ y.refs = x.refs /\ y.leaks = x.leaks /\ y.members = x.members
           /\ y.agents = x.agents
  <1> DEFINE z == [x EXCEPT !.parent = None]
  <1>1. /\ z \in ObjType /\ z.parent = None /\ z.active = x.active /\ z.links = x.links
        /\ z.refs = x.refs /\ z.leaks = x.leaks /\ z.members = x.members /\ z.agents = x.agents
    BY DEF ObjType
  <1>2. y = [z EXCEPT !.temporary = FALSE] OBVIOUS
  <1> HIDE DEF z
  <1>3. y \in ObjType BY <1>1, <1>2 DEF ObjType
  <1>4. /\ y.parent = z.parent /\ ~y.temporary /\ y.active = z.active /\ y.links = z.links
        /\ y.refs = z.refs /\ y.leaks = z.leaks /\ y.members = z.members /\ y.agents = z.agents
    BY <1>1, <1>2 DEF ObjType
  <1> QED BY <1>1, <1>3, <1>4

\* ns_unregister_agent.
LEMMA FewerAgents ==
    ASSUME NEW x \in ObjType, x.agents > 0, NEW y, y = [x EXCEPT !.agents = x.agents - 1]
    PROVE  /\ y \in ObjType /\ y.agents = x.agents - 1 /\ y.active = x.active /\ y.links = x.links
           /\ y.refs = x.refs /\ y.leaks = x.leaks /\ y.members = x.members /\ y.parent = x.parent
           /\ y.temporary = x.temporary /\ y.used = x.used
  <1>1. x.agents - 1 \in Nat BY DEF ObjType
  <1> QED BY <1>1 DEF ObjType

\* Object o is temporary and in use by nobody.
Unused(o) == obj[o].active /\ obj[o].temporary /\ Empty(o)

\* Where a thread can be that shuts an object down.
Shuts(t) == /\ pc[t] # "broadcast" /\ (pc[t] = "asleep" => t \notin sleepers)
            /\ pc'[t] \notin {"unlinked", "unlinked agent", "install"}

\* An object that is listed is shut down, by a thread that will take it out.
LEMMA ShutStep ==
    ASSUME IInv, NEW t \in Threads, NEW o \in Objs, NEW x \in ObjType, Focus(t, o),
           UNCHANGED <<entry, entry_count, sleepers, my, tgrp, held, late>>,
           Shuts(t), obj' = [obj EXCEPT ![o] = ShutDown(x)],
           Unused(o), obj[o].parent # None,
           x.refs = obj[o].refs, x.leaks = obj[o].leaks, x.temporary = obj[o].temporary,
           x.members = obj[o].members, x.parent = obj[o].parent, x.links = obj[o].links,
           AgentsGo(t, o, x), SameMember(t, o), Closes(t, o)' \/ lock' # None,
           obj' \in [Objs -> ObjType] => TypeOK', PlaceInv'
    PROVE  IInv'
  <1>1. /\ RefExact /\ LifeAt(o) /\ AgentAt(o) /\ MemberAt(o) /\ CloseAt(o) /\ LinksAt(o)
        /\ obj \in [Objs -> ObjType]
    BY Parts
  <1>2. obj[o].links = 1 /\ obj[o].parent # None BY <1>1 DEF LinksAt, Unused
  <1>3. obj'[o] = ShutDown(x) /\ \A p \in Objs \ {o} : obj'[p] = obj[p] BY <1>1
  <1>4. /\ obj'[o] \in ObjType /\ ~obj'[o].active /\ obj'[o].links = 0 /\ obj'[o].refs = x.refs
        /\ obj'[o].leaks = x.leaks /\ obj'[o].temporary = x.temporary /\ obj'[o].members = x.members
        /\ obj'[o].parent = x.parent /\ obj'[o].agents = x.agents
    <2>1. x.links \in {0, 1} BY <1>2
    <2> QED BY <1>3, <2>1, Shut
  <1>5. obj' \in [Objs -> ObjType] BY <1>1, <1>4
  <1>6. RefExact' BY <1>1, <1>3, <1>4, RefSame
  <1>7. AgentAt(o)' /\ MemberAt(o)'
    <2>1. \A u \in Threads : obj[o].members[u] = "OUT" BY DEF Empty, Unused
    <2> QED BY <1>4, <2>1, DropParts
  <1>8. \A u \in Threads : ~Closes(u, o) BY <1>1 DEF CloseAt, Unused
  <1>9. \A u \in Threads \ {t} : ~Closes(u, o)' BY <1>8 DEF Focus, Closes
  <1>10. ~Parted(o) /\ ~Parted(o)' BY <1>8, <1>9 DEF Parted, Shuts
  <1>11. LifeAt(o)'
    <2>1. obj'[o].refs # 0
      <3>1. obj[o].refs = Holders(o) + obj[o].leaks + 1 BY <1>1 DEF RefExact, Unused
      <3>2. Holders(o) \in Nat BY HoldersLeast
      <3>3. obj[o].leaks \in Nat BY <1>1 DEF ObjType
      <3> DEFINE h == Holders(o)    l == obj[o].leaks    r == obj[o].refs
      <3>4. r = h + l + 1 /\ h \in Nat /\ l \in Nat BY <3>1, <3>2, <3>3
      <3> HIDE DEF h, l, r
      <3>5. r # 0 BY <3>4
      <3> QED BY <1>4, <3>5 DEF r
    <2>2. \A u \in Threads : ~(pc[u] = "install" /\ my[u].obj = o) BY <1>1, NewFields DEF LifeAt, Unused
    <2>3. \A u \in Threads : ~(pc'[u] = "install" /\ my'[u].obj = o) BY <2>2 DEF Focus, Shuts
    <2> QED BY <1>4, <2>1, <2>3 DEF LifeAt
  <1>12. CloseAt(o)' BY <1>2, <1>4, <1>9 DEF CloseAt, Unused
  <1>13. LinksAt(o)'
    <2>1. ~(obj'[o].active /\ obj'[o].parent # None) BY <1>4
    <2>2. obj'[o].links = 0 BY <1>4
    <2> QED BY <2>1, <2>2 DEF LinksAt
  <1>14. ObjAt(o)' BY <1>7, <1>11, <1>12 DEF ObjAt
  <1> QED BY <1>4, <1>5, <1>6, <1>10, <1>13, <1>14, FocusStep DEF Unused, Shuts

\* The reference of the lookup is dropped.
LEMMA NoAgentStep ==
    ASSUME IInv, NEW t \in Threads, NoAgent(t)
    PROVE  IInv'
  <1>0. PICK o \in Objs : my[t].obj = o BY Parts DEF NoAgent, PlaceInv
  <1>1. /\ TypeOK /\ PlaceInv /\ obj \in [Objs -> ObjType] /\ None \notin Objs
        /\ CloseAt(o) /\ sleepers \subseteq Threads
        /\ held[t] = None /\ pc[t] = "have"
    BY Parts DEF NoAgent, PlaceInv
  <1>2. /\ obj' = [obj EXCEPT ![o] = Deref(obj[o], 1)]
        /\ my' = [my EXCEPT ![t] = Nothing] /\ pc' = [pc EXCEPT ![t] = "idle"]
        /\ UNCHANGED <<lock, entry, entry_count, sleepers, tgrp, held, events, late>>
    BY <1>0 DEF NoAgent, Goto
  <1>3. /\ my'[t] = Nothing /\ my'[t].obj = None /\ pc'[t] = "idle"
        /\ \A u \in Threads \ {t} : my'[u] = my[u] /\ pc'[u] = pc[u]
    BY <1>1, <1>2 DEF TypeOK, Nothing
  <1>4. obj[o] \in ObjType /\ \A p \in Objs \ {o} : obj'[p] = obj[p] BY <1>1, <1>2
  <1>5. obj' \in [Objs -> ObjType] => TypeOK' BY <1>1, <1>2 DEF TypeOK, ObjType, Nothing
  <1>6. PlaceInv' BY <1>1, <1>2, <1>3 DEF PlaceInv
  <1>7. Focus(t, o) BY <1>0, <1>1, <1>2, <1>3, <1>4 DEF Focus, Only, Alone
  <1>8. Has(t, o) = Has(t, o)' + 1 BY <1>0, <1>1, <1>2, <1>3 DEF Has, One
  <1>9. AgentsGo(t, o, obj[o]) BY <1>1, <1>2 DEF AgentsGo, Agents
  <1>10. SameMember(t, o) BY <1>1, <1>2, <1>3 DEF SameMember
  <1>11. obj[o].used /\ obj[o].active =>
            \/ obj[o].agents > 0 \/ \E u \in Threads : obj[o].members[u] # "OUT"
            \/ \E u \in Threads : pc'[u] = "tidy" /\ tgrp'[u] = o
    BY <1>1, <1>2, <1>3 DEF CloseAt, Empty
  <1> QED BY <1>1, <1>2, <1>3, <1>4, <1>5, <1>6, <1>7, <1>8, <1>9, <1>10, <1>11, DropKeep

\* An active object that somebody has: what it means that it has no link.
LEMMA ActiveHeld ==
    ASSUME IInv, NEW t \in Threads, NEW o \in Objs, held[t] = o \/ tgrp[t] = o, obj[o].active
    PROVE  /\ obj[o].temporary /\ \A u \in Threads : ~Closes(u, o)
           /\ obj[o].links > 0 => obj[o].parent # None
           /\ obj[o].links = 0 => \A e \in Tags : entry[e].type = "DIRECTORY" => entry[e].obj # o
           /\ obj[o].links \in {0, 1}
  <1>1. LinkInv /\ LifeAt(o) /\ CloseAt(o) /\ LinksAt(o) /\ None \notin Tags BY Parts, DirectoryAssumption
  <1>2. obj[o].temporary BY <1>1 DEF LifeAt
  <1>3. \A u \in Threads : ~Closes(u, o) BY <1>1 DEF CloseAt
  <1>4. obj[o].links = IF obj[o].parent # None THEN 1 ELSE 0 BY <1>1 DEF LinksAt
  <1>5. obj[o].parent = None => \A e \in Tags : entry[e].type = "DIRECTORY" => entry[e].obj # o
    BY <1>1 DEF LinkInv, ListedInv
  <1> QED BY <1>2, <1>3, <1>4, <1>5

\* The last one out shuts the group down, with or without a link.
LEMMA TidyStep ==
    ASSUME IInv, NEW t \in Threads, Tidy(t)
    PROVE  IInv'
  <1>0. PICK o \in Objs : tgrp[t] = o BY Parts DEF Tidy, PlaceInv
  <1>1. /\ TypeOK /\ PlaceInv /\ obj \in [Objs -> ObjType] /\ None \notin Objs
        /\ CloseAt(o) /\ sleepers \subseteq Threads
        /\ my[t].obj = None /\ pc[t] = "tidy"
    BY Parts DEF Tidy, PlaceInv
  <1>2. UNCHANGED <<lock, entry, entry_count, sleepers, my, held, events, late>> BY DEF Tidy
  <1>3. obj[o] \in ObjType BY <1>1
  <1>4. CASE /\ ShutsDown(o, obj[o].agents) /\ obj[o].links > 0
             /\ obj' = [obj EXCEPT ![o] = ShutDown(obj[o])] /\ Goto(t, "unlink") /\ UNCHANGED tgrp
    <2>1. pc'[t] = "unlink" /\ \A u \in Threads \ {t} : pc'[u] = pc[u] BY <1>1, <1>4 DEF TypeOK, Goto
    <2>2. \A p \in Objs \ {o} : obj'[p] = obj[p] BY <1>1, <1>4
    <2>3. obj' \in [Objs -> ObjType] => TypeOK' BY <1>1, <1>2, <1>4 DEF TypeOK, ObjType, Goto
    <2>4. PlaceInv' BY <1>0, <1>1, <1>2, <1>4, <2>1 DEF PlaceInv
    <2>5. Focus(t, o) BY <1>0, <1>1, <1>2, <1>4, <2>1, <2>2 DEF Focus, Only, Alone
    <2>6. Unused(o) /\ obj[o].parent # None
      <3>1. obj[o].active /\ Empty(o) BY <1>4 DEF ShutsDown
      <3> QED BY <1>0, <1>4, <3>1, ActiveHeld DEF Unused
    <2>7. AgentsGo(t, o, obj[o]) BY <1>1, <1>2, <2>1 DEF AgentsGo, Agents
    <2>8. SameMember(t, o) BY <1>1, <2>1 DEF SameMember
    <2>9. Closes(t, o)' BY <1>0, <1>4, <2>1 DEF Closes
    <2>10. Shuts(t) BY <1>1, <2>1 DEF Shuts
    <2> QED BY <1>2, <1>3, <1>4, <2>3, <2>4, <2>5, <2>6, <2>7, <2>8, <2>9, <2>10, ShutStep
  <1>5. CASE /\ tgrp' = [tgrp EXCEPT ![t] = None] /\ Goto(t, "idle")
             /\ \/ /\ ShutsDown(o, obj[o].agents) /\ obj[o].links = 0
                   /\ obj' = [obj EXCEPT ![o] = Finish(ShutDown(obj[o]), 1)]
                \/ ~ShutsDown(o, obj[o].agents) /\ obj' = [obj EXCEPT ![o] = Deref(obj[o], 1)]
    <2>1. /\ pc'[t] = "idle" /\ tgrp'[t] = None
          /\ \A u \in Threads \ {t} : pc'[u] = pc[u] /\ tgrp'[u] = tgrp[u]
      BY <1>1, <1>5 DEF TypeOK, Goto
    <2>2. obj' \in [Objs -> ObjType] => TypeOK' BY <1>1, <1>2, <1>5 DEF TypeOK, ObjType, Goto
    <2>3. PlaceInv' BY <1>1, <1>2, <2>1 DEF PlaceInv
    <2>4. Has(t, o) = Has(t, o)' + 1 BY <1>0, <1>1, <1>2, <2>1 DEF Has, One
    <2>5. t \in Agents(o)' <=> t \in Agents(o) BY <1>1, <1>2, <2>1 DEF Agents
    <2>6. SameMember(t, o) BY <1>1, <2>1 DEF SameMember
    <2>7. ASSUME NEW x, obj' = [obj EXCEPT ![o] = x] PROVE Focus(t, o)
      <3>1. \A p \in Objs \ {o} : obj'[p] = obj[p] BY <1>1, <2>7
      <3> QED BY <1>0, <1>1, <1>2, <2>1, <3>1 DEF Focus, Only, Alone
    <2>8. CASE /\ ShutsDown(o, obj[o].agents) /\ obj[o].links = 0
               /\ obj' = [obj EXCEPT ![o] = Finish(ShutDown(obj[o]), 1)]
      <3> DEFINE y == ShutDown(obj[o])
                 x == [y EXCEPT !.parent = None, !.temporary = FALSE]
      <3>1. obj[o].active /\ Empty(o) BY <2>8 DEF ShutsDown
      <3>2. /\ obj[o].temporary /\ \A u \in Threads : ~Closes(u, o)
            /\ \A e \in Tags : entry[e].type = "DIRECTORY" => entry[e].obj # o
            /\ obj[o].links \in {0, 1}
        BY <1>0, <2>8, <3>1, ActiveHeld
      <3>3. obj' = [obj EXCEPT ![o] = Deref(x, 2)] BY <2>8 DEF Finish
      <3>4. /\ y \in ObjType /\ ~y.active /\ y.links = 0 /\ y.refs = obj[o].refs
            /\ y.leaks = obj[o].leaks /\ y.members = obj[o].members /\ y.agents = obj[o].agents
        BY <1>3, <3>2, Shut
      <3> HIDE DEF y
      <3>5. /\ x \in ObjType /\ x.parent = None /\ ~x.temporary /\ x.active = y.active
            /\ x.links = y.links /\ x.refs = y.refs /\ x.leaks = y.leaks /\ x.members = y.members
            /\ x.agents = y.agents
        BY <3>4, Ended
      <3> HIDE DEF x
      <3>6. Over(o, x) BY <3>2, <3>4, <3>5 DEF Over
      <3>7. AgentsGo(t, o, x) BY <2>5, <3>4, <3>5 DEF AgentsGo
      <3>8. Focus(t, o) BY <2>7, <3>3
      <3>9. \A u \in Threads : obj[o].members[u] # "OUT" => u \in late BY <3>1 DEF Empty
      <3>10. x.refs = obj[o].refs /\ x.leaks = obj[o].leaks /\ x.members = obj[o].members BY <3>4, <3>5
      <3>11. /\ x \in ObjType /\ \A u \in Threads \ {t} : my'[u] = my[u] BY <1>2, <3>5
      <3>12. \A u \in Threads \ {t} : ~Closes(u, o) BY <3>2
      <3>13. \A e \in Tags : entry[e].type = "DIRECTORY" => entry[e].obj # o BY <3>2
      <3> QED BY <1>1, <1>2, <2>1, <2>2, <2>3, <2>4, <2>6, <3>3, <3>6, <3>7, <3>8, <3>9, <3>10, <3>11, <3>12, <3>13, DropFinish
    <2>9. CASE ~ShutsDown(o, obj[o].agents) /\ obj' = [obj EXCEPT ![o] = Deref(obj[o], 1)]
      <3>1. AgentsGo(t, o, obj[o]) BY <2>5 DEF AgentsGo
      <3>2. obj[o].agents = 0 \/ obj[o].agents > 0 BY <1>3 DEF ObjType
      <3>3. obj[o].used /\ obj[o].active =>
               \/ obj[o].agents > 0 \/ \E u \in Threads : obj[o].members[u] # "OUT"
               \/ \E u \in Threads : pc'[u] = "tidy" /\ tgrp'[u] = o
        BY <2>9, <3>2 DEF ShutsDown, Empty
      <3>4. Focus(t, o) BY <2>7, <2>9
      <3>5. \A u \in Threads \ {t} : my'[u] = my[u] BY <1>2
      <3> QED BY <1>1, <1>2, <1>3, <2>1, <2>2, <2>3, <2>4, <2>6, <2>9, <3>1, <3>3, <3>4, <3>5, DropKeep
    <2> QED BY <1>5, <2>8, <2>9
  <1> QED BY <1>0, <1>4, <1>5 DEF Tidy

\* The last agent to go shuts an empty group down.
LEMMA DropAgentStep ==
    ASSUME IInv, NEW t \in Threads, DropAgent(t)
    PROVE  IInv'
  <1>0. PICK o \in Objs : held[t] = o BY Parts DEF DropAgent, TypeOK
  <1>1. /\ TypeOK /\ PlaceInv /\ obj \in [Objs -> ObjType] /\ None \notin Objs
        /\ CloseAt(o) /\ AgentAt(o) /\ sleepers \subseteq Threads
        /\ my[t].obj = None /\ pc[t] = "idle"
    BY Parts DEF DropAgent, PlaceInv
  <1>2. UNCHANGED <<lock, entry, entry_count, sleepers, my, tgrp, events, late>> BY DEF DropAgent
  <1>3. obj[o] \in ObjType BY <1>1
  <1>4. t \in Agents(o) BY <1>0, <1>1 DEF Agents
  <1>5. obj[o].agents \in Nat /\ obj[o].agents > 0
    <2>1. Agents(o) \in SUBSET Threads /\ IsFiniteSet(Threads) BY DirectoryAssumption DEF Agents
    <2>2. Cardinality(Agents(o)) \in Nat /\ Cardinality(Agents(o)) >= 1 BY <1>4, <2>1, OnlyOne
    <2> QED BY <1>1, <2>2 DEF AgentAt
  <1> DEFINE w == [obj[o] EXCEPT !.agents = obj[o].agents - 1]
  <1>6. /\ w \in ObjType /\ w.agents = obj[o].agents - 1 /\ w.active = obj[o].active
        /\ w.links = obj[o].links /\ w.refs = obj[o].refs /\ w.leaks = obj[o].leaks
        /\ w.members = obj[o].members /\ w.parent = obj[o].parent
        /\ w.temporary = obj[o].temporary /\ w.used = obj[o].used
    BY <1>3, <1>5, FewerAgents
  <1>7. \/ /\ ShutsDown(o, obj[o].agents - 1) /\ obj[o].links > 0
           /\ obj' = [obj EXCEPT ![o] = ShutDown(w)] /\ Goto(t, "unlink agent") /\ UNCHANGED held
        \/ /\ ShutsDown(o, obj[o].agents - 1) /\ obj[o].links = 0
           /\ obj' = [obj EXCEPT ![o] = Finish(ShutDown(w), 1)]
           /\ held' = [held EXCEPT ![t] = None] /\ UNCHANGED pc
        \/ /\ ~ShutsDown(o, obj[o].agents - 1) /\ obj' = [obj EXCEPT ![o] = Deref(w, 1)]
           /\ held' = [held EXCEPT ![t] = None] /\ UNCHANGED pc
    <2>1. w = UnregisterAgent(obj[o]) BY DEF UnregisterAgent
    <2> HIDE DEF w
    <2> QED BY <1>0, <2>1 DEF DropAgent
  <1> HIDE DEF w
  <1>8. CASE /\ ShutsDown(o, obj[o].agents - 1) /\ obj[o].links > 0
             /\ obj' = [obj EXCEPT ![o] = ShutDown(w)] /\ Goto(t, "unlink agent") /\ UNCHANGED held
    <2>1. pc'[t] = "unlink agent" /\ \A u \in Threads \ {t} : pc'[u] = pc[u] BY <1>1, <1>8 DEF TypeOK, Goto
    <2>2. \A p \in Objs \ {o} : obj'[p] = obj[p] BY <1>1, <1>8
    <2>3. obj' \in [Objs -> ObjType] => TypeOK' BY <1>1, <1>2, <1>8 DEF TypeOK, ObjType, Goto
    <2>4. PlaceInv' BY <1>0, <1>1, <1>2, <1>8, <2>1 DEF PlaceInv
    <2>5. Focus(t, o) BY <1>0, <1>1, <1>2, <1>8, <2>1, <2>2 DEF Focus, Only, Alone
    <2>6. Unused(o) /\ obj[o].parent # None
      <3>1. obj[o].active /\ Empty(o) BY <1>8 DEF ShutsDown
      <3> QED BY <1>0, <1>8, <3>1, ActiveHeld DEF Unused
    <2>7. AgentsGo(t, o, w) BY <1>4, <1>6, <2>1 DEF AgentsGo, Agents
    <2>8. SameMember(t, o) BY <1>1, <1>2, <2>1 DEF SameMember
    <2>9. Closes(t, o)' BY <1>0, <1>8, <2>1 DEF Closes
    <2>10. Shuts(t) BY <1>1, <2>1 DEF Shuts
    <2> QED BY <1>2, <1>6, <1>8, <2>3, <2>4, <2>5, <2>6, <2>7, <2>8, <2>9, <2>10, ShutStep
  <1>9. CASE /\ held' = [held EXCEPT ![t] = None] /\ UNCHANGED pc
             /\ \/ /\ ShutsDown(o, obj[o].agents - 1) /\ obj[o].links = 0
                   /\ obj' = [obj EXCEPT ![o] = Finish(ShutDown(w), 1)]
                \/ ~ShutsDown(o, obj[o].agents - 1) /\ obj' = [obj EXCEPT ![o] = Deref(w, 1)]
    <2>1. held'[t] = None /\ \A u \in Threads \ {t} : held'[u] = held[u] BY <1>1, <1>9 DEF TypeOK
    <2>2. obj' \in [Objs -> ObjType] => TypeOK' BY <1>1, <1>2, <1>9 DEF TypeOK, ObjType
    <2>3. PlaceInv' BY <1>1, <1>2, <1>9, <2>1 DEF PlaceInv
    <2>4. Has(t, o) = Has(t, o)' + 1 BY <1>0, <1>1, <1>2, <2>1 DEF Has, One
    <2>5. t \notin Agents(o)' BY <1>1, <2>1 DEF Agents
    <2>6. SameMember(t, o) BY <1>2, <1>9 DEF SameMember
    <2>7. ASSUME NEW x, obj' = [obj EXCEPT ![o] = x] PROVE Focus(t, o)
      <3>1. \A p \in Objs \ {o} : obj'[p] = obj[p] BY <1>1, <2>7
      <3> QED BY <1>0, <1>1, <1>2, <1>9, <2>1, <3>1 DEF Focus, Only, Alone
    <2>8. CASE /\ ShutsDown(o, obj[o].agents - 1) /\ obj[o].links = 0
               /\ obj' = [obj EXCEPT ![o] = Finish(ShutDown(w), 1)]
      <3> DEFINE y == ShutDown(w)
                 x == [y EXCEPT !.parent = None, !.temporary = FALSE]
      <3>1. obj[o].active /\ Empty(o) BY <2>8 DEF ShutsDown
      <3>2. /\ obj[o].temporary /\ \A u \in Threads : ~Closes(u, o)
            /\ \A e \in Tags : entry[e].type = "DIRECTORY" => entry[e].obj # o
            /\ obj[o].links \in {0, 1}
        BY <1>0, <2>8, <3>1, ActiveHeld
      <3>3. obj' = [obj EXCEPT ![o] = Deref(x, 2)] BY <2>8 DEF Finish
      <3>14. w.links \in {0, 1} BY <1>6, <3>2
      <3>4. /\ y \in ObjType /\ ~y.active /\ y.links = 0 /\ y.refs = w.refs
            /\ y.leaks = w.leaks /\ y.members = w.members /\ y.agents = w.agents
        BY <1>6, <3>14, Shut
      <3> HIDE DEF y
      <3>5. /\ x \in ObjType /\ x.parent = None /\ ~x.temporary /\ x.active = y.active
            /\ x.links = y.links /\ x.refs = y.refs /\ x.leaks = y.leaks /\ x.members = y.members
            /\ x.agents = y.agents
        BY <3>4, Ended
      <3> HIDE DEF x
      <3>6. Over(o, x) BY <3>2, <3>4, <3>5 DEF Over
      <3>7. AgentsGo(t, o, x) BY <1>4, <1>6, <2>5, <3>4, <3>5 DEF AgentsGo
      <3>8. Focus(t, o) BY <2>7, <3>3
      <3>9. \A u \in Threads : obj[o].members[u] # "OUT" => u \in late BY <3>1 DEF Empty
      <3>10. x.refs = obj[o].refs /\ x.leaks = obj[o].leaks /\ x.members = obj[o].members BY <1>6, <3>4, <3>5
      <3>11. /\ x \in ObjType /\ \A u \in Threads \ {t} : my'[u] = my[u] BY <1>2, <3>5
      <3>12. \A u \in Threads \ {t} : ~Closes(u, o) BY <3>2
      <3>13. \A e \in Tags : entry[e].type = "DIRECTORY" => entry[e].obj # o BY <3>2
      <3>15. pc[t] = "idle" /\ pc'[t] = "idle" BY <1>1, <1>9
      <3> QED BY <1>2, <2>2, <2>3, <2>4, <2>6, <3>3, <3>6, <3>7, <3>8, <3>9, <3>10, <3>11, <3>12, <3>13, <3>15, DropFinish
    <2>9. CASE ~ShutsDown(o, obj[o].agents - 1) /\ obj' = [obj EXCEPT ![o] = Deref(w, 1)]
      <3>1. AgentsGo(t, o, w) BY <1>4, <1>6, <2>5 DEF AgentsGo
      <3>2. obj[o].agents - 1 = 0 \/ w.agents > 0 BY <1>5, <1>6
      <3>3. w.used /\ w.active =>
               \/ w.agents > 0 \/ \E u \in Threads : w.members[u] # "OUT"
               \/ \E u \in Threads : pc'[u] = "tidy" /\ tgrp'[u] = o
        BY <1>6, <2>9, <3>2 DEF ShutsDown, Empty
      <3>4. Focus(t, o) BY <2>7, <2>9
      <3>5. \A u \in Threads \ {t} : my'[u] = my[u] BY <1>2
      <3>6. {pc[t], pc'[t]} \subseteq {"have", "idle", "tidy"} BY <1>1, <1>9
      <3> QED BY <1>2, <1>6, <2>2, <2>3, <2>4, <2>6, <2>9, <3>1, <3>3, <3>4, <3>5, <3>6, DropKeep
    <2> QED BY <1>9, <2>8, <2>9
  <1> QED BY <1>7, <1>8, <1>9

\* Finish drops two references at once.
LEMMA FinishOne ==
    ASSUME NEW y PROVE Finish(y, 1) = Deref([y EXCEPT !.parent = None, !.temporary = FALSE], 2)
  BY DEF Finish

\* The thread that took the object out drops its references, and the object's.
LEMMA UnlinkedStep ==
    ASSUME IInv, NEW t \in Threads, Unlinked(t)
    PROVE  IInv'
  <1>0. PICK o \in Objs : IF pc[t] = "unlinked" THEN tgrp[t] = o ELSE held[t] = o
    BY Parts DEF Unlinked, PlaceInv
  <1>1. /\ TypeOK /\ PlaceInv /\ LinkInv /\ obj \in [Objs -> ObjType] /\ None \notin Objs
        /\ CloseAt(o) /\ MemberAt(o) /\ LinksAt(o) /\ sleepers \subseteq Threads
        /\ my[t].obj = None /\ pc[t] \in {"unlinked", "unlinked agent"}
    BY Parts DEF Unlinked, PlaceInv
  <1> DEFINE x == [obj[o] EXCEPT !.parent = None, !.temporary = FALSE]
  <1>2. /\ obj' = [obj EXCEPT ![o] = Deref(x, 2)] /\ Goto(t, "idle")
        /\ UNCHANGED <<lock, entry, entry_count, sleepers, my, events, late>>
        /\ \/ /\ pc[t] = "unlinked" /\ tgrp[t] = o
              /\ tgrp' = [tgrp EXCEPT ![t] = None] /\ UNCHANGED held
           \/ /\ pc[t] = "unlinked agent" /\ held[t] = o
              /\ held' = [held EXCEPT ![t] = None] /\ UNCHANGED tgrp
    <2>1. CASE pc[t] = "unlinked" BY <1>0, <2>1, FinishOne DEF Unlinked
    <2>2. CASE pc[t] = "unlinked agent" BY <1>0, <2>2, FinishOne DEF Unlinked
    <2> QED BY <1>1, <2>1, <2>2
  <1>3. obj[o] \in ObjType /\ \A p \in Objs \ {o} : obj'[p] = obj[p] BY <1>1, <1>2
  <1>4. /\ x \in ObjType /\ x.parent = None /\ ~x.temporary /\ x.active = obj[o].active
        /\ x.links = obj[o].links /\ x.refs = obj[o].refs /\ x.leaks = obj[o].leaks
        /\ x.members = obj[o].members /\ x.agents = obj[o].agents
    BY <1>3, Ended
  <1> HIDE DEF x
  <1>5. Closes(t, o) /\ Parted(o) BY <1>2 DEF Closes, Parted
  <1>6. ~obj[o].active /\ obj[o].temporary /\ \A u \in Threads \ {t} : ~Closes(u, o)
    BY <1>1, <1>5 DEF CloseAt
  <1>7. Over(o, x)
    <2>1. obj[o].links = 0 BY <1>1, <1>6 DEF LinksAt
    <2> QED BY <1>4, <1>6, <2>1 DEF Over
  <1>8. \A e \in Tags : entry[e].type = "DIRECTORY" => entry[e].obj # o
    BY <1>1, <1>5 DEF LinkInv, ListedInv
  <1>9. \A u \in Threads : obj[o].members[u] # "OUT" => u \in late BY <1>1, <1>6 DEF MemberAt
  <1>10. /\ pc'[t] = "idle" /\ \A u \in Threads \ {t} : pc'[u] = pc[u]
         /\ \A u \in Threads \ {t} : held'[u] = held[u] /\ tgrp'[u] = tgrp[u] /\ my'[u] = my[u]
         /\ \/ pc[t] = "unlinked" /\ tgrp[t] = o /\ tgrp'[t] = None /\ held'[t] = held[t]
            \/ pc[t] = "unlinked agent" /\ held[t] = o /\ held'[t] = None /\ tgrp'[t] = tgrp[t]
    BY <1>1, <1>2 DEF TypeOK, Goto
  <1>11. obj' \in [Objs -> ObjType] => TypeOK' BY <1>1, <1>2 DEF TypeOK, ObjType, Goto
  <1>12. PlaceInv' BY <1>1, <1>2, <1>10 DEF PlaceInv
  <1>13. Focus(t, o) BY <1>1, <1>2, <1>3, <1>10 DEF Focus, Only, Alone
  <1>14. Has(t, o) = Has(t, o)' + 1
    <2>1. my'[t].obj = None /\ None # o BY <1>1, <1>2
    <2>2. CASE pc[t] = "unlinked" BY <1>1, <1>10, <2>1, <2>2 DEF Has, One
    <2>3. CASE pc[t] = "unlinked agent"
      <3>1. held[t] = o /\ held'[t] # o /\ tgrp'[t] = tgrp[t] /\ my[t].obj # o /\ my'[t].obj # o
        BY <1>1, <1>10, <2>1, <2>3
      <3> QED BY <3>1 DEF Has, One
    <2> QED BY <1>1, <2>2, <2>3
  <1>15. AgentsGo(t, o, x) BY <1>1, <1>4, <1>10 DEF AgentsGo, Agents
  <1>16. SameMember(t, o) BY <1>1, <1>10 DEF SameMember
  <1>17. \A u \in Threads \ {t} : ~Closes(u, o) BY <1>6
  <1> QED BY <1>1, <1>2, <1>4, <1>7, <1>8, <1>9, <1>10, <1>11, <1>12, <1>13, <1>14, <1>15, <1>16, <1>17, DropFinish

-----------------------------------------------------------------------------
(* The directory: taking out, looking up, and making an entry.             *)

\* ns_remove_tmplink frees the entry of an object that is shut down: its own,
\* whether it is still listed or was taken out before.
LEMMA UnlinkStep ==
    ASSUME IInv, NEW t \in Threads, Unlink(t)
    PROVE  IInv'
  <1>0. PICK o \in Objs : o = IF pc[t] = "unlink" THEN tgrp[t] ELSE held[t]
    BY Parts DEF Unlink, PlaceInv
  <1>1. /\ TypeOK /\ RefExact /\ PlaceInv /\ LinkInv /\ obj \in [Objs -> ObjType] /\ None \notin Objs
        /\ LifeAt(o) /\ AgentAt(o) /\ MemberAt(o) /\ CloseAt(o) /\ sleepers \subseteq Threads
        /\ my[t].obj = None /\ pc[t] \in {"unlink", "unlink agent"}
        /\ NoLostSleeper /\ EntryInv /\ CountInv /\ \A p \in Objs : ObjAt(p)
        /\ entry \in [Tags -> EntryType] /\ entry_count \in Nat
    <2>1. entry \in [Tags -> EntryType] /\ entry_count \in Nat BY DEF IInv, TypeOK, EntryType
    <2> QED BY <2>1, Parts DEF Unlink, PlaceInv, IInv
  <1>2. Closes(t, o) /\ ~Parted(o) /\ \A u \in Threads : Closes(u, o) => u = t
    <2>1. Closes(t, o) BY <1>0, <1>1 DEF Closes
    <2>2. \A u \in Threads : Closes(u, o) => u = t BY <1>1, <2>1 DEF CloseAt
    <2> QED BY <1>1, <2>1, <2>2 DEF Parted
  <1>3. PICK e \in Tags : obj[o].parent = e
    <2>1. obj[o].parent # None /\ obj[o].parent \in Tags \cup {None} BY <1>1, <1>2 DEF CloseAt, ObjType
    <2> QED BY <2>1
  <1>4. /\ entry' = [entry EXCEPT ![e] = FreeEntry]
        /\ entry_count' = IF entry[e].listed THEN entry_count - 1 ELSE entry_count
        /\ pc' = [pc EXCEPT ![t] = IF pc[t] = "unlink" THEN "unlinked" ELSE "unlinked agent"]
        /\ UNCHANGED <<lock, sleepers, obj, my, tgrp, held, events, late>>
    BY <1>0, <1>3 DEF Unlink, ns_remove_tmplink, Goto
  <1>5. /\ \/ pc[t] = "unlink" /\ pc'[t] = "unlinked" /\ tgrp[t] = o
           \/ pc[t] = "unlink agent" /\ pc'[t] = "unlinked agent" /\ held[t] = o
        /\ \A u \in Threads \ {t} : pc'[u] = pc[u]
    <2>1. /\ pc'[t] = IF pc[t] = "unlink" THEN "unlinked" ELSE "unlinked agent"
          /\ \A u \in Threads \ {t} : pc'[u] = pc[u]
      BY <1>1, <1>4 DEF TypeOK
    <2>2. CASE pc[t] = "unlink" BY <1>0, <2>1, <2>2
    <2>3. CASE pc[t] = "unlink agent" BY <1>0, <2>1, <2>3
    <2> QED BY <1>1, <2>2, <2>3
  <1>6. entry' \in [Tags -> EntryType] /\ entry'[e] = FreeEntry /\ \A f \in Tags \ {e} : entry'[f] = entry[f]
    BY <1>1, <1>4 DEF EntryType, FreeEntry
  <1>7. (entry[e].type = "DIRECTORY" /\ entry[e].obj = o) \/ entry[e].type = "INVALID"
    BY <1>1, <1>2, <1>3 DEF LinkInv, ParentInv
  <1>8. ~entry'[e].listed /\ entry'[e].type = "FREE" BY <1>6 DEF FreeEntry
  <1>9. entry_count' \in Nat /\ CountInv'
    <2>1. CASE entry[e].listed
      <3>1. entry_count' = entry_count - 1 BY <1>4, <2>1
      <3>2. entry_count > 0 /\ CountInv' BY <1>1, <1>6, <1>8, <2>1, <3>1, CountStep
      <3>3. entry_count \in Nat /\ entry_count > 0 BY <1>1, <3>2
      <3>4. entry_count' \in Nat BY <3>1, <3>3
      <3> QED BY <3>2, <3>4
    <2>2. CASE ~entry[e].listed
      <3>1. entry_count' = entry_count BY <1>4, <2>2
      <3> QED BY <1>1, <1>6, <1>8, <2>2, <3>1, CountStep
    <2> QED BY <2>1, <2>2
  <1>10. TypeOK' BY <1>1, <1>4, <1>6, <1>9 DEF TypeOK, EntryType
  <1>11. RefExact' BY <1>1, <1>4, RefSame
  <1>12. NoLostSleeper'
    <2>1. \A f \in Tags : entry[f].type = "RESERVED" => entry'[f] = entry[f] BY <1>6, <1>7
    <2>2. \A u \in Threads : pc[u] = "broadcast" => pc'[u] = "broadcast" BY <1>1, <1>5
    <2> QED BY <1>1, <1>4, <2>1, <2>2, SleepersKept
  <1>13. PlaceInv' BY <1>1, <1>4, <1>5 DEF PlaceInv
  <1>14. EntryInv'
    <2>1. EntryInv BY <1>1
    <2> QED BY <1>6, <2>1 DEF EntryInv, EntryOK, FreeEntry
  <1>15. Focus(t, o) BY <1>1, <1>4, <1>5 DEF Focus, Only, Alone
  <1>16. \A u \in Threads : Closes(u, o)' <=> Closes(u, o) BY <1>1, <1>4, <1>5 DEF Closes
  <1>17. Parted(o)' BY <1>1, <1>2, <1>5, <1>16 DEF Parted
  <1>18. \A p \in Objs \ {o} : ObjAt(p)' /\ (Parted(p)' <=> Parted(p)) BY <1>1, <1>15, Elsewhere
  <1>19. ObjAt(o)'
    <2>1. LifeAt(o)'
      <3>1. \A u \in Threads : pc'[u] = "install" <=> pc[u] = "install" BY <1>1, <1>5
      <3> QED BY <1>1, <1>4, <3>1 DEF LifeAt
    <2>2. AgentAt(o)'
      <3>1. Agents(o)' = Agents(o) BY <1>1, <1>4, <1>5 DEF Agents
      <3> QED BY <1>1, <1>4, <3>1 DEF AgentAt
    <2>3. MemberAt(o)'
      <3>1. \A u \in Threads : pc'[u] \in {"tidy", "unlink", "unlinked"} <=> pc[u] \in {"tidy", "unlink", "unlinked"}
        BY <1>1, <1>5
      <3> QED BY <1>1, <1>4, <3>1 DEF MemberAt
    <2>4. CloseAt(o)'
      <3>1. \A u \in Threads : pc'[u] = "tidy" <=> pc[u] = "tidy" BY <1>1, <1>5
      <3>2. Empty(o)' <=> Empty(o) BY <1>4 DEF Empty
      <3> QED BY <1>1, <1>4, <1>16, <3>1, <3>2 DEF CloseAt
    <2> QED BY <2>1, <2>2, <2>3, <2>4 DEF ObjAt
  <1>20. LinkInv'
    <2>1. ListedInv'
      <3>1. \A f \in Tags : entry'[f].type = "DIRECTORY" => f # e /\ entry'[f] = entry[f] BY <1>6, <1>8
      <3>2. \A f \in Tags : f # e /\ entry[f].type = "DIRECTORY" => entry[f].obj # o
        BY <1>1, <1>3 DEF LinkInv, ListedInv
      <3> QED BY <1>1, <1>4, <1>18, <3>1, <3>2 DEF LinkInv, ListedInv
    <2>2. ParentInv'
      <3>1. \A p \in Objs : p # o /\ obj[p].parent = e => Parted(p)
        BY <1>1, <1>2, <1>3, DirectoryAssumption DEF LinkInv, ParentUnique
      <3>2. \A f \in Tags, p \in Objs : obj[p].parent = f /\ ~Parted(p)' => f # e /\ p # o /\ ~Parted(p)
        BY <1>17, <1>18, <3>1
      <3> QED BY <1>1, <1>4, <1>6, <3>2 DEF LinkInv, ParentInv
    <2>3. ParentUnique' BY <1>1, <1>4, <1>17, <1>18 DEF LinkInv, ParentUnique
    <2>4. \A p \in Objs : LinksAt(p)' BY <1>1, <1>4 DEF LinkInv, LinksAt
    <2> QED BY <2>1, <2>2, <2>3, <2>4 DEF LinkInv
  <1> QED BY <1>9, <1>10, <1>11, <1>12, <1>13, <1>14, <1>18, <1>19, <1>20 DEF IInv

\* A lookup finds the group installed: dead, unused, or in use.
LEMMA LookupInstalledStep ==
    ASSUME IInv, NEW t \in Threads, LookupInstalled(t)
    PROVE  IInv'
  <1>0. PICK e \in Tags :
          LET o == entry[e].obj IN
          /\ entry[e].type = "DIRECTORY"
          /\ \/ /\ ~obj[o].active /\ UnlistDead(e)
                /\ Goto(t, "retry") /\ UNCHANGED <<lock, obj, my>>
             \/ /\ ShutsDown(o, obj[o].agents)
                /\ obj' = [obj EXCEPT ![o] = ShutDown(@)]
                /\ lock' = t
                /\ Goto(t, "stuck") /\ UNCHANGED <<entry, entry_count, my>>
             \/ /\ obj[o].active /\ ~ShutsDown(o, obj[o].agents)
                /\ Take(o) /\ my' = [my EXCEPT ![t].obj = o]
                /\ Goto(t, "have") /\ UNCHANGED <<lock, entry, entry_count>>
    BY DEF LookupInstalled, Found
  <1>1. PICK o \in Objs : entry[e].obj = o BY <1>0 DEF IInv, EntryInv, EntryOK
  <1>2. /\ TypeOK /\ RefExact /\ PlaceInv /\ LinkInv /\ obj \in [Objs -> ObjType] /\ None \notin Objs
        /\ LifeAt(o) /\ AgentAt(o) /\ MemberAt(o) /\ CloseAt(o) /\ LinksAt(o) /\ sleepers \subseteq Threads
        /\ NoLostSleeper /\ EntryInv /\ CountInv /\ \A p \in Objs : ObjAt(p)
    BY Parts DEF IInv
  <1>3. /\ pc[t] \in {"lookup", "asleep"} /\ (pc[t] = "asleep" => t \notin sleepers)
        /\ my[t].obj = None /\ held[t] = None /\ t # None
        /\ UNCHANGED <<sleepers, tgrp, held, events, late>>
    BY <1>2, DirectoryAssumption DEF LookupInstalled, Looking, PlaceInv
  <1>4. obj[o].parent = e /\ obj[o].temporary /\ ~Parted(o) /\ e # None /\ entry[e].type = "DIRECTORY"
    BY <1>0, <1>1, <1>2, DirectoryAssumption DEF LinkInv, ListedInv
  <1>5. CASE ~obj[o].active /\ UnlistDead(e) /\ Goto(t, "retry") /\ UNCHANGED <<lock, obj, my>>
    <2>1. pc'[t] = "retry" /\ \A u \in Threads \ {t} : pc'[u] = pc[u] BY <1>2, <1>5 DEF TypeOK, Goto
    <2>2. QuietMove BY <1>3, <1>5, <2>1 DEF QuietMove, Quiet
    <2>3. \A p \in Objs : ObjAt(p)' /\ (Parted(p)' <=> Parted(p)) BY <1>2, <1>5, <2>2, QuietStep
    <2>4. Unlist(e) /\ obj' = obj BY <1>5 DEF UnlistDead
    <2>5. /\ entry' \in [Tags -> EntryType] /\ entry_count' \in Nat
          /\ EntryInv' /\ LinkInv' /\ CountInv'
          /\ \A f \in Tags : entry[f].type = "RESERVED" => entry'[f] = entry[f]
      BY <1>1, <1>2, <1>4, <1>5, <2>3, <2>4, UnlistInv
    <2>6. TypeOK' BY <1>2, <1>3, <1>5, <2>5 DEF TypeOK, EntryType, Goto
    <2>7. NoLostSleeper'
      <3>1. \A u \in Threads : pc[u] = "broadcast" => pc'[u] = "broadcast" BY <1>3, <2>1
      <3> QED BY <1>2, <1>3, <1>5, <2>5, <3>1, SleepersKept
    <2>8. PlaceInv' BY <1>2, <1>3, <1>5, <2>1 DEF PlaceInv
    <2>9. RefExact' BY <1>2, <2>2, RefSame DEF QuietMove
    <2> QED BY <2>3, <2>5, <2>6, <2>7, <2>8, <2>9 DEF IInv
  <1>6. CASE /\ ShutsDown(o, obj[o].agents) /\ obj' = [obj EXCEPT ![o] = ShutDown(obj[o])] /\ lock' = t
             /\ Goto(t, "stuck") /\ UNCHANGED <<entry, entry_count, my>>
    <2>1. pc'[t] = "stuck" /\ \A u \in Threads \ {t} : pc'[u] = pc[u] BY <1>2, <1>6 DEF TypeOK, Goto
    <2>2. obj[o] \in ObjType /\ \A p \in Objs \ {o} : obj'[p] = obj[p] BY <1>2, <1>6
    <2>3. obj' \in [Objs -> ObjType] => TypeOK' BY <1>2, <1>3, <1>6 DEF TypeOK, ObjType, Goto
    <2>4. PlaceInv' BY <1>2, <1>3, <1>6, <2>1 DEF PlaceInv
    <2>5. Focus(t, o) BY <1>2, <1>3, <1>6, <2>1, <2>2 DEF Focus, Only, Alone
    <2>6. Unused(o) /\ obj[o].parent # None BY <1>4, <1>6 DEF ShutsDown, Unused
    <2>7. AgentsGo(t, o, obj[o]) BY <1>2, <1>3 DEF AgentsGo, Agents
    <2>8. SameMember(t, o) BY <1>3, <2>1 DEF SameMember
    <2>9. Shuts(t) BY <1>3, <2>1 DEF Shuts
    <2>10. lock' # None BY <1>3, <1>6
    <2> QED BY <1>3, <1>6, <2>2, <2>3, <2>4, <2>5, <2>6, <2>7, <2>8, <2>9, <2>10, ShutStep
  <1>7. CASE /\ obj[o].active /\ Take(o) /\ my' = [my EXCEPT ![t].obj = o]
             /\ Goto(t, "have") /\ UNCHANGED <<lock, entry, entry_count>>
    <2>1. /\ pc'[t] = "have" /\ my'[t].obj = o
          /\ \A u \in Threads \ {t} : pc'[u] = pc[u] /\ my'[u] = my[u]
      <3>1. my \in [Threads -> [name : Names \cup {None}, tag : Tags \cup {None}, obj : Objs \cup {None}]]
        BY <1>2 DEF TypeOK
      <3>2. my'[t].obj = o /\ \A u \in Threads \ {t} : my'[u] = my[u] BY <1>7, <3>1
      <3> QED BY <1>2, <1>7, <3>2 DEF TypeOK, Goto
    <2>2. /\ obj[o] \in ObjType /\ \A p \in Objs \ {o} : obj'[p] = obj[p]
          /\ obj'[o] = [obj[o] EXCEPT !.refs = obj[o].refs + 1]
      BY <1>2, <1>7 DEF Take
    <2>3. /\ Like(obj'[o], obj[o]) /\ obj'[o].refs = obj[o].refs + 1 /\ obj'[o].leaks = obj[o].leaks
          /\ obj'[o].members = obj[o].members /\ obj'[o].used = obj[o].used
      BY <2>2, MoreRefs
    <2>4. obj' \in [Objs -> ObjType] BY <1>2, <1>7, <2>2, <2>3 DEF Like, Take
    <2>5. TypeOK'
      <3>1. my \in [Threads -> [name : Names \cup {None}, tag : Tags \cup {None}, obj : Objs \cup {None}]]
        BY <1>2 DEF TypeOK
      <3>2. my' \in [Threads -> [name : Names \cup {None}, tag : Tags \cup {None}, obj : Objs \cup {None}]]
        BY <1>7, <3>1
      <3> QED BY <1>2, <1>3, <1>7, <2>4, <3>2 DEF TypeOK, ObjType, Goto
    <2>6. PlaceInv' BY <1>2, <1>3, <1>7, <2>1 DEF PlaceInv
    <2>7. Focus(t, o) BY <1>2, <1>3, <1>7, <2>1, <2>2 DEF Focus, Only, Alone
    <2>8. RefExact'
      <3>1. Has(t, o)' = Has(t, o) + 1 BY <1>2, <1>3, <2>1 DEF Has, One
      <3>2. Has(t, o) \in Nat BY DEF Has, One
      <3>3. Only(t, o) BY <2>7 DEF Focus
      <3>4. One(obj[o].temporary) \in Nat /\ obj'[o].temporary = obj[o].temporary BY <2>3 DEF One, Like
      <3>5. obj[o].refs \in Nat /\ obj[o].leaks \in Nat BY <2>2 DEF ObjType
      <3>6. obj'[o].refs + Has(t, o) + obj[o].leaks + One(obj[o].temporary)
               = obj[o].refs + Has(t, o)' + obj'[o].leaks + One(obj'[o].temporary)
        BY <2>3, <3>1, <3>2, <3>4, <3>5
      <3> QED BY <1>2, <2>4, <3>3, <3>6, RefStep
    <2>9. /\ obj'[o].temporary = obj[o].temporary /\ obj'[o].active = obj[o].active
          /\ obj'[o].agents = obj[o].agents /\ obj'[o].parent = obj[o].parent /\ obj'[o].links = obj[o].links
      BY <2>3 DEF Like
    <2>10. \A u \in Threads : Closes(u, o)' <=> Closes(u, o) BY <1>3, <2>1 DEF Closes
    <2>11. Parted(o)' <=> Parted(o) BY <1>3, <2>1, <2>10 DEF Parted
    <2>12. LifeAt(o)'
      <3>1. obj'[o].refs # 0 BY <2>2, <2>3 DEF ObjType
      <3>2. \A u \in Threads : ~(pc[u] = "install" /\ my[u].obj = o) BY <1>2, <1>4, NewFields DEF LifeAt
      <3>3. \A u \in Threads : ~(pc'[u] = "install" /\ my'[u].obj = o) BY <2>1, <3>2
      <3> QED BY <1>4, <2>9, <3>1, <3>3 DEF LifeAt
    <2>13. AgentAt(o)'
      <3>1. Agents(o)' = Agents(o) BY <1>2, <1>3, <2>1 DEF Agents
      <3> QED BY <1>2, <2>9, <3>1 DEF AgentAt
    <2>14. MemberAt(o)'
      <3>1. \A u \in Threads : pc'[u] \in {"tidy", "unlink", "unlinked"} <=> pc[u] \in {"tidy", "unlink", "unlinked"}
        BY <1>3, <2>1
      <3> QED BY <1>2, <1>3, <2>3, <2>9, <3>1 DEF MemberAt
    <2>15. CloseAt(o)'
      <3>1. \A u \in Threads : pc'[u] = "tidy" <=> pc[u] = "tidy" BY <1>3, <2>1
      <3>2. Empty(o)' <=> Empty(o) BY <2>3 DEF Empty
      <3> QED BY <1>2, <1>3, <1>7, <2>3, <2>9, <2>10, <3>1, <3>2 DEF CloseAt
    <2>16. LinksAt(o)' BY <1>2, <2>9 DEF LinksAt
    <2>17. ObjAt(o)' BY <2>12, <2>13, <2>14, <2>15 DEF ObjAt
    <2> QED BY <1>3, <1>7, <2>1, <2>5, <2>6, <2>7, <2>8, <2>9, <2>11, <2>16, <2>17, FocusStep
  <1> QED BY <1>0, <1>1, <1>5, <1>6, <1>7

\* Making an entry, or giving it up: entry e belongs to no object but o, which
\* was not listed.
LEMMA EntryLinks ==
    ASSUME NEW t \in Threads, NEW o \in Objs, NEW e \in Tags, Focus(t, o), LinkInv, \A p \in Objs : ObjAt(p),
           \A f \in Tags \ {e} : entry'[f] = entry[f], entry[e].type \in {"FREE", "RESERVED"},
           ~obj[o].temporary, ~Parted(o)', LinksAt(o)',
           \/ obj'[o].parent = None /\ entry'[e].type # "DIRECTORY"
           \/ obj'[o].parent = e /\ obj'[o].temporary /\ entry'[e].type = "DIRECTORY" /\ entry'[e].obj = o
    PROVE  LinkInv'
  <1>1. \A p \in Objs \ {o} : obj'[p] = obj[p] /\ (Parted(p)' <=> Parted(p))
    BY Elsewhere DEF Focus, Only
  <1>2. None # e BY DirectoryAssumption
  <1>3. \A f \in Tags : entry[f].type = "DIRECTORY" => f # e /\ entry[f].obj # o
    BY DEF LinkInv, ListedInv
  <1>4. \A p \in Objs : obj[p].parent = e => Parted(p) BY DEF LinkInv, ParentInv
  <1>5. ListedInv'
    <2> SUFFICES ASSUME NEW f \in Tags, NEW p \in Objs, entry'[f].type = "DIRECTORY", entry'[f].obj = p
                 PROVE  obj'[p].parent = f /\ obj'[p].temporary /\ ~Parted(p)'
      BY DEF ListedInv
    <2>1. CASE f = e BY <2>1
    <2>2. CASE f # e
      <3>1. p # o BY <1>3, <2>2
      <3> QED BY <1>1, <2>2, <3>1 DEF LinkInv, ListedInv
    <2> QED BY <2>1, <2>2
  <1>6. ParentInv'
    <2> SUFFICES ASSUME NEW f \in Tags, NEW p \in Objs, obj'[p].parent = f, ~Parted(p)'
                 PROVE  \/ entry'[f].type = "DIRECTORY" /\ entry'[f].obj = p
                        \/ entry'[f].type = "INVALID" /\ ~obj'[p].active
      BY DEF ParentInv
    <2>1. CASE p = o BY <2>1, DirectoryAssumption
    <2>2. CASE p # o
      <3>1. f # e BY <1>1, <1>4, <2>2
      <3> QED BY <1>1, <2>2, <3>1 DEF LinkInv, ParentInv
    <2> QED BY <2>1, <2>2
  <1>7. ParentUnique'
    <2> SUFFICES ASSUME NEW p \in Objs, NEW q \in Objs, obj'[p].parent # None, obj'[p].parent = obj'[q].parent, p # q
                 PROVE  Parted(p)' \/ Parted(q)'
      BY DEF ParentUnique
    <2>1. CASE p = o BY <1>1, <1>4, <2>1
    <2>2. CASE q = o BY <1>1, <1>4, <2>2
    <2>3. CASE p # o /\ q # o BY <1>1, <2>3 DEF LinkInv, ParentUnique
    <2> QED BY <2>1, <2>2, <2>3
  <1>8. \A p \in Objs : LinksAt(p)'
    <2>1. \A p \in Objs \ {o} : LinksAt(p)' BY <1>1 DEF LinkInv, LinksAt
    <2> QED BY <2>1
  <1> QED BY <1>5, <1>6, <1>7, <1>8 DEF LinkInv

\* What is true of an object nobody has.
LEMMA NobodyHas ==
    ASSUME IInv, NEW o \in Objs, obj[o].refs = 0
    PROVE  obj[o] = FreeObj /\ \A u \in Threads : held[u] # o /\ tgrp[u] # o /\ my[u].obj # o
  <1>1. obj[o] = FreeObj BY Parts DEF LifeAt
  <1>2. ASSUME NEW u \in Threads, held[u] = o \/ tgrp[u] = o \/ my[u].obj = o PROVE FALSE
    BY <1>2, AliveStep
  <1> QED BY <1>1, <1>2

\* A free entry is reserved, and a free object taken.
LEMMA FindReserveStep ==
    ASSUME IInv, NEW t \in Threads, NEW n \in Names, FindReserve(t, n)
    PROVE  IInv'
  <1>0. PICK e \in Tags, o \in Objs :
          /\ ns_reserve_entry(n, e)
          /\ obj[o].refs = 0 /\ obj' = [obj EXCEPT ![o].refs = 1]
          /\ my' = [my EXCEPT ![t] = [name |-> n, tag |-> e, obj |-> o]]
    BY DEF FindReserve
  <1>1. /\ TypeOK /\ RefExact /\ PlaceInv /\ LinkInv /\ obj \in [Objs -> ObjType] /\ None \notin Objs
        /\ sleepers \subseteq Threads
        /\ NoLostSleeper /\ EntryInv /\ CountInv /\ \A p \in Objs : ObjAt(p)
    BY Parts DEF IInv
  <1>2. entry \in [Tags -> EntryType] /\ entry_count \in Nat BY <1>1 DEF TypeOK, EntryType
  <1>3. /\ pc[t] \in {"idle", "retry"} /\ held[t] = None /\ my[t].obj = None
        /\ pc' = [pc EXCEPT ![t] = "install"]
        /\ UNCHANGED <<lock, sleepers, tgrp, held, events, late>>
    BY <1>1 DEF FindReserve, Goto, PlaceInv
  <1>4. /\ Found(n) = {} /\ entry[e].type = "FREE" /\ entry_count' = entry_count + 1
        /\ entry' = [entry EXCEPT ![e] = [type |-> "RESERVED", name |-> n, obj |-> None, listed |-> TRUE]]
    BY <1>0 DEF ns_reserve_entry
  <1>5. /\ pc'[t] = "install" /\ my'[t] = [name |-> n, tag |-> e, obj |-> o]
        /\ \A u \in Threads \ {t} : pc'[u] = pc[u] /\ my'[u] = my[u]
    BY <1>0, <1>1, <1>3 DEF TypeOK
  <1>6. my'[t].obj = o /\ my'[t].tag = e /\ my'[t].name = n BY <1>5
  <1>7. /\ entry' \in [Tags -> EntryType] /\ \A f \in Tags \ {e} : entry'[f] = entry[f]
        /\ entry'[e].type = "RESERVED" /\ entry'[e].name = n /\ entry'[e].obj = None /\ entry'[e].listed
    BY <1>2, <1>4 DEF EntryType
  <1>8. obj[o] = FreeObj /\ \A u \in Threads : held[u] # o /\ tgrp[u] # o /\ my[u].obj # o
    BY <1>0, NobodyHas
  <1>9. obj'[o] = NewObj /\ \A p \in Objs \ {o} : obj'[p] = obj[p]
    BY <1>0, <1>1, <1>8 DEF NewObj
  <1>10. obj' \in [Objs -> ObjType] BY <1>0, <1>1, <1>9, NewFields
  <1>11. TypeOK'
    <2>1. my \in [Threads -> [name : Names \cup {None}, tag : Tags \cup {None}, obj : Objs \cup {None}]]
      BY <1>1 DEF TypeOK
    <2>2. my' \in [Threads -> [name : Names \cup {None}, tag : Tags \cup {None}, obj : Objs \cup {None}]]
      BY <1>0, <2>1
    <2>3. entry_count' \in Nat BY <1>2, <1>4
    <2> QED BY <1>1, <1>3, <1>7, <1>10, <2>2, <2>3 DEF TypeOK, ObjType, EntryType
  <1>12. PlaceInv' BY <1>1, <1>3, <1>5, <1>6 DEF PlaceInv
  <1>13. Focus(t, o) BY <1>1, <1>3, <1>5, <1>6, <1>8, <1>9 DEF Focus, Only, Alone
  <1>14. RefExact'
    <2>1. Has(t, o) = 0 /\ Has(t, o)' = 1 BY <1>3, <1>6, <1>8 DEF Has, One
    <2>2. One(obj[o].temporary) = 0 /\ One(obj'[o].temporary) = 0 /\ obj[o].leaks = 0 /\ obj'[o].leaks = 0
          /\ obj[o].refs = 0 /\ obj'[o].refs = 1
      BY <1>8, <1>9, FreeFields, NewFields DEF One
    <2>3. Only(t, o) BY <1>13 DEF Focus
    <2> QED BY <1>1, <1>10, <2>1, <2>2, <2>3, RefStep
  <1>15. NoLostSleeper'
    <2>1. \A f \in Tags : entry[f].type = "RESERVED" => entry'[f] = entry[f] BY <1>4, <1>7
    <2>2. \A u \in Threads : pc[u] = "broadcast" => pc'[u] = "broadcast" BY <1>3, <1>5
    <2>3. \A u \in sleepers' : my'[u].name = my[u].name BY <1>1, <1>3, <1>5 DEF PlaceInv
    <2> QED BY <1>1, <1>3, <2>1, <2>2, <2>3, SleepersKept
  <1>16. EntryInv'
    <2>1. EntryInv /\ \A f \in Tags : entry[f].listed => entry[f].name # n BY <1>1, <1>4 DEF Found
    <2>2. ASSUME NEW f \in Tags, NEW g \in Tags, entry'[f].listed, entry'[g].listed, entry'[f].name = entry'[g].name
          PROVE  f = g
      BY <1>7, <2>1, <2>2 DEF EntryInv
    <2>3. \A f \in Tags : EntryOK(entry'[f])
      <3>1. EntryOK(entry'[e]) BY <1>7 DEF EntryOK
      <3> QED BY <1>7, <2>1, <3>1 DEF EntryInv
    <2> QED BY <2>2, <2>3 DEF EntryInv
  <1>17. CountInv'
    <2>1. EntryOK(entry[e]) BY <1>1 DEF EntryInv
    <2>2. ~entry[e].listed BY <1>4, <2>1 DEF EntryOK
    <2> QED BY <1>1, <1>4, <1>7, <2>2, CountStep
  <1>18. \A u \in Threads : ~Closes(u, o)' BY <1>3, <1>8 DEF Closes
  <1>19. ObjAt(o)' /\ LinksAt(o)'
    <2>1. LifeAt(o)'
      <3>1. obj'[o].refs # 0 BY <1>9, NewFields
      <3>2. \A u \in Threads : my'[u].obj = o => u = t BY <1>5, <1>8
      <3>3. \A u \in Threads : held'[u] # o /\ tgrp'[u] # o BY <1>3, <1>8
      <3> QED BY <1>5, <1>9, <3>1, <3>2, <3>3 DEF LifeAt
    <2>2. AgentAt(o)'
      <3>1. Agents(o)' = {} BY <1>3, <1>8 DEF Agents
      <3> QED BY <1>9, <3>1, FS_EmptySet, NewFields DEF AgentAt
    <2>3. MemberAt(o)' BY <1>3, <1>8, <1>9, NewFields DEF MemberAt
    <2>4. CloseAt(o)' BY <1>9, <1>18, NewFields DEF CloseAt
    <2>5. LinksAt(o)' BY <1>9, NewFields DEF LinksAt
    <2> QED BY <2>1, <2>2, <2>3, <2>4, <2>5 DEF ObjAt
  <1>20. LinkInv'
    <2>1. ~obj[o].temporary /\ obj'[o].parent = None BY <1>8, <1>9, FreeFields, NewFields
    <2>2. ~Parted(o)' BY <1>18 DEF Parted
    <2>3. entry[e].type \in {"FREE", "RESERVED"} /\ entry'[e].type # "DIRECTORY" BY <1>4, <1>7
    <2> QED BY <1>1, <1>7, <1>13, <1>19, <2>1, <2>2, <2>3, EntryLinks
  <1>21. \A p \in Objs : ObjAt(p)' BY <1>1, <1>13, <1>19, Elsewhere
  <1> QED BY <1>11, <1>12, <1>14, <1>15, <1>16, <1>17, <1>20, <1>21 DEF IInv

\* The object of an entry that is being made.
LEMMA BeingMade ==
    ASSUME IInv, NEW t \in Threads, pc[t] = "install"
    PROVE  /\ my[t].obj \in Objs /\ my[t].tag \in Tags /\ obj[my[t].obj] = NewObj /\ held[t] = None
           /\ \A u \in Threads : /\ held[u] # my[t].obj /\ tgrp[u] # my[t].obj
                                 /\ my[u].obj = my[t].obj => u = t
  <1>1. PlaceInv /\ \A o \in Objs : LifeAt(o) BY Parts
  <1>2. my[t].obj \in Objs /\ my[t].tag \in Tags /\ held[t] = None BY <1>1 DEF PlaceInv
  <1> QED BY <1>1, <1>2 DEF LifeAt

\* ns_register_tmplink.
LEMMA Linked ==
    ASSUME NEW x \in ObjType, NEW e \in Tags, NEW y, y = ns_register_tmplink(x, e)
    PROVE  /\ y \in ObjType /\ y.refs = x.refs + 1 /\ y.active = x.active /\ y.agents = x.agents
           /\ y.links = x.links + 1 /\ y.parent = e /\ y.temporary /\ y.leaks = x.leaks
           /\ y.used = x.used /\ y.members = x.members
  <1> DEFINE z == [x EXCEPT !.links = x.links + 1]
             w == [z EXCEPT !.refs = z.refs + 1]
             v == [w EXCEPT !.parent = e]
  <1>1. y = [v EXCEPT !.temporary = TRUE] BY DEF ns_register_tmplink, ObjType
  <1>2. /\ z \in ObjType /\ z.refs = x.refs /\ z.active = x.active /\ z.agents = x.agents
        /\ z.links = x.links + 1 /\ z.leaks = x.leaks /\ z.used = x.used /\ z.members = x.members
    BY DEF ObjType
  <1> HIDE DEF z
  <1>3. /\ w \in ObjType /\ w.refs = z.refs + 1 /\ w.active = z.active /\ w.agents = z.agents
        /\ w.links = z.links /\ w.leaks = z.leaks /\ w.used = z.used /\ w.members = z.members
    BY <1>2 DEF ObjType
  <1> HIDE DEF w
  <1>4. /\ v \in ObjType /\ v.refs = w.refs /\ v.active = w.active /\ v.agents = w.agents /\ v.parent = e
        /\ v.links = w.links /\ v.leaks = w.leaks /\ v.used = w.used /\ v.members = w.members
    BY <1>3 DEF ObjType
  <1> HIDE DEF v
  <1>5. /\ y \in ObjType /\ y.refs = v.refs /\ y.active = v.active /\ y.agents = v.agents /\ y.parent = v.parent
        /\ y.links = v.links /\ y.leaks = v.leaks /\ y.used = v.used /\ y.members = v.members /\ y.temporary
    BY <1>1, <1>4 DEF ObjType
  <1> QED BY <1>2, <1>3, <1>4, <1>5

\* The entry and the object are linked.
LEMMA InstallStep ==
    ASSUME IInv, NEW t \in Threads, Install(t)
    PROVE  IInv'
  <1>0. PICK o \in Objs, e \in Tags : my[t].obj = o /\ my[t].tag = e BY BeingMade DEF Install
  <1>1. /\ TypeOK /\ RefExact /\ PlaceInv /\ LinkInv /\ obj \in [Objs -> ObjType] /\ None \notin Objs
        /\ sleepers \subseteq Threads
        /\ NoLostSleeper /\ EntryInv /\ CountInv /\ \A p \in Objs : ObjAt(p)
    BY Parts DEF IInv
  <1>2. entry \in [Tags -> EntryType] BY <1>1 DEF TypeOK, EntryType
  <1>3. /\ pc[t] = "install" /\ pc' = [pc EXCEPT ![t] = "broadcast"]
        /\ entry[e].type = "RESERVED"
        /\ entry' = [entry EXCEPT ![e].type = "DIRECTORY", ![e].obj = o]
        /\ obj' = [obj EXCEPT ![o] = ns_register_tmplink(obj[o], e)]
        /\ UNCHANGED <<lock, entry_count, sleepers, my, tgrp, held, events, late>>
    BY <1>0 DEF Install, Goto, ns_install_entry
  <1>4. /\ obj[o] = NewObj /\ held[t] = None
        /\ \A u \in Threads : held[u] # o /\ tgrp[u] # o /\ (my[u].obj = o => u = t)
    BY <1>0, <1>3, BeingMade
  <1>5. pc'[t] = "broadcast" /\ \A u \in Threads \ {t} : pc'[u] = pc[u] BY <1>1, <1>3 DEF TypeOK
  <1>6. /\ entry' \in [Tags -> EntryType] /\ \A f \in Tags \ {e} : entry'[f] = entry[f]
        /\ entry'[e] = [entry[e] EXCEPT !.type = "DIRECTORY", !.obj = o]
    BY <1>2, <1>3 DEF EntryType
  <1>7. /\ entry'[e].type = "DIRECTORY" /\ entry'[e].obj = o /\ entry'[e].name = entry[e].name
        /\ entry'[e].listed = entry[e].listed
    BY <1>2, <1>6 DEF EntryType
  <1>8. obj'[o] = ns_register_tmplink(NewObj, e) /\ \A p \in Objs \ {o} : obj'[p] = obj[p] BY <1>1, <1>3, <1>4
  <1>9. /\ obj'[o] \in ObjType /\ obj'[o].refs = 2 /\ obj'[o].active /\ obj'[o].agents = 0
        /\ obj'[o].links = 1 /\ obj'[o].parent = e /\ obj'[o].temporary /\ obj'[o].leaks = 0
        /\ ~obj'[o].used /\ \A u \in Threads : obj'[o].members[u] = "OUT"
    BY <1>8, NewFields, Linked
  <1>10. obj' \in [Objs -> ObjType] BY <1>1, <1>3, <1>8, <1>9
  <1>11. TypeOK' BY <1>1, <1>3, <1>6, <1>10 DEF TypeOK, ObjType, EntryType
  <1>12. PlaceInv' BY <1>1, <1>3, <1>4, <1>5 DEF PlaceInv
  <1>13. Focus(t, o) BY <1>0, <1>1, <1>3, <1>4, <1>5, <1>8 DEF Focus, Only, Alone
  <1>14. RefExact'
    <2>1. Has(t, o) = Has(t, o)' /\ Has(t, o) \in Nat BY <1>3 DEF Has, One
    <2>2. One(obj[o].temporary) = 0 /\ One(obj'[o].temporary) = 1 /\ obj[o].leaks = 0 /\ obj'[o].leaks = 0
          /\ obj[o].refs = 1 /\ obj'[o].refs = 2
      BY <1>4, <1>9, NewFields DEF One
    <2>3. Only(t, o) BY <1>13 DEF Focus
    <2> QED BY <1>1, <1>10, <2>1, <2>2, <2>3, RefStep
  <1>15. NoLostSleeper' BY <1>5 DEF NoLostSleeper
  <1>16. EntryInv'
    <2>1. EntryInv BY <1>1
    <2>2. \A f \in Tags : entry'[f].listed = entry[f].listed /\ entry'[f].name = entry[f].name BY <1>6, <1>7
    <2>3. EntryOK(entry'[e])
      <3>1. EntryOK(entry[e]) BY <2>1 DEF EntryInv
      <3>2. entry[e].listed BY <1>3, <3>1 DEF EntryOK
      <3> QED BY <1>7, <3>1, <3>2 DEF EntryOK
    <2>4. \A f \in Tags : EntryOK(entry'[f]) BY <1>6, <2>1, <2>3 DEF EntryInv
    <2> QED BY <2>1, <2>2, <2>4 DEF EntryInv
  <1>17. CountInv' BY <1>1, <1>3, <1>6, <1>7, CountStep
  <1>18. \A u \in Threads : ~Closes(u, o)' BY <1>3, <1>4 DEF Closes
  <1>19. ObjAt(o)' /\ LinksAt(o)'
    <2>1. LifeAt(o)'
      <3>1. obj'[o].refs # 0 BY <1>9
      <3>2. \A u \in Threads : ~(pc'[u] = "install" /\ my'[u].obj = o) BY <1>3, <1>4, <1>5
      <3> QED BY <1>9, <3>1, <3>2 DEF LifeAt
    <2>2. AgentAt(o)'
      <3>1. Agents(o)' = {} BY <1>3, <1>4 DEF Agents
      <3> QED BY <1>9, <3>1, FS_EmptySet DEF AgentAt
    <2>3. MemberAt(o)' BY <1>3, <1>4, <1>9 DEF MemberAt
    <2>4. CloseAt(o)' BY <1>9, <1>18 DEF CloseAt
    <2>5. LinksAt(o)'
      <3>1. e # None BY DirectoryAssumption
      <3> QED BY <1>9, <3>1 DEF LinksAt
    <2> QED BY <2>1, <2>2, <2>3, <2>4, <2>5 DEF ObjAt
  <1>20. LinkInv'
    <2>1. ~obj[o].temporary BY <1>4, NewFields
    <2>2. ~Parted(o)' BY <1>18 DEF Parted
    <2>3. entry[e].type \in {"FREE", "RESERVED"} BY <1>3
    <2>4. obj'[o].parent = e /\ obj'[o].temporary BY <1>9
    <2> QED BY <1>1, <1>6, <1>7, <1>13, <1>19, <2>1, <2>2, <2>3, <2>4, EntryLinks
  <1>21. \A p \in Objs : ObjAt(p)' BY <1>1, <1>13, <1>19, Elsewhere
  <1> QED BY <1>11, <1>12, <1>14, <1>15, <1>16, <1>17, <1>20, <1>21 DEF IInv

\* The entry and the object are given up.
LEMMA CancelStep ==
    ASSUME IInv, NEW t \in Threads, Cancel(t)
    PROVE  IInv'
  <1>0. PICK o \in Objs, e \in Tags : my[t].obj = o /\ my[t].tag = e BY BeingMade DEF Cancel
  <1>1. /\ TypeOK /\ RefExact /\ PlaceInv /\ LinkInv /\ obj \in [Objs -> ObjType] /\ None \notin Objs
        /\ sleepers \subseteq Threads
        /\ NoLostSleeper /\ EntryInv /\ CountInv /\ \A p \in Objs : ObjAt(p)
    BY Parts DEF IInv
  <1>2. entry \in [Tags -> EntryType] /\ entry_count \in Nat BY <1>1 DEF TypeOK, EntryType
  <1>3. /\ pc[t] = "install" /\ pc' = [pc EXCEPT ![t] = "broadcast"]
        /\ entry[e].type = "RESERVED" /\ entry' = [entry EXCEPT ![e] = FreeEntry]
        /\ entry_count' = entry_count - 1
        /\ obj' = [obj EXCEPT ![o] = Deref(obj[o], 1)] /\ my' = [my EXCEPT ![t] = Nothing]
        /\ UNCHANGED <<lock, sleepers, tgrp, held, events, late>>
    BY <1>0 DEF Cancel, Goto, ns_cancel_entry
  <1>4. /\ obj[o] = NewObj /\ held[t] = None
        /\ \A u \in Threads : held[u] # o /\ tgrp[u] # o /\ (my[u].obj = o => u = t)
    BY <1>0, <1>3, BeingMade
  <1>5. /\ pc'[t] = "broadcast" /\ my'[t] = Nothing /\ my'[t].obj = None
        /\ \A u \in Threads \ {t} : pc'[u] = pc[u] /\ my'[u] = my[u]
    BY <1>1, <1>3 DEF TypeOK, Nothing
  <1>6. /\ entry' \in [Tags -> EntryType] /\ entry'[e] = FreeEntry /\ \A f \in Tags \ {e} : entry'[f] = entry[f]
        /\ ~entry'[e].listed /\ entry'[e].type = "FREE"
    BY <1>2, <1>3 DEF EntryType, FreeEntry
  <1>7. obj'[o] = FreeObj /\ \A p \in Objs \ {o} : obj'[p] = obj[p]
    <2>1. Deref(obj[o], 1) = FreeObj BY <1>4, NewFields DEF Deref
    <2> QED BY <1>1, <1>3, <2>1
  <1>8. obj' \in [Objs -> ObjType] BY <1>1, <1>3, <1>7, FreeFields
  <1>9. entry_count' \in Nat /\ CountInv'
    <2>1. EntryOK(entry[e]) BY <1>1 DEF EntryInv
    <2>2. entry[e].listed BY <1>3, <2>1 DEF EntryOK
    <2>3. entry_count > 0 /\ CountInv' BY <1>1, <1>3, <1>6, <2>2, CountStep
    <2>4. entry_count \in Nat /\ entry_count > 0 /\ entry_count' = entry_count - 1 BY <1>2, <1>3, <2>3
    <2>5. entry_count' \in Nat BY <2>4
    <2> QED BY <2>3, <2>5
  <1>10. TypeOK' BY <1>1, <1>3, <1>6, <1>8, <1>9 DEF TypeOK, ObjType, EntryType, Nothing
  <1>11. PlaceInv' BY <1>1, <1>3, <1>4, <1>5 DEF PlaceInv
  <1>12. Focus(t, o) BY <1>0, <1>1, <1>3, <1>4, <1>5, <1>7 DEF Focus, Only, Alone
  <1>13. RefExact'
    <2>1. Has(t, o) = 1 /\ Has(t, o)' = 0 BY <1>0, <1>1, <1>3, <1>4, <1>5 DEF Has, One
    <2>2. One(obj[o].temporary) = 0 /\ One(obj'[o].temporary) = 0 /\ obj[o].leaks = 0 /\ obj'[o].leaks = 0
          /\ obj[o].refs = 1 /\ obj'[o].refs = 0
      BY <1>4, <1>7, FreeFields, NewFields DEF One
    <2>3. Only(t, o) BY <1>12 DEF Focus
    <2> QED BY <1>1, <1>8, <2>1, <2>2, <2>3, RefStep
  <1>14. NoLostSleeper' BY <1>5 DEF NoLostSleeper
  <1>15. EntryInv'
    <2>1. EntryInv BY <1>1
    <2> QED BY <1>6, <2>1 DEF EntryInv, EntryOK, FreeEntry
  <1>16. ObjAt(o)' /\ LinksAt(o)' /\ ~Parted(o)'
    <2>1. \A u \in Threads : held'[u] # o /\ tgrp'[u] # o /\ my'[u].obj # o BY <1>1, <1>3, <1>4, <1>5
    <2> QED BY <1>7, <2>1, Freed
  <1>17. LinkInv'
    <2>1. ~obj[o].temporary /\ obj'[o].parent = None BY <1>4, <1>7, FreeFields, NewFields
    <2>2. entry[e].type \in {"FREE", "RESERVED"} /\ entry'[e].type # "DIRECTORY" BY <1>3, <1>6
    <2> QED BY <1>1, <1>6, <1>12, <1>16, <2>1, <2>2, EntryLinks
  <1>18. \A p \in Objs : ObjAt(p)' BY <1>1, <1>12, <1>16, Elsewhere
  <1> QED BY <1>9, <1>10, <1>11, <1>13, <1>14, <1>15, <1>17, <1>18 DEF IInv

-----------------------------------------------------------------------------
(* The invariant and the theorems.                                         *)

\* The invariant holds at first,
LEMMA InitInv == ASSUME Init PROVE IInv
  <1>1. /\ lock = None /\ entry_count = 0 /\ sleepers = {} /\ events = 0 /\ late = {}
        /\ entry = [e \in Tags |-> FreeEntry] /\ obj = [o \in Objs |-> FreeObj]
        /\ pc = [t \in Threads |-> "idle"] /\ my = [t \in Threads |-> Nothing]
        /\ tgrp = [t \in Threads |-> None] /\ held = [t \in Threads |-> None]
    BY DEF Init, DirInit
  <1>2. \A t \in Threads : pc[t] = "idle" /\ my[t].obj = None /\ tgrp[t] = None /\ held[t] = None
    BY <1>1 DEF Nothing
  <1>3. \A e \in Tags : entry[e] = FreeEntry BY <1>1
  <1>4. \A o \in Objs : obj[o] = FreeObj /\ o # None BY <1>1, DirectoryAssumption
  <1>5. TypeOK
    <2>1. obj \in [Objs -> ObjType] BY <1>1, FreeFields
    <2>2. FreeEntry \in EntryType BY DEF FreeEntry, EntryType
    <2>3. entry \in [Tags -> EntryType] BY <1>1, <2>2
    <2>4. events \in 0..MaxEvents BY <1>1, GroupsAssumption
    <2> QED BY <1>1, <2>1, <2>3, <2>4 DEF TypeOK, ObjType, EntryType, Nothing
  <1>6. RefExact
    <2> SUFFICES ASSUME NEW o \in Objs
                 PROVE  obj[o].refs = Holders(o) + obj[o].leaks + (IF obj[o].temporary THEN 1 ELSE 0)
      BY DEF RefExact
    <2>1. /\ {t \in Threads : held[t] = o} = {} /\ {t \in Threads : tgrp[t] = o} = {}
          /\ {t \in Threads : my[t].obj = o} = {}
      BY <1>2, <1>4
    <2>2. Holders(o) = 0 BY <2>1, FS_EmptySet DEF Holders
    <2> QED BY <1>4, <2>2, FreeFields
  <1>7. NoLostSleeper BY <1>1 DEF NoLostSleeper
  <1>8. PlaceInv BY <1>1, <1>2 DEF PlaceInv
  <1>9. EntryInv BY <1>3 DEF EntryInv, EntryOK, FreeEntry
  <1>10. CountInv
    <2>1. {e \in Tags : entry[e].listed} = {} BY <1>3 DEF FreeEntry
    <2> QED BY <1>1, <2>1, FS_EmptySet DEF CountInv
  <1>11. \A o \in Objs : ~Parted(o) BY <1>2 DEF Parted, Closes
  <1>12. LinkInv
    <2>1. ListedInv BY <1>3 DEF ListedInv, FreeEntry
    <2>2. ParentInv BY <1>4, DirectoryAssumption, FreeFields DEF ParentInv
    <2>3. ParentUnique BY <1>4, FreeFields DEF ParentUnique
    <2>4. \A o \in Objs : LinksAt(o) BY <1>4, FreeFields DEF LinksAt
    <2> QED BY <2>1, <2>2, <2>3, <2>4 DEF LinkInv
  <1>13. ASSUME NEW o \in Objs PROVE ObjAt(o)
    <2>1. obj[o] = FreeObj /\ o # None BY <1>4
    <2>2. LifeAt(o) BY <1>2, <2>1 DEF LifeAt
    <2>3. AgentAt(o)
      <3>1. Agents(o) = {} BY <1>2, <2>1 DEF Agents
      <3> QED BY <2>1, <3>1, FS_EmptySet, FreeFields DEF AgentAt
    <2>4. MemberAt(o) BY <1>2, <2>1, FreeFields DEF MemberAt
    <2>5. CloseAt(o) BY <1>2, <2>1, FreeFields DEF CloseAt, Closes
    <2> QED BY <2>2, <2>3, <2>4, <2>5 DEF ObjAt
  <1> QED BY <1>5, <1>6, <1>7, <1>8, <1>9, <1>10, <1>12, <1>13 DEF IInv

\* in steps that change nothing,
LEMMA StutterInv == ASSUME IInv, UNCHANGED vars PROVE IInv'
  <1>1. UNCHANGED <<lock, entry, entry_count, sleepers, obj, pc, my, tgrp, held, events, late>>
    BY DEF vars, dirvars, uservars
  <1>2. /\ TypeOK /\ RefExact /\ NoLostSleeper /\ PlaceInv /\ EntryInv /\ CountInv
        /\ LinkInv /\ \A o \in Objs : ObjAt(o)
    BY DEF IInv
  <1>3. QuietMove BY <1>1 DEF QuietMove
  <1>4. \A o \in Objs : ObjAt(o)' /\ (Parted(o)' <=> Parted(o)) BY <1>1, <1>2, <1>3, QuietStep
  <1>5. LinkInv' BY <1>1, <1>2, <1>4 DEF LinkInv, ListedInv, ParentInv, ParentUnique, LinksAt
  <1>6. TypeOK' BY <1>1, <1>2 DEF TypeOK
  <1>7. RefExact' BY <1>1, <1>2, RefSame
  <1>8. NoLostSleeper' /\ PlaceInv' BY <1>1, <1>2 DEF NoLostSleeper, PlaceInv, Found
  <1>9. EntryInv' /\ CountInv' BY <1>1, <1>2 DEF EntryInv, CountInv
  <1> QED BY <1>4, <1>5, <1>6, <1>7, <1>8, <1>9 DEF IInv

\* and in every step.
LEMMA NextInv == ASSUME IInv, Next PROVE IInv'
  <1>1. PICK t \in Threads :
        \/ \E n \in Names : FindReserve(t, n) \/ FindExists(t, n) \/ Remove(t, n)
        \/ Install(t) \/ Cancel(t) \/ Broadcast(t)
        \/ LookupMissing(t) \/ LookupReserved(t) \/ Interrupted(t) \/ LookupInstalled(t)
        \/ NewAgent(t) \/ NoAgent(t) \/ JoinFound(t) \/ JoinHeld(t) \/ Entered(t)
        \/ Leave(t) \/ Tidy(t) \/ DropAgent(t) \/ Unlink(t) \/ Unlinked(t) \/ Event(t)
    BY DEF Next
  <1>2. CASE \E n \in Names : FindReserve(t, n) \/ FindExists(t, n) \/ Remove(t, n)
    BY <1>2, FindReserveStep, FindExistsStep, RemoveStep
  <1>3. CASE Install(t) \/ Cancel(t) \/ Broadcast(t) BY <1>3, InstallStep, CancelStep, BroadcastStep
  <1>4. CASE LookupMissing(t) \/ LookupReserved(t) \/ Interrupted(t) \/ LookupInstalled(t)
    BY <1>4, LookupMissingStep, LookupReservedStep, InterruptedStep, LookupInstalledStep
  <1>5. CASE NewAgent(t) \/ NoAgent(t) BY <1>5, NewAgentStep, NoAgentStep
  <1>6. CASE JoinFound(t) \/ JoinHeld(t) \/ Entered(t) BY <1>6, JoinFoundStep, JoinHeldStep, EnteredStep
  <1>7. CASE Leave(t) \/ Tidy(t) \/ DropAgent(t) BY <1>7, LeaveStep, TidyStep, DropAgentStep
  <1>8. CASE Unlink(t) \/ Unlinked(t) \/ Event(t) BY <1>8, UnlinkStep, UnlinkedStep, EventStep
  <1> QED BY <1>1, <1>2, <1>3, <1>4, <1>5, <1>6, <1>7, <1>8

\* The inductive invariant holds in every behaviour of the task groups.
THEOREM Invariance == Spec => []IInv
  <1>1. Init => IInv BY InitInv
  <1>2. IInv /\ [Next]_vars => IInv' BY NextInv, StutterInv
  <1> QED BY <1>1, <1>2, PTL DEF Spec

\* What the invariant says of the links,
LEMMA LinksImplied == ASSUME IInv PROVE LinksSound
  <1>1. /\ TypeOK /\ RefExact /\ EntryInv /\ CountInv /\ LinkInv /\ \A o \in Objs : ObjAt(o)
        /\ obj \in [Objs -> ObjType] /\ None \notin Objs
    BY Parts DEF IInv
  <1>2. NamesUnique
    <2>1. ASSUME NEW n \in Names PROVE Cardinality(Found(n)) <= 1
      <3>1. \A e, f \in Found(n) : e = f BY <1>1 DEF Found, EntryInv
      <3>2. CASE Found(n) = {} BY <3>2, FS_EmptySet
      <3>3. CASE Found(n) # {}
        <4>1. PICK e \in Found(n) : TRUE BY <3>3
        <4>2. Found(n) = {e} BY <3>1, <4>1
        <4>3. Cardinality({e}) = 1 BY FS_Singleton
        <4> QED BY <4>2, <4>3
      <3> QED BY <3>2, <3>3
    <2> QED BY <1>1, <2>1 DEF NamesUnique, CountInv
  <1>3. \A o \in Objs : obj[o].temporary => obj[o].refs > 0
    <2> SUFFICES ASSUME NEW o \in Objs, obj[o].temporary PROVE obj[o].refs > 0
      OBVIOUS
    <2> DEFINE h == Holders(o)    l == obj[o].leaks    r == obj[o].refs
    <2>1. h \in Nat
      <3>1. /\ IsFiniteSet({t \in Threads : held[t] = o}) /\ IsFiniteSet({t \in Threads : tgrp[t] = o})
            /\ IsFiniteSet({t \in Threads : my[t].obj = o})
        BY DirectoryAssumption, FS_Subset
      <3> DEFINE a == Cardinality({t \in Threads : held[t] = o})
                 b == Cardinality({t \in Threads : tgrp[t] = o})
                 c == Cardinality({t \in Threads : my[t].obj = o})
      <3>2. a \in Nat /\ b \in Nat /\ c \in Nat BY <3>1, FS_CardinalityType
      <3>3. h = a + b + c BY DEF Holders
      <3> HIDE DEF a, b, c, h
      <3> QED BY <3>2, <3>3
    <2>2. l \in Nat BY <1>1 DEF ObjType
    <2>3. r = h + l + 1 BY <1>1 DEF RefExact
    <2> HIDE DEF h, l, r
    <2>4. r > 0 BY <2>1, <2>2, <2>3
    <2> QED BY <2>4 DEF r
  <1>4. LinkSound
    <2>1. ASSUME NEW e \in Tags, entry[e].type = "DIRECTORY"
          PROVE  obj[entry[e].obj].refs > 0 /\ obj[entry[e].obj].parent = e
      <3>1. PICK o \in Objs : entry[e].obj = o BY <1>1, <2>1 DEF EntryInv, EntryOK
      <3>2. obj[o].parent = e /\ obj[o].temporary BY <1>1, <2>1, <3>1 DEF LinkInv, ListedInv
      <3> QED BY <1>3, <3>1, <3>2
    <2>2. ASSUME NEW o \in Objs, obj[o].parent # None
          PROVE  \/ entry[obj[o].parent].type = "DIRECTORY" /\ entry[obj[o].parent].obj = o
                 \/ entry[obj[o].parent].type = "INVALID"
                 \/ \E t \in Threads : (pc[t] = "unlinked" /\ tgrp[t] = o)
                                       \/ (pc[t] = "unlinked agent" /\ held[t] = o)
      <3>1. obj[o].parent \in Tags \cup {None} BY <1>1 DEF ObjType
      <3>2. PICK e \in Tags : obj[o].parent = e BY <2>2, <3>1
      <3>3. CASE Parted(o) BY <3>3 DEF Parted, Closes
      <3>4. CASE ~Parted(o) BY <1>1, <3>2, <3>4 DEF LinkInv, ParentInv
      <3> QED BY <3>3, <3>4
    <2> QED BY <2>1, <2>2 DEF LinkSound
  <1> QED BY <1>1, <1>2, <1>4 DEF LinksSound

\* of the members,
LEMMA MembersImplied == ASSUME IInv PROVE MemberFound
  <1> SUFFICES ASSUME NEW o \in Objs, NEW t \in Threads, obj[o].members[t] = "IN", t \notin late
               PROVE  /\ obj[o].active
                      /\ obj[o].links > 0 => \E e \in Tags : entry[e].listed /\ entry[e].obj = o
    BY DEF MemberFound
  <1>1. /\ LinkInv /\ MemberAt(o) /\ LinksAt(o) /\ CloseAt(o) /\ obj \in [Objs -> ObjType] BY Parts
  <1>2. obj[o].active BY <1>1 DEF MemberAt
  <1>3. \A e \in Tags : EntryOK(entry[e]) BY DEF IInv, EntryInv
  <1>4. ASSUME obj[o].links > 0 PROVE \E e \in Tags : entry[e].listed /\ entry[e].obj = o
    <2>1. obj[o].parent # None
      <3>1. CASE obj[o].parent = None
        <4>1. obj[o].links = 0 BY <1>1, <3>1 DEF LinksAt
        <4> QED BY <1>4, <4>1
      <3> QED BY <3>1
    <2>2. obj[o].parent \in Tags \cup {None} BY <1>1 DEF ObjType
    <2>3. PICK e \in Tags : obj[o].parent = e BY <2>1, <2>2
    <2>4. ~Parted(o) BY <1>1, <1>2 DEF Parted, CloseAt
    <2>5. entry[e].type = "DIRECTORY" /\ entry[e].obj = o BY <1>1, <1>2, <2>3, <2>4 DEF LinkInv, ParentInv
    <2> QED BY <1>3, <2>5 DEF EntryOK
  <1> QED BY <1>2, <1>4

\* and of a group nobody has.
LEMMA DisappearsImplied == ASSUME IInv PROVE Disappears
  <1> SUFFICES ASSUME lock = None, NEW o \in Objs, obj[o].used, Holders(o) = 0
               PROVE  obj[o].refs = obj[o].leaks
    BY DEF Disappears
  <1>1. /\ RefExact /\ LifeAt(o) /\ AgentAt(o) /\ MemberAt(o) /\ CloseAt(o) /\ obj \in [Objs -> ObjType] BY Parts
  <1>2. \A t \in Threads : held[t] # o /\ tgrp[t] # o
    <2> SUFFICES ASSUME NEW t \in Threads, held[t] = o \/ tgrp[t] = o PROVE FALSE
      OBVIOUS
    <2>1. Has(t, o) \in Nat /\ Holders(o) >= Has(t, o) BY HoldersLeast
    <2>2. Has(t, o) # 0 BY DEF Has, One
    <2> QED BY <2>1, <2>2
  <1>3. ~obj[o].temporary
    <2>1. \A t \in Threads : ~Closes(t, o) BY <1>2 DEF Closes
    <2>2. Agents(o) = {} BY <1>2 DEF Agents
    <2>3. obj[o].agents = 0 BY <1>1, <2>2, FS_EmptySet DEF AgentAt
    <2>4. Empty(o) BY <1>1, <1>2 DEF MemberAt, Empty
    <2>5. ~(obj[o].agents > 0) BY <2>3
    <2>6. ~obj[o].active BY <1>1, <1>2, <2>4, <2>5 DEF CloseAt
    <2> QED BY <1>1, <2>1, <2>6 DEF CloseAt
  <1>4. obj[o].refs = 0 + obj[o].leaks + 0 BY <1>1, <1>3 DEF RefExact
  <1>5. obj[o].leaks \in Nat BY <1>1 DEF ObjType
  <1> QED BY <1>4, <1>5

\* Entries, objects and references agree: every name is listed once and counted,
\* the references to a group are exactly those somebody has, a listed group
\* exists, and the entry an object frees is its own (dir.cc, tmp_prop.cc).
THEOREM LinksAreSound == Spec => []LinksSound
  <1>1. IInv => LinksSound BY LinksImplied
  <1> QED BY <1>1, Invariance, PTL

\* A thread that sleeps on a reserved entry is woken: the entry is still
\* reserved, or a broadcast is on the way (dir::ns_lookup_entry).
THEOREM SleepersAreWoken == Spec => []NoLostSleeper
  <1>1. IInv => NoLostSleeper BY DEF IInv
  <1> QED BY <1>1, Invariance, PTL

\* A task that entered a group in time finds it listed while it is a member:
\* tmp_shutdown_internal never goes ahead over it.
THEOREM MembersFindGroups == Spec => []MemberFound
  <1>1. IInv => MemberFound BY MembersImplied
  <1> QED BY <1>1, Invariance, PTL

\* A group that was used and that nobody has any more is freed, but for the
\* references events leave behind and the lookup that waits for itself.
THEOREM AbandonedDisappear == Spec => []Disappears
  <1>1. IInv => Disappears BY DisappearsImplied
  <1> QED BY <1>1, Invariance, PTL
=============================================================================
