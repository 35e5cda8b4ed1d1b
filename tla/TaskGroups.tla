----------------------------- MODULE TaskGroups -----------------------------
(***************************************************************************)
(* The task groups of the task master (server/tm/tm_root.cc, tm_task.cc,   *)
(* tm_task_group.cc): temporary directories (lib/us++/tmp_dir.cc) listed   *)
(* in the directory GROUPS, found or created by their number, entered and  *)
(* left by tasks, held by agents, and sent events.  Each thread works for  *)
(* one task and may hold one agent.                                        *)
(***************************************************************************)
EXTENDS Directory

CONSTANTS MaxEvents  \* bound on the events sent to groups

ASSUME GroupsAssumption == MaxEvents \in Nat

VARIABLES pc,
          my,     \* the name a thread looks for; the entry and the object it has
          tgrp,   \* the group of the thread's task
          held,   \* the group the thread has an agent for
          events,
          late    \* history: tasks that entered a group already shut down

uservars == <<pc, my, tgrp, held, events, late>>
vars == <<dirvars, uservars>>

Nothing == [name |-> None, tag |-> None, obj |-> None]

Init == /\ DirInit
        /\ pc = [t \in Threads |-> "idle"] /\ my = [t \in Threads |-> Nothing]
        /\ tgrp = [t \in Threads |-> None] /\ held = [t \in Threads |-> None]
        /\ events = 0 /\ late = {}

Goto(t, l) == pc' = [pc EXCEPT ![t] = l]

-----------------------------------------------------------------------------
(* tm_find_tgrp_internal                                                   *)

\* The name is free: reserve it and make the group, which is not installed yet.
FindReserve(t, n) ==
    /\ \/ pc[t] = "idle" /\ held[t] = None
       \/ pc[t] = "retry" /\ my[t].name = n
    /\ lock = None
    /\ \E e \in Tags, o \in Objs :
          /\ ns_reserve_entry(n, e)
          /\ obj[o].refs = 0 /\ obj' = [obj EXCEPT ![o].refs = 1]
          /\ my' = [my EXCEPT ![t] = [name |-> n, tag |-> e, obj |-> o]]
    /\ Goto(t, "install")
    /\ UNCHANGED <<lock, sleepers, tgrp, held, events, late>>

\* NS_ENTRY_EXISTS.
FindExists(t, n) ==
    /\ \/ pc[t] = "idle" /\ held[t] = None
       \/ pc[t] = "retry" /\ my[t].name = n
    /\ lock = None /\ Found(n) # {}
    /\ my' = [my EXCEPT ![t] = [Nothing EXCEPT !.name = n]]
    /\ Goto(t, "lookup")
    /\ UNCHANGED <<dirvars, tgrp, held, events, late>>

Install(t) ==
    /\ pc[t] = "install" /\ lock = None
    /\ ns_install_entry(my[t].tag, my[t].obj)
    /\ Goto(t, "broadcast")
    /\ UNCHANGED <<lock, entry_count, sleepers, my, tgrp, held, events, late>>

\* dir::ns_create on the same directory makes its entry the same way, and gives
\* it up when the new object cannot be set up.
Cancel(t) ==
    /\ pc[t] = "install" /\ lock = None
    /\ ns_cancel_entry(my[t].tag)
    /\ obj' = [obj EXCEPT ![my[t].obj] = Deref(@, 1)]
    /\ my' = [my EXCEPT ![t] = Nothing]
    /\ Goto(t, "broadcast")
    /\ UNCHANGED <<lock, sleepers, tgrp, held, events, late>>

\* Mutated form: whoever waits for a reserved entry is not told.
NoBroadcast(t) ==
    /\ pc[t] = "broadcast"
    /\ Goto(t, IF my[t].obj = None THEN "idle" ELSE "have")
    /\ UNCHANGED <<dirvars, my, tgrp, held, events, late>>

\* condition_broadcast, after the lock was released.
Broadcast(t) ==
    /\ pc[t] = "broadcast"
    /\ sleepers' = {}
    /\ Goto(t, IF my[t].obj = None THEN "idle" ELSE "have")
    /\ UNCHANGED <<lock, entry, entry_count, obj, my, tgrp, held, events, late>>

\* ns_lookup_entry holds the lock; a thread that waited looks again.
Looking(t) == lock = None /\ (pc[t] = "lookup" \/ (pc[t] = "asleep" /\ t \notin sleepers))

LookupMissing(t) ==
    /\ Looking(t) /\ Found(my[t].name) = {}
    /\ Goto(t, "retry")
    /\ UNCHANGED <<dirvars, my, tgrp, held, events, late>>

LookupReserved(t) ==
    /\ Looking(t) /\ \E e \in Found(my[t].name) : entry[e].type = "RESERVED"
    /\ sleepers' = sleepers \cup {t}
    /\ Goto(t, "asleep")
    /\ UNCHANGED <<lock, entry, entry_count, obj, my, tgrp, held, events, late>>

\* EXCEPT_SOFTWARE from intr_cond_wait.
Interrupted(t) ==
    /\ pc[t] = "asleep" /\ t \in sleepers /\ lock = None
    /\ sleepers' = sleepers \ {t}
    /\ my' = [my EXCEPT ![t] = Nothing]
    /\ Goto(t, "idle")
    /\ UNCHANGED <<lock, entry, entry_count, obj, tgrp, held, events, late>>

\* The reference ns_reference_tmplink hands to the new client.
Take(o) == obj' = [obj EXCEPT ![o].refs = @ + 1]

\* ns_reference_tmplink, called with the directory's lock.  An object without
\* agents that is not refused its last chance is shut down there and then, and
\* ns_remove_tmplink waits for the lock its caller keeps.
LookupInstalled(t) ==
    /\ Looking(t)
    /\ \E e \in Found(my[t].name) :
          LET o == entry[e].obj IN
          /\ entry[e].type = "DIRECTORY"
          /\ \/ /\ ~obj[o].active /\ UnlistDead(e)
                /\ Goto(t, "retry") /\ UNCHANGED <<lock, obj, my>>
             \/ /\ ShutsDown(o, obj[o].agents)
                /\ obj' = [obj EXCEPT ![o] = ShutDown(@)]
                /\ lock' = t
                /\ Goto(t, "stuck") /\ UNCHANGED <<entry, entry_count, my>>
             \/ /\ obj[o].active /\ ~ShutsDown(o, obj[o].agents)
                /\ Take(o) /\ my' = [my EXCEPT ![t].obj = o]
                /\ Goto(t, "have") /\ UNCHANGED <<lock, entry, entry_count>>
    /\ UNCHANGED <<sleepers, tgrp, held, events, late>>

-----------------------------------------------------------------------------
(* What is done with the group: tm_find_tgrp, tm_set_tgrp, gsignal         *)

\* tm_find_tgrp trades its reference for that of a new agent; register_agent
\* does not ask whether the group is still active.
NewAgent(t) ==
    LET o == my[t].obj IN
    /\ pc[t] = "have"
    /\ obj' = [obj EXCEPT ![o].agents = @ + 1, ![o].used = TRUE]
    /\ held' = [held EXCEPT ![t] = o]
    /\ my' = [my EXCEPT ![t] = Nothing]
    /\ Goto(t, "idle")
    /\ UNCHANGED <<lock, entry, entry_count, sleepers, tgrp, events, late>>

\* Access denied.
NoAgent(t) ==
    /\ pc[t] = "have"
    /\ obj' = [obj EXCEPT ![my[t].obj] = Deref(@, 1)]
    /\ my' = [my EXCEPT ![t] = Nothing]
    /\ Goto(t, "idle")
    /\ UNCHANGED <<lock, entry, entry_count, sleepers, tgrp, held, events, late>>

\* tm_set_tgrp enters the task in the group it found, or has an agent for:
\* tm_add_tgrp_task reserves the name of the task in the group, and installs it.
Enter(t, o) ==
    /\ tgrp[t] = None /\ ~obj[o].stuck
    /\ tgrp' = [tgrp EXCEPT ![t] = o]
    /\ late' = IF obj[o].active THEN late ELSE late \cup {t}
    /\ Goto(t, "entering")

JoinFound(t) ==
    LET o == my[t].obj IN
    /\ pc[t] = "have" /\ Enter(t, o)
    /\ obj' = [obj EXCEPT ![o].members[t] = "RESERVED", ![o].used = TRUE]
    /\ my' = [my EXCEPT ![t] = Nothing]
    /\ UNCHANGED <<lock, entry, entry_count, sleepers, held, events>>

JoinHeld(t) ==
    LET o == held[t] IN
    /\ pc[t] = "idle" /\ o # None /\ Enter(t, o)
    /\ obj' = [obj EXCEPT ![o].members[t] = "RESERVED", ![o].refs = @ + 1]
    /\ UNCHANGED <<lock, entry, entry_count, sleepers, my, held, events>>

Entered(t) ==
    /\ pc[t] = "entering" /\ ~obj[tgrp[t]].stuck
    /\ obj' = [obj EXCEPT ![tgrp[t]].members[t] = "IN"]
    /\ Goto(t, "idle")
    /\ UNCHANGED <<lock, entry, entry_count, sleepers, my, tgrp, held, events, late>>

\* tm_set_tgrp and tm_task_death: dir::ns_remove_entry in the group.
Leave(t) ==
    LET o == tgrp[t] IN
    /\ pc[t] = "idle" /\ o # None /\ ~obj[o].stuck
    /\ obj' = [obj EXCEPT ![o].members[t] = "OUT"]
    /\ late' = late \ {t}
    /\ Goto(t, "tidy")
    /\ UNCHANGED <<lock, entry, entry_count, sleepers, my, tgrp, held, events>>

\* Mutated form: the last member to leave does not look after the group.
TidyNot(t) ==
    LET o == tgrp[t] IN
    /\ pc[t] = "tidy"
    /\ obj' = [obj EXCEPT ![o] = Deref(@, 1)] /\ tgrp' = [tgrp EXCEPT ![t] = None]
    /\ Goto(t, "idle")
    /\ UNCHANGED <<lock, entry, entry_count, sleepers, my, held, events, late>>

\* The rest of tmp_dir::ns_remove_entry, and the reference of tm_set_tgrp.
Tidy(t) ==
    LET o == tgrp[t] IN
    /\ pc[t] = "tidy"
    /\ \/ /\ ShutsDown(o, obj[o].agents) /\ obj[o].links > 0
          /\ obj' = [obj EXCEPT ![o] = ShutDown(@)] /\ Goto(t, "unlink") /\ UNCHANGED tgrp
       \/ /\ ShutsDown(o, obj[o].agents) /\ obj[o].links = 0
          /\ obj' = [obj EXCEPT ![o] = Finish(ShutDown(@), 1)]
          /\ tgrp' = [tgrp EXCEPT ![t] = None] /\ Goto(t, "idle")
       \/ /\ ~ShutsDown(o, obj[o].agents)
          /\ obj' = [obj EXCEPT ![o] = Deref(@, 1)]
          /\ tgrp' = [tgrp EXCEPT ![t] = None] /\ Goto(t, "idle")
    /\ UNCHANGED <<lock, entry, entry_count, sleepers, my, held, events, late>>

\* The agent is destroyed: ns_unregister_agent, then its reference.
DropAgent(t) ==
    LET o == held[t] IN
    /\ pc[t] = "idle" /\ o # None
    /\ \/ /\ ShutsDown(o, obj[o].agents - 1) /\ obj[o].links > 0
          /\ obj' = [obj EXCEPT ![o] = ShutDown(UnregisterAgent(@))]
          /\ Goto(t, "unlink agent") /\ UNCHANGED held
       \/ /\ ShutsDown(o, obj[o].agents - 1) /\ obj[o].links = 0
          /\ obj' = [obj EXCEPT ![o] = Finish(ShutDown(UnregisterAgent(@)), 1)]
          /\ held' = [held EXCEPT ![t] = None] /\ UNCHANGED pc
       \/ /\ ~ShutsDown(o, obj[o].agents - 1)
          /\ obj' = [obj EXCEPT ![o] = Deref(UnregisterAgent(@), 1)]
          /\ held' = [held EXCEPT ![t] = None] /\ UNCHANGED pc
    /\ UNCHANGED <<lock, entry, entry_count, sleepers, my, tgrp, events, late>>

\* tmp_shutdown_internal without the lock of the tmp_prop: out of the directory,
Unlink(t) ==
    LET o == IF pc[t] = "unlink" THEN tgrp[t] ELSE held[t] IN
    /\ pc[t] \in {"unlink", "unlink agent"} /\ lock = None
    /\ ns_remove_tmplink(obj[o].parent)
    /\ Goto(t, IF pc[t] = "unlink" THEN "unlinked" ELSE "unlinked agent")
    /\ UNCHANGED <<lock, sleepers, obj, my, tgrp, held, events, late>>

\* and the references: its own, and the caller's.
Unlinked(t) ==
    \/ /\ pc[t] = "unlinked"
       /\ obj' = [obj EXCEPT ![tgrp[t]] = Finish(@, 1)]
       /\ tgrp' = [tgrp EXCEPT ![t] = None]
       /\ Goto(t, "idle")
       /\ UNCHANGED <<lock, entry, entry_count, sleepers, my, held, events, late>>
    \/ /\ pc[t] = "unlinked agent"
       /\ obj' = [obj EXCEPT ![held[t]] = Finish(@, 1)]
       /\ held' = [held EXCEPT ![t] = None]
       /\ Goto(t, "idle")
       /\ UNCHANGED <<lock, entry, entry_count, sleepers, my, tgrp, events, late>>

\* Somebody removes the group from the directory by name.
Remove(t, n) ==
    /\ pc[t] = "idle" /\ lock = None
    /\ \E e \in Found(n) : ns_remove_entry(e)
    /\ UNCHANGED <<lock, sleepers, uservars>>

\* tm_event_to_tgrp goes through the group with its lock held.  At an entry
\* that is reserved it returns without the unlock; and its iterator, freed
\* without its destructor, keeps its reference.
Event(t) ==
    LET o == held[t] IN
    /\ pc[t] = "idle" /\ o # None /\ ~obj[o].stuck
    /\ events < MaxEvents /\ events' = events + 1
    /\ obj' = [obj EXCEPT ![o].refs = @ + 1, ![o].leaks = @ + 1,
                          ![o].stuck = \E u \in Threads : obj[o].members[u] = "RESERVED"]
    /\ UNCHANGED <<lock, entry, entry_count, sleepers, pc, my, tgrp, held, late>>

Next ==
    \E t \in Threads :
        \/ \E n \in Names : FindReserve(t, n) \/ FindExists(t, n) \/ Remove(t, n)
        \/ Install(t) \/ Cancel(t) \/ Broadcast(t)
        \/ LookupMissing(t) \/ LookupReserved(t) \/ Interrupted(t) \/ LookupInstalled(t)
        \/ NewAgent(t) \/ NoAgent(t) \/ JoinFound(t) \/ JoinHeld(t) \/ Entered(t)
        \/ Leave(t) \/ Tidy(t) \/ DropAgent(t) \/ Unlink(t) \/ Unlinked(t) \/ Event(t)

Spec == Init /\ [][Next]_vars

-----------------------------------------------------------------------------
(* Properties                                                              *)

\* Every variable has its type.
TypeOK ==
    /\ lock \in Threads \cup {None} /\ entry_count \in Nat /\ sleepers \subseteq Threads
    /\ entry \in [Tags -> [type : {"FREE", "RESERVED", "DIRECTORY", "INVALID"},
                           name : Names \cup {None}, obj : Objs \cup {None}, listed : BOOLEAN]]
    /\ obj \in [Objs -> [refs : Nat, active : BOOLEAN, agents : Nat, links : Nat,
                         parent : Tags \cup {None}, temporary : BOOLEAN,
                         members : [Threads -> {"OUT", "RESERVED", "IN"}], stuck : BOOLEAN,
                         leaks : Nat, used : BOOLEAN]]
    /\ pc \in [Threads -> {"idle", "retry", "install", "broadcast", "lookup", "asleep", "have",
                           "entering", "tidy", "unlink", "unlinked", "unlink agent",
                           "unlinked agent", "stuck"}]
    /\ my \in [Threads -> [name : Names \cup {None}, tag : Tags \cup {None}, obj : Objs \cup {None}]]
    /\ tgrp \in [Threads -> Objs \cup {None}] /\ held \in [Threads -> Objs \cup {None}]
    /\ events \in 0..MaxEvents /\ late \subseteq Threads

\* No two listed entries have the same name, and entry_count counts them,
\* although an entry can be taken out by a lookup, by ns_remove_entry, or by
\* its object, whichever comes first.
NamesUnique ==
    /\ \A n \in Names : Cardinality(Found(n)) <= 1
    /\ entry_count = Cardinality({e \in Tags : entry[e].listed})

Holders(o) == Cardinality({t \in Threads : held[t] = o}) + Cardinality({t \in Threads : tgrp[t] = o})
              + Cardinality({t \in Threads : my[t].obj = o})

\* The references to a group are exactly those of the agents, the tasks and the
\* threads that have it, its own while it is a temporary object in use, and the
\* ones events leave: so no thread has a group that was freed.
RefExact ==
    \A o \in Objs : obj[o].refs = Holders(o) + obj[o].leaks + (IF obj[o].temporary THEN 1 ELSE 0)

\* "We do not actually take an explicit reference for the object.  However, the
\* call to ns_register_tmplink() guarantees that the object will not go away
\* before first calling ns_remove_tmplink()": a listed object exists and knows
\* its entry, and the entry an object will free has not been freed before it.
LinkSound ==
    /\ \A e \in Tags : entry[e].type = "DIRECTORY" =>
          obj[entry[e].obj].refs > 0 /\ obj[entry[e].obj].parent = e
    /\ \A o \in Objs : obj[o].parent # None =>
          \/ entry[obj[o].parent].type = "DIRECTORY" /\ entry[obj[o].parent].obj = o
          \/ entry[obj[o].parent].type = "INVALID"
          \/ \E t \in Threads : (pc[t] = "unlinked" /\ tgrp[t] = o)
                                \/ (pc[t] = "unlinked agent" /\ held[t] = o)

\* No thread sleeps on an entry that is no longer reserved: either it still is,
\* or a broadcast is on the way.
NoLostSleeper ==
    \A t \in sleepers :
        \/ \E e \in Found(my[t].name) : entry[e].type = "RESERVED"
        \/ \E u \in Threads : pc[u] = "broadcast"

\* A task that entered a group in time finds it listed as long as it is a
\* member, whatever agents come and go, unless the group had been removed by
\* name before.
MemberFound ==
    \A o \in Objs, t \in Threads :
        obj[o].members[t] = "IN" /\ t \notin late =>
            /\ obj[o].active
            /\ obj[o].links > 0 => \E e \in Tags : entry[e].listed /\ entry[e].obj = o

\* A temporary directory "disappears when it no longer has agents or entries":
\* one that had some and that nobody has any more is freed.  The references
\* events leave behind are left out, and so is the lookup that waits for itself.
Disappears ==
    lock = None => \A o \in Objs : obj[o].used /\ Holders(o) = 0 => obj[o].refs = obj[o].leaks

\* Entries, objects and their references agree, whoever takes an entry out
\* first and in whatever order agents, members and links go.
LinksSound == TypeOK /\ NamesUnique /\ RefExact /\ LinkSound
=============================================================================
