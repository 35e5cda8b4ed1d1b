----------------------------- MODULE Directory -----------------------------
(***************************************************************************)
(* A directory of temporary objects: the entries of class dir              *)
(* (lib/us++/dir.cc) and the tmp_prop (lib/us++/tmp_prop.cc) by which an   *)
(* object is listed without the directory holding it, and takes itself out *)
(* when nobody uses it.  Here the state, and what the methods of the two   *)
(* do under their locks; module TaskGroups has the callers.                *)
(*                                                                         *)
(* The lock of a tmp_prop is never held while waiting for another lock, so *)
(* each of its critical sections is one step.  The directory's lock is     *)
(* held from step to step in one case only, which is why it is a variable. *)
(***************************************************************************)
EXTENDS Naturals, FiniteSets

CONSTANTS Threads, Names,
          Tags,      \* the dir_entry blocks, reused once freed
          Objs,      \* the objects, reused once freed
          None       \* NULL: no object, no tag, no name, no holder

ASSUME DirectoryAssumption == /\ None \notin Threads \cup Names \cup Tags \cup Objs
                              /\ IsFiniteSet(Threads) /\ IsFiniteSet(Tags)

VARIABLES lock,      \* of the directory: the thread that keeps it, or None
          entry,     \* the entries: type, name, obj, and whether a hash chain has it
          entry_count,
          sleepers,  \* threads waiting on reserved_sleep_cond
          obj        \* the objects: references, tmp_prop, members if a tmp_dir

dirvars == <<lock, entry, entry_count, sleepers, obj>>

FreeEntry == [type |-> "FREE", name |-> None, obj |-> None, listed |-> FALSE]

\* members: the tasks entered in a group, RESERVED or IN; stuck: its own lock
\* was left locked; leaks: references that nobody will drop; used: history, it
\* had an agent or a member.
FreeObj == [refs |-> 0, active |-> TRUE, agents |-> 0, links |-> 0, parent |-> None,
            temporary |-> FALSE, members |-> [t \in Threads |-> "OUT"], stuck |-> FALSE,
            leaks |-> 0, used |-> FALSE]

DirInit == /\ lock = None /\ entry_count = 0 /\ sleepers = {}
           /\ entry = [e \in Tags |-> FreeEntry]
           /\ obj = [o \in Objs |-> FreeObj]

\* mach_object_dereference: the last reference frees the object.
Deref(x, n) == IF x.refs = n THEN FreeObj ELSE [x EXCEPT !.refs = @ - n]

Empty(o) == \A t \in Threads : obj[o].members[t] = "OUT"

\* SCAN_FOR_NAME.
Found(n) == {e \in Tags : entry[e].listed /\ entry[e].name = n}

-----------------------------------------------------------------------------
(* The entries                                                             *)

ns_reserve_entry(n, e) ==
    /\ Found(n) = {} /\ entry[e].type = "FREE"
    /\ entry' = [entry EXCEPT ![e] = [type |-> "RESERVED", name |-> n, obj |-> None, listed |-> TRUE]]
    /\ entry_count' = entry_count + 1

Unlist(e) == /\ entry' = [entry EXCEPT ![e].listed = FALSE, ![e].type = "INVALID", ![e].obj = None]
             /\ entry_count' = entry_count - 1

\* Mutated form: an entry is freed although ns_remove_tmplink is still to come.
UnlistFrees(e) == /\ entry' = [entry EXCEPT ![e] = FreeEntry]
                  /\ entry_count' = entry_count - 1

\* The object is dead but has not called ns_remove_tmplink yet: take the entry
\* out and leave it to that call to free it.
UnlistDead(e) == Unlist(e)

\* The object gets a link, and a reference to itself for as long as it lasts.
ns_register_tmplink(x, e) == [x EXCEPT !.links = @ + 1, !.temporary = TRUE, !.refs = @ + 1, !.parent = e]

\* With its call of ns_register_tmplink, which is refused to an object that is
\* shut down or already linked.
ns_install_entry(e, o) ==
    /\ entry[e].type = "RESERVED" /\ obj[o].active /\ obj[o].parent = None
    /\ entry' = [entry EXCEPT ![e].type = "DIRECTORY", ![e].obj = o]
    /\ obj' = [obj EXCEPT ![o] = ns_register_tmplink(@, e)]

ns_cancel_entry(e) ==
    /\ entry[e].type = "RESERVED"
    /\ entry' = [entry EXCEPT ![e] = FreeEntry]
    /\ entry_count' = entry_count - 1

\* By name: ns_unregister_tmplink and what ns_remove_entry makes of its answer.
\* NS_DIR_NOT_EMPTY changes nothing.
ns_remove_entry(e) ==
    LET o == entry[e].obj IN
    /\ entry[e].type = "DIRECTORY"
    /\ \/ /\ obj[o].active /\ Empty(o)
          /\ entry' = [entry EXCEPT ![e] = FreeEntry]
          /\ entry_count' = entry_count - 1
          /\ obj' = [obj EXCEPT ![o].links = @ - 1, ![o].parent = None]
       \/ ~obj[o].active /\ UnlistDead(e) /\ UNCHANGED obj

\* Frees the entry whether or not it is still listed: "entry != NST_INVALID"
\* compares the pointer, so an entry that was taken out is looked for in vain.
ns_remove_tmplink(e) ==
    /\ entry' = [entry EXCEPT ![e] = FreeEntry]
    /\ entry_count' = IF entry[e].listed THEN entry_count - 1 ELSE entry_count

-----------------------------------------------------------------------------
(* tmp_prop                                                                *)

\* One agent less; what follows when none is left is up to the caller.
UnregisterAgent(x) == [x EXCEPT !.agents = @ - 1]

\* Mutated form: a directory goes away with what is in it.
ShutsDownFull(o, agents) == agents = 0 /\ obj[o].active

\* tmp_shutdown_internal goes ahead: called when the last agent goes, or by
\* ns_reference_tmplink, and ns_tmp_last_chance does not refuse.
ShutsDown(o, agents) == agents = 0 /\ obj[o].active /\ Empty(o)

\* What it does up to mutex_unlock.
ShutDown(x) == [x EXCEPT !.active = FALSE, !.links = IF @ > 0 THEN @ - 1 ELSE 0]

\* What it does after ns_remove_tmplink, or at once if there was no link; n more
\* references are dropped by the caller.
Finish(x, n) == Deref([x EXCEPT !.parent = None, !.temporary = FALSE], n + 1)
=============================================================================
