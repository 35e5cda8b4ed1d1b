---------------------------- MODULE ActiveObjects ----------------------------
(***************************************************************************)
(* The active object table of a vnode file server (lib/us++/vn_mgr.cc) and *)
(* the files and directories in it (vn_file.cc, vn_agency.cc, vn_dir.cc):  *)
(* lookups, agents, removals and links by several threads against the      *)
(* scanner that cleans written files and destroys inactive objects.        *)
(*                                                                         *)
(* An entry is named by its key.  An entry that is freed leaves the hash   *)
(* table first, so that a reused one is a new one to everybody.  A section *)
(* in which a thread holds an entry without blocking is one step; entries  *)
(* held longer (a reservation, an object being destroyed) are in `held`.   *)
(* What io_clean and io_deactivate report of the pager is chosen here.     *)
(***************************************************************************)
EXTENDS Integers, Sequences, FiniteSets, SequencesExt

CONSTANTS Files, Dirs,  \* keys (fsids) of files and of directories
          Users,        \* threads that export, use and remove objects
          NoKey,
          MaxOpens,     \* bound on exports and removals
          MaxSweeps     \* bound on the scanner's sweeps

Keys == Files \cup Dirs

ASSUME AotAssumption == /\ Files \cap Dirs = {} /\ NoKey \notin Keys
                        /\ MaxOpens \in Nat /\ MaxSweeps \in Nat

VARIABLES
    queue_num,    \* of each entry; "none": not in the table
    inactive, must_clean,  \* the queues whose order matters
    held,         \* entries locked by a thread that may block
    vn,           \* vn_refcount, num_writers, io_active, temporary, writable
    user,         \* locals of each user
    opens,        \* exports and removals so far
    scan,         \* locals of the scanner
    waiting,      \* what each user sleeps on in ENTRY_WAIT
    unclean,      \* history: written since io_clean last wrote it back
    excused       \* history: io_clean failed, or once temporary
vars == <<queue_num, inactive, must_clean, held, vn, user, opens, scan, waiting, unclean, excused>>

NewVn == [vn_refcount |-> 0, num_writers |-> 0, io_active |-> FALSE,
          temporary |-> FALSE, writable |-> FALSE]

Idle == [pc |-> "idle", key |-> NoKey, write |-> FALSE, agent |-> FALSE]

Init == /\ queue_num = [k \in Keys |-> "none"]
        /\ inactive = <<>> /\ must_clean = <<>>
        /\ held = {}
        /\ vn = [k \in Keys |-> NewVn]
        /\ user = [t \in Users |-> Idle]
        /\ opens = 0
        /\ scan = [pc |-> "rest", count |-> 0, entry |-> NoKey, last |-> NoKey, sweeps |-> 0]
        /\ waiting = [t \in Users |-> NoKey]
        /\ unclean = [k \in Keys |-> FALSE]
        /\ excused = {}

-----------------------------------------------------------------------------
(* Entries: aot_find_entry_internal, aot_move_entry_internal, ENTRY_UNLOCK *)

Awake(t) == waiting[t] = NoKey

\* The entry is found and nobody keeps it locked.
Free(k) == k \notin held

Found(k) == queue_num[k] # "none"

\* ENTRY_WAIT
Wait(t, k) == /\ k \in held
              /\ waiting' = [waiting EXCEPT ![t] = k]

\* Mutated form: condition_signal in place of condition_broadcast.
SignalOne(k) ==
    waiting' = IF \E t \in Users : waiting[t] = k
               THEN [waiting EXCEPT ![CHOOSE t \in Users : waiting[t] = k] = NoKey]
               ELSE waiting

\* condition_broadcast of ENTRY_UNLOCK
Broadcast(k) ==
    waiting' = [t \in Users |-> IF waiting[t] = k THEN NoKey ELSE waiting[t]]

\* aot_set_state: to the end of the queue, unless it is on it already.
Move(k, q) ==
    /\ queue_num' = [queue_num EXCEPT ![k] = q]
    /\ LET To(s, name) == IF q # name THEN Remove(s, k)
                          ELSE IF k \in ToSet(s) THEN s ELSE Append(s, k)
       IN inactive' = To(inactive, "INACTIVE") /\ must_clean' = To(must_clean, "MUST_CLEAN")

Queues == <<queue_num, inactive, must_clean>>

-----------------------------------------------------------------------------
(* vn_dir::fs_fsid_export and the removal of a name                        *)

Set(t, pc) == user' = [user EXCEPT ![t].pc = pc]

\* aot_lookup_or_reserve
LookupOrReserve(t, k, found, reserved) ==
    \/ /\ Found(k) /\ ~Free(k)
       /\ Wait(t, k)
       /\ UNCHANGED <<Queues, held, vn, user>>
    \/ /\ Found(k) /\ Free(k)
       /\ vn' = [vn EXCEPT ![k].vn_refcount = @ + 1]
       /\ Set(t, found)
       /\ UNCHANGED <<Queues, held, waiting>>
    \/ /\ ~Found(k)
       /\ queue_num' = [queue_num EXCEPT ![k] = "null"]
       /\ held' = held \cup {k}
       /\ Set(t, reserved)
       /\ UNCHANGED <<inactive, must_clean, vn, waiting>>

\* A client resolves a name to k, or removes the last link to the file k.
Resolve(t, k, write) ==
    /\ user[t].pc = "idle" /\ opens < MaxOpens
    /\ opens' = opens + 1
    /\ write => k \in Files
    /\ user' = [user EXCEPT ![t] = [Idle EXCEPT !.pc = "lookup", !.key = k, !.write = write]]
    /\ UNCHANGED <<Queues, held, vn, scan, waiting, unclean, excused>>

RemoveName(t, k) ==
    /\ user[t].pc = "idle" /\ opens < MaxOpens
    /\ opens' = opens + 1
    /\ user' = [user EXCEPT ![t] = [Idle EXCEPT !.pc = "unlink", !.key = k]]
    /\ UNCHANGED <<Queues, held, vn, scan, waiting, unclean, excused>>

Lookup(t) ==
    /\ Awake(t)
    /\ \/ user[t].pc = "lookup" /\ LookupOrReserve(t, user[t].key, "export", "create")
       \/ user[t].pc = "unlink" /\ LookupOrReserve(t, user[t].key, "mark", "cancel")
    /\ UNCHANGED <<opens, scan, unclean, excused>>

\* A new object, with a reference for the first agent; aot_install.
Install(t) ==
    LET k == user[t].key IN
    /\ user[t].pc = "create"
    /\ vn' = [vn EXCEPT ![k] = [NewVn EXCEPT !.vn_refcount = 1]]
    /\ Move(k, IF k \in Files THEN "FILE_ACTIVE" ELSE "DIR_ACTIVE")
    /\ held' = held \ {k}
    /\ Broadcast(k)
    /\ Set(t, "export")
    /\ UNCHANGED <<opens, scan, unclean, excused>>

\* aot_cancel: the type is none of the known ones, or nothing is to be removed.
Cancel(t) ==
    LET k == user[t].key IN
    /\ user[t].pc \in {"create", "cancel"}
    /\ queue_num' = [queue_num EXCEPT ![k] = "none"]
    /\ held' = held \ {k}
    /\ Broadcast(k)
    /\ Set(t, "idle")
    /\ UNCHANGED <<opens, inactive, must_clean, vn, scan, unclean, excused>>

\* vn_mark_temporary takes only vn_lock.
MarkTemporary(t) ==
    LET k == user[t].key IN
    /\ user[t].pc = "mark"
    /\ vn' = [vn EXCEPT ![k].temporary = k \in Files]
    /\ excused' = IF k \in Files THEN excused \cup {k} ELSE excused
    /\ Set(t, "dereference")
    /\ UNCHANGED <<opens, Queues, held, scan, waiting, unclean>>

-----------------------------------------------------------------------------
(* ns_register_agent, ns_unregister_agent, vn_dereference                  *)

\* aot_lock by one who has a reference.
Blocked(t, k) == /\ ~Free(k)
                 /\ Wait(t, k)
                 /\ UNCHANGED <<opens, Queues, held, vn, user, scan, unclean, excused>>

\* The state of a file with a new agent.
StateFor(k, writers, io_active) ==
    IF io_active /\ writers > 0 THEN "MUST_CLEAN"
    ELSE IF queue_num[k] # "MUST_CLEAN" THEN "FILE_ACTIVE" ELSE queue_num[k]

\* vn_file::ns_register_agent: every agent of the model may read.  A directory
\* is only referenced, and needs no lock of its entry.
RegisterAgent(t) ==
    LET k == user[t].key
        w == IF user[t].write THEN 1 ELSE 0 IN
    /\ Awake(t) /\ user[t].pc = "export"
    /\ \/ k \in Files /\ Blocked(t, k)
       \/ /\ k \in Dirs \/ Free(k)
          /\ vn' = [vn EXCEPT ![k] =
                      [@ EXCEPT !.vn_refcount = @ + 1, !.num_writers = @ + w,
                                !.io_active = k \in Files,
                                !.writable = @ \/ user[t].write]]
          /\ IF k \in Files THEN Move(k, StateFor(k, vn[k].num_writers + w, TRUE))
             ELSE UNCHANGED Queues
          /\ user' = [user EXCEPT ![t].pc = "dereference", ![t].agent = TRUE]
          /\ UNCHANGED <<opens, held, scan, waiting, unclean, excused>>

\* fs_create_agent fails.
CreateAgentFails(t) ==
    /\ Awake(t) /\ user[t].pc = "export"
    /\ Set(t, "dereference")
    /\ UNCHANGED <<opens, Queues, held, vn, scan, waiting, unclean, excused>>

\* The last reference is gone; a file that must be cleaned waits for that.
LastReference(k) == k \in Dirs \/ queue_num[k] # "MUST_CLEAN"

\* vn_dereference and ns_unregister_agent of a file, vn_dereference of others.
Unreference(t, from, w, to) ==
    LET k == user[t].key IN
    /\ Awake(t) /\ user[t].pc = from
    /\ \/ Blocked(t, k)
       \/ /\ Free(k)
          /\ vn' = [vn EXCEPT ![k].vn_refcount = @ - 1, ![k].num_writers = @ - w]
          /\ IF vn[k].vn_refcount = 1 /\ LastReference(k) THEN Move(k, "INACTIVE")
             ELSE UNCHANGED Queues
          /\ user' = [user EXCEPT ![t] = IF to = "idle" THEN Idle ELSE [@ EXCEPT !.pc = to]]
          /\ UNCHANGED <<opens, held, scan, waiting, unclean, excused>>

Dereference(t) == Unreference(t, "dereference", 0, IF user[t].agent THEN "open" ELSE "idle")

Close(t) == Unreference(t, "open", IF user[t].write THEN 1 ELSE 0, "idle")

\* io_write through the agent.
Write(t) ==
    /\ Awake(t) /\ user[t].pc = "open" /\ user[t].write
    /\ unclean' = [unclean EXCEPT ![user[t].key] = TRUE]
    /\ UNCHANGED <<opens, Queues, held, vn, user, scan, waiting, excused>>

\* A new link to an open file: vn_mark_permanent.
MarkPermanent(t) ==
    LET k == user[t].key IN
    /\ Awake(t) /\ user[t].pc = "open" /\ k \in Files /\ Free(k)
    /\ vn' = [vn EXCEPT ![k].temporary = FALSE]
    /\ IF vn[k].num_writers > 0 THEN Move(k, "MUST_CLEAN") ELSE UNCHANGED Queues
    /\ UNCHANGED <<opens, held, user, scan, waiting, unclean, excused>>

-----------------------------------------------------------------------------
(* The scanner: aot_destroy_inactive                                       *)

DestroyStart ==
    /\ scan.pc = "rest" /\ scan.sweeps < MaxSweeps
    /\ scan' = [scan EXCEPT !.pc = "destroy", !.count = Len(inactive), !.sweeps = @ + 1]
    /\ UNCHANGED <<opens, Queues, held, vn, user, waiting, unclean, excused>>

SweepEnd == /\ scan.pc \in {"destroy", "clean"} /\ scan.count = 0
            /\ scan' = [scan EXCEPT !.pc = "rest", !.entry = NoKey, !.last = NoKey]
            /\ UNCHANGED <<opens, Queues, held, vn, user, waiting, unclean, excused>>

\* queue_first; of an empty queue it is the queue's own head.
DestroyFirst ==
    /\ scan.pc = "destroy" /\ scan.count > 0
    /\ scan' = IF inactive = <<>> THEN [scan EXCEPT !.pc = "wild"]
               ELSE [scan EXCEPT !.pc = "lock", !.count = @ - 1, !.entry = Head(inactive)]
    /\ UNCHANGED <<opens, Queues, held, vn, user, waiting, unclean, excused>>

\* The section that kept the entry locked, if any, is over.  The entry is left
\* alone if it was moved meanwhile.
DestroyLock ==
    LET k == scan.entry IN
    /\ scan.pc = "lock"
    /\ \/ /\ queue_num[k] # "INACTIVE"
          /\ scan' = [scan EXCEPT !.pc = "destroy"]
          /\ UNCHANGED <<inactive, held>>
       \/ /\ queue_num[k] = "INACTIVE"
          /\ inactive' = Append(Remove(inactive, k), k)
          /\ held' = held \cup {k}
          /\ scan' = [scan EXCEPT !.pc = "destroying"]
    /\ UNCHANGED <<opens, queue_num, must_clean, vn, user, waiting, unclean, excused>>

\* Mutated form: only writers count.
MayDestroyOpen(k) == vn[k].num_writers = 0

\* vn_destroy
MayDestroy(k) == vn[k].vn_refcount = 0

\* US_OBJECT_BUSY: there are references, or the pager is in use.
DestroyBusy ==
    LET k == scan.entry IN
    /\ scan.pc = "destroying"
    /\ ~MayDestroy(k) \/ vn[k].io_active
    /\ held' = held \ {k}
    /\ Broadcast(k)
    /\ scan' = [scan EXCEPT !.pc = "destroy"]
    /\ UNCHANGED <<opens, Queues, vn, user, unclean, excused>>

\* aot_free_entry_internal: out of the table, then unlocked, then freed.
DestroyFree ==
    LET k == scan.entry IN
    /\ scan.pc = "destroying"
    /\ MayDestroy(k)
    /\ queue_num' = [queue_num EXCEPT ![k] = "none"]
    /\ inactive' = Remove(inactive, k)
    /\ held' = held \ {k}
    /\ Broadcast(k)
    /\ vn' = [vn EXCEPT ![k] = NewVn]
    /\ unclean' = [unclean EXCEPT ![k] = FALSE]
    /\ excused' = excused \ {k}
    /\ scan' = [scan EXCEPT !.pc = "destroy"]
    /\ UNCHANGED <<opens, must_clean, user>>

-----------------------------------------------------------------------------
(* The scanner: aot_clean and vn_file::vn_clean                            *)

CleanStart ==
    /\ scan.pc = "rest" /\ must_clean # <<>> /\ scan.sweeps < MaxSweeps
    /\ scan' = [scan EXCEPT !.pc = "clean", !.count = Len(must_clean), !.last = Last(must_clean),
                            !.sweeps = @ + 1]
    /\ UNCHANGED <<opens, Queues, held, vn, user, waiting, unclean, excused>>

CleanFirst ==
    /\ scan.pc = "clean" /\ scan.count > 0
    /\ must_clean' = Append(Tail(must_clean), Head(must_clean))
    /\ scan' = [scan EXCEPT !.pc = "vn_clean", !.count = @ - 1, !.entry = Head(must_clean)]
    /\ UNCHANGED <<opens, queue_num, inactive, held, vn, user, waiting, unclean, excused>>

\* Mutated form: looks at the writers there are now.
StaysCleanNow(k) == vn[k].num_writers = 0

\* No writer since cleaning began, if "writable" was not set again.
StaysClean(k) == ~vn'[k].writable

\* The end of vn_clean.
CleanFinish(k) ==
    /\ Move(k, IF vn[k].vn_refcount = 0 THEN "INACTIVE"
               ELSE IF StaysClean(k) \/ vn[k].temporary THEN "FILE_ACTIVE" ELSE "MUST_CLEAN")
    /\ scan' = [scan EXCEPT !.pc = "clean"]

\* vn_clean; a file that is temporary is not cleaned, and stays locked.
CleanPrepare ==
    LET k == scan.entry IN
    /\ scan.pc = "vn_clean"
    /\ vn' = [vn EXCEPT ![k].writable = @ /\ vn[k].num_writers > 0]
    /\ \/ /\ vn[k].temporary
          /\ CleanFinish(k)
       \/ /\ ~vn[k].temporary
          /\ scan' = [scan EXCEPT !.pc = "io_clean"]
          /\ UNCHANGED Queues
    /\ UNCHANGED <<opens, held, user, waiting, unclean, excused>>

\* mapping_obj.io_clean(), with no lock; its result is ignored.
IoClean ==
    /\ scan.pc = "io_clean"
    /\ scan' = [scan EXCEPT !.pc = "cleaned"]
    /\ \/ /\ unclean' = [unclean EXCEPT ![scan.entry] = FALSE]
          /\ UNCHANGED excused
       \/ /\ excused' = excused \cup {scan.entry}
          /\ UNCHANGED unclean
    /\ UNCHANGED <<opens, Queues, held, vn, user, waiting>>

Cleaned ==
    /\ scan.pc = "cleaned"
    /\ vn' = vn
    /\ CleanFinish(scan.entry)
    /\ UNCHANGED <<opens, held, user, waiting, unclean, excused>>

-----------------------------------------------------------------------------
Next == \/ \E t \in Users :
              \/ \E k \in Keys, write \in BOOLEAN : Resolve(t, k, write)
              \/ \E k \in Files : RemoveName(t, k)
              \/ Lookup(t) \/ Install(t) \/ Cancel(t) \/ MarkTemporary(t)
              \/ RegisterAgent(t) \/ CreateAgentFails(t) \/ Dereference(t)
              \/ Write(t) \/ MarkPermanent(t) \/ Close(t)
        \/ DestroyStart \/ DestroyFirst \/ DestroyLock \/ DestroyBusy \/ DestroyFree
        \/ CleanStart \/ CleanFirst \/ CleanPrepare \/ IoClean \/ Cleaned
        \/ SweepEnd

Spec == Init /\ [][Next]_vars

-----------------------------------------------------------------------------
(* Properties.                                                             *)

\* Type invariant of the table, the objects and the threads in them.
TypeOK ==
    /\ queue_num \in [Keys -> {"none", "null", "DIR_ACTIVE", "FILE_ACTIVE", "MUST_CLEAN", "INACTIVE"}]
    /\ \A k \in Keys : /\ (k \in ToSet(inactive)) = (queue_num[k] = "INACTIVE")
                       /\ (k \in ToSet(must_clean)) = (queue_num[k] = "MUST_CLEAN")
    /\ IsInjective(inactive) /\ IsInjective(must_clean)
    /\ held \subseteq Keys /\ excused \subseteq Keys
    /\ \A k \in Keys : vn[k].vn_refcount \in Nat /\ vn[k].num_writers \in Nat
    /\ waiting \in [Users -> Keys \cup {NoKey}]
    /\ unclean \in [Keys -> BOOLEAN]

\* References of a user to an object: one while it exports or removes it, one
\* for the agent.
Refs(t, k) ==
    IF user[t].key # k THEN 0
    ELSE (IF user[t].pc \in {"export", "mark", "dereference"} THEN 1 ELSE 0)
         + (IF user[t].agent THEN 1 ELSE 0)

\* "lookups and cleaning must prevent deactivation from occuring, and vice
\* versa": an object somebody has a reference to is in the table, and aot_lock
\* finds it; so is one that is being cleaned.
ReferencedFound ==
    /\ \A t \in Users, k \in Keys : Refs(t, k) > 0 => queue_num[k] \notin {"none", "null"}
    /\ scan.pc \in {"vn_clean", "io_clean", "cleaned"} => queue_num[scan.entry] = "MUST_CLEAN"

\* The reference count is exact, over waits and retries.
RefExact ==
    \A k \in Keys : vn[k].vn_refcount = FoldSet(LAMBDA t, n : n + Refs(t, k), 0, Users)

\* Nobody sleeps on an entry that nobody is going to unlock.
NoLostWaiter == \A t \in Users : waiting[t] # NoKey => waiting[t] \in held

\* A file that is being written is on the queue of those to clean.
WritersCleaned ==
    \A k \in Files : vn[k].num_writers > 0 /\ ~vn[k].temporary => queue_num[k] = "MUST_CLEAN"

\* "we are guaranteed that no writes have taken place since then": a file that
\* cleaning makes merely active has no data that was not written back.
CleanedIsClean ==
    [][\A k \in Files \ excused :
          queue_num[k] = "MUST_CLEAN" /\ queue_num'[k] = "FILE_ACTIVE" => ~unclean[k]]_vars

\* "sanity check" of aot_clean: the last entry of a sweep is the one that was
\* last on the queue when it began, whatever was added meanwhile.
SweepExact ==
    scan.pc = "vn_clean" /\ scan.count = 0 => scan.entry = scan.last

\* "something is fatally wrong because we should not be trying to deactivate
\* such files": io_deactivate meets no data that was not written back.
DeactivatedClean ==
    LET k == scan.entry IN
    scan.pc = "destroying" /\ vn[k].vn_refcount = 0 /\ vn[k].io_active /\ ~vn[k].temporary
        => k \in excused \/ ~unclean[k]

\* The table over waits, retries and the scanner: what is referenced or being
\* written is where it must be, counts are exact, and a sweep ends where it
\* should.
TableSound == TypeOK /\ ReferencedFound /\ RefExact /\ WritersCleaned /\ SweepExact
=============================================================================
