------------------------------- MODULE Pager -------------------------------
(***************************************************************************)
(* A mapped file in its server: the pager of one file (pager_base.cc), the *)
(* manager of the mapped file on top of it (mf_mgr.cc and the manager's    *)
(* side of mf_mem.cc), the paging thread that handles the kernel's         *)
(* messages, users that map, write and truncate the file, and the scanner  *)
(* that cleans and deactivates it.  The kernel's virtual memory is         *)
(* external: modelled from the interface the pager uses.                   *)
(*                                                                         *)
(* Offsets are in pages, sizes in units of which a page has PageSize.  A    *)
(* section under the pager's lock is one step; mf_lock and mgr_lock are     *)
(* held over several.  All calls of iop_clean, iop_resume and              *)
(* iop_deactivate come from the scanner.                                   *)
(***************************************************************************)
EXTENDS Integers, Sequences, FiniteSets, SequencesExt, FiniteSetsExt

CONSTANTS Users,
          Pages,        \* number of pages of the file
          PageSize,     \* vm_page_size
          MaxGens,      \* bound on the memory objects the kernel makes
          MaxOps,       \* bound on the users' calls
          MaxSweeps,    \* bound on io_clean and io_deactivate
          Lengths,      \* bound: the sizes that calls name
          None

ASSUME PagerAssumption == /\ Pages \in Nat \ {0} /\ PageSize \in Nat \ {0}
                          /\ MaxGens \in Nat /\ MaxOps \in Nat
                          /\ MaxSweeps \in Nat /\ Lengths \subseteq 0 .. Pages * PageSize
                          /\ "window" \notin Users /\ None \notin Users \cup {"scanner"}

Page == 0 .. Pages - 1
Size == 0 .. Pages * PageSize

\* The page that a byte is in, round_page in pages, and the end of a page.
PageOf(b) == b \div PageSize
RoundPage(n) == (n + PageSize - 1) \div PageSize
End(p) == (p + 1) * PageSize

VARIABLES
    pager,      \* the members of pager_base; locked: a call kept its lock for good
    mf,         \* ready, dirty, obj_size, winvalid of mf_mem
    mf_lock, mgr_lock,   \* who holds the locks of mf_mem and mf_mgr
    disk_size,  \* size in the backing store
    kern,       \* kernel: current memory object (0: none), its pages and faults, objects made
    mapped,     \* kernel: who has the object mapped; "window" is the manager
    msgs,       \* messages to the paging thread, in order
    user, ops,  \* locals of the users, calls so far
    scan,       \* locals of the scanner
    excused     \* history: a clean failed, or the size was read before it was set
vars == <<pager, mf, mf_lock, mgr_lock, disk_size, kern, mapped, msgs, user, ops, scan, excused>>

Locks == <<mf_lock, mgr_lock>>
Kernel == <<kern, mapped, msgs>>

\* The locals of a user between its calls.
Idle == [pc |-> "idle", op |-> "idle", arg |-> 0, size |-> 0]

Init ==
    /\ pager = [state |-> "READY", memory_object |-> FALSE, memory_control |-> 0,
                min_offset |-> Pages, max_offset |-> 0, requests |-> <<>>,
                done_pagein_write |-> FALSE, done_pageout |-> FALSE, destroying |-> FALSE,
                locked |-> FALSE]
    /\ mf = [ready |-> FALSE, dirty |-> FALSE, obj_size |-> 0, winvalid |-> FALSE]
    /\ mf_lock = None /\ mgr_lock = None
    /\ disk_size = 0
    /\ kern = [gen |-> 0, page |-> [p \in Page |-> "absent"], fault |-> [p \in Page |-> "none"],
               made |-> 0]
    /\ mapped = {} /\ msgs = <<>>
    /\ user = [u \in Users |-> Idle]
    /\ ops = 0
    /\ scan = [pc |-> "rest", size |-> 0, gen |-> 0, dirty |-> FALSE, sweeps |-> 0]
    /\ excused = FALSE

-----------------------------------------------------------------------------
(* The kernel                                                              *)

\* The pager's port exists as far as the kernel is concerned.
Alive == scan.pc # "gone"

Msg(op, p, access) == [op |-> op, gen |-> kern.gen, page |-> p, access |-> access]

\* Dirty pages of a set are sent back in the order of their offsets.
DataWrites(S) ==
    LET dirty == SelectSeq([i \in 1 .. Pages |-> i - 1],
                           LAMBDA p : p \in S /\ kern.page[p] = "dirty")
    IN [i \in DOMAIN dirty |-> Msg("data_write", dirty[i], "none")]

\* vm_map: the first mapping makes a memory object, and does not wait for mo_init.
VmMap(m) ==
    /\ mapped' = mapped \cup {m}
    /\ IF kern.gen # 0 THEN UNCHANGED <<kern, msgs>>
       ELSE /\ kern.made < MaxGens
            /\ kern' = [gen |-> kern.made + 1, page |-> [p \in Page |-> "absent"],
                        fault |-> [p \in Page |-> "none"], made |-> kern.made + 1]
            /\ msgs' = Append(msgs, [op |-> "init", gen |-> kern.made + 1,
                                     page |-> 0, access |-> "none"])

\* A thread touches a page it may not use yet.
Fault(p, access) ==
    /\ Alive /\ kern.gen # 0 /\ kern.fault[p] = "none"
    /\ \E m \in mapped :
          m = "window" => /\ mf_lock \in Users /\ access = "write"
                          /\ user[mf_lock].pc = "writing" /\ PageOf(user[mf_lock].arg - 1) = p
    /\ \/ kern.page[p] = "absent"
       \/ kern.page[p] = "ro" /\ access = "write"
    /\ kern' = [kern EXCEPT !.fault[p] = access]
    /\ msgs' = Append(msgs, Msg(IF kern.page[p] = "absent" THEN "data_request" ELSE "data_unlock",
                                p, access))
    /\ UNCHANGED <<pager, mf, Locks, disk_size, mapped, user, ops, scan, excused>>

\* A task that has the file mapped writes it, within its size.
Touch(p) ==
    /\ \E u \in Users : u \in mapped
    /\ kern.page[p] = "rw" /\ p < RoundPage(mf.obj_size)
    /\ kern' = [kern EXCEPT !.page[p] = "dirty"]
    /\ UNCHANGED <<pager, mf, Locks, disk_size, mapped, msgs, user, ops, scan, excused>>

PageOut(p) ==
    /\ Alive /\ kern.page[p] # "absent" /\ kern.fault[p] = "none"
    /\ msgs' = msgs \o DataWrites({p})
    /\ kern' = [kern EXCEPT !.page[p] = "absent"]
    /\ UNCHANGED <<pager, mf, Locks, disk_size, mapped, user, ops, scan, excused>>

\* The object is not mapped any more, and the kernel does not keep it.
Terminate ==
    /\ Alive /\ kern.gen # 0 /\ mapped = {}
    /\ msgs' = msgs \o DataWrites(Page) \o <<Msg("terminate", 0, "none")>>
    /\ kern' = [kern EXCEPT !.gen = 0, !.page = [p \in Page |-> "absent"],
                            !.fault = [p \in Page |-> "none"]]
    /\ UNCHANGED <<pager, mf, Locks, disk_size, mapped, user, ops, scan, excused>>

-----------------------------------------------------------------------------
(* The pager's side of the kernel: requests                                *)

\* Mutated form: only pages that are paged in count as writable.
GrantedPagedIn(g, r) == g \/ (r.access = "write" /\ r.op = "data_request")

\* done_pagein_write after a request.
Granted(g, r) == g \/ r.access = "write"

\* memory_object_data_supply and memory_object_lock_request of iop_satisfy_request;
\* they are lost on the kernel if the object has been terminated.  After an error
\* (memory_object_data_error) the kernel is where a PageOut of the page leads.
Supply(kn, r) ==
    IF kn.gen # pager.memory_control THEN kn
    ELSE [kn EXCEPT !.fault[r.page] = "none",
                    !.page[r.page] = IF r.op = "data_unlock" /\ @ = "absent" THEN @
                                     ELSE IF r.access = "write" THEN "rw" ELSE "ro"]

\* iop_satisfy_request of a sequence of requests
Satisfy(pg, rs) ==
    /\ kern' = FoldLeft(Supply, kern, rs)
    /\ pager' = [pg EXCEPT
          !.done_pagein_write = FoldLeft(Granted, @, rs),
          !.min_offset = FoldLeft(LAMBDA m, r : IF r.page < m THEN r.page ELSE m, @, rs),
          !.max_offset = FoldLeft(LAMBDA m, r : IF m < r.page + 1 THEN r.page + 1 ELSE m, @, rs)]

\* mo_init, unless it is a "duplicate call".
MoInit ==
    pager' = IF pager.memory_control # 0 THEN pager
             ELSE [pager EXCEPT !.memory_control = Head(msgs).gen, !.min_offset = Pages,
                                !.max_offset = 0, !.done_pagein_write = FALSE, !.state = "READY"]

\* mo_data_request, mo_data_unlock: later, unless the pager is ready.
MoRequest ==
    IF pager.state = "READY" THEN Satisfy(pager, <<Head(msgs)>>)
    ELSE /\ pager' = [pager EXCEPT !.requests = Append(@, Head(msgs))]
         /\ UNCHANGED kern

\* mo_data_write: tossed when destroying, refused when frozen.  io_pageout writes a
\* whole page, and "the size of the underlying data on disk can change"; or it fails,
\* and the page is lost.
MoDataWrite ==
    IF pager.destroying \/ pager.state = "FROZEN" THEN UNCHANGED <<pager, disk_size>>
    ELSE /\ pager' = [pager EXCEPT !.done_pageout = TRUE]
         /\ disk_size' \in {disk_size, Max({disk_size, End(Head(msgs).page)})}

MoLockCompleted ==
    pager' = IF pager.state = "RECLAIMING" THEN [pager EXCEPT !.state = "FROZEN"] ELSE pager

\* Mutated form: the control port stays.
TerminateKeeps == pager' = [pager EXCEPT !.requests = <<>>, !.done_pagein_write = FALSE,
                                         !.state = IF @ = "RECLAIMING" THEN "FROZEN" ELSE @]

\* Mutated form: a clean that waits is not told.
TerminateSilent == pager' = [pager EXCEPT !.requests = <<>>, !.memory_control = 0,
                                          !.done_pagein_write = FALSE]

\* mo_terminate: the requests are cancelled.
MoTerminate == pager' = [pager EXCEPT !.requests = <<>>, !.memory_control = 0,
                                      !.done_pagein_write = FALSE,
                                      !.state = IF @ = "RECLAIMING" THEN "FROZEN" ELSE @]

\* One message of the paging thread.
HandlePaging ==
    /\ msgs # <<>>
    /\ msgs' = Tail(msgs)
    /\ LET op == Head(msgs).op IN
       \/ op = "init" /\ MoInit /\ UNCHANGED <<kern, disk_size>>
       \/ op \in {"data_request", "data_unlock"} /\ MoRequest /\ UNCHANGED disk_size
       \/ op = "data_write" /\ MoDataWrite /\ UNCHANGED kern
       \/ op = "lock_completed" /\ MoLockCompleted /\ UNCHANGED <<kern, disk_size>>
       \/ op = "terminate" /\ MoTerminate /\ UNCHANGED <<kern, disk_size>>
    /\ UNCHANGED <<mf, Locks, mapped, user, ops, scan, excused>>

-----------------------------------------------------------------------------
(* Users of the file: mf_mgr and mf_mem                                    *)

\* iop_get_port: only the first call expects mo_init.  It keeps the lock of the
\* pager, for good, when it gets no port.
IopGetPort == pager' = IF pager.memory_object THEN pager
                       ELSE [pager EXCEPT !.memory_object = TRUE, !.state = "EXPECT_INIT"]

Go(u, pc) == user' = [user EXCEPT ![u].pc = pc]

\* The call returns; the agent stays.
Done(u) == user' = [user EXCEPT ![u] = [Idle EXCEPT !.pc = "open"]]

\* The agent goes; a task that mapped the file may keep it mapped.
Close(u) ==
    /\ user[u].pc = "open"
    /\ Go(u, "idle")
    /\ UNCHANGED <<pager, mf, Locks, disk_size, Kernel, ops, scan, excused>>

Unmap(u) ==
    /\ u \in mapped
    /\ mapped' = mapped \ {u}
    /\ UNCHANGED <<pager, mf, Locks, disk_size, kern, msgs, user, ops, scan, excused>>

\* io_get_mf_state, io_write and io_append, io_set_size are called, by a new
\* agent or not; none comes while the scanner has locked the file's entry.
Call(u, op, arg) ==
    /\ scan.pc \notin {"deactivate", "gone"}
    /\ user[u].pc \in {"idle", "open"} /\ ops < MaxOps
    /\ ops' = ops + 1
    /\ user' = [user EXCEPT ![u] = [Idle EXCEPT !.pc = op, !.op = op, !.arg = arg]]
    /\ UNCHANGED <<pager, mf, Locks, disk_size, Kernel, scan, excused>>

\* io_set_size of mf_mgr takes its lock first.
SetSize(u) ==
    /\ user[u].pc = "set_size" /\ mgr_lock = None
    /\ mgr_lock' = u
    /\ user' = [user EXCEPT ![u].pc = "resize", ![u].op = "resize"]
    /\ UNCHANGED <<pager, mf, mf_lock, disk_size, Kernel, ops, scan, excused>>

\* CHECK_READY releases the lock of mf_mem for init_upcall.
CheckReady(u) ==
    /\ user[u].pc \in {"map", "write", "resize"} /\ mf_lock = None /\ ~mf.ready /\ ~pager.locked
    /\ IopGetPort
    /\ user' = [user EXCEPT ![u].pc = "start", ![u].size = disk_size]
    /\ UNCHANGED <<mf, Locks, disk_size, Kernel, ops, scan, excused>>

\* init_upcall fails, in io_get_size or in iop_get_port, and so does the call.
CheckReadyFails(u) ==
    /\ user[u].pc \in {"map", "write", "resize"} /\ mf_lock = None /\ ~mf.ready
    /\ \/ UNCHANGED pager
       \/ /\ ~pager.memory_object /\ ~pager.locked
          /\ pager' = [pager EXCEPT !.locked = TRUE]
    /\ mgr_lock' = IF mgr_lock = u THEN None ELSE mgr_lock
    /\ Done(u)
    /\ UNCHANGED <<mf, mf_lock, disk_size, Kernel, ops, scan, excused>>

\* mf_mem_start_mgr with the size the backing object had; it may come twice.
StartMgr(u) ==
    /\ user[u].pc = "start"
    /\ mf' = [ready |-> TRUE, dirty |-> FALSE, obj_size |-> user[u].size, winvalid |-> FALSE]
    /\ excused' = (excused \/ mf.ready)
    /\ user' = [user EXCEPT ![u].pc = user[u].op, ![u].size = 0]
    /\ UNCHANGED <<pager, Locks, disk_size, Kernel, ops, scan>>

\* The client gets the port, and maps it with no lock of the manager.
GetState(u) ==
    /\ user[u].pc = "map" /\ mf_lock = None /\ mf.ready
    /\ Go(u, "port")
    /\ UNCHANGED <<pager, mf, Locks, disk_size, Kernel, ops, scan, excused>>

Map(u) ==
    /\ user[u].pc = "port"
    /\ VmMap(u)
    /\ Done(u)
    /\ UNCHANGED <<pager, mf, Locks, disk_size, ops, scan, excused>>

\* io_write of the manager, that ends at arg, in one page, copies through its window...
Write(u) ==
    /\ user[u].pc = "write" /\ mf_lock = None /\ mf.ready
    /\ mf_lock' = u
    /\ mf' = [mf EXCEPT !.winvalid = TRUE]
    /\ IF mf.winvalid THEN UNCHANGED Kernel ELSE VmMap("window")
    /\ Go(u, "writing")
    /\ UNCHANGED <<pager, mgr_lock, disk_size, ops, scan, excused>>

\* ... when the page is there.
Copy(u) ==
    LET p == PageOf(user[u].arg - 1) IN
    /\ user[u].pc = "writing" /\ kern.page[p] \in {"rw", "dirty"}
    /\ kern' = [kern EXCEPT !.page[p] = "dirty"]
    /\ mf' = [mf EXCEPT !.dirty = TRUE, !.obj_size = Max({@, user[u].arg})]
    /\ mf_lock' = None
    /\ Done(u)
    /\ UNCHANGED <<pager, mgr_lock, disk_size, mapped, msgs, ops, scan, excused>>

\* Mutated form: a new size alone is not a change.
Resized(u) == [mf EXCEPT !.obj_size = user[u].arg]

Truncated(u) == [mf EXCEPT !.dirty = TRUE, !.obj_size = user[u].arg]

Resize(u) ==
    /\ user[u].pc = "resize" /\ mf_lock = None /\ mf.ready
    /\ mf' = Truncated(u)
    /\ Go(u, "flush")
    /\ UNCHANGED <<pager, Locks, disk_size, Kernel, ops, scan, excused>>

\* iop_flush of the new size, rounded up: the pages beyond it are discarded.
Flush(u) ==
    /\ user[u].pc = "flush"
    /\ kern' = IF kern.gen = 0 \/ kern.gen # pager.memory_control THEN kern
               ELSE [kern EXCEPT !.page =
                       [p \in Page |-> IF RoundPage(user[u].arg) <= p /\ p < pager.max_offset
                                       THEN "absent" ELSE @[p]]]
    /\ mgr_lock' = None
    /\ Done(u)
    /\ UNCHANGED <<pager, mf, mf_lock, disk_size, mapped, msgs, ops, scan, excused>>

-----------------------------------------------------------------------------
(* The scanner: io_clean                                                   *)

Step(pc) == scan' = [scan EXCEPT !.pc = pc]

CleanLock ==
    /\ scan.pc = "rest" /\ scan.sweeps < MaxSweeps /\ mgr_lock = None
    /\ mgr_lock' = "scanner"
    /\ scan' = [scan EXCEPT !.pc = "prepare", !.sweeps = @ + 1]
    /\ UNCHANGED <<pager, mf, mf_lock, disk_size, Kernel, user, ops, excused>>

\* io_clean_prepare and, when there is nothing to clean, io_clean_complete.
Prepare ==
    /\ scan.pc = "prepare" /\ mf_lock = None /\ mf.ready
    /\ IF mf.dirty THEN /\ mf_lock' = "scanner"
                        /\ scan' = [scan EXCEPT !.pc = "iop_clean", !.size = mf.obj_size]
                        /\ UNCHANGED mgr_lock
       ELSE mgr_lock' = None /\ Step("rest") /\ UNCHANGED mf_lock
    /\ UNCHANGED <<pager, mf, disk_size, Kernel, user, ops, excused>>

\* io_clean_prepare of a manager that was not started: cleaning, dirty and
\* obj_size have no value yet.
PrepareUnset ==
    /\ scan.pc = "prepare" /\ mf_lock = None /\ ~mf.ready
    /\ \/ mgr_lock' = None /\ Step("rest") /\ UNCHANGED <<mf_lock, excused>>
       \/ \E size \in Lengths :
             /\ mf_lock' = "scanner"
             /\ scan' = [scan EXCEPT !.pc = "iop_clean", !.size = size]
             /\ excused' = TRUE
             /\ UNCHANGED mgr_lock
    /\ UNCHANGED <<pager, mf, disk_size, Kernel, user, ops>>

\* io_clean_complete forgets that the file was dirty, also after a failure.
CleanComplete ==
    /\ mf' = [mf EXCEPT !.dirty = FALSE]
    /\ mf_lock' = None /\ mgr_lock' = None
    /\ scan' = [scan EXCEPT !.pc = "rest", !.size = 0, !.gen = 0]

\* No page was writable since the last time.
NeedsNoClean == ~pager.done_pagein_write \/ pager.memory_control = 0

IopClean ==
    /\ scan.pc = "iop_clean" /\ ~pager.locked
    /\ \/ /\ pager.state # "READY"
          /\ CleanComplete
          /\ excused' = TRUE
          /\ UNCHANGED pager
       \/ /\ pager.state = "READY" /\ NeedsNoClean
          /\ pager' = [pager EXCEPT !.state = "FROZEN"]
          /\ Step("cleaned")
          /\ UNCHANGED <<mf, Locks, excused>>
       \/ /\ pager.state = "READY" /\ ~NeedsNoClean
          /\ pager' = [pager EXCEPT !.state = "RECLAIMING"]
          /\ scan' = [scan EXCEPT !.pc = "lock_request", !.gen = pager.memory_control]
          /\ UNCHANGED <<mf, Locks, excused>>
    /\ UNCHANGED <<disk_size, Kernel, user, ops>>

\* memory_object_lock_request without the pager's lock: the kernel returns the
\* dirty pages of the range and write-protects it.  It is lost if the object
\* has been terminated.
LockRequest ==
    LET S == pager.min_offset .. pager.max_offset - 1 IN
    /\ scan.pc = "lock_request" /\ pager.memory_control # 0
    /\ IF kern.gen # pager.memory_control THEN UNCHANGED <<kern, msgs>>
       ELSE /\ msgs' = msgs \o DataWrites(S) \o <<Msg("lock_completed", 0, "none")>>
            /\ kern' = [kern EXCEPT !.page = [p \in Page |->
                          IF p \in S /\ @[p] # "absent" THEN "ro" ELSE @[p]]]
    /\ Step("wait")
    /\ UNCHANGED <<pager, mf, Locks, disk_size, mapped, user, ops, excused>>

\* The control port is gone already: the clean fails, and the pager is ready.
LockRequestFails ==
    /\ scan.pc = "lock_request" /\ pager.memory_control = 0
    /\ pager' = [pager EXCEPT !.state = "READY"]
    /\ CleanComplete
    /\ excused' = TRUE
    /\ UNCHANGED <<disk_size, Kernel, user, ops>>

\* The end of iop_clean, once the pager is frozen.
Frozen ==
    /\ scan.pc = "wait" /\ pager.state = "FROZEN"
    /\ pager' = [pager EXCEPT !.done_pagein_write = FALSE, !.done_pageout = FALSE]
    /\ Step("cleaned")
    /\ UNCHANGED <<mf, Locks, disk_size, Kernel, user, ops, excused>>

\* The size is written to the backing store; that may fail.
WriteSize ==
    /\ scan.pc = "cleaned"
    /\ Step("resume")
    /\ \/ disk_size' = scan.size /\ UNCHANGED excused
       \/ excused' = TRUE /\ UNCHANGED disk_size
    /\ UNCHANGED <<pager, mf, Locks, Kernel, user, ops>>

\* Mutated form: only the first request is satisfied.
ResumedFirst == IF pager.requests = <<>> THEN <<>> ELSE <<Head(pager.requests)>>

Resumed == pager.requests

\* iop_resume (US_OBJECT_BUSY if mo_init came meanwhile), io_clean_complete.
Resume ==
    /\ scan.pc = "resume" /\ ~pager.locked
    /\ IF pager.state # "FROZEN" THEN UNCHANGED <<pager, kern>>
       ELSE Satisfy([pager EXCEPT !.requests = <<>>, !.state = "READY"], Resumed)
    /\ CleanComplete
    /\ UNCHANGED <<disk_size, mapped, msgs, user, ops, excused>>

-----------------------------------------------------------------------------
(* The scanner: io_deactivate, when there are no agents                    *)

DeactivateLock ==
    /\ scan.pc = "rest" /\ scan.sweeps < MaxSweeps /\ mgr_lock = None /\ mf_lock = None
    /\ \A u \in Users : user[u].pc = "idle"
    /\ scan' = [scan EXCEPT !.pc = "deactivate", !.sweeps = @ + 1]
    /\ mf' = [mf EXCEPT !.winvalid = FALSE]
    /\ mapped' = IF mf.winvalid THEN mapped \ {"window"} ELSE mapped
    /\ UNCHANGED <<pager, Locks, disk_size, kern, msgs, user, ops, excused>>

Active == pager.state # "READY" \/ pager.memory_control # 0

\* US_OBJECT_BUSY; of a temporary file the memory object is destroyed.
IopDeactivateBusy(destroy) ==
    /\ scan.pc = "deactivate" /\ Active /\ ~pager.locked
    /\ IF destroy /\ pager.memory_control # 0
       THEN /\ pager' = [pager EXCEPT !.destroying = TRUE]
            /\ IF kern.gen # pager.memory_control THEN UNCHANGED Kernel
               ELSE /\ mapped' = {}
                    /\ kern' = [kern EXCEPT !.gen = 0, !.page = [p \in Page |-> "absent"],
                                            !.fault = [p \in Page |-> "none"]]
                    /\ msgs' = Append(msgs, Msg("terminate", 0, "none"))
       ELSE UNCHANGED <<pager, Kernel>>
    /\ Step("rest")
    /\ UNCHANGED <<mf, Locks, disk_size, user, ops, excused>>

\* The port is destroyed, with what is on its way to it.  paging_thread_terminate
\* never fails, nor does mach_port_destroy of a port that there is.
IopDeactivate ==
    /\ scan.pc = "deactivate" /\ ~Active /\ ~pager.locked
    /\ pager' = [pager EXCEPT !.memory_object = FALSE, !.done_pageout = FALSE]
    /\ msgs' = <<>>
    /\ scan' = [scan EXCEPT !.pc = "gone", !.dirty = pager.done_pageout]
    /\ UNCHANGED <<mf, Locks, disk_size, kern, mapped, user, ops, excused>>

-----------------------------------------------------------------------------
ScannerStep == \/ CleanLock \/ Prepare \/ PrepareUnset \/ IopClean \/ LockRequest \/ LockRequestFails
               \/ Frozen \/ WriteSize \/ Resume \/ DeactivateLock \/ IopDeactivate

KernelStep == \/ \E p \in Page : \/ Touch(p) \/ PageOut(p)
                                \/ \E access \in {"read", "write"} : Fault(p, access)
              \/ Terminate

UserStep(u) == \/ Close(u) \/ Unmap(u) \/ Call(u, "map", 0)
               \/ \E n \in Lengths \ {0} : Call(u, "write", n)
               \/ \E n \in Lengths : Call(u, "set_size", n)
               \/ SetSize(u) \/ CheckReady(u) \/ CheckReadyFails(u) \/ StartMgr(u) \/ GetState(u) \/ Map(u)
               \/ Write(u) \/ Copy(u) \/ Resize(u) \/ Flush(u)

Next == \/ KernelStep \/ HandlePaging
        \/ \E u \in Users : UserStep(u)
        \/ ScannerStep \/ \E destroy \in BOOLEAN : IopDeactivateBusy(destroy)

Spec == Init /\ [][Next]_vars

-----------------------------------------------------------------------------
(* Properties                                                              *)

\* Type invariant; the requests put off are those of the current object.
TypeOK ==
    /\ pager.state \in {"READY", "EXPECT_INIT", "RECLAIMING", "FROZEN"}
    /\ pager.memory_control \in 0 .. MaxGens
    /\ pager.min_offset \in 0 .. Pages /\ pager.max_offset \in 0 .. Pages
    /\ \A i \in DOMAIN pager.requests : pager.requests[i].gen = pager.memory_control
    /\ mf.obj_size \in Size /\ disk_size \in Size
    /\ mf_lock \in Users \cup {"scanner", None} /\ mgr_lock \in Users \cup {"scanner", None}
    /\ kern.page \in [Page -> {"absent", "ro", "rw", "dirty"}]
    /\ kern.fault \in [Page -> {"none", "read", "write"}]
    /\ mapped \subseteq Users \cup {"window"}

\* "mo_data_write() invalid in frozen state": a frozen pager has no page that
\* is or can become dirty, and no page on its way, so that none is refused and
\* lost before the size is written.
FrozenClean ==
    pager.state = "FROZEN" /\ ~pager.destroying =>
        /\ \A p \in Page : kern.page[p] \in {"absent", "ro"}
        /\ \A i \in DOMAIN msgs : msgs[i].op # "data_write"

\* VERIFY and "duplicate call": every message of the kernel finds the pager at
\* the memory object it is about, over termination and mapping again.
ControlCurrent ==
    msgs # <<>> => LET m == Head(msgs) IN
                   IF m.op = "init" THEN pager.memory_control = 0
                   ELSE m.gen = pager.memory_control

\* A file that is not dirty has its size in the backing store, unless a clean
\* failed or the manager was started twice.  Pages that mapped writes dirtied and
\* that went out since may have rounded it up to the end of the last page; then
\* done_pageout tells, and deactivation that the file was dirty.
SizeKept ==
    mf.ready /\ ~mf.dirty /\ ~excused /\ ~pager.destroying =>
        /\ mf.obj_size <= disk_size /\ disk_size <= RoundPage(mf.obj_size) * PageSize
        /\ ~pager.done_pageout /\ ~scan.dirty => disk_size = mf.obj_size

\* "prevents iop_deactivate() from succeeding ... even though a mo_init()
\* message is on the way": so it is of the first mapping.
FirstInitKept == scan.pc = "gone" => kern.gen # 1

\* A page fault is not forgotten, whatever cleaning is going on: its message is
\* on the way, or it is put off and the scanner is going to resume.
FaultKept ==
    \A p \in Page : Alive /\ kern.fault[p] # "none" =>
        \/ \E i \in DOMAIN msgs : /\ msgs[i].op \in {"data_request", "data_unlock"}
                                  /\ msgs[i].page = p /\ msgs[i].gen = kern.gen
        \/ /\ \E i \in DOMAIN pager.requests : /\ pager.requests[i].page = p
                                              /\ pager.requests[i].gen = kern.gen
           /\ scan.pc \in {"lock_request", "wait", "cleaned", "resume"}
           /\ pager.state \in {"RECLAIMING", "FROZEN"}

\* iop_clean waits in vain in one case only: the memory object it cleans was
\* terminated and the next one initialized before it woke, and the pager is ready
\* again.  Else it may go on, or the kernel's answer is on the way, or the word that
\* the memory object is no more.
CleanProceeds ==
    scan.pc = "wait" =>
        \/ pager.state = "FROZEN"
        \/ /\ pager.state = "RECLAIMING"
           /\ \E i \in DOMAIN msgs : /\ msgs[i].op \in {"lock_completed", "terminate"}
                                     /\ msgs[i].gen = pager.memory_control
        \/ pager.state = "READY" /\ scan.gen < kern.made

\* The kernel's messages meet the memory object they are about.
MessagesMet == TypeOK /\ ControlCurrent /\ FirstInitKept

\* Nothing of the file is lost over a clean: no dirty page, and not its size.
NothingLost == FrozenClean /\ SizeKept

\* Nobody waits in vain while the file is cleaned, neither a faulting thread nor,
\* but for the case named, the one that cleans.
NoneForgotten == FaultKept /\ CleanProceeds
=============================================================================
