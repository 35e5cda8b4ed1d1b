# Verification of the Mach_US multi-server system

TLA+ models of the parts of this repository that carry its concurrency: the C
Threads package (`src/lib/threads`); object RPC, interrupts, streams,
directories, active objects and pagers of the class library (`src/lib/us++`);
the pipe server and the task master (`src/server/pipenet`, `src/server/tm`). TLC
checks the models on small instances; TLAPS proves the safety of the two lowest
layers, of object RPC, of the task master's events and groups and of the pipe
server for every value of the constants.

`PROJECT.json` is the machine-readable index: components, runs, mutants, the map
from every definition to the source lines it models, findings, hazards and
theorems. Paths below are relative to `src/`.

## 1. The system

Mach_US splits UNIX into servers (task master, name, tty, pipe, net, file
servers) that export C++ objects over Mach ports, and an emulation library in
each process that turns system calls into invocations of those objects. All of
it runs on C Threads.

| Component | State | Operations | Interaction | Modelled |
|---|---|---|---|---|
| C Threads synchronisation (`lib/threads/cprocs.c`, `sync.c`) | mutex word, condition queue and spin lock, `p->state`, one message port per cproc | `mutex_lock/unlock`, `condition_wait/signal/broadcast`, `cproc_continue` | used by everything below | `Cprocs`, `Condition` |
| C Threads (`cthreads.c`) | queue of threads to run, free list, counts of cthreads and cprocs, `T_*` bits, result | fork, body loop, join, detach, exit, set_limit, the child of fork(2) | uses conditions `cthread_needed`, `cthread_idle`, `t->done` | `Cthreads` |
| Remote objects (`us++/remote.cc`, `top.cc`) | reference count, external port, `mscount`, `no_senders`, `next_seqno` | reference, dereference, `get_transfer_port`, `_no_remote_senders`, destructor | handler threads, Mach kernel | `RemoteObject` |
| Object RPC manager (`us++/rpcmgr.cc`) | port-to-object table, thread pool counters, two message buffers and flags per thread | `_object_handler`, `_adjust_threads`, `_incoming_invoke`, `_outgoing_invoke`, pack and unpack | clients by messages, objects by calls | `ObjectHandler`, `RemoteObject` |
| Interrupts (`us++/interrupt.c`, `include/interrupt.h`) | per-thread handler stack, pending, masked, shake routine, behind one task-wide lock | post, region macros, `intr_cond_wait`, `intr_mach_msg` | posted by the emulation's signal code, waited on by streams, select and wait(2) | `IntrCondWait` (one region) |
| Signals and child status (`ux/uxsignal.cc`) | masks, pending signals, list of dead children | `set_child_info`, `get_child_info`, masks, delivery | interrupts; task master by notification | the child list, in `IntrCondWait` |
| Byte and record streams (`us++/bytestream.cc`, `recordstream.cc`) | chain of blocks, `qused`, `qfree`, offsets, strategies, two conditions | read, write, get and put of bytes, blocks and records, strategy, flush | interruptible waits; data path of pipes | `Streams`, `IoBlocks`, `Stream` |
| Names (`us++/dir.cc`, `tmp_dir.cc`, `tmp_prop.cc`, `std_name.cc`, `mountpt.cc`, `symlink.cc`) | entries, reservations, temporary objects' links, agents and references | resolve, insert, reserve, install, cancel, remove | remote links between servers | `Directory` (entries and temporary objects) |
| Vnode file systems (`us++/vn_*.cc`, `server/ufs`) | table of active objects and its queues, vnodes, buffer cache | lookup, open, close, unlink, clean, deactivate | mapped files, device | `ActiveObjects` (the table) |
| Mapped files and pagers (`us++/mf_*`, `pager_base.cc`) | pager state, control port, put-off requests, size, dirty, window | kernel's messages, get_port, clean, resume, deactivate, write, set_size | kernel VM, scanner of the table | `Pager` |
| Task master (`server/tm`) | tasks, groups, status, event numbers, timers | fork, exit, events, set group | emulations, kernel, directories | `TaskGroups`, `TaskEvents` |
| Pipe server (`server/pipenet`) | queue of requests, records in callers' frames, pairs of endpoints | connect, listen, accept, reject, set_connect_qmax, snddis | streams, directories | `PipeConnector`, `PipeEndpoint`, `PipeNet`, `Rendezvous` |
| Protection and authentication (`us++/std_prot.cc`, `std_auth.cc`, `server/as`) | access tables, tokens | register, verify | all servers | no |
| Cloning (`us++/clone*.cc`) | clone lock | clone_init, clone_complete, abort | remote objects | no |
| tty, name, config, diag servers; network server; stubs | start-up, BSD line discipline, x-kernel, generated code | | | no |

### What is hard here

* `condition_wait` gives up its mutex, spins, yields and only then blocks, while
  a signaller dequeues it without the mutex, marks it outside the section that
  dequeued it and sends a message after the last unlock.
* `cthread_body` signals `t->done` after `t->lock` is released, when `t` may
  already belong to another thread; the main thread's exit waits on a count.
* The last right to a port disappears in the kernel while messages with smaller
  sequence numbers are in the hands of other threads, and while a reply that
  will make a new right is already packed.
* Handler threads are counted as waiting before they exist, may only send, or
  come back from one `mach_msg` with an error of either half.
* A poster takes the interrupt lock and then a waiter's mutex; the waiter takes
  them in the other order.
* A stream wakes one thread per transfer; bytes are copied, blocks handed over
  and blocks recycled on one chain with two counts.
* A connection request lives in the stack frame of the thread that waits for its
  answer; two servers may have been shown it; the wait can be interrupted.
* A name is taken out of a directory by whoever notices first that its object is
  dead, while the object is on its way to do the same.
* A task's death, stop or kill is applied by the task itself and by the task
  master, with locks of child and parent taken in both orders.
* A file is opened, written and closed while it is cleaned without its lock; the
  kernel terminates and makes memory objects at any time.

The hazards are listed in `PROJECT.json`, each at its line, with the properties
that would catch it.

## 2. Modules

| Module | What it is |
|---|---|
| `Condition` | abstract specification: a mutex with atomic FIFO condition variables |
| `Cprocs` | the real protocol of `condition_wait`, `cond_signal`, `cond_broadcast`, `cproc_continue`, one shared access per step |
| `CprocsProofs` | inductive invariant of `Cprocs`, its safety properties, and `Cprocs` implements `Condition` |
| `Cthreads` | `cthreads.c`: fork, body, join, detach, exit, limit, child of fork(2) |
| `CthreadsProofs` | inductive invariant and safety properties of `Cthreads` |
| `RemoteObject` | one exported object, its port, port table entry, handlers and the kernel's side |
| `RemoteObjectProofs` | inductive invariant and safety properties of `RemoteObject` |
| `ObjectHandler` | the handler loop and pool arithmetic of `rpcmgr::_object_handler` |
| `ObjectHandlerProofs` | inductive invariant and safety properties of `ObjectHandler` |
| `IntrCondWait` | `intr_cond_wait` against `intr_post_interrupt`, in `get_child_info`; its mutex and condition are an `INSTANCE` of `Condition` |
| `IntrCondWaitProofs` | inductive invariant and safety properties of `IntrCondWait` |
| `Stream` | abstract specification: a bounded first-in first-out queue |
| `IoBlocks` | the chain of blocks of a byte stream as pure operators |
| `Streams` | byte and record streams with their waits, on `IoBlocks` and `Condition`; implements `Stream` |
| `PipeConnector`, `PipeEndpoint` | connection establishment; disconnection of the two ends |
| `Rendezvous` | abstract specification: what a connector promises those who connect |
| `PipeNet` | their composition: `net_accept` makes the endpoints `PipeEndpoint` takes apart; implements `Rendezvous` |
| `PipeNetProofs` | inductive invariant and safety properties of `PipeNet`, and `PipeNet` implements `Rendezvous` |
| `Directory` | entries of a directory and temporary objects (`tmp_prop`, `tmp_dir`) |
| `TaskGroups` | the task master's groups on top of `Directory` |
| `TaskGroupsProofs` | inductive invariant and safety properties of `TaskGroups` |
| `TaskEvents` | events, forced actions, exit and death of tasks |
| `TaskEventsProofs` | inductive invariant and safety properties of `TaskEvents` |
| `ActiveObjects` | the active object table of a vnode file system and its scanner |
| `Pager` | a mapped file, its pager, the kernel's VM, and the scanner |
| `MC*` | instances for TLC (symmetry sets, inputs) |

`Condition` is the joint between layers: `Cprocs` is proved to implement it, and
`IntrCondWait` and `Streams` are built on it. Definitions with the comment
"Mutated form" are plausible bugs; each property is shown to fail with one of
them in place of the original.

### How the models correspond to the code

* **Cprocs.** MTHREAD build with `SCHED_HINT` 0. `mutex` is `m->lock`; `c_lock`,
  `queue` the condition; `state` is `p->state`; `port` the number of messages on
  `p->wait_port`, whose queue limit is 1 (`MACH_SEND_TIMEOUT` drops a second
  one). `todo` is a signaller's local queue of dequeued cprocs. `SignalTest` is
  the unlocked test of the macros in `cthreads.h`; the spin and yield loops are
  one step that may repeat. Clients are arbitrary: up to `MaxOps` calls each,
  waits only with the mutex held, signals with or without it.
* **Cthreads.** A section under `cthread_lock`, `t->lock` or
  `cthread_free_lock` is one step, since no section blocks inside; a signal after
  the unlock is a step of its own. `needed`, `idle` and `done` are FIFO
  conditions as `Condition` promises. `inv` and `joined` are history: which
  fork's invocation a structure stands for, and what a join returned.
* **RemoteObject.** Kernel behaviour (send rights, make-send count, sequence
  numbers, one no-senders notification per request) is external. A message of
  the port carries a send right until it is received.
* **ObjectHandler.** `th[t]` holds the locals of `_object_handler`. A method runs
  between `Dispatch` and `Invoke`, and may call the same server (`Call`).
  `failing = "unset"` is the uninitialised `sending_failure_notification`: a
  read of it takes either value.
* **IntrCondWait.** `info` is `struct intr_thread_info`, `hand` the locals of
  `intr_cond_wait`. `masked` starts with any value, because
  `intr_thread_info_init` does not set it; if `intr_enter_handler` refuses, the
  type and error in `intr_hand_rec` are likewise any value. Immediate delivery
  never finds a handler (the loop of `intr_deliver_interrupt_internal` runs
  `i < 0`), so a post only marks and shakes. `undelivered` and `handling` are
  history.
* **Streams.** One stream, of bytes or of records. A critical section of a call is
  one step: enter, wait, wake, transfer; the signals after the unlock (`todo`)
  are steps of their own. A byte or record is its number, so loss, duplication
  and reordering show. `intr_cond_wait` appears as its effect: fail at once if an
  interrupt is pending, else wait; a shake wakes the oldest waiter.
  `swallowed` is history: on that side a woken thread returned without a transfer.
  `io_putbytes_seq` tests the strategy before it locks (`PutbytesTest`) and unlocks
  all the same (`PutbytesRejected`); `stale` are the putters whose test was overtaken.
  `blk` is what `io_getbytes_seq` gave each reader.
* **IoBlocks.** The macros and loops of `bytestream.cc` as operators on
  `[blks, w, qfree, fault, diag, shared]`: `DEQ_RBLKS`, `ENQ_RBLKS`, `ENQ_WBLKS`,
  `COPYTOBLKS` and the bodies of the four calls. `fault` marks a walk off the list,
  `diag` a dequeue that does not start at `readblk`, `shared` a list with a block that
  the caller or the allocator also has; behaviours are followed up to there. `Handed`
  is what the caller of `io_getbytes_seq` gets: a list of its own, a block still on the
  list, or an unset pointer.
* **PipeConnector, PipeEndpoint, PipeNet.** A call of `net_connect` and the record
  in its frame are one element of `Conns`. `hold` is the record a server has taken
  off the queue. Sections without the lock are steps. `broken` (a request removed
  that had left the queue, one taken from an empty queue, a lock released by another)
  and `unlocked` (answered without the lock, or never) are history.
* **Directory, TaskGroups.** Entries are tags; `listed` says whether a hash chain
  has them. An object's `refs`, `agents`, `links`, `active`, `parent` are the
  fields of `tmp_prop` and `usTop`; `members` the entries of the group itself.
  `late`, `used` are history, `leaks` and `stuck` what `tm_event_to_tgrp` leaves.
* **TaskEvents.** Every task has a lock; `calls` are the calls of `tm_hurtme` a task
  makes on itself for events it was posted; `notices` the dead-name notifications.
  `Parent` is any tree, an initial task being its own parent. SIGCHLD with a pid is
  served for whoever sends it: `ChildEvent` is the child's emulation, `Say` the death
  watch. An RPC to a task is answered while it runs. The kernel's suspend count and
  termination are variables.
* **ActiveObjects.** `queue_num` is the queue of an entry; the order is kept of the
  two queues the scanner walks. `held` are entries locked over a blocking step.
  Whether `io_clean` writes everything back is a choice; `unclean` is history.
* **Pager.** Offsets in pages, sizes in bytes of which a page has `PageSize`;
  `RoundPage` is `round_page`. `pager.locked` says that a failing `iop_get_port` kept
  the lock; `scan.gen` is the memory object a clean is about. `kern` is the kernel's current memory
  object with its pages and outstanding faults (external); messages to the paging
  thread are in order. The scanner runs `io_clean` and `io_deactivate` as
  `vn_mgr` does. `excused` is history: a clean failed or the size was read unset.

## 3. Runs

| Run | Instance | Shows |
|---|---|---|
| `cprocs` | 3 threads, 2 conditions, 2 calls each, fair | no stray wakeup, no lost wakeup, nobody leaves `condition_wait` while a signaller has hold of it; `Cprocs` implements `Condition`; a signalled thread returns with the mutex |
| `cthreads` | 3 cprocs, 2 forks, 1 fork(2), limit 2 or none, fair | the right result reaches the joiner, structures are freed once, the count is exact, no forked thread is stranded, exit comes last; while no limit is set every forked thread runs and the main thread's exit ends |
| `remote` | 2 handlers, 2 exports, 2 messages, 1 argument passed back, 1 failed reply, fair | never deleted under anybody, notifications believed only when true, exact count; an object exported once is deleted when abandoned |
| `handler` | 5 threads, maximum 3 or none, 3 requests, 2 errors, fair | counters exact and bounded, each reply belongs to the request in hand, no read before set; without a maximum a thread is always on its way to the port set and every request is received |
| `intr_safe` | 2 waiters, 2 posters, 3 posts, 2 children, any initial `masked` | for every unmasked post a sleeper is under, the shake is made; the oldest is kept and returned, no pointer to a finished frame |
| `streams` | 2 readers, 1 writer, 1 other thread, queue of 3, 3 items, bytes or records | the lists are bounded FIFO queues (`Stream`); counts exact, and the bytes handed over where a list of its own is; no thread sleeps on what is there, or on a closed stream, but for the cases named |
| `pipe` | 2 connects, 2 servers, queue of 2, limit changed to 1 or -1, 1 interrupt or 2 disconnections | a request is in one place, its record alive until answered, its answer seen; success means both endpoints; after a disconnection nobody can wait; requests are taken in order and answered once for good (`Rendezvous`) |
| `groups` | 3 tasks, 2 names, 3 entries, 2 objects, 1 event | names unique, references exact, links sound, no lost sleeper; a member's group is found, an abandoned one disappears |
| `tasks` | a task, its child and its grandchild, 2 senders, the death watch, 3 events | events applied once and in order, a kill kills unless overtaken, suspend count exact, deaths reported, locks waited for in a cycle only by a child's SIGCHLD and a stop of it |
| `aot` | 2 files, 1 directory, 2 users, 3 opens, 2 sweeps | referenced objects are in the table, counts exact, no lost waiter, writers' files are cleaned, the sweep's sanity check holds |
| `pager` | 2 users, 2 pages of 2 bytes, 2 memory objects, 2 calls, 2 sweeps | a frozen pager refuses no page, messages meet the object they are about, faults survive a clean, the size is kept up to the rounding of page-outs, the first `mo_init` is not lost, a waiting clean has its answer under way unless the object was made anew |

Where several statements say together that one structure is in order, a run checks
their conjunction, defined at the end of its module; the parts are defined and
commented one by one:

| Module | Checked | Parts |
|---|---|---|
| `Cthreads` | `Bookkeeping` | `TypeOK`, `FreeListSound`, `CountExact`, `NoStrandedWork`, `ExitLast` |
| `RemoteObject` | `RefsSound` | `TypeOK`, `RefExact` |
| | `Reachable` | `NoDangling`, `TerminatesClean`, `ArgumentFound` |
| `ObjectHandler` | `PoolSound` | `TypeOK`, `PoolExact`, `PoolBounded`, `NeverAllBusy` |
| | `ReplySound` | `ReplyOnce`, `FailingSetBeforeRead` |
| `Streams` | `CountsSound` | `TypeOK`, `CountsExact`, `HandedExact` |
| | `NoneWaitsInVain` | `NoneStranded`, `NoneLeftBehind` |
| `PipeNet` | `RequestSound` | `TypeOK`, `Custody`, `QueueBounded`, `AnsweredAlive` |
| | `AnswerSound` | `ConnectedBoth`, `NoLostAnswer` |
| `TaskGroups` | `LinksSound` | `TypeOK`, `NamesUnique`, `RefExact`, `LinkSound` |
| `TaskEvents` | `EventsApplied` | `AppliedInOrder`, `KillTakes` |
| | `StateSound` | `TypeOK`, `SuspendExact` |
| `ActiveObjects` | `TableSound` | `TypeOK`, `ReferencedFound`, `RefExact`, `WritersCleaned`, `SweepExact` |
| `Pager` | `MessagesMet` | `TypeOK`, `ControlCurrent`, `FirstInitKept` |
| | `NothingLost` | `FrozenClean`, `SizeKept` |
| | `NoneForgotten` | `FaultKept`, `CleanProceeds` |

`TypeOK` of `Cprocs` and of `IntrCondWait` is proved and in no run of its own.
Section 4 says which of the others are also proved.

One run finds a violation of a statement the repository makes:

| Run | Statement | What the code does |
|---|---|---|
| `aot_dirty` | `mf_mgr.cc:332`, "something is fatally wrong because we should not be trying to deactivate such files" | `vn_clean` puts a file nobody refers to on the inactive queue after `io_clean`, although a writer opened, wrote and closed it meanwhile (`vn_file.cc:252`); the scanner then tries to deactivate it dirty. `iop_deactivate` is BUSY until the kernel has paged the written pages out, and then `mf_mgr.cc:338` is CRITICAL |

The models contain further behaviours that a reader of the code should know. They
have no run of their own; where one would break a property, the property names
the case and leaves it out. Items marked (not in a model) were met while reading.

*C Threads (not in a model).*
* `cthread_fork_prepare` does not take `t->lock`: the child of fork(2) may inherit its
  own held, and hang when it returns (`cthreads.c:287`).
* A late signaller may still be inside `cond_signal` on `t->done` when `cthread_alloc`
  initialises the structure anew (`cthreads.c:170`, `:304`). In the model a signal is
  one step; what is shown is that its effect on the next joiner is harmless.

*Remote objects and handlers.*
* A message received before a no-senders notification and looked up after it finds
  no entry; it is dropped, and the reference taken for it is kept (`rpcmgr.cc:379`).
* The notification is requested once per port (`rpcmgr.cc:233`): an object exported
  again is never collected.
* A request for an unknown method is never answered; the comment at
  `rpcmgr.cc:1084` says "Notify invoker", and the reply is built and not sent.
* After a reply could not be sent, `_object_handler` looks up the object of a
  request whose local port `_incoming_invoke` has cleared (`rpcmgr.cc:682`,
  `:1107`), so the notification announced at `rpcmgr.cc:640` is not sent.

*Interrupts and conditions.*
* A post before the shake is registered makes the waiter lock its own mutex
  (`interrupt.c:743`); and a poster in the shake can wait for a waiter that wants
  `intr_lock` (`:958` against `:996`).
* The shake wakes the oldest waiter of the condition, not the interrupted one
  (`interrupt.c:960`).
* `intr_thread_info_init` leaves `masked` as `malloc` returned it, so a thread may
  sleep with interrupts masked although it handles none
  (`doc/interrupts-0791.note:81` says otherwise). `PostNeverMissed` speaks of
  unmasked interrupts for this reason, and `OldestKept` of handlers that were
  really entered.
* The comment at `cprocs.c:573` says `cproc_continue` is called with the condition
  locked; it is called unlocked, and takes the lock itself. The refinement shows
  that the code is right and the comment is not.

*Streams and pipes.*
* A woken thread that returns without a transfer uses up a wakeup another thread
  needed (`bytestream.cc:330`); a request for more than the queue holds waits for ever.
* `io_putbytes_seq` tests the strategy without the lock (`:700`): if it is changed and
  the waiters told before the lock is taken, the putter sleeps all the same. On a
  closed stream it unlocks a mutex it does not hold (`:701`); another thread then enters
  in the middle of a section, which the model, where a transfer is one step, does not
  follow into the section.
* What `io_getbytes_seq` hands over is seldom what it took. `firstblk` is not set when
  `DEQ_RBLKS` tests it (`:618`, `:649`, the test at `:121`); with complete blocks and
  some bytes the caller gets the block that is next on the list (`:620`) and the blocks
  taken are lost, with complete blocks only an unset pointer (`:654`). The bytes copied
  go to the start of the previous block, over its data (`:643`; not in a model). The
  stream itself stays sound.
* `io_putbytes_seq` frees empty blocks it is given and leaves them linked (`:753`).
* With a count of 0 the record calls write through an unset pointer
  (`recordstream.cc:209`; not in a model, where a count of 0 is of bytes).
* An interrupt while a server has the request corrupts `qsize` and leaves the
  server writing to a dead frame (`pipenet_connector.cc:621`); a refusal by
  `net_set_connect_qmax` is written without the lock and can be slept through
  (`:547`); `ABORT` in `net_accept` unlocks an unheld lock and answers nobody (`:425`).
* After the unlock the condition in the record is signalled (`:340`, `:443`, `:506`,
  `:549`), and `net_set_connect_qmax` writes its state after its error (`:548`):
  `net_connect` may have seen the answer and left the frame the record lies in.
  `AnsweredAlive` speaks of the record up to the answer.
* `net_listen` tests the length of the user data the wrong way round (`:297`), and
  `net_set_connect_qmax` tests the old limit for being negative (`:531`): with a
  negative new one, which `listen` passes on unchecked (`uxio_socket.cc:904`), it takes
  records from an empty queue.

*Task master.*
* A lookup that finds an unused temporary object shuts it down while it holds the
  directory's lock, and waits for itself (`tmp_prop.cc:225`).
* A task may enter a group that has just been shut down.
* Every call of `tm_event_to_tgrp` leaks a reference (`tm_task_group.cc:231`, which frees
  the iterator without dropping what it refers to); one that
  meets a reserved entry keeps the directory's lock as well (`:230`).
* `tm_event_to_tgrp` takes task locks with the group's directory lock held
  (`tm_task_group.cc:229-243`), `tm_set_tgrp` the directory lock with the task's lock
  held (`tm_task.cc:694-713`): they can wait for each other (not in a model, since
  groups and events are modelled apart).
* A child's SIGCHLD holds the parent's lock and waits for the child's (`tm_task.cc:979`);
  a stop of the same child holds the child's and waits for the parent's (`:839`). They
  wait for each other; `CyclesKnown` says that this is the only way. A stop of an
  initial task, its own parent, waits for itself (`:839`).
* A KILL overtaken by a newer STOP is taken for a redundant call (`:824`).
* A STOP or KILL whose post times out is not forced, since `hurt_me` is set when the
  post succeeds (`:918`); the comment at `:925` and `doc/interrupts-0791.note:169` say
  that it is.
* `tm_hurtme` tells the parent with the child's lock held: the parent's is released
  (`:995`) before `event_post` (`:997`), and while a stopped parent does not answer, the
  child can be neither continued nor killed.

*File systems and pagers.*
* The scanner takes the head of an emptied inactive queue for an entry
  (`vn_mgr.cc:691`); the result of `io_clean` is ignored (`vn_file.cc:234`).
* A failed clean clears `dirty` (`mf_mem.cc:938`); two first callers start the
  manager twice (`mf_mem.cc:199`); `io_clean` before the start reads unset fields
  (`mf_mem.cc:911`).
* If `mo_terminate` and `mo_init` are both handled before a cleaner wakes, or before
  it has made its lock request, it waits on with nothing to end it
  (`pager_base.cc:376`); only the first mapping is safe from `iop_deactivate` (`:312`);
  `destroying` is never reset (`:870`).
* A failing `iop_get_port` returns with the pager's lock held (`:282-293`); a page whose
  `io_pageout` fails is lost (`:890-894`; contents are not in the model).
* Page-outs of mapped writes round the size on disk up to a page; `done_pageout` is the
  only trace of it (`mf_mgr.cc:280`).
* `mo_terminate` of a pager being destroyed takes no lock (`:753`), and when it is
  reclaiming releases one it does not hold (`:786`; one step in the model).

### Bounds

Three threads are the fewest with which a signaller, a waiter that is being woken
and a third thread that signals, waits or takes the mutex meet. Two calls each
(locking, waiting, signalling and broadcasting count) let every thread lock and wait
once, or signal; that a thread may wait again and again is covered for the safety
properties and the refinement, which are proved without the bound, and not for
`WokenReturns`. Two forks and one fork(2) on three
structures let a structure be joined, freed and reused while its first signaller
is still late. Two handlers with two messages and two exports are enough for a
message, a notification and a second export to overlap in every order. In the
pool, three requests and two errors let a send-only round, a nested call and an
error of each half follow one another; five thread identities exceed what the
maximum allows, so the bound is the code's. Three posts on two waiters let one be
delivered, one merged and one arrive during the handler.

In `streams` two readers compete for what one writer puts, and three items in a
queue of three fill it, empty it and cross block boundaries; blocks handed over have
data, an offset, room, or are empty, and a put may be of nothing (`io_getbytes_seq`
of nothing is in the model and not in this instance). In `pipe` a queue of two gives requests an order;
lowering it to one refuses the first of two, and makes a second meet the limit, and a
negative limit refuses all of them and one more; runs follow an interrupt or
disconnections, not both (and disconnections with the first limit only, an interrupt
with none that is negative), up to the moment the queue is corrupted.
In `groups` three tasks let one create, one look up and one leave or remove. In
`tasks` three numbered events let one be overtaken twice, and a parent that has a
parent of its own stops, is continued, is told of its child's death, or dies with it;
events go to child and grandchild (`Targets`), and a child reports by SIGCHLD that it
stopped or exited, the other statuses being handled as the second. In `aot` two sweeps let a file be cleaned and then deactivated, three
opens let it be opened again in between. In `pager` two memory objects let one
be terminated and made again while messages of the first are queued; sizes 0, 1 and 3
with pages of 2 (`Lengths`) are nothing, part of the first page and part of the second; at most three messages
wait for the paging thread, which is what a termination, the next initialisation and
a fault of the new object take.

All bounds are guards named by constants (`MaxOps`, `MaxForks`, `MaxUnixForks`,
`MaxSends`, `MaxPasses`, `MaxFails`, `MaxReqs`, `MaxErrs`, `MaxPosts`,
`MaxChildren`, `MaxItems`, `MaxControl`, `MaxDisconnects`, `MaxEvents`, `MaxOpens`,
`MaxSweeps`, `MaxGens`, `Targets`, `Lengths`). Symmetry is used only in runs without liveness.

`CHECK_DEADLOCK FALSE` everywhere: clients may stop calling, and a thread may wait
for a signal nobody gives. What must not get stuck is stated as a property. Where we
found that threads of the code wait for each other or for themselves, in a model or
while reading, the list above says so.

### Fairness

Weak fairness per thread: kernel threads are scheduled preemptively by Mach and
every spin, lock and message step stays enabled until taken. In `Cprocs` a client
that holds the mutex eventually calls the library again (releases it or waits),
and a free mutex is eventually taken by a particular thread that wants it; the
instance has finitely many calls, so nobody can be overtaken for ever. In
`Cthreads` and `ObjectHandler` every thread's function, and every method, returns.
Clients, signals, errors and forks are never assumed to happen.
`EveryForkRuns`, `MainExits` and `EveryRequestReceived` are stated for behaviours
without a maximum, because with one the code can really wait on itself;
`CollectedOnce` excludes a second export, a failed reply and a dropped message,
after each of which the object is really kept for ever. The other modules state
what must not be forgotten as invariants: whoever sleeps has its wakeup under way
(`NoneStranded`, `NoneLeftBehind`, `NoLostAnswer`, `NoLostSleeper`,
`NoLostWaiter`, `FaultKept`, `CleanProceeds`).

## 4. Proofs

The proofs hold for sets of any size and any bounds. What is assumed of the
constants: `NoThread`, `None` and the like are no member of the sets they stand
beside, waiters and posters are distinct, as are callers, servers and the owner of
a pipe's connector, there is a condition, no two tasks are each other's parent, bounds
are natural numbers, and sets whose members are counted are finite. Two models give identities
to what the code allocates as it goes, and there the supply must not run out: more
`Cprocs` and `Slots` than forks, and `MaxReqs + max_waiting` handler threads (with
`min_waiting <= max_waiting`, which is how the code starts them). The history
variables are part of the state and of the invariants.

Each proof module has the same shape: the parts of `IInv`, one lemma per action (or
one for all actions that leave a part alone), `Invariance`, and the theorems that
follow from it. Every `IInv` was model-checked before it was proved.

**`CprocsProofs`.** None of the safety properties is inductive: whether a message
may be on a port depends on what every signaller holds. The invariant `IInv` adds
to `TypeOK`
* `LockInv`, `MutexInv`: who is in a section has its lock;
* `StateInv`: what the place of a cproc tells about its `state`;
* `QueueInv`, `QueueUnique`: a queued cproc is asleep on that condition, is not
  RUNNING, and is queued once;
* `TodoInv`, `TodoUnique`, `TodoPc`: a dequeued cproc is in one
  signaller's hands, is on no queue and not yet RUNNING until `ContinueSet`;
* `SendInv`, `SendUnique`: the cproc a signaller will send to is in its receive,
  already RUNNING, with an empty port, and nobody else will send to it.

Steps that only move a thread and its locks share one lemma
(`ControlStepInv`); the nine steps that touch queues, states or ports have one
each. From `IInv` follow `NoStray`, `NoLost`, `LeavesReleased`, and
`Refinement`: under the mapping in `Cprocs` (the mutex counts as released from the
enqueue on) `WaitEnqueue` is `Wait`, `SignalDequeue` is `Signal`,
`BroadcastTake` is `Broadcast`, `WaitRelock` is `Resume`, and everything else is a
mutex step or a stutter.

**`IntrCondWaitProofs`.** `IInv` adds to `TypeOK`
* `CountInv`: children and outstanding signals do not exceed those born;
* `RegionInv`: where in `intr_cond_wait` the thread is determines whether its
  handler is on the stack and its shake registered, and a sleeper with an unmasked
  pending interrupt has been shaken;
* `OldestInv`: the pending post, the one in the handler and the returned one are
  the oldest of the posts they stand for.

There is one lemma per action. `NeverMissed`, `NoDangling` and `Oldest` follow,
whatever `masked` held at first.

**`CthreadsProofs`.** That a structure is freed once and its result reaches the one
joiner depends on who may still touch it; that work is not stranded depends on
sums over all cprocs. `IInv` has `TypeOK`, `CountExact`, `ExitLast`,
`JoinGetsResult` and
* `PlaceInv`: a structure is on the queue, on the free list or executed by one
  cproc, and in one of these only;
* `ClaimInv`, `DoneInv`: a fork has at most one claim on it (its handle, a join or
  a detach under way), and only that joiner waits on `t->done`;
* `FlagInv`: which of `T_MAIN`, `T_RETURNED`, `T_DETACHED` go with which place,
  and that a returned structure has its fork's result;
* `WaitInv`, `MainInv`, `CountInv`: who is on the conditions `needed` and `idle`,
  that somebody executes the main thread until it exits, and that enough cprocs
  are on their way for the queue while any of them sleeps.

`Bookkeeping` and `JoinGetsResult` follow.

**`RemoteObjectProofs`.** `IInv` has `TypeOK`, `RefExact` and
* `PortInv`, `RightInv`: when there is a port and an entry in the table, and where
  its send rights are (with clients, in messages, in arguments);
* `MakeSendInv`: `mscount` counts the rights promised in replies, the kernel's
  make-send count those really made; failed sends are the difference;
* `SeqnoInv`: every sequence number received and not yet counted in `next_seqno` is
  in the hands of a handler that has still to look the object up;
* `NoticeInv`, `GoneInv`: there is one notification, its count is the kernel's only
  while no right has been made since, and then it was the last message; and what is
  left once it is believed.

`RefsSound`, `Reachable` (nobody has a deleted object, and what a message or an
argument names is found) and `ForReal` follow.

**`ObjectHandlerProofs`.** `IInv` has `TypeOK`, `PoolExact`, `PoolBounded`,
`NeverAllBusy` and
* `FlagInv`: a thread's place in the loop determines its flags;
* `OwnInv`: a request is queued once or in one thread's hands;
* `DebtInv`: threads that are busy do not outnumber the requests taken, so an
  identity is left whenever the code makes a thread.

`PoolSound` and `ReplySound` follow, the latter with every outcome of a read of an
unset flag.

**`TaskEventsProofs`.** `IInv` has `TypeOK`, `SuspendExact`, `AppliedInOrder`,
`KillTakes`, `DeathReported` and
* `PlaceInv`, `LockInv`: what a thread carries at each place, and which locks it
  keeps there, from which `CyclesKnown` follows: two threads can want each other's lock
  only as a SIGCHLD and a stop, the parent's lock is the one and the child's the other,
  and no two tasks are each other's parent;
* `NumberInv`: event numbers are handed out in order and none is shared;
* `AppliedInv`, `KillInv`: `last_hurtme_id` is the newest event acted on, and a
  SIGKILL that is the newest has ended its task;
* `DeathInv`: the notice of a death, the watch working on it and the burial
  exclude each other.

`EventsApplied`, `StateSound`, `DeathReported` and `CyclesKnown` follow, for any tree of
parents.

**`TaskGroupsProofs`.** A temporary object is kept by counts in three places (its
references, its agents, its members) and by one entry that up to three parties may
take out, so no property is inductive alone. `IInv` has `TypeOK`, `RefExact`,
`NoLostSleeper` and
* `PlaceInv`: what a thread has at each place;
* `EntryInv`, `CountInv`: the fields of an entry go together, listed names are
  unique and counted;
* `LinkInv`: a listed object knows its entry; the entry of an object is its own
  until the thread that shuts it down has freed it, and is `INVALID` only for an
  object that is shut down; `links` is 1 or 0 accordingly;
* `LifeAt`: a freed object is as new, one being installed is with its maker alone;
* `AgentAt`, `MemberAt`: `agents` counts the agents not yet unregistered, and a
  member's task is in the group, which is active unless it was entered late;
* `CloseAt`: a used and active group has an agent, a member or one just leaving; one
  that is shut down is closed by exactly one thread, or by the stuck lookup.

A step of one thread with one object (`Focus`) leaves all that is said of the others
alone (`Elsewhere`); shutting down, dropping a reference and ending have one lemma
each, which the actions share. `LinksSound`, `NoLostSleeper`, `MemberFound` and
`Disappears` follow.

**`PipeNetProofs`.** That a request has one owner, that its record is alive until it is
answered and that its answer is seen depend on each other: a server may write to the
record because the call waits, and the call waits because the record has no answer.
`IInv` has `TypeOK`, `QueueBounded`, `NoLostAnswer` and
* `Places`, `Once`, `Unstarted`: what each place of a thread says of the record it
  has; a request is on the queue once, or with one taker, and before the call nowhere;
* `QueuedOpen`, `HeldOpen`, `Answered`, `MadeFirst`: a queued record and one in hand
  have no answer, but for what an interrupted call wrote itself; the answer comes
  before the signal, and success only after both endpoints;
* `Locked`: the lock is a call's exactly between the test of its loop and its wait,
  so that no answer given with the lock comes in between;
* `Accounted`, `QueueCounted`: an unanswered request is on the queue or in hand, and
  `qsize` is the length of the queue;
* `Unborn`, `Severed`: nothing happens to endpoints before they are made, and how far
  each `net_snddis` has come determines what it has done to either end.

`RequestSound`, `AnswerSound` and `NobodyWaits` follow. `Places`, `Once` and what is
said of answers also hold after `broken`. There the model goes on with the queue
as it is, which `dll_remove` of a record that is not on the list does not
guarantee, so these theorems speak of the code up to that moment.
`ImplementsRendezvous` needs one invariant more (`Asking`: a call that waits has not
written its own error). Under the mapping in `PipeNet` the upcall is `Offer` or
`TurnAway`, `Accept` and `Trim` are `Take`, `net_reject` is `Reject`, `Answer` and
`TrimRefuse` are `Reply`, the abort in `MakeAgent` is `Drop`, the end of the waiting
loop is `Return`, giving up is `Withdraw` or, when a server has the request,
`Desert`; everything else is a stutter.

**Only model-checked.** Liveness (`WokenReturns`, `EveryForkRuns`, `MainExits`,
`CollectedOnce`, `EveryRequestReceived`): the prover has no fairness or ENABLED.
The modules `Streams` (its refinement of `Stream` too), `ActiveObjects` and
`Pager`. What `Streams` and `Pager` say of contents goes
through folds and filters over sequences, and what those compute for every
sequence needs induction over data, which is out of the prover's reach.
`ActiveObjects` has no such obstacle; its proof is left to the plan.

## 5. Not modelled

The COROUTINE and MTASK builds, `cthread_yield` and thread switching, stack layout
and allocation; message layout and out-of-line memory; weak references, castdown
and the proxy side of remote objects; nested interrupt regions, synchronous
interrupts and `intr_mach_msg`; phantom threads (`cthread_create_phantom`); path
resolution, mount points and symbolic links; sessions and timers of the task
master; the buffer cache and the disk layout; the client's side of mapped files;
cloning; authentication and access tables; class registration and diagnostics;
BSD tty and x-kernel code; MIG stubs, which are vendored or generated and make up
most of the repository's lines. Each component's note in `PROJECT.json` gives the
reason.

## 6. Plan

1. Proofs: `NoLostWaiter` and `RefExact` of `ActiveObjects`; `NoneLeftBehind` of
   `Streams`.
2. Interrupts in full: nested regions, `INTR_RETURN`, synchronous interrupts,
   `intr_mach_msg`, the cache that survives `intr_destroy_self`.
3. `uxsignal` as a whole, select, descriptor table.
4. Proxy side of remote objects, `active_invokes`, cloning.
5. `ActiveObjects` and `Pager` composed, with the client's side of mapped files.
6. Path resolution over remote links; token table; lock order in `fork.c`.
