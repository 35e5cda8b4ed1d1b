---------------------------- MODULE RemoteObject ----------------------------
(***************************************************************************)
(* One server object that is available remotely: the reference count of    *)
(* usTop (lib/us++/top.cc), the external port of usRemote (remote.cc), and *)
(* the port table and handler threads of rpcmgr (rpcmgr.cc) that export it *)
(* in replies, find it again for incoming messages, and collect it when    *)
(* Mach reports that there are no more senders.                            *)
(*                                                                         *)
(* The Mach kernel is external: send rights, the make-send count and the   *)
(* sequence numbers of the port, and the no-senders notification, which is *)
(* sent once for each request.  A section under the object's lock or under *)
(* port_table_lock is one step.                                            *)
(***************************************************************************)
EXTENDS Integers, Sequences, FiniteSets

CONSTANTS Handlers,    \* threads in rpcmgr::_object_handler
          Exporters,   \* replies that return the object to a client
          MaxSends,    \* bound on the messages clients send to the object
          MaxPasses,   \* bound on requests that carry the object as argument
          MaxFails,    \* bound on replies whose send fails
          NoMsg

ASSUME BoundAssumption == /\ IsFiniteSet(Handlers) /\ IsFiniteSet(Exporters)
                          /\ MaxSends \in Nat /\ MaxPasses \in Nat /\ MaxFails \in Nat

VARIABLES ref_cnt,        \* usTop::ref_cnt
          alive,          \* the object has not been deleted
          external_port,  \* external_port_data: "null", "live" or "destroyed"
          mscount, no_senders, next_seqno,
          registered,     \* mach_port_to_object_table has the object
          \* the kernel's side of the port
          srights,        \* send rights, those in queued messages included
          kmscount,       \* its make-send count
          nsrequest,      \* a no-senders notification is requested
          seqno,          \* sequence number of the next message received
          queue,          \* messages on the port
          \* threads of the server
          pc, msg,        \* of each handler
          epc,            \* of each exporting reply
          locals,         \* references held by other code of the server
          passing,        \* unpackers about to look the object up
          unpacked,       \* unpackers about to give back the send right
          \* clients
          rights,         \* client tasks holding a send right
          sends, passes, fails,
          unknown         \* messages "on an unknown port" (history)

object == <<ref_cnt, alive, external_port, mscount, no_senders, next_seqno, registered>>
kernel == <<srights, kmscount, nsrequest, seqno, queue>>
threads == <<pc, msg, epc, locals, passing, unpacked>>
clients == <<rights, sends, passes, fails>>
vars == <<object, kernel, threads, clients, unknown>>

InvokeMsg == [kind |-> "invoke", count |-> 0]
NoSendersMsg(n) == [kind |-> "no_senders", count |-> n]

Init == /\ ref_cnt = 1 /\ alive = TRUE /\ external_port = "null"
        /\ mscount = 0 /\ no_senders = FALSE /\ next_seqno = 0
        /\ registered = FALSE
        /\ srights = 0 /\ kmscount = 0 /\ nsrequest = FALSE /\ seqno = 0
        /\ queue = <<>>
        /\ pc = [h \in Handlers |-> "idle"] /\ msg = [h \in Handlers |-> NoMsg]
        /\ epc = [e \in Exporters |-> "start"]
        /\ locals = 1 /\ passing = 0 /\ unpacked = 0
        /\ rights = 0 /\ sends = 0 /\ passes = 0 /\ fails = 0 /\ unknown = 0

-----------------------------------------------------------------------------
(* The kernel.                                                             *)

\* One send right disappears while q is on the port.  With the last one goes
\* the notification that was requested, carrying the make-send count.
ReleaseRight(q) ==
    /\ srights' = srights - 1
    /\ IF srights = 1 /\ nsrequest
       THEN nsrequest' = FALSE /\ queue' = Append(q, NoSendersMsg(kmscount))
       ELSE UNCHANGED nsrequest /\ queue' = q

-----------------------------------------------------------------------------
(* usTop                                                                   *)

\* dereference_proc.  The last reference deletes the object, and ~usRemote
\* destroys the external port; reg is the table entry before that.
Dereference(reg) ==
    /\ ref_cnt' = ref_cnt - 1
    /\ alive' = (ref_cnt # 1)
    /\ IF ref_cnt = 1 /\ external_port = "live"
       THEN /\ external_port' = "destroyed"
            /\ registered' = (reg /\ no_senders)
            /\ queue' = <<>>
       ELSE UNCHANGED <<external_port, queue>> /\ registered' = reg

-----------------------------------------------------------------------------
(* A reply that returns the object: _msg_pack and the send of the reply.   *)

\* A method of some object of the server takes a reference to return it.
Take(e) ==
    /\ epc[e] = "start"
    /\ \/ locals > 0
       \/ \E h \in Handlers : pc[h] = "has" /\ msg[h].kind = "invoke"
    /\ ref_cnt' = ref_cnt + 1
    /\ epc' = [epc EXCEPT ![e] = "held"]
    /\ UNCHANGED <<alive, external_port, mscount, no_senders, next_seqno, registered,
                   kernel, pc, msg, locals, passing, unpacked, clients, unknown>>

\* Mutated form: a port that is already there is handed out uncounted.
GetTransferPortUncounted(e) ==
    /\ epc[e] = "held"
    /\ epc' = [epc EXCEPT ![e] = "packed"]
    /\ \/ /\ external_port # "null"
          /\ IF no_senders
             THEN /\ no_senders' = FALSE
                  /\ registered' = TRUE /\ ref_cnt' = ref_cnt + 1
             ELSE UNCHANGED <<no_senders, registered, ref_cnt>>
          /\ UNCHANGED <<external_port, mscount, next_seqno, nsrequest>>
       \/ /\ external_port = "null"
          /\ external_port' = "live" /\ nsrequest' = TRUE
          /\ registered' = TRUE /\ ref_cnt' = ref_cnt + 1
          /\ mscount' = 1 /\ next_seqno' = 0 /\ no_senders' = FALSE
    /\ UNCHANGED <<alive, srights, kmscount, seqno, queue, pc, msg, locals,
                   passing, unpacked, clients, unknown>>

\* get_transfer_port, under the object's lock, for an object that lives here.
\* The port is allocated once, with one request for a notification.
GetTransferPort(e) ==
    /\ epc[e] = "held"
    /\ epc' = [epc EXCEPT ![e] = "packed"]
    /\ \/ /\ external_port # "null"
          /\ mscount' = mscount + 1
          /\ IF no_senders
             THEN /\ no_senders' = FALSE
                  /\ registered' = TRUE /\ ref_cnt' = ref_cnt + 1
             ELSE UNCHANGED <<no_senders, registered, ref_cnt>>
          /\ UNCHANGED <<external_port, next_seqno, nsrequest>>
       \/ /\ external_port = "null"
          /\ external_port' = "live" /\ nsrequest' = TRUE
          /\ registered' = TRUE /\ ref_cnt' = ref_cnt + 1
          /\ mscount' = 1 /\ next_seqno' = 0 /\ no_senders' = FALSE
    /\ UNCHANGED <<alive, srights, kmscount, seqno, queue, pc, msg, locals,
                   passing, unpacked, clients, unknown>>

\* Mutated form: the reply keeps the reference of the return value.
PackKeepsReference(e) ==
    /\ epc[e] = "packed"
    /\ epc' = [epc EXCEPT ![e] = "sending"]
    /\ UNCHANGED <<object, kernel, pc, msg, locals, passing, unpacked, clients, unknown>>

\* "Release ref if this is a return value."
PackDereference(e) ==
    /\ epc[e] = "packed"
    /\ epc' = [epc EXCEPT ![e] = "sending"]
    /\ Dereference(registered)
    /\ UNCHANGED <<mscount, no_senders, next_seqno, srights, kmscount, nsrequest,
                   seqno, pc, msg, locals, passing, unpacked, clients, unknown>>

\* mach_msg sends the reply: the kernel makes the send right.
SendReply(e) ==
    /\ epc[e] = "sending"
    /\ epc' = [epc EXCEPT ![e] = "done"]
    /\ srights' = srights + 1 /\ kmscount' = kmscount + 1 /\ rights' = rights + 1
    /\ UNCHANGED <<object, nsrequest, seqno, queue, pc, msg, locals, passing,
                   unpacked, sends, passes, fails, unknown>>

\* The reply port is dead: nothing is sent and nothing is cleaned up.
SendReplyFails(e) ==
    /\ epc[e] = "sending"
    /\ fails < MaxFails
    /\ fails' = fails + 1
    /\ epc' = [epc EXCEPT ![e] = "done"]
    /\ UNCHANGED <<object, kernel, pc, msg, locals, passing, unpacked, rights,
                   sends, passes, unknown>>

-----------------------------------------------------------------------------
(* A handler thread: receive, look the object up, do it, dereference.      *)

Receive(h) ==
    /\ pc[h] = "idle"
    /\ queue # <<>>
    /\ LET m == Head(queue) IN
       /\ msg' = [msg EXCEPT ![h] = [kind |-> m.kind, count |-> m.count, seqno |-> seqno]]
       /\ IF m.kind = "invoke"
          THEN ReleaseRight(Tail(queue))
          ELSE queue' = Tail(queue) /\ UNCHANGED <<srights, nsrequest>>
    /\ seqno' = seqno + 1
    /\ pc' = [pc EXCEPT ![h] = "got"]
    /\ UNCHANGED <<object, kmscount, epc, locals, passing, unpacked, clients, unknown>>

\* One reference for every message up to s that has none yet.
ReferenceWithSeqno(s) ==
    IF s >= next_seqno
    THEN ref_cnt' = ref_cnt + (s - next_seqno) + 1 /\ next_seqno' = s + 1
    ELSE UNCHANGED <<ref_cnt, next_seqno>>

\* _lookup_external_port(key, seqno): a failed lookup is tried once more.
Lookup(h) ==
    /\ pc[h] \in {"got", "again"}
    /\ \/ /\ registered
          /\ ReferenceWithSeqno(msg[h].seqno)
          /\ pc' = [pc EXCEPT ![h] = "has"]
          /\ UNCHANGED <<msg, unknown>>
       \/ /\ ~registered
          /\ pc[h] = "got"
          /\ pc' = [pc EXCEPT ![h] = "again"]
          /\ UNCHANGED <<ref_cnt, next_seqno, msg, unknown>>
       \/ /\ ~registered
          /\ pc[h] = "again"
          /\ pc' = [pc EXCEPT ![h] = "idle"]
          /\ msg' = [msg EXCEPT ![h] = NoMsg]
          /\ unknown' = unknown + 1
          /\ UNCHANGED <<ref_cnt, next_seqno>>
    /\ UNCHANGED <<alive, external_port, mscount, no_senders, registered, kernel,
                   epc, locals, passing, unpacked, clients>>

\* _incoming_invoke: the method runs and leaves the object as it was.
Invoke(h) ==
    /\ pc[h] = "has"
    /\ msg[h].kind = "invoke"
    /\ pc' = [pc EXCEPT ![h] = "done"]
    /\ UNCHANGED <<object, kernel, msg, epc, locals, passing, unpacked, clients, unknown>>

\* Mutated form: any notification is taken at its word.
NoRemoteSendersUnchecked(h) ==
    /\ pc[h] = "has"
    /\ msg[h].kind = "no_senders"
    /\ pc' = [pc EXCEPT ![h] = "done"]
    /\ no_senders' = TRUE
    /\ IF registered
       THEN Dereference(FALSE)
       ELSE UNCHANGED <<ref_cnt, alive, external_port, registered, queue>>
    /\ UNCHANGED <<mscount, next_seqno, srights, kmscount, nsrequest, seqno, msg,
                   epc, locals, passing, unpacked, clients, unknown>>

\* Mutated form: the counts are compared with "<" in place of "==".
NoRemoteSendersStrict(h) ==
    /\ pc[h] = "has"
    /\ msg[h].kind = "no_senders"
    /\ pc' = [pc EXCEPT ![h] = "done"]
    /\ IF msg[h].count < mscount
       THEN /\ no_senders' = TRUE
            /\ IF registered
               THEN Dereference(FALSE)
               ELSE UNCHANGED <<ref_cnt, alive, external_port, registered, queue>>
       ELSE UNCHANGED <<ref_cnt, alive, external_port, registered, queue, no_senders>>
    /\ UNCHANGED <<mscount, next_seqno, srights, kmscount, nsrequest, seqno, msg,
                   epc, locals, passing, unpacked, clients, unknown>>

\* _no_remote_senders, under the object's lock.
NoRemoteSenders(h) ==
    /\ pc[h] = "has"
    /\ msg[h].kind = "no_senders"
    /\ pc' = [pc EXCEPT ![h] = "done"]
    /\ IF msg[h].count = mscount
       THEN /\ no_senders' = TRUE
            /\ IF registered
               THEN Dereference(FALSE)
               ELSE UNCHANGED <<ref_cnt, alive, external_port, registered, queue>>
       ELSE UNCHANGED <<ref_cnt, alive, external_port, registered, queue, no_senders>>
    /\ UNCHANGED <<mscount, next_seqno, srights, kmscount, nsrequest, seqno, msg,
                   epc, locals, passing, unpacked, clients, unknown>>

HandlerDereference(h) ==
    /\ pc[h] = "done"
    /\ pc' = [pc EXCEPT ![h] = "idle"]
    /\ msg' = [msg EXCEPT ![h] = NoMsg]
    /\ Dereference(registered)
    /\ UNCHANGED <<mscount, no_senders, next_seqno, srights, kmscount, nsrequest,
                   seqno, epc, locals, passing, unpacked, clients, unknown>>

-----------------------------------------------------------------------------
(* Other references of the server.                                         *)

LocalDereference ==
    /\ locals > 0
    /\ locals' = locals - 1
    /\ Dereference(registered)
    /\ UNCHANGED <<mscount, no_senders, next_seqno, srights, kmscount, nsrequest,
                   seqno, pc, msg, epc, passing, unpacked, clients, unknown>>

\* A client passes the object to some method of the same server; the message
\* brings a send right for a port the server itself receives on.
PassBack ==
    /\ rights > 0 /\ passes < MaxPasses
    /\ passes' = passes + 1
    /\ srights' = srights + 1 /\ passing' = passing + 1
    /\ UNCHANGED <<object, kmscount, nsrequest, seqno, queue, pc, msg, epc, locals,
                   unpacked, rights, sends, fails, unknown>>

\* _msg_unpack: _lookup_external_port(p) finds the object itself.  (Not found,
\* the code would make a proxy to its own port; ArgumentFound excludes it.)
UnpackLookup ==
    /\ passing > 0 /\ registered
    /\ ref_cnt' = ref_cnt + 1 /\ locals' = locals + 1
    /\ passing' = passing - 1 /\ unpacked' = unpacked + 1
    /\ UNCHANGED <<alive, external_port, mscount, no_senders, next_seqno, registered,
                   kernel, pc, msg, epc, clients, unknown>>

\* "get rid of the new user reference (send right)"
UnpackDeallocate ==
    /\ unpacked > 0
    /\ unpacked' = unpacked - 1
    /\ ReleaseRight(queue)
    /\ UNCHANGED <<object, kmscount, seqno, pc, msg, epc, locals, passing, clients, unknown>>

-----------------------------------------------------------------------------
(* Clients.                                                                *)

ClientSend ==
    /\ rights > 0 /\ sends < MaxSends
    /\ sends' = sends + 1
    /\ srights' = srights + 1
    /\ queue' = Append(queue, InvokeMsg)
    /\ UNCHANGED <<object, kmscount, nsrequest, seqno, threads, rights, passes, fails, unknown>>

\* The last proxy of a client task goes, or the task dies.
ClientDrop ==
    /\ rights > 0
    /\ rights' = rights - 1
    /\ ReleaseRight(queue)
    /\ UNCHANGED <<object, kmscount, seqno, threads, sends, passes, fails, unknown>>

-----------------------------------------------------------------------------
HandlerStep(h) == Receive(h) \/ Lookup(h) \/ Invoke(h) \/ NoRemoteSenders(h)
                  \/ HandlerDereference(h)

ReplyStep(e) == GetTransferPort(e) \/ PackDereference(e) \/ SendReply(e)

Next == \/ \E h \in Handlers : HandlerStep(h)
        \/ \E e \in Exporters : Take(e) \/ ReplyStep(e) \/ SendReplyFails(e)
        \/ LocalDereference \/ PassBack \/ UnpackLookup \/ UnpackDeallocate
        \/ ClientSend \/ ClientDrop

Spec == Init /\ [][Next]_vars

\* The server's threads run; clients and local holders may keep what they have.
Fairness == /\ \A h \in Handlers : WF_vars(HandlerStep(h))
            /\ \A e \in Exporters : WF_vars(ReplyStep(e))
            /\ WF_vars(UnpackLookup) /\ WF_vars(UnpackDeallocate)

FairSpec == Spec /\ Fairness

-----------------------------------------------------------------------------
(* Properties.                                                             *)

Count(f, S) == Cardinality({x \in DOMAIN f : f[x] \in S})

Bit(b) == IF b THEN 1 ELSE 0

Pending == \/ \E i \in 1..Len(queue) : queue[i].kind = "invoke"
           \/ \E h \in Handlers : pc[h] # "idle" /\ msg[h].kind = "invoke"

PortMsg == [kind : {"invoke", "no_senders"}, count : Nat]
HandlerMsg == [kind : {"invoke", "no_senders"}, count : Nat, seqno : Nat]

\* Type invariant of the object, of the kernel's port and of the threads.
TypeOK ==
    /\ ref_cnt \in Nat /\ alive \in BOOLEAN
    /\ external_port \in {"null", "live", "destroyed"}
    /\ mscount \in 0..Cardinality(Exporters) /\ no_senders \in BOOLEAN
    /\ next_seqno \in Nat /\ registered \in BOOLEAN
    /\ srights \in Nat /\ kmscount \in 0..Cardinality(Exporters)
    /\ nsrequest \in BOOLEAN /\ seqno \in Nat
    /\ queue \in Seq(PortMsg)
    /\ pc \in [Handlers -> {"idle", "got", "again", "has", "done"}]
    /\ msg \in [Handlers -> HandlerMsg \cup {NoMsg}]
    /\ \A h \in Handlers : IF pc[h] = "idle" THEN msg[h] = NoMsg ELSE msg[h] \in HandlerMsg
    /\ epc \in [Exporters -> {"start", "held", "packed", "sending", "done"}]
    /\ locals \in Nat /\ passing \in Nat /\ unpacked \in Nat
    /\ rights \in Nat /\ sends \in 0..MaxSends /\ passes \in 0..MaxPasses
    /\ fails \in 0..MaxFails /\ unknown \in Nat

\* The object is not deleted under anybody: not while a handler works on it, a
\* reply is being packed with it or about to carry its port, the server's own
\* code holds it, or a client holds a right or has an invocation queued.
NoDangling ==
    \/ locals > 0 \/ rights > 0 \/ passing > 0
    \/ \E h \in Handlers : pc[h] \in {"has", "done"}
    \/ \E e \in Exporters : epc[e] \in {"held", "packed", "sending"}
    \/ \E i \in 1..Len(queue) : queue[i].kind = "invoke"
    => alive

\* "This is for real": when a handler is about to believe a notification, no
\* send right exists, none is about to be made by a reply already packed, and
\* the ASSERT_EXPR on the count holds for every notification.
ForReal ==
    \A h \in Handlers : pc[h] = "has" /\ msg[h].kind = "no_senders" =>
        /\ msg[h].count <= mscount
        /\ msg[h].count = mscount =>
              /\ srights = 0
              /\ \A e \in Exporters : epc[e] \notin {"packed", "sending"}

\* The "perfect world" of ~usRemote: the object is deleted only when the
\* external port has been taken care of by a no-more-senders notification.
TerminatesClean ==
    ~alive => ~registered /\ (external_port # "null" => no_senders)

\* Handlers whose message another handler's lookup has counted.
Counted == {h \in Handlers : pc[h] \in {"got", "again"} /\ msg[h].seqno < next_seqno}

\* The reference count is exact: one for each local holder, each packed reply,
\* each handler at work and each message that some lookup has already counted,
\* one for the port table - and one lost for each message that found no entry.
RefExact ==
    ref_cnt = locals + Count(epc, {"held", "packed"}) + Bit(registered)
              + Count(pc, {"has", "done"})
              + Cardinality(Counted) + unknown

\* A port right that comes back to its own server as an argument is recognised.
ArgumentFound == passing > 0 => registered

\* No local reference, no send right, no message and no reply with the object.
Abandoned == /\ locals = 0 /\ rights = 0 /\ passing = 0 /\ unpacked = 0
             /\ \A e \in Exporters : epc[e] \in {"start", "done"}
             /\ ~Pending

\* An abandoned object is eventually deleted, if it was exported only once, the
\* reply was sent, and no message of it was dropped as one "on an unknown port".
CollectedOnce == [](mscount <= 1 /\ fails = 0 /\ unknown = 0) => (Abandoned ~> ~alive)

\* References and sequence numbers add up, over messages counted by another
\* handler's lookup.
RefsSound == TypeOK /\ RefExact

\* Whoever can reach the object finds it: as an object, by its port, or as an
\* argument that comes back.
Reachable == NoDangling /\ TerminatesClean /\ ArgumentFound
=============================================================================
