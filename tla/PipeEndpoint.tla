---------------------------- MODULE PipeEndpoint ----------------------------
(***************************************************************************)
(* The two endpoints of a pipe and their disconnection (server/pipenet/    *)
(* pipenet_cots_base.cc): net_snddis on one end, its upcall on the other,  *)
(* and what both do to the strategies of the streams the data waits in.    *)
(* There is no lock: either end may disconnect while the other does.       *)
(***************************************************************************)
EXTENDS Naturals

CONSTANTS Pairs,          \* the connections that can come to exist
          MaxDisconnects  \* bound on calls of net_snddis

ASSUME EndpointAssumption == MaxDisconnects \in Nat

Sides == {"active", "passive"}
Other(x) == IF x = "active" THEN "passive" ELSE "active"

VARIABLES ep,    \* the endpoints: costate, the strategies of incoming_stream, peerobj set
          dis,   \* how far net_snddis is on each endpoint
          disconnects

epvars == <<ep, dis, disconnects>>

Stream == {"ENABLED", "WAIT_ALLOWED"}

NoEndpoint == [costate |-> "NONE", read |-> {}, write |-> {}, peer |-> FALSE]

\* As constructed, and set_peerobj called.
NewEndpoint == [costate |-> "CONNECTED", read |-> Stream, write |-> Stream, peer |-> TRUE]

EpInit == /\ ep = [n \in Pairs |-> [x \in Sides |-> NoEndpoint]]
          /\ dis = [n \in Pairs |-> [x \in Sides |-> "no"]]
          /\ disconnects = 0

At(n, x, l, next) == dis[n][x] = l /\ dis' = [dis EXCEPT ![n][x] = next] /\ UNCHANGED disconnects

\* An end that is not connected refuses at once.
net_snddis(n, x) ==
    /\ ep[n][x].costate = "CONNECTED"
    /\ dis[n][x] \in {"no", "failed"}
    /\ disconnects < MaxDisconnects /\ disconnects' = disconnects + 1
    /\ dis' = [dis EXCEPT ![n][x] = "call"]
    /\ UNCHANGED ep

\* pipenet_snddis_upcall on the other end, if there still is one.
UpcallRefused(n, x) ==
    /\ ~ep[n][x].peer \/ ep[n][Other(x)].costate # "CONNECTED"
    /\ At(n, x, "call", "failed")
    /\ UNCHANGED ep

UpcallState(n, x) ==
    /\ ep[n][x].peer /\ ep[n][Other(x)].costate = "CONNECTED"
    /\ At(n, x, "call", "upwrite")
    /\ ep' = [ep EXCEPT ![n][Other(x)].costate = "DISCONNECTED"]

UpcallWrite(n, x) ==
    /\ At(n, x, "upwrite", "upread")
    /\ ep' = [ep EXCEPT ![n][Other(x)].write = {}]

\* Mutated form: readers of the other end may go on waiting.
UpcallReadKeeps(n, x) ==
    /\ At(n, x, "upread", "uppeer")
    /\ UNCHANGED ep

\* The other end may drain what is there, but not wait for more.
UpcallRead(n, x) ==
    /\ At(n, x, "upread", "uppeer")
    /\ ep' = [ep EXCEPT ![n][Other(x)].read = {"ENABLED"}]

UpcallPeer(n, x) ==
    /\ At(n, x, "uppeer", "state")
    /\ ep' = [ep EXCEPT ![n][Other(x)].peer = FALSE]

\* The rest of net_snddis, on its own end.
OwnState(n, x) ==
    /\ At(n, x, "state", "read")
    /\ ep' = [ep EXCEPT ![n][x].costate = "DISCONNECTED"]

OwnRead(n, x) ==
    /\ At(n, x, "read", "write")
    /\ ep' = [ep EXCEPT ![n][x].read = {}]

\* With the flush; pipenet_terminate_connection does nothing.
OwnWrite(n, x) ==
    /\ At(n, x, "write", "done")
    /\ ep' = [ep EXCEPT ![n][x].write = {}]

Disconnecting(n, x) ==
    \/ UpcallRefused(n, x) \/ UpcallState(n, x) \/ UpcallWrite(n, x) \/ UpcallRead(n, x)
    \/ UpcallPeer(n, x) \/ OwnState(n, x) \/ OwnRead(n, x) \/ OwnWrite(n, x)
=============================================================================
