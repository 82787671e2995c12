------------------------- MODULE RemoteConnections --------------------------
(***************************************************************************)
(* The connections of a RemoteCoalitionClient                              *)
(* (src/src/subsystems/remote.rs): dial, discover, pump and request each   *)
(* drive the swarm inline and keep the set connected from the events they  *)
(* look at.  Connections open and close by themselves; the swarm queues an *)
(* event for each and hands the events out in order, to whichever method   *)
(* is running.  It may hold several connections to one peer: two dials, or *)
(* a dial and an inbound one, since the client listens too.  (libp2p is    *)
(* external.)                                                              *)
(***************************************************************************)
EXTENDS Integers, Sequences

CONSTANTS Peers,        \* gateways, and other peers of the network
          MaxOpens,     \* bound: connections opened
          MaxMethods    \* bound: methods called

ASSUME ConnectionBounds == MaxOpens \in Nat /\ MaxMethods \in Nat

VARIABLES
    open,               \* per peer: the swarm's open connections
    dialing,            \* peers with a dial under way
    swarm_events,       \* events not yet handed out
    connected,          \* the client's own set
    method,             \* [kind, target]: the method being awaited
    returned,           \* what dial or discover returned last
    opens, calls,       \* counters of the bounds
    blurred             \* history: peers that had two connections at once, or
                        \* an event of theirs no method looked at

network == <<open, dialing, opens>>
methods == <<method, returned, calls>>
connvars == <<network, swarm_events, connected, methods, blurred>>

Idle == [kind |-> "idle", target |-> "none"]
NoPeer == [kind |-> "none", target |-> "none", peer |-> "none"]

ConnInit ==
    /\ open = [p \in Peers |-> 0] /\ dialing = {} /\ swarm_events = <<>>
    /\ connected = {} /\ method = Idle /\ returned = NoPeer
    /\ opens = 0 /\ calls = 0 /\ blurred = {}

-----------------------------------------------------------------------------
(* The network.                                                             *)

Raise(type, p) == swarm_events' = Append(swarm_events, [type |-> type, peer |-> p])

(* A dial succeeds, or a peer connects to the listening client.             *)
Established(p, inbound) ==
    /\ inbound \/ p \in dialing
    /\ dialing' = IF inbound THEN dialing ELSE dialing \ {p}
    /\ opens < MaxOpens /\ opens' = opens + 1
    /\ open' = [open EXCEPT ![p] = @ + 1]
    /\ Raise("established", p)
    /\ blurred' = IF open[p] > 0 THEN blurred \union {p} ELSE blurred
    /\ UNCHANGED <<connected, methods>>

Closed(p) ==
    /\ open[p] > 0 /\ open' = [open EXCEPT ![p] = @ - 1]
    /\ Raise("closed", p)
    /\ UNCHANGED <<dialing, opens, connected, methods, blurred>>

DialFails(p) ==
    /\ p \in dialing /\ dialing' = dialing \ {p}
    /\ UNCHANGED <<open, opens, swarm_events, connected, methods, blurred>>

(* mDNS; bound: one such event waits at a time.                             *)
Discovered(p) ==
    /\ \A i \in DOMAIN swarm_events : swarm_events[i].type # "discovered"
    /\ Raise("discovered", p)
    /\ UNCHANGED <<network, connected, methods, blurred>>

-----------------------------------------------------------------------------
(* The methods.                                                             *)

(* swarm.dial(addr) always opens a new connection; request may.             *)
Call(kind, p) ==
    /\ method = Idle /\ calls < MaxMethods /\ calls' = calls + 1
    /\ method' = [kind |-> kind, target |-> p]
    /\ dialing' = IF kind = "dial" \/ (kind = "request" /\ open[p] = 0)
                  THEN dialing \union {p} ELSE dialing
    /\ UNCHANGED <<open, opens, swarm_events, connected, returned, blurred>>

Return(p) ==
    /\ returned' = [kind |-> method.kind, target |-> method.target, peer |-> p]
    /\ method' = Idle
    /\ connected' = connected \union {p}

(* The loops that insert and remove; the other two look at Established only *)
(* and return with it.                                                      *)
Tracks(kind) == kind \in {"pump", "request"}

(* dial and discover return with the first established connection ...       *)
FirstEstablished ==
    /\ method.kind \in {"dial", "discover"} /\ swarm_events # <<>>
    /\ Head(swarm_events).type = "established"
    /\ Return(Head(swarm_events).peer)
    /\ swarm_events' = Tail(swarm_events)
    /\ UNCHANGED <<network, calls, blurred>>

(* ... and drop everything before it, a close included.                     *)
SwallowClosed ==
    /\ method # Idle /\ ~Tracks(method.kind) /\ swarm_events # <<>>
    /\ Head(swarm_events).type = "closed"
    /\ blurred' = blurred \union {Head(swarm_events).peer}
    /\ swarm_events' = Tail(swarm_events)
    /\ UNCHANGED <<network, connected, methods>>

(* mutant: only pump's loop removes. *)
TrackConnection_insertOnly ==
    /\ Tracks(method.kind) /\ swarm_events # <<>>
    /\ LET e == Head(swarm_events)
       IN  /\ e.type \in {"established", "closed"}
           /\ connected' = IF e.type = "established" THEN connected \union {e.peer}
                           ELSE IF method.kind = "pump" THEN connected \ {e.peer}
                           ELSE connected
    /\ swarm_events' = Tail(swarm_events)
    /\ UNCHANGED <<network, methods, blurred>>

(* pump and request follow the connections one event at a time.             *)
TrackConnection ==
    /\ Tracks(method.kind) /\ swarm_events # <<>>
    /\ LET e == Head(swarm_events)
       IN  /\ e.type \in {"established", "closed"}
           /\ connected' = IF e.type = "established" THEN connected \union {e.peer}
                           ELSE connected \ {e.peer}
    /\ swarm_events' = Tail(swarm_events)
    /\ UNCHANGED <<network, methods, blurred>>

(* mDNS: discover and pump dial what is found, the others drop the event;   *)
(* swarm.dial(peer) is refused while connected or dialing.                  *)
HandleDiscovered ==
    /\ method # Idle /\ swarm_events # <<>> /\ Head(swarm_events).type = "discovered"
    /\ LET p == Head(swarm_events).peer
       IN  dialing' = IF method.kind \in {"discover", "pump"} /\ open[p] = 0
                      THEN dialing \union {p} ELSE dialing
    /\ swarm_events' = Tail(swarm_events)
    /\ UNCHANGED <<open, opens, connected, methods, blurred>>

(* The caller's timeout, or the answer to a request.                        *)
MethodEnds ==
    /\ method # Idle /\ method' = Idle
    /\ UNCHANGED <<network, swarm_events, connected, returned, calls, blurred>>

ConnNext ==
    \/ \E p \in Peers, inbound \in BOOLEAN : Established(p, inbound)
    \/ \E p \in Peers : Closed(p) \/ DialFails(p) \/ Discovered(p)
    \/ \E p \in Peers, kind \in {"dial", "request"} : Call(kind, p)
    \/ \E kind \in {"discover", "pump"} : Call(kind, "none")
    \/ FirstEstablished \/ SwallowClosed \/ TrackConnection \/ HandleDiscovered
    \/ MethodEnds

ConnSpec == ConnInit /\ [][ConnNext]_connvars

-----------------------------------------------------------------------------
(***************************************************************************)
(* connected_peers, "Peers this client currently has an open connection    *)
(* to" (remote.rs:590): once every event was handed out, the set is right  *)
(* about each peer whose closes were not swallowed by a dial or discover   *)
(* loop and which never had two connections at once.                       *)
(***************************************************************************)
ConnectedIsTracked ==
    swarm_events = <<>> =>
        \A p \in Peers \ blurred : p \in connected <=> open[p] > 0

(***************************************************************************)
(* "Dial an explicit gateway address; return its peer id once connected."  *)
(* (dial, remote.rs:596).                                                  *)
(***************************************************************************)
DialReturnsItsPeer ==
    returned.kind = "dial" => returned.peer = returned.target
=============================================================================
