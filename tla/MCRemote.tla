------------------------------ MODULE MCRemote ------------------------------
(***************************************************************************)
(* What lies behind the decision tap, for TLC: its fan-out, the remote     *)
(* gateway with its pollers, and the connections of a poller.  They meet   *)
(* only at a channel or at the network; `part` says whose behaviour it is. *)
(***************************************************************************)
EXTENDS DecisionTee, RemoteGateway, RemoteConnections

VARIABLE part

allvars == <<part, teevars, vars, connvars>>

RemoteInit ==
    /\ part \in {"tee", "gateway", "connections"}
    /\ Init /\ ConnInit /\ TeeInit
    /\ part # "tee" => reading = Leg
    /\ part # "gateway" => schema = REMOTE_WIRE_SCHEMA_VERSION

Of(p) == part = p /\ UNCHANGED part
Teed(A) == Of("tee") /\ A /\ UNCHANGED <<vars, connvars>>
Gated(A) == Of("gateway") /\ A /\ UNCHANGED <<teevars, connvars>>
Linked(A) == Of("connections") /\ A /\ UNCHANGED <<teevars, vars>>

RemoteNext == Teed(TeeNext) \/ Gated(Next) \/ Linked(ConnNext)

(* The fairness of TeeFairSpec and FairSpec, each in its part.              *)
RemoteSpec ==
    /\ RemoteInit /\ [][RemoteNext]_allvars
    /\ WF_allvars(Teed(TeeTask))
    /\ WF_allvars(Gated(BufferRecord)) /\ WF_allvars(Gated(StopGateway))

(* The tee and the gateway end once their input does or they are           *)
(* cancelled, with no consumer and no client having to do anything.        *)
RemoteEnds == TeeStops /\ GatewayStops
=============================================================================
