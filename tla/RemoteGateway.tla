--------------------------- MODULE RemoteGateway ----------------------------
(***************************************************************************)
(* The remote event gateway and its polling clients                        *)
(* (src/subsystems/remote.rs): the gateway task stamps every decision      *)
(* record of its tap into a capped EventBuffer and answers requests from   *)
(* it; a client asks, waits no longer than its timeout, and keeps its own  *)
(* cursor.  The network delays and reorders messages, and every request    *)
(* ends in a response or in an OutboundFailure.                            *)
(*                                                                         *)
(* Record n is the n-th the tap's channel accepted.                        *)
(***************************************************************************)
EXTENDS Integers, Sequences, FiniteSets, Lists

CONSTANTS Clients,
          BufferCap,     \* RemoteConfig.buffer_cap, 0 included
          TapCap,        \* capacity of the decision channel
          MaxRecords,    \* bound: records produced
          MaxRequests    \* bound: requests per client

ASSUME CapsAreNat == BufferCap \in Nat /\ TapCap \in Nat \ {0}
ASSUME BoundsAreNat == MaxRecords \in Nat /\ MaxRequests \in Nat

VARIABLES
    sent, tap, tapOpen,    \* the decision channel: records 1..sent entered it
    events, next_seq,      \* EventBuffer
    running, cancelled,    \* run_gateway's loop, its token
    schema,                \* the version the gateway's build stamps
    net,                   \* requests, responses and failures under way
    call,                  \* per client: the request() being awaited
    requests,              \* per client: requests sent so far, its ids
    cursor, got, missed    \* per client, kept by the caller: highest seq
                           \* processed, events processed, gaps noticed

channel == <<sent, tap, tapOpen>>
buffer  == <<events, next_seq>>
caller  == <<cursor, got, missed>>
client  == <<call, requests, caller>>
vars    == <<channel, buffer, running, cancelled, schema, net, client>>

REMOTE_WIRE_SCHEMA_VERSION == 1

(* EventBuffer::new clamps the capacity. *)
cap == IF BufferCap = 0 THEN 1 ELSE BufferCap

NoCall == [kind |-> "none", id |-> 0, last_seq |-> 0]

Init ==
    /\ sent = 0 /\ tap = <<>> /\ tapOpen = TRUE
    /\ events = <<>> /\ next_seq = 1
    /\ running = TRUE /\ cancelled = FALSE
    /\ schema \in {REMOTE_WIRE_SCHEMA_VERSION, REMOTE_WIRE_SCHEMA_VERSION + 1}
    /\ net = {}
    /\ call = [c \in Clients |-> NoCall]
    /\ requests = [c \in Clients |-> 0]
    /\ cursor = [c \in Clients |-> 0]
    /\ got = [c \in Clients |-> <<>>] /\ missed = [c \in Clients |-> {}]

-----------------------------------------------------------------------------
(* The decision tap. *)
Emit ==
    /\ tapOpen /\ running /\ sent < MaxRecords /\ Len(tap) < TapCap
    /\ sent' = sent + 1 /\ tap' = Append(tap, sent + 1)
    /\ UNCHANGED <<tapOpen, buffer, running, cancelled, schema, net, client>>

DropSenders ==
    /\ tapOpen /\ tapOpen' = FALSE
    /\ UNCHANGED <<sent, tap, buffer, running, cancelled, schema, net, client>>

Cancel ==
    /\ ~cancelled /\ cancelled' = TRUE
    /\ UNCHANGED <<channel, buffer, running, schema, net, client>>

-----------------------------------------------------------------------------
(* run_gateway: a biased select over cancellation, records and requests. *)

(* mutant: room is made one event too late. *)
push_record_late(record) ==
    /\ next_seq' = next_seq + 1
    /\ events' = Append(IF Len(events) > cap THEN Tail(events) ELSE events,
                        [seq |-> next_seq, record |-> record])

push_record(record) ==
    /\ next_seq' = next_seq + 1
    /\ events' = Append(IF Len(events) = cap THEN Tail(events) ELSE events,
                        [seq |-> next_seq, record |-> record])

head_seq == next_seq - 1

(* The reply to PollSince, or to Head, which carries no event. *)
respond(request) ==
    [head_seq |-> head_seq,
     events   |-> IF request.kind = "Head" THEN <<>>
                  ELSE Picked(events, {i \in DOMAIN events :
                                            events[i].seq > request.last_seq})]

BufferRecord ==
    /\ running /\ ~cancelled /\ tap # <<>>
    /\ push_record(Head(tap)) /\ tap' = Tail(tap)
    /\ UNCHANGED <<sent, tapOpen, running, cancelled, schema, net, client>>

(* mutant: the loop ends as soon as the senders are gone. *)
StopGateway_early ==
    /\ running /\ (cancelled \/ ~tapOpen)
    /\ running' = FALSE
    /\ UNCHANGED <<channel, buffer, cancelled, schema, net, client>>

(* Cancelled, or every sender is gone and the channel is empty.  Requests  *)
(* under way fail with the connections.                                    *)
StopGateway ==
    /\ running /\ (cancelled \/ (tap = <<>> /\ ~tapOpen))
    /\ running' = FALSE
    /\ UNCHANGED <<channel, buffer, cancelled, schema, net, client>>

ServeRequest ==
    \E m \in net :
        /\ running /\ ~cancelled /\ tap = <<>> /\ m.type = "request"
        /\ net' = (net \ {m}) \union
                  {[type |-> "response", client |-> m.client, id |-> m.id,
                    reply |-> respond(m.request)]}
        /\ UNCHANGED <<channel, buffer, running, cancelled, schema, client>>

-----------------------------------------------------------------------------
(* The network: a request, or the response to it, turns into the failure   *)
(* the client's behaviour reports (connection closed, request timeout).    *)
Fail ==
    \E m \in net :
        /\ m.type \in {"request", "response"}
        /\ net' = (net \ {m}) \union {[type |-> "failure", client |-> m.client,
                                       id |-> m.id]}
        /\ UNCHANGED <<channel, buffer, running, cancelled, schema, client>>

-----------------------------------------------------------------------------
(* RemoteCoalitionClient, driven by its caller one method at a time. *)

Awaits(c) == call[c].kind # "none"

(* request: send_request, then await the answer with its id. *)
Request(c, kind) ==
    LET req == [kind |-> kind, id |-> requests[c] + 1, last_seq |-> cursor[c]]
    IN  /\ ~Awaits(c) /\ requests[c] < MaxRequests
        /\ requests' = [requests EXCEPT ![c] = @ + 1]
        /\ call' = [call EXCEPT ![c] = req]
        /\ net' = net \union {[type |-> "request", client |-> c, id |-> req.id,
                               request |-> req]}
        /\ UNCHANGED <<channel, buffer, running, cancelled, schema, caller>>

(* mutant: any answer ends the await. *)
Mine_any(c, m) == m.client = c

(* The guard on the request id in both arms of request()'s loop. *)
Mine(c, m) == m.client = c /\ m.id = call[c].id

refuse_newer_schema(evs) ==
    evs # <<>> /\ schema > REMOTE_WIRE_SCHEMA_VERSION

(***************************************************************************)
(* The caller's documented use of a poll: a first seq above cursor + 1     *)
(* shows that the numbers between were evicted.                            *)
(***************************************************************************)
Gap(c, evs) == (cursor[c] + 1)..(evs[1].seq - 1)

(* request() returns the response; poll_since and head hand it on. *)
Receive(c) ==
    \E m \in net :
        /\ Awaits(c) /\ m.type = "response" /\ Mine(c, m)
        /\ net' = net \ {m}
        /\ call' = [call EXCEPT ![c] = NoCall]
        /\ LET evs == m.reply.events
           IN  IF evs = <<>> \/ refuse_newer_schema(evs) THEN UNCHANGED caller
               ELSE /\ got' = [got EXCEPT ![c] = @ \o evs]
                    /\ missed' = [missed EXCEPT ![c] = @ \union Gap(c, evs)]
                    /\ cursor' = [cursor EXCEPT ![c] = evs[Len(evs)].seq]
        /\ UNCHANGED <<channel, buffer, running, cancelled, schema, requests>>

(* An OutboundFailure for this request, an error to the caller. *)
ReceiveFailure(c) ==
    \E m \in net :
        /\ Awaits(c) /\ m.type = "failure" /\ Mine(c, m)
        /\ net' = net \ {m} /\ call' = [call EXCEPT ![c] = NoCall]
        /\ UNCHANGED <<channel, buffer, running, cancelled, schema, requests,
                       caller>>

(* The loop's last arm: what an earlier request left behind is dropped. *)
DiscardLate(c) ==
    \E m \in net :
        /\ Awaits(c) /\ m.type # "request" /\ m.client = c /\ ~Mine(c, m)
        /\ net' = net \ {m}
        /\ UNCHANGED <<channel, buffer, running, cancelled, schema, client>>

(* The caller's timeout; the request stays under way. *)
Timeout(c) ==
    /\ Awaits(c) /\ call' = [call EXCEPT ![c] = NoCall]
    /\ UNCHANGED <<channel, buffer, running, cancelled, schema, net, requests,
                   caller>>

-----------------------------------------------------------------------------
Gateway == BufferRecord \/ StopGateway \/ ServeRequest

Client(c) ==
    \/ \E kind \in {"PollSince", "Head"} : Request(c, kind)
    \/ Receive(c) \/ ReceiveFailure(c) \/ DiscardLate(c) \/ Timeout(c)

Next == Emit \/ DropSenders \/ Cancel \/ Gateway \/ Fail
        \/ \E c \in Clients : Client(c)

Spec == Init /\ [][Next]_vars

(***************************************************************************)
(* The scheduler polls the gateway task.  Nothing is assumed of the        *)
(* network, of the clients, of the producers or of the cancel.             *)
(***************************************************************************)
FairSpec ==
    /\ Spec
    /\ WF_vars(BufferRecord) /\ WF_vars(StopGateway)

-----------------------------------------------------------------------------
(***************************************************************************)
(* EventBuffer holds the newest events, at most cap of them, and event seq *)
(* is record seq of the tap: "monotonic and never reused" (remote.rs:51),  *)
(* nothing is lost or stamped twice between the channel and the buffer.    *)
(***************************************************************************)
BufferIsNewest ==
    /\ Len(events) <= cap
    /\ Len(events) = (IF head_seq < cap THEN head_seq ELSE cap)
    /\ \A i \in 1..Len(events) :
          events[i].seq = head_seq - Len(events) + i
          /\ events[i].record = events[i].seq
    /\ running => sent = head_seq + Len(tap)

(***************************************************************************)
(* A client that keeps its cursor sees every event up to it exactly once   *)
(* or knows that it missed it, whatever timed out, failed, came late or    *)
(* was evicted ("A client detects that", remote.rs:54); and it only misses *)
(* what the buffer evicted (respond never drains it).                      *)
(***************************************************************************)
CursorAccounts ==
    \A c \in Clients :
        /\ {got[c][i].seq : i \in 1..Len(got[c])} \union missed[c]
              = 1..cursor[c]
        /\ Len(got[c]) + Cardinality(missed[c]) = cursor[c]
        /\ \A i \in 1..Len(got[c]) : got[c][i].record = got[c][i].seq
        /\ \A s \in missed[c] : s <= head_seq - cap

(***************************************************************************)
(* The gateway ends after the drop, or after a cancel, and "lossless       *)
(* drain" (remote.rs:69): without a cancel it has buffered the whole       *)
(* channel when it ends.                                                   *)
(***************************************************************************)
GatewayStops ==
    (cancelled \/ ~tapOpen) ~> (~running /\ (cancelled \/ next_seq = sent + 1))
=============================================================================
