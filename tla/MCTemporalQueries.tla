------------------------- MODULE MCTemporalQueries --------------------------
(***************************************************************************)
(* TLC instances of the queries: logs of up to MaxEvents events, recorded  *)
(* from an empty graph by the atomic specification, by a value and its     *)
(* clone.                                                                  *)
(***************************************************************************)
EXTENDS TemporalAnalytics, StreamReplay

CONSTANTS MaxEvents, root, clone

EmptyOnly == {EmptyGraph}
CallIds == 1..MaxEvents
Times == 0..(MaxEvents - 1)

(* Two agents; the task asks for capability 1, so q is a bystander.  p can *)
(* gain a capability.                                                      *)
Agent(id, caps) == [agent_id |-> id, capabilities |-> caps]
TaskNeeds == {1}

VertexRequests ==
    {[op |-> "add_vertex", weight |-> Agent("p", {1})],
     [op |-> "add_vertex", weight |-> Agent("q", {2})],
     [op |-> "remove_vertex", v |-> 0],
     [op |-> "update_vertex_weight", v |-> 0, weight |-> Agent("p", {1, 2})]}

EdgeRequests ==
    {[op |-> "add_hyperedge", members |-> <<0>>, weight |-> "x"],
     [op |-> "add_hyperedge", members |-> <<0, 1>>, weight |-> "y"],
     [op |-> "remove_hyperedge", h |-> 0],
     [op |-> "update_hyperedge_weight", h |-> 0, weight |-> "z"],
     [op |-> "update_hyperedge_vertices", h |-> 0, members |-> <<1, 0>>],
     [op |-> "join_coalition", v |-> 1, h |-> 0],
     [op |-> "leave_coalition", v |-> 0, h |-> 0],
     [op |-> "reverse_hyperedge", h |-> 0],
     [op |-> "contract_hyperedge_vertices", h |-> 0, members |-> <<1>>,
      v |-> 0]}

JoinRequests == {[op |-> "join_hyperedges", hs |-> <<0, 1>>],
                 [op |-> "join_hyperedges", hs |-> <<1, 0>>]}

ClearRequests == {[op |-> "clear_hyperedges"], [op |-> "clear"]}

AllRequests == VertexRequests \cup EdgeRequests \cup JoinRequests \cup ClearRequests
WithClears == VertexRequests \cup ClearRequests \cup
    {[op |-> "add_hyperedge", members |-> <<0>>, weight |-> "x"]}

(* A caller names vertices it was given, and one vertex stands for an      *)
(* agent at a time.                                                        *)
Sensible(r) ==
    /\ "members" \in DOMAIN r => \A v \in Range(r.members) : v < graph.nextV
    /\ "v" \in DOMAIN r => r.v < graph.nextV
    /\ "weight" \in DOMAIN r /\ r.op \in {"add_vertex", "update_vertex_weight"} =>
          \A u \in DOMAIN graph.verts :
             graph.verts[u].agent_id = r.weight.agent_id =>
                r.op = "update_vertex_weight" /\ u = r.v

(* The original records at a new moment; its clone, whose clock runs       *)
(* beside it, records once, at the original's last moment.                 *)
LoneNext ==
    /\ Len(log) < MaxEvents
    /\ \E r \in Requests :
          /\ Sensible(r)
          /\ \/ Recorder!Mutate(IF log = <<>> THEN 0 ELSE Last(log).ts + 1, root,
                                Len(log) + 1, r)
             \/ /\ log # <<>> /\ \A x \in Range(log) : x.by = root
                /\ Recorder!Mutate(Last(log).ts, clone, Len(log) + 1, r)

LoneSpec == Recorder!Init /\ [][LoneNext]_Recorder!vars
=============================================================================
