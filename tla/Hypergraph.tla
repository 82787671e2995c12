----------------------------- MODULE Hypergraph -----------------------------
(***************************************************************************)
(* The graph that TemporalHypergraph wraps, and the thirteen graph         *)
(* mutations of src/topology/temporal.rs as operators.                     *)
(*                                                                         *)
(* A mutation is a request r; its job closure runs on the graph under the  *)
(* write lock and its finish closure builds the event.  Outcomes(g, r) is  *)
(* the set of [graph, event] pairs that the two closures can produce on g: *)
(* empty when every run of the job returns an error.  The graph's own      *)
(* operations belong to the catgraph-applied crate, which is not part of   *)
(* the repository; they are written from the calls temporal.rs makes and   *)
(* from what tests/executor.rs and tests/topology_replay.rs observe.       *)
(***************************************************************************)
EXTENDS Integers, Sequences, Functions, Lists

SE == INSTANCE SequencesExt

(***************************************************************************)
(* The graph: weights of the live vertices, members and weight of the live *)
(* hyperedges, and the next index each kind would get.                     *)
(***************************************************************************)

Graph(verts, edges, nextV, nextE) ==
    [verts |-> verts, edges |-> edges, nextV |-> nextV, nextE |-> nextE]

EmptyGraph == Graph(<<>>, <<>>, 0, 0)

IsGraph(g) == g = Graph(g.verts, g.edges, g.nextV, g.nextE)

(* VertexIndex and HyperedgeIndex wrap a usize: the member list of a live  *)
(* hyperedge, and every list or index a request passes, holds naturals.    *)
ListsIndices(g) ==
    \A h \in DOMAIN g.edges :
       /\ g.edges[h] = [members |-> g.edges[h].members,
                        weight |-> g.edges[h].weight]
       /\ g.edges[h].members \in Seq(Nat)

PassesIndices(r) ==
    /\ r.op \in {"add_hyperedge", "update_hyperedge_vertices",
                 "contract_hyperedge_vertices"} => r.members \in Seq(Nat)
    /\ r.op \in {"join_coalition", "contract_hyperedge_vertices"} => r.v \in Nat
    /\ r.op = "join_hyperedges" => r.hs \in Seq(Nat)

(***************************************************************************)
(* What can be told from outside: everything but the index counters.       *)
(***************************************************************************)
View(g) == [verts |-> g.verts, edges |-> g.edges]

Put(f, k, x) == [y \in DOMAIN f \cup {k} |-> IF y = k THEN x ELSE f[y]]

Drop(f, S) == Restrict(f, DOMAIN f \ S)

-----------------------------------------------------------------------------
(***************************************************************************)
(* The graph's operations (external: catgraph-applied).                    *)
(***************************************************************************)
GraphAddVertex(g, w) ==
    Graph(Put(g.verts, g.nextV, w), g.edges, g.nextV + 1, g.nextE)

GraphAddHyperedge(g, vs, w) ==
    Graph(g.verts, Put(g.edges, g.nextE, [members |-> vs, weight |-> w]),
          g.nextV, g.nextE + 1)

(* A removed vertex stays in the member lists that name it                 *)
(* (src/topology/coalitions.rs:69-70).                                     *)
GraphRemoveVertex(g, v) == [g EXCEPT !.verts = Drop(@, {v})]

GraphRemoveHyperedges(g, hs) == [g EXCEPT !.edges = Drop(@, hs)]

GraphSetMembers(g, h, vs) == [g EXCEPT !.edges[h].members = vs]

(* Members of the joined hyperedges one after the other, duplicates kept   *)
(* (tests/executor.rs:186-190).                                            *)
JoinedMembers(g, hs) ==
    SE!FlattenSeq([i \in 1..Len(hs) |-> g.edges[hs[i]].members])

(* Every occurrence of a contracted vertex becomes the target, and a       *)
(* vertex is kept once (tests/executor.rs:171-184).                        *)
ContractedMembers(members, vs, target) ==
    LET moved == [i \in 1..Len(members) |->
                    IF members[i] \in Range(vs) THEN target ELSE members[i]]
    IN  Picked(moved, {i \in 1..Len(members) :
                          \A j \in 1..(i - 1) : moved[j] # moved[i]})

-----------------------------------------------------------------------------
(***************************************************************************)
(* The mutation methods.  A failed lookup ends the job with an error       *)
(* before anything changed, so it leaves no outcome.                       *)
(***************************************************************************)
When(found, outcomes) == IF found THEN outcomes ELSE {}

Recorded(g, e) == {[graph |-> g, event |-> e]}

add_vertex(g, r) ==
    Recorded(GraphAddVertex(g, r.weight),
             [type |-> "VertexAdded", index |-> g.nextV, weight |-> r.weight])

remove_vertex(g, r) ==
    When(r.v \in DOMAIN g.verts,
         Recorded(GraphRemoveVertex(g, r.v),
                  [type |-> "VertexRemoved", index |-> r.v,
                   weight |-> g.verts[r.v]]))

update_vertex_weight(g, r) ==
    When(r.v \in DOMAIN g.verts,
         Recorded([g EXCEPT !.verts[r.v] = r.weight],
                  [type |-> "VertexWeightUpdated", index |-> r.v,
                   old |-> g.verts[r.v], new |-> r.weight]))

(* A hyperedge over an unknown vertex is an error. *)
add_hyperedge(g, r) ==
    When(Range(r.members) \subseteq DOMAIN g.verts,
         Recorded(GraphAddHyperedge(g, r.members, r.weight),
                  [type |-> "HyperedgeAdded", index |-> g.nextE,
                   members |-> r.members, weight |-> r.weight]))

remove_hyperedge(g, r) ==
    When(r.h \in DOMAIN g.edges,
         Recorded(GraphRemoveHyperedges(g, {r.h}),
                  [type |-> "HyperedgeRemoved", index |-> r.h,
                   members |-> g.edges[r.h].members,
                   weight |-> g.edges[r.h].weight]))

update_hyperedge_weight(g, r) ==
    When(r.h \in DOMAIN g.edges,
         Recorded([g EXCEPT !.edges[r.h].weight = r.weight],
                  [type |-> "HyperedgeWeightUpdated", index |-> r.h,
                   old |-> g.edges[r.h].weight, new |-> r.weight]))

UpdatedMembers(g, h, vs) ==
    Recorded(GraphSetMembers(g, h, vs),
             [type |-> "HyperedgeVerticesUpdated", index |-> h,
              old |-> g.edges[h].members, new |-> vs])

update_hyperedge_vertices(g, r) ==
    When(r.h \in DOMAIN g.edges, UpdatedMembers(g, r.h, r.members))

(* update_hyperedge_vertices_try with the two mutators the code passes it. *)
join_coalition(g, r) ==
    When(r.h \in DOMAIN g.edges,
         LET old == g.edges[r.h].members
         IN  UpdatedMembers(g, r.h, IF r.v \in Range(old) THEN old
                                                        ELSE Append(old, r.v)))

leave_coalition(g, r) ==
    When(r.h \in DOMAIN g.edges,
         LET old  == g.edges[r.h].members
             left == Picked(old, {i \in DOMAIN old : old[i] # r.v})
         IN  When(left # <<>>, UpdatedMembers(g, r.h, left)))

reverse_hyperedge(g, r) ==
    When(r.h \in DOMAIN g.edges,
         LET reversed == SE!Reverse(g.edges[r.h].members)
         IN  Recorded(GraphSetMembers(g, r.h, reversed),
                      [type |-> "HyperedgeReversed", index |-> r.h,
                       old |-> g.edges[r.h].members, new |-> reversed]))

(* The first index is the target; the others are dissolved into it. *)
join_hyperedges(g, r) ==
    When(/\ Len(r.hs) >= 2
         /\ Range(r.hs) \subseteq DOMAIN g.edges,
         LET target  == r.hs[1]
             sources == Tail(r.hs)
             joined  == JoinedMembers(g, r.hs)
         IN  Recorded(GraphRemoveHyperedges(GraphSetMembers(g, target, joined),
                                            Range(sources) \ {target}),
                      [type |-> "HyperedgesJoined", target |-> target,
                       sources |-> sources, new |-> joined]))

contract_hyperedge_vertices(g, r) ==
    When(r.h \in DOMAIN g.edges,
         LET old == g.edges[r.h].members
             new == ContractedMembers(old, r.members, r.v)
         IN  Recorded(GraphSetMembers(g, r.h, new),
                      [type |-> "VerticesContracted", index |-> r.h,
                       contracted |-> r.members, target |-> r.v,
                       old |-> old, new |-> new]))

(* Whether a clear restarts the index counters cannot be seen from the     *)
(* repository: both are possible.                                          *)
clear_hyperedges(g, r) ==
    UNION {Recorded(Graph(g.verts, <<>>, g.nextV, n),
                    [type |-> "HyperedgesCleared"]) : n \in {0, g.nextE}}

clear(g, r) ==
    UNION {Recorded(kept, [type |-> "GraphCleared"]) :
              kept \in {EmptyGraph, Graph(<<>>, <<>>, g.nextV, g.nextE)}}

Outcomes(g, r) ==
    CASE r.op = "add_vertex"                -> add_vertex(g, r)
      [] r.op = "remove_vertex"             -> remove_vertex(g, r)
      [] r.op = "update_vertex_weight"      -> update_vertex_weight(g, r)
      [] r.op = "add_hyperedge"             -> add_hyperedge(g, r)
      [] r.op = "remove_hyperedge"          -> remove_hyperedge(g, r)
      [] r.op = "update_hyperedge_weight"   -> update_hyperedge_weight(g, r)
      [] r.op = "update_hyperedge_vertices" -> update_hyperedge_vertices(g, r)
      [] r.op = "join_coalition"            -> join_coalition(g, r)
      [] r.op = "leave_coalition"           -> leave_coalition(g, r)
      [] r.op = "reverse_hyperedge"         -> reverse_hyperedge(g, r)
      [] r.op = "join_hyperedges"           -> join_hyperedges(g, r)
      [] r.op = "contract_hyperedge_vertices" ->
                                          contract_hyperedge_vertices(g, r)
      [] r.op = "clear_hyperedges"          -> clear_hyperedges(g, r)
      [] r.op = "clear"                     -> clear(g, r)
      [] OTHER                              -> {}

(***************************************************************************)
(* The job can return an error: it has no outcome, or it writes a member   *)
(* list naming a vertex the graph does not hold, which catgraph may        *)
(* refuse.                                                                 *)
(***************************************************************************)
MayReject(g, r) ==
    \/ Outcomes(g, r) = {}
    \/ \E o \in Outcomes(g, r) :
          /\ o.event.type \in {"HyperedgeVerticesUpdated", "VerticesContracted"}
          /\ ~ Range(o.event.new) \subseteq DOMAIN g.verts

(***************************************************************************)
(* A mutator that panics does so after the hyperedge was found, under the  *)
(* graph's write lock.                                                     *)
(***************************************************************************)
Panics(g, r) == r.op = "panicking_mutator" /\ r.h \in DOMAIN g.edges

-----------------------------------------------------------------------------
(***************************************************************************)
(* Reference: what one recorded event says happened to the graph.  This is *)
(* the replay the class comment promises ("the graph state at any point in *)
(* time can be reconstructed", src/topology/temporal.rs:34-36), written    *)
(* from the meaning of the events, not from the mutation methods.          *)
(***************************************************************************)
WithMembers(view, h, vs) == [view EXCEPT !.edges[h].members = vs]

Replay(view, e) ==
    CASE e.type = "VertexAdded" ->
            [view EXCEPT !.verts = Put(@, e.index, e.weight)]
      [] e.type = "VertexRemoved" ->
            [view EXCEPT !.verts = Drop(@, {e.index})]
      [] e.type = "VertexWeightUpdated" ->
            [view EXCEPT !.verts[e.index] = e.new]
      [] e.type = "HyperedgeAdded" ->
            [view EXCEPT !.edges = Put(@, e.index, [members |-> e.members,
                                                    weight |-> e.weight])]
      [] e.type = "HyperedgeRemoved" ->
            [view EXCEPT !.edges = Drop(@, {e.index})]
      [] e.type = "HyperedgeWeightUpdated" ->
            [view EXCEPT !.edges[e.index].weight = e.new]
      [] e.type \in {"HyperedgeVerticesUpdated", "HyperedgeReversed",
                     "VerticesContracted"} ->
            WithMembers(view, e.index, e.new)
      [] e.type = "HyperedgesJoined" ->
            LET grown == WithMembers(view, e.target, e.new)
            IN  [grown EXCEPT !.edges =
                    Drop(@, Range(e.sources) \ {e.target})]
      [] e.type = "HyperedgesCleared" -> [view EXCEPT !.edges = <<>>]
      [] e.type = "GraphCleared" -> [verts |-> <<>>, edges |-> <<>>]
      [] OTHER -> view
=============================================================================
