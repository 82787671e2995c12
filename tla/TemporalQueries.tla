--------------------------- MODULE TemporalQueries --------------------------
(***************************************************************************)
(* The questions about the past that the event log answers, as operators   *)
(* on a log: the per-element indexes of src/topology/event_log.rs, the     *)
(* queries of src/topology/queries.rs, and the membership history of       *)
(* src/topology/coalitions.rs.  The reference they are compared with is    *)
(* the replay of the log up to the moment asked about.                     *)
(***************************************************************************)
EXTENDS Hypergraph, SequencesExt

CONSTANTS Values, Calls, Requests, InitGraphs, Timestamps, SnapshotIds

VARIABLES graph, log, replayed, lost

(* The log is one that the atomic specification recorded. *)
Recorder == INSTANCE EventSourcedGraph

(* An Option: the set of its value, empty for None. *)
None == {}
Some(x) == {x}

-----------------------------------------------------------------------------
(***************************************************************************)
(* EventLog.append files an event under these vertices and hyperedges; the *)
(* two clear events and the snapshot marker are filed under none.          *)
(***************************************************************************)
VertexKeys(e) ==
    CASE e.type \in {"VertexAdded", "VertexRemoved", "VertexWeightUpdated"} ->
            {e.index}
      [] e.type = "VerticesContracted" -> {e.target} \cup Range(e.contracted)
      [] OTHER -> {}

(* mutant: a join is filed under its target only. *)
HyperedgeKeys_target_only(e) ==
    CASE e.type \in {"HyperedgeAdded", "HyperedgeRemoved",
                     "HyperedgeWeightUpdated", "HyperedgeVerticesUpdated",
                     "HyperedgeReversed", "VerticesContracted"} -> {e.index}
      [] e.type = "HyperedgesJoined" -> {e.target}
      [] OTHER -> {}

HyperedgeKeys(e) ==
    CASE e.type \in {"HyperedgeAdded", "HyperedgeRemoved",
                     "HyperedgeWeightUpdated", "HyperedgeVerticesUpdated",
                     "HyperedgeReversed", "VerticesContracted"} -> {e.index}
      [] e.type = "HyperedgesJoined" -> {e.target} \cup Range(e.sources)
      [] OTHER -> {}

vertex_events(v) == SelectSeq(log, LAMBDA x : v \in VertexKeys(x.event))

hyperedge_events(h) == SelectSeq(log, LAMBDA x : h \in HyperedgeKeys(x.event))

vertex_indices == UNION {VertexKeys(x.event) : x \in Range(log)}

hyperedge_indices == UNION {HyperedgeKeys(x.event) : x \in Range(log)}

-----------------------------------------------------------------------------
(***************************************************************************)
(* The queries scan the filed events in log order and stop at the first    *)
(* one with a later timestamp.                                             *)
(***************************************************************************)
Until(s, t) ==
    LET later == SelectInSeq(s, LAMBDA x : x.ts > t)
    IN  IF later = 0 THEN s ELSE SubSeq(s, 1, later - 1)

(* What the last event of s that Decides says, None without such an event. *)
LastWord(s, Decides(_), Says(_)) ==
    LET i == SelectLastInSeq(s, LAMBDA x : Decides(x.event))
    IN  IF i = 0 THEN None ELSE Says(s[i])

(* A join dissolves the hyperedges it lists as sources. *)
EndsHyperedge(e, h) ==
    \/ e.type = "HyperedgeRemoved"
    \/ e.type = "HyperedgesJoined" /\ h \in Range(e.sources)

vertex_exists_at(v, t) ==
    LastWord(Until(vertex_events(v), t),
             LAMBDA e : e.type \in {"VertexAdded", "VertexRemoved"},
             LAMBDA x : Some(x.event.type)) = Some("VertexAdded")

hyperedge_exists_at(h, t) ==
    LastWord(Until(hyperedge_events(h), t),
             LAMBDA e : e.type = "HyperedgeAdded" \/ EndsHyperedge(e, h),
             LAMBDA x : Some(x.event.type)) = Some("HyperedgeAdded")

vertex_weight_at(v, t) ==
    LastWord(Until(vertex_events(v), t),
             LAMBDA e : e.type \in {"VertexAdded", "VertexRemoved",
                                    "VertexWeightUpdated"},
             LAMBDA x : CASE x.event.type = "VertexAdded" ->
                                Some(x.event.weight)
                          [] x.event.type = "VertexRemoved" -> None
                          [] OTHER -> Some(x.event.new))

hyperedge_weight_at(h, t) ==
    LastWord(Until(hyperedge_events(h), t),
             LAMBDA e : \/ e.type \in {"HyperedgeAdded",
                                       "HyperedgeWeightUpdated"}
                        \/ EndsHyperedge(e, h),
             LAMBDA x : CASE x.event.type = "HyperedgeAdded" ->
                                Some(x.event.weight)
                          [] x.event.type = "HyperedgeWeightUpdated" ->
                                Some(x.event.new)
                          [] OTHER -> None)

hyperedge_vertices_at(h, t) ==
    LastWord(Until(hyperedge_events(h), t),
             LAMBDA e : e.type # "HyperedgeWeightUpdated",
             LAMBDA x : CASE x.event.type = "HyperedgeAdded" ->
                                Some(x.event.members)
                          [] x.event.type = "HyperedgeRemoved" -> None
                          [] x.event.type = "HyperedgesJoined"
                                /\ x.event.target # h -> None
                          [] OTHER -> Some(x.event.new))

count_vertices_at(t) ==
    Cardinality({v \in vertex_indices : vertex_exists_at(v, t)})

count_hyperedges_at(t) ==
    Cardinality({h \in hyperedge_indices : hyperedge_exists_at(h, t)})

(***************************************************************************)
(* created is the first addition, removed the last removal that no later   *)
(* addition undid; the lifespan is the half-open range between the two.    *)
(***************************************************************************)
hyperedge_created_at(h) ==
    LET s == hyperedge_events(h)
        i == SelectInSeq(s, LAMBDA x : x.event.type = "HyperedgeAdded")
    IN  IF i = 0 THEN None ELSE Some(s[i].ts)

hyperedge_removed_at(h) ==
    LastWord(hyperedge_events(h),
             LAMBDA e : e.type = "HyperedgeAdded" \/ EndsHyperedge(e, h),
             LAMBDA x : IF x.event.type = "HyperedgeAdded" THEN None ELSE Some(x.ts))

vertex_created_at(v) ==
    LET s == vertex_events(v)
        i == SelectInSeq(s, LAMBDA x : x.event.type = "VertexAdded")
    IN  IF i = 0 THEN None ELSE Some(s[i].ts)

vertex_removed_at(v) ==
    LastWord(vertex_events(v),
             LAMBDA e : e.type \in {"VertexAdded", "VertexRemoved"},
             LAMBDA x : IF x.event.type = "VertexAdded" THEN None ELSE Some(x.ts))

vertex_lifespan(v) == [start |-> vertex_created_at(v), end |-> vertex_removed_at(v)]

hyperedge_lifespan(h) ==
    [start |-> hyperedge_created_at(h), end |-> hyperedge_removed_at(h)]

(* TimeRange::contains for a start and an open or closed end. *)
Within(t, start, end) == /\ \E s \in start : t >= s
                         /\ \A e \in end : t < e

-----------------------------------------------------------------------------
(***************************************************************************)
(* CoalitionManager::agent_coalition_history: one pass over the whole log  *)
(* that keeps, per coalition, the start of the agent's current membership. *)
(***************************************************************************)
Episode(h, start, end) == [coalition |-> h, start |-> start, end |-> end]

(* The memberships of S end at t. *)
CloseEpisodes(m, S, t) ==
    LET ended == S \cap DOMAIN m.start
    IN  [start |-> Drop(m.start, ended),
         episodes |-> m.episodes \cup
                        {Episode(h, Some(m.start[h]), Some(t)) : h \in ended}]

OpenEpisode(m, h, t) == [m EXCEPT !.start = Put(@, h, t)]

(* mutant: the end of a membership is not noticed. *)
MemberChange_never_ends(m, a, h, old, new, t) ==
    IF a \notin Range(old) /\ a \in Range(new) THEN OpenEpisode(m, h, t) ELSE m

MemberChange(m, a, h, old, new, t) ==
    CASE a \notin Range(old) /\ a \in Range(new) -> OpenEpisode(m, h, t)
      [] a \in Range(old) /\ a \notin Range(new) -> CloseEpisodes(m, {h}, t)
      [] OTHER -> m

HistoryStep(m, a, x) ==
    LET e == x.event
    IN  CASE e.type = "HyperedgeAdded" /\ a \in Range(e.members) ->
                OpenEpisode(m, e.index, x.ts)
          [] e.type = "HyperedgeRemoved" -> CloseEpisodes(m, {e.index}, x.ts)
          [] e.type \in {"HyperedgeVerticesUpdated", "VerticesContracted"} ->
                MemberChange(m, a, e.index, e.old, e.new, x.ts)
          [] e.type = "HyperedgesJoined" ->
                LET closed == CloseEpisodes(m, Range(e.sources), x.ts)
                IN  IF a \in Range(e.new)
                    THEN OpenEpisode(closed, e.target, x.ts)
                    ELSE closed
          [] OTHER -> m

agent_coalition_history(a) ==
    LET m == FoldLeft(LAMBDA acc, x : HistoryStep(acc, a, x),
                      [start |-> <<>>, episodes |-> {}], log)
    IN  m.episodes \cup {Episode(h, Some(m.start[h]), None) : h \in DOMAIN m.start}

-----------------------------------------------------------------------------
(***************************************************************************)
(* Reference and properties.                                               *)
(***************************************************************************)
ViewAt(t) == FoldLeft(LAMBDA acc, x : Replay(acc, x.event),
                      View(EmptyGraph), SelectSeq(log, LAMBDA x : x.ts <= t))

Moments == {x.ts : x \in Range(log)}
SeenVertices == vertex_indices
SeenHyperedges == hyperedge_indices

(***************************************************************************)
(* "Check if a vertex existed at a given timestamp", "Get the weight of a  *)
(* vertex at a given timestamp" (queries.rs:10, :166), and the same for    *)
(* hyperedges with their members: scanning the events filed under one      *)
(* index, with an early stop, gives what replaying the whole log up to     *)
(* that moment gives, over every way an element changes or ends, the two   *)
(* roles of a join included; and the counts count it.                      *)
(***************************************************************************)
QueriesMatchReplay ==
    \A t \in Moments :
        LET past == ViewAt(t)
            At(f, x) == IF x \in DOMAIN f THEN Some(f[x]) ELSE None
        IN  /\ \A v \in SeenVertices :
                  /\ vertex_exists_at(v, t) <=> v \in DOMAIN past.verts
                  /\ vertex_weight_at(v, t) = At(past.verts, v)
            /\ \A h \in SeenHyperedges :
                  /\ hyperedge_exists_at(h, t) <=> h \in DOMAIN past.edges
                  /\ hyperedge_weight_at(h, t) =
                        {e.weight : e \in At(past.edges, h)}
                  /\ hyperedge_vertices_at(h, t) =
                        {e.members : e \in At(past.edges, h)}
            /\ count_vertices_at(t) = Cardinality(DOMAIN past.verts)
            /\ count_hyperedges_at(t) = Cardinality(DOMAIN past.edges)

(* The clear events are filed under no element: the queries do not see     *)
(* them (see the run queries_clear).                                       *)
Uncleared ==
    \A x \in Range(log) : x.event.type \notin {"HyperedgesCleared", "GraphCleared"}

(* An element exists exactly within its lifespan: creation, removal and    *)
(* existence at a time, three separate scans, agree                        *)
(* (queries.rs:362-416).                                                   *)
LifespansMatchExistence ==
    \A t \in Moments :
        /\ \A v \in SeenVertices :
              LET life == vertex_lifespan(v)
              IN  vertex_exists_at(v, t) <=> Within(t, life.start, life.end)
        /\ \A h \in SeenHyperedges :
              LET life == hyperedge_lifespan(h)
              IN  hyperedge_exists_at(h, t) <=> Within(t, life.start, life.end)

(* Until something is cleared, the queries give what the replay gives, and *)
(* the lifespans agree with the existence queries.                         *)
UnclearedQueriesMatch ==
    Uncleared => QueriesMatchReplay /\ LifespansMatchExistence

(* "(coalition_index, time_range) pairs showing when the agent was a       *)
(* member of each coalition" (coalitions.rs:196-197): an agent is among a  *)
(* coalition's members at a moment exactly when one of its episodes for    *)
(* that coalition contains the moment, until something is cleared.  The     *)
(* targets of joins are left out: a join restarts the episode of a member  *)
(* its target already had, and the part before it is forgotten             *)
(* (coalitions.rs:269).                                                    *)
HistoryShowsMembership ==
  Uncleared =>
    \A a \in SeenVertices, h \in SeenHyperedges, t \in Moments :
        LET past == ViewAt(t).edges
            joined == \E x \in Range(log) :
                         x.event.type = "HyperedgesJoined" /\ x.event.target = h
        IN  joined \/ ((h \in DOMAIN past /\ a \in Range(past[h].members)) <=>
               \E ep \in agent_coalition_history(a) :
                   ep.coalition = h /\ Within(t, ep.start, ep.end))

(* Both kinds of question about the past are answered as the replay of the *)
(* log would answer them: what existed (queries.rs) and who was a member   *)
(* when (coalitions.rs).                                                   *)
PastMatchesReplay == UnclearedQueriesMatch /\ HistoryShowsMembership
=============================================================================
