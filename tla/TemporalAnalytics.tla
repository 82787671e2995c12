-------------------------- MODULE TemporalAnalytics -------------------------
(***************************************************************************)
(* The analyses of src/topology/analytics.rs as operators on the log: the  *)
(* changes between two moments, the series of live counts, the activity in *)
(* a window, and the samples of a coalition's members that its magnitude   *)
(* trajectory is computed from.  Unlike the point-in-time queries they walk the whole log and do  *)
(* see the two clear events.                                               *)
(***************************************************************************)
EXTENDS TemporalQueries, FiniteSetsExt

CONSTANTS required,     \* the capabilities a task asks for
          TimestampMax  \* Timestamp::MAX: u64::MAX, or a small stand-in

EPOCH == 0

(* A TimeRange: its two ends are Options. *)
TimeRange(start, end) == [start |-> start, end |-> end]

UnwrapOr(option, default) ==
    IF option = None THEN default ELSE CHOOSE x \in option : TRUE

(* BTreeMap::range(start..end) over the time index: the moments in order,  *)
(* and the events of one moment in log order.  It panics for start > end.  *)
events_in_range(range) ==
    LET start == UnwrapOr(range.start, EPOCH)
        end   == UnwrapOr(range.end, TimestampMax)
        times == SetToSortSeq({x.ts : x \in Range(log)} \cap start..(end - 1), <)
    IN  FlattenSeq([i \in 1..Len(times) |->
                      SelectSeq(log, LAMBDA x : x.ts = times[i])])

-----------------------------------------------------------------------------
(***************************************************************************)
(* GraphDelta: the events of the interval, one list per kind.              *)
(***************************************************************************)
DeltaKinds == {"VertexAdded", "VertexRemoved", "VertexWeightUpdated",
               "HyperedgeAdded", "HyperedgeRemoved", "HyperedgeWeightUpdated",
               "HyperedgeVerticesUpdated", "HyperedgeReversed",
               "HyperedgesJoined", "VerticesContracted", "HyperedgesCleared",
               "GraphCleared"}

(* The range is half-open and the events at `from` are skipped. *)
delta(from, to) ==
    LET after == SelectSeq(events_in_range(TimeRange(Some(from), Some(to))),
                           LAMBDA x : x.ts # from)
    IN  [k \in DeltaKinds |-> SelectSeq(after, LAMBDA x : x.event.type = k)]

change_count(d) == FoldFunction(LAMBDA s, n : Len(s) + n, 0, d)

-----------------------------------------------------------------------------
(***************************************************************************)
(* The count series: one walk over the log, the live set noted at start,   *)
(* at every multiple of the resolution after it, and at the end.           *)
(***************************************************************************)
resolve_window(range) ==
    LET start == UnwrapOr(range.start, EPOCH)
    IN  [start |-> start,
         end   |-> UnwrapOr(range.end, IF log = <<>> THEN start
                                                  ELSE Last(log).ts)]

(* The moments of a series.  A resolution of 0 would never leave `start`.  *)
SeriesMoments(range, resolution) ==
    LET w == resolve_window(range)
        From[t \in 0..TimestampMax] ==
            <<t>> \o IF t >= w.end \/ t > TimestampMax - resolution THEN <<>>
                     ELSE From[Min({t + resolution, w.end})]
    IN  From[w.start]

live_vertices(t) ==
    FoldLeft(LAMBDA live, x :
                CASE x.event.type = "VertexAdded" -> live \cup {x.event.index}
                  [] x.event.type = "VertexRemoved" -> live \ {x.event.index}
                  [] x.event.type = "GraphCleared" -> {}
                  [] OTHER -> live,
             {}, Until(log, t))

live_hyperedges(t) ==
    FoldLeft(LAMBDA live, x :
                CASE x.event.type = "HyperedgeAdded" -> live \cup {x.event.index}
                  [] x.event.type = "HyperedgeRemoved" -> live \ {x.event.index}
                  [] x.event.type = "HyperedgesJoined" ->
                        (live \cup {x.event.target}) \ Range(x.event.sources)
                  [] x.event.type \in {"HyperedgesCleared", "GraphCleared"} -> {}
                  [] OTHER -> live,
             {}, Until(log, t))

vertex_count_series(range, resolution) ==
    LET ts == SeriesMoments(range, resolution)
    IN  [i \in DOMAIN ts |->
            [ts |-> ts[i], count |-> Cardinality(live_vertices(ts[i]))]]

hyperedge_count_series(range, resolution) ==
    LET ts == SeriesMoments(range, resolution)
    IN  [i \in DOMAIN ts |->
            [ts |-> ts[i], count |-> Cardinality(live_hyperedges(ts[i]))]]

-----------------------------------------------------------------------------
(***************************************************************************)
(* Activity in a window: how many events touch a vertex or a hyperedge, an *)
(* event once for every time it names it.                                  *)
(***************************************************************************)
TouchedVertices(e) ==
    CASE e.type \in {"VertexAdded", "VertexRemoved", "VertexWeightUpdated"} -> <<e.index>>
      [] e.type = "HyperedgeAdded" -> e.members
      [] e.type = "HyperedgeVerticesUpdated" -> e.old \o e.new
      [] e.type = "VerticesContracted" -> Append(e.contracted, e.target)
      [] OTHER -> <<>>

(* mutant: a join touches its target only. *)
TouchedHyperedges_target_only(e) ==
    CASE e.type \in {"HyperedgeAdded", "HyperedgeRemoved", "HyperedgeWeightUpdated",
                     "HyperedgeVerticesUpdated", "HyperedgeReversed",
                     "VerticesContracted"} -> <<e.index>>
      [] e.type = "HyperedgesJoined" -> <<e.target>>
      [] OTHER -> <<>>

TouchedHyperedges(e) ==
    CASE e.type \in {"HyperedgeAdded", "HyperedgeRemoved", "HyperedgeWeightUpdated",
                     "HyperedgeVerticesUpdated", "HyperedgeReversed",
                     "VerticesContracted"} -> <<e.index>>
      [] e.type = "HyperedgesJoined" -> <<e.target>> \o e.sources
      [] OTHER -> <<>>

Activity(touched) == [x \in Range(touched) |-> Len(SelectSeq(touched, LAMBDA y : y = x))]

vertex_activity(range) ==
    LET events == events_in_range(range)
    IN  Activity(FlattenSeq([i \in DOMAIN events |-> TouchedVertices(events[i].event)]))

hyperedge_activity(range) ==
    LET events == events_in_range(range)
    IN  Activity(FlattenSeq([i \in DOMAIN events |-> TouchedHyperedges(events[i].event)]))

(* The most active first, cut to the limit; a hash map leaves the order of  *)
(* a tie open.                                                              *)
most_active(activity, limit) ==
    {SubSeq(order, 1, Min({limit, Len(order)})) :
        order \in {s \in SetToSeqs(DOMAIN activity) :
                      \A i \in 1..(Len(s) - 1) : activity[s[i]] >= activity[s[i + 1]]}}

(* EventStats: one counter per kind of event.                               *)
StatsKinds == [vertex_added      |-> {"VertexAdded"},
               vertex_removed    |-> {"VertexRemoved"},
               vertex_updated    |-> {"VertexWeightUpdated"},
               hyperedge_added   |-> {"HyperedgeAdded"},
               hyperedge_removed |-> {"HyperedgeRemoved"},
               hyperedge_updated |-> {"HyperedgeWeightUpdated", "HyperedgeVerticesUpdated"},
               transforms        |-> {"HyperedgeReversed", "HyperedgesJoined", "VerticesContracted"},
               clears            |-> {"HyperedgesCleared", "GraphCleared"},
               snapshots         |-> {"SnapshotMarker"}]

stats_in_range(range) ==
    [k \in DOMAIN StatsKinds |->
        Len(SelectSeq(events_in_range(range), LAMBDA x : x.event.type \in StatsKinds[k]))]

(* mutation_rate, as events over a duration; no duration counts as one.     *)
mutation_rate(range) ==
    LET w == resolve_window(range)
    IN  [events |-> Len(events_in_range(range)), over |-> Max({1, w.end - w.start})]

-----------------------------------------------------------------------------
(***************************************************************************)
(* The samples of magnitude_history.  A vertex weight is an agent: its id  *)
(* and its capability mask.                                                *)
(***************************************************************************)
Standing(weights, members) == [weights |-> weights, members |-> members]

(* The agents that have a required capability, each agent_id once. *)
relevant_masks(agents) ==
    FoldLeft(LAMBDA acc, a :
                IF /\ a.capabilities \cap required # {}
                   /\ a.agent_id \notin acc.seen
                THEN [seen  |-> acc.seen \cup {a.agent_id},
                      masks |-> Append(acc.masks, a.capabilities)]
                ELSE acc,
             [seen |-> {}, masks |-> <<>>], agents).masks

(* Members without a weight are skipped and not counted. *)
snapshot_masks(s) ==
    LET known    == SelectSeq(UnwrapOr(s.members, <<>>),
                              LAMBDA v : v \in DOMAIN s.weights)
        resolved == [i \in DOMAIN known |-> s.weights[known[i]]]
    IN  [masks |-> relevant_masks(resolved), count |-> Len(resolved)]

apply_event_to_state(s, h, e) ==
    CASE e.type = "VertexAdded" ->
            [s EXCEPT !.weights = Put(@, e.index, e.weight)]
      [] e.type = "VertexWeightUpdated" ->
            [s EXCEPT !.weights = Put(@, e.index, e.new)]
      [] e.type = "VertexRemoved" -> [s EXCEPT !.weights = Drop(@, {e.index})]
      [] e.type = "GraphCleared" -> Standing(<<>>, None)
      [] e.type = "HyperedgeAdded" /\ e.index = h ->
            [s EXCEPT !.members = Some(e.members)]
      [] /\ e.type \in {"HyperedgeVerticesUpdated", "HyperedgeReversed",
                        "VerticesContracted"}
         /\ e.index = h -> [s EXCEPT !.members = Some(e.new)]
      [] e.type = "HyperedgesJoined" /\ e.target = h ->
            [s EXCEPT !.members = Some(e.new)]
      [] \/ e.type = "HyperedgesJoined" /\ e.target # h /\ h \in Range(e.sources)
         \/ e.type = "HyperedgeRemoved" /\ e.index = h
         \/ e.type = "HyperedgesCleared" -> [s EXCEPT !.members = None]
      [] OTHER -> s

(* mutant: a change of a member's weight is not sampled. *)
is_change_relevant_misses_weights(e, h, members) ==
    \/ /\ e.type \in {"HyperedgeAdded", "HyperedgeVerticesUpdated",
                      "HyperedgeRemoved", "VerticesContracted"}
       /\ e.index = h
    \/ e.type = "HyperedgesJoined" /\ h \in {e.target} \cup Range(e.sources)
    \/ e.type = "VertexRemoved" /\ \E m \in members : e.index \in Range(m)
    \/ e.type \in {"HyperedgesCleared", "GraphCleared"} /\ members # None

is_change_relevant(e, h, members) ==
    \/ /\ e.type \in {"HyperedgeAdded", "HyperedgeVerticesUpdated",
                      "HyperedgeRemoved", "VerticesContracted"}
       /\ e.index = h
    \/ e.type = "HyperedgesJoined" /\ h \in {e.target} \cup Range(e.sources)
    \/ /\ e.type \in {"VertexWeightUpdated", "VertexRemoved"}
       /\ \E m \in members : e.index \in Range(m)
    \/ e.type \in {"HyperedgesCleared", "GraphCleared"} /\ members # None

Sample(t, s) == [ts |-> t, shot |-> snapshot_masks(s)]

(***************************************************************************)
(* Everything up to the window's start is folded in first, then the events *)
(* up to its end; all events of one moment are folded before a sample is   *)
(* taken.                                                                  *)
(***************************************************************************)
collect_magnitude_samples(h, range) ==
    LET w      == resolve_window(range)
        before == Until(log, w.start)
        within == Until(SubSeq(log, Len(before) + 1, Len(log)), w.end)
        base   == FoldLeft(LAMBDA s, x : apply_event_to_state(s, h, x.event),
                           Standing(<<>>, None), before)
        LastOfMoment(i) == i = Len(within) \/ within[i + 1].ts # within[i].ts
        Step(acc, i) ==
            LET e        == within[i].event
                state    == apply_event_to_state(acc.state, h, e)
                relevant == acc.relevant \/ is_change_relevant(e, h, acc.state.members)
            IN  [state    |-> state,
                 relevant |-> relevant /\ ~ LastOfMoment(i),
                 samples  |-> IF relevant /\ LastOfMoment(i)
                              THEN Append(acc.samples, Sample(within[i].ts, state))
                              ELSE acc.samples]
    IN  FoldLeftDomain(Step,
            [state |-> base, relevant |-> FALSE,
             samples |-> IF w.start <= w.end /\ base.members # None
                         THEN <<Sample(w.start, base)>> ELSE <<>>],
            within).samples

-----------------------------------------------------------------------------
(***************************************************************************)
(* Properties.                                                             *)
(***************************************************************************)
Windows == {TimeRange(None, None)}
             \cup {TimeRange(Some(t), None) : t \in Moments}
             \cup {TimeRange(None, Some(t)) : t \in Moments}

SameBag(s, t) ==
    /\ Len(s) = Len(t)
    /\ \A m \in Range(s) :
          Len(SelectSeq(s, LAMBDA x : x = m)) = Len(SelectSeq(t, LAMBDA x : x = m))

(* The trajectory of h is a step function: the last sample at or before a  *)
(* moment of the window describes the coalition at that moment, and there  *)
(* is none before only if the coalition is not live.                       *)
SamplesFollow(h, range) ==
    LET w       == resolve_window(range)
        samples == collect_magnitude_samples(h, range)
    IN  \A t \in w.start..w.end :
            LET i       == SelectLastInSeq(samples, LAMBDA p : p.ts <= t)
                past    == ViewAt(t)
                members == IF h \in DOMAIN past.edges
                           THEN Some(past.edges[h].members) ELSE None
                truth   == snapshot_masks(Standing(past.verts, members))
            IN  IF i = 0 THEN members = None
                ELSE /\ samples[i].shot.count = truth.count
                     /\ SameBag(samples[i].shot.masks, truth.masks)

(* A series reaches the end of its window, or stops short of it because    *)
(* the next moment would pass u64::MAX; every count is that of the graph   *)
(* then.                                                                   *)
SeriesFollow(range, resolution) ==
    LET w  == resolve_window(range)
        vs == vertex_count_series(range, resolution)
        hs == hyperedge_count_series(range, resolution)
    IN  /\ Last(vs).ts = w.end \/ Last(vs).ts > TimestampMax - resolution
                               \/ w.start > w.end
        /\ \A p \in Range(vs) : p.count = Cardinality(DOMAIN ViewAt(p.ts).verts)
        /\ \A p \in Range(hs) : p.count = Cardinality(DOMAIN ViewAt(p.ts).edges)

(* Over the half-open range the code asks the log for (:160, event_log.rs: *)
(* 124-125; "half-open interval: [start, end)", timestamp.rs:51) every     *)
(* change is counted once, and the changes turn what was live at the first *)
(* moment into what is live just before the second, when nothing was       *)
(* cleared.  The doc of delta promises the second moment as well:          *)
(* DeltaReachesTo.                                                         *)
DeltaAccounts(from, to) ==
    LET d          == delta(from, to)
        earlier    == ViewAt(from)
        later      == ViewAt(to - 1)
        Indices(k) == {x.event.index : x \in Range(d[k])}
        dissolved  == UNION {Range(x.event.sources) : x \in Range(d["HyperedgesJoined"])}
    IN  /\ change_count(d) = Cardinality({i \in DOMAIN log :
                                  /\ from < log[i].ts /\ log[i].ts < to
                                  /\ log[i].event.type # "SnapshotMarker"})
        /\ \/ d["HyperedgesCleared"] # <<>> \/ d["GraphCleared"] # <<>>
           \/ /\ DOMAIN later.verts = (DOMAIN earlier.verts \cup Indices("VertexAdded"))
                                          \ Indices("VertexRemoved")
              /\ DOMAIN later.edges = (DOMAIN earlier.edges \cup Indices("HyperedgeAdded"))
                                          \ (Indices("HyperedgeRemoved") \cup dissolved)

(* Over the whole log the counters agree with the histories of the         *)
(* elements, and a ranking holds none that is less active than one it cut. *)
ActivityMatchesHistories ==
    LET vertices   == vertex_activity(TimeRange(None, None))
        hyperedges == hyperedge_activity(TimeRange(None, None))
    IN  /\ mutation_rate(TimeRange(None, None)).events = Len(log)
        /\ FoldFunction(+, 0, stats_in_range(TimeRange(None, None))) = Len(log)
        /\ DOMAIN hyperedges = hyperedge_indices
        /\ \A h \in hyperedge_indices : hyperedges[h] = Len(hyperedge_events(h))
        /\ vertex_indices \subseteq DOMAIN vertices
        /\ \A v \in vertex_indices : vertices[v] >= Len(vertex_events(v))
        /\ \A top \in most_active(hyperedges, 1) :
              /\ Len(top) = Min({1, Cardinality(DOMAIN hyperedges)})
              /\ \A h \in DOMAIN hyperedges, i \in DOMAIN top : hyperedges[top[i]] >= hyperedges[h]

(* Two windows that meet hold each event of their union once.              *)
ActivitySplits(t) ==
    LET At(f, x) == IF x \in DOMAIN f THEN f[x] ELSE 0
        Splits(Count(_)) ==
            LET whole == Count(TimeRange(None, None))
                left  == Count(TimeRange(None, Some(t)))
                right == Count(TimeRange(Some(t), None))
            IN  \A x \in DOMAIN whole \cup DOMAIN left \cup DOMAIN right :
                    At(whole, x) = At(left, x) + At(right, x)
    IN  Splits(vertex_activity) /\ Splits(hyperedge_activity)

(***************************************************************************)
(* The analyses, which each walk the log in their own way, describe        *)
(* the graph that replaying the log gives, over clears, joins, removed     *)
(* members and several events at one moment: "The result is a step         *)
(* function" (analytics.rs:297-298), "a time series of vertex counts"      *)
(* (:391).  A delta is held to the half-open range of the code, not to its *)
(* doc.                                                                    *)
(***************************************************************************)
AnalyticsMatchReplay ==
    /\ \A range \in Windows :
          /\ \A h \in SeenHyperedges : SamplesFollow(h, range)
          /\ SeriesFollow(range, 2)
    /\ \A resolution \in {1, 3} :
          SeriesFollow(TimeRange(None, Some(TimestampMax)), resolution)
    /\ \A from, to \in Moments : from < to => DeltaAccounts(from, to)
    /\ ActivityMatchesHistories
    /\ log # <<>> => ActivitySplits(Last(log).ts)

(***************************************************************************)
(* "Returns all changes that occurred strictly after `from` and up to and  *)
(* including `to`." (analytics.rs:149).  Violated: the range ends before   *)
(* `to`, so the changes of that moment are in no delta that ends with it.  *)
(***************************************************************************)
DeltaReachesTo ==
    \A from, to \in Moments : from < to =>
        change_count(delta(from, to)) = Cardinality({i \in DOMAIN log :
            /\ from < log[i].ts /\ log[i].ts <= to
            /\ log[i].event.type # "SnapshotMarker"})
=============================================================================
