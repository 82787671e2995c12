-------------------------- MODULE EventSourcedGraph -------------------------
(***************************************************************************)
(* What TemporalHypergraph promises (class comment,                        *)
(* src/topology/temporal.rs:33-47), as one atomic step per recorded event: *)
(* the graph change and its event happen together, and the events of one   *)
(* value carry increasing timestamps.                                      *)
(* TemporalHypergraph, whose tasks change the graph and append the event   *)
(* in separate steps, is shown to implement it.                            *)
(***************************************************************************)
EXTENDS Naturals, Sequences, SequencesExt

(***************************************************************************)
(* The graph and its mutations are parameters: what a request can do to a  *)
(* graph and the event it records, what of a graph can be told from        *)
(* outside, and what an event says happened to that.                       *)
(***************************************************************************)
CONSTANTS Outcomes(_, _), View(_), Replay(_, _)

CONSTANTS Values,       \* TemporalHypergraph values: an original and its clones
          Calls,        \* one call of a mutation method or of create_snapshot
          Requests,     \* what a mutation call may ask for
          InitGraphs,   \* the graphs that new and wrap may start from
          Timestamps,   \* Nat, or a finite part of it for TLC
          SnapshotIds   \* Nat, or a finite part of it for TLC

VARIABLES graph,        \* the graph behind the shared lock
          log,          \* EventLog.events
          replayed,     \* the initial graph with every logged event replayed
          lost          \* an event was lost to the runtime's shutdown

vars == <<graph, log, replayed, lost>>

Entry(t, v, c, e) == [ts |-> t, by |-> v, call |-> c, event |-> e]

(* A value never reuses or goes back behind a timestamp it has recorded,   *)
(* and a call records one event.                                           *)
Fresh(t, v, c) ==
    \A i \in DOMAIN log : /\ log[i].by = v => log[i].ts < t
                          /\ log[i].call # c

Init == /\ graph \in InitGraphs
        /\ log = <<>>
        /\ replayed = View(graph) /\ lost = FALSE

Append1(t, v, c, e) ==
    /\ Fresh(t, v, c)
    /\ log' = Append(log, Entry(t, v, c, e))
    /\ replayed' = Replay(replayed, e)

Mutate(t, v, c, r) ==
    /\ \E o \in Outcomes(graph, r) :
          graph' = o.graph /\ Append1(t, v, c, o.event)
    /\ UNCHANGED lost

Mark(t, v, c, id) ==
    /\ Append1(t, v, c, [type |-> "SnapshotMarker", id |-> id])
    /\ UNCHANGED <<graph, lost>>

(***************************************************************************)
(* A shutdown of the runtime may drop a task between its change and its    *)
(* event (TemporalError::TaskCancelled).  What is recorded after that      *)
(* keeps the order of the timestamps and no longer replays to the graph.   *)
(***************************************************************************)
Lose ==
    /\ lost' = TRUE
    /\ UNCHANGED <<graph, log, replayed>>

RecordAfterLoss(t, v, c) ==
    /\ lost /\ UNCHANGED lost
    /\ Fresh(t, v, c)
    /\ log' # log /\ log' = Append(log, Entry(t, v, c, Last(log').event))

Next ==
    \/ \E t \in Timestamps, v \in Values, c \in Calls :
          \/ \E r \in Requests : Mutate(t, v, c, r)
          \/ \E id \in SnapshotIds : Mark(t, v, c, id)
          \/ RecordAfterLoss(t, v, c)
    \/ Lose

Spec == Init /\ [][Next]_vars
=============================================================================
