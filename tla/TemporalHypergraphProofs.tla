---------------------- MODULE TemporalHypergraphProofs ----------------------
(***************************************************************************)
(* Theorems about TemporalHypergraph, for every set of calls, values and   *)
(* requests, every tap capacity and every initial graph.                   *)
(***************************************************************************)
EXTENDS TemporalHypergraph, TLAPS

-----------------------------------------------------------------------------
(***************************************************************************)
(* The mutation methods.                                                   *)
(***************************************************************************)

(* The methods' outcomes leave a graph a graph. *)
LEMMA OutcomeIsGraph ==
    ASSUME NEW g, NEW r, IsGraph(g), NEW o \in Outcomes(g, r)
    PROVE  IsGraph(o.graph)
<1> USE DEF IsGraph, Graph, When, Recorded, UpdatedMembers, GraphSetMembers,
            GraphRemoveHyperedges
<1>1. CASE r.op = "add_vertex"
  BY <1>1 DEF Outcomes, add_vertex, GraphAddVertex
<1>2. CASE r.op = "remove_vertex"
  BY <1>2 DEF Outcomes, remove_vertex, GraphRemoveVertex
<1>3. CASE r.op = "update_vertex_weight"
  BY <1>3 DEF Outcomes, update_vertex_weight
<1>4. CASE r.op = "add_hyperedge"
  BY <1>4 DEF Outcomes, add_hyperedge, GraphAddHyperedge
<1>5. CASE r.op = "remove_hyperedge"
  BY <1>5 DEF Outcomes, remove_hyperedge
<1>6. CASE r.op = "update_hyperedge_weight"
  BY <1>6 DEF Outcomes, update_hyperedge_weight
<1>7. CASE r.op = "update_hyperedge_vertices"
  BY <1>7 DEF Outcomes, update_hyperedge_vertices
<1>8. CASE r.op = "join_coalition"
  BY <1>8 DEF Outcomes, join_coalition
<1>9. CASE r.op = "leave_coalition"
  BY <1>9 DEF Outcomes, leave_coalition
<1>10. CASE r.op = "reverse_hyperedge"
  BY <1>10 DEF Outcomes, reverse_hyperedge
<1>11. CASE r.op = "join_hyperedges"
  <2>1. o.graph = GraphRemoveHyperedges(
                      GraphSetMembers(g, r.hs[1], JoinedMembers(g, r.hs)),
                      Range(Tail(r.hs)) \ {r.hs[1]})
    BY <1>11 DEF Outcomes, join_hyperedges
  <2>2. IsGraph(GraphSetMembers(g, r.hs[1], JoinedMembers(g, r.hs)))
    OBVIOUS
  <2> QED
    BY <2>1, <2>2
<1>12. CASE r.op = "contract_hyperedge_vertices"
  BY <1>12 DEF Outcomes, contract_hyperedge_vertices
<1>13. CASE r.op = "clear_hyperedges"
  BY <1>13 DEF Outcomes, clear_hyperedges
<1>14. CASE r.op = "clear"
  BY <1>14 DEF Outcomes, clear, EmptyGraph
<1> QED
  BY <1>1, <1>2, <1>3, <1>4, <1>5, <1>6, <1>7, <1>8, <1>9, <1>10, <1>11,
     <1>12, <1>13, <1>14 DEF Outcomes

(* The replay of an event that gives a hyperedge new members.              *)
LEMMA ReplaySetsMembers ==
    ASSUME NEW g, NEW h, NEW vs, NEW e, IsGraph(g),
           e.type \in {"HyperedgeVerticesUpdated", "HyperedgeReversed",
                       "VerticesContracted"},
           e.index = h, e.new = vs
    PROVE  Replay(View(g), e) = View(GraphSetMembers(g, h, vs))
<1>1. Replay(View(g), e) = WithMembers(View(g), h, vs)
  BY DEF Replay
<1> QED
  BY <1>1 DEF IsGraph, Graph, View, WithMembers, GraphSetMembers

(* A change of members replays to the changed view. *)
LEMMA ReplayUpdatesMembers ==
    ASSUME NEW g, NEW h, NEW vs, IsGraph(g), NEW o \in UpdatedMembers(g, h, vs)
    PROVE  Replay(View(g), o.event) = View(o.graph)
<1>1. /\ o.graph = GraphSetMembers(g, h, vs)
      /\ o.event.type = "HyperedgeVerticesUpdated"
      /\ o.event.index = h /\ o.event.new = vs
  BY DEF UpdatedMembers, Recorded
<1> QED
  BY <1>1, ReplaySetsMembers

(* Replaying the event a method records does to the graph's view what the  *)
(* method did to the graph.                                                *)
LEMMA ReplayAgrees ==
    ASSUME NEW g, NEW r, IsGraph(g), NEW o \in Outcomes(g, r)
    PROVE  Replay(View(g), o.event) = View(o.graph)
<1> USE DEF IsGraph, Graph, When, Recorded, UpdatedMembers, GraphSetMembers,
            GraphRemoveHyperedges, View, Replay, WithMembers
<1>1. CASE r.op = "add_vertex"
  BY <1>1 DEF Outcomes, add_vertex, GraphAddVertex
<1>2. CASE r.op = "remove_vertex"
  <2>1. o.event.type = "VertexRemoved" /\ o.event.index = r.v
    BY <1>2 DEF Outcomes, remove_vertex
  <2>2. o.graph = [g EXCEPT !.verts = Drop(g.verts, {r.v})]
    BY <1>2 DEF Outcomes, remove_vertex, GraphRemoveVertex
  <2> QED
    BY <2>1, <2>2
<1>3. CASE r.op = "update_vertex_weight"
  BY <1>3 DEF Outcomes, update_vertex_weight
<1>4. CASE r.op = "add_hyperedge"
  BY <1>4 DEF Outcomes, add_hyperedge, GraphAddHyperedge
<1>5. CASE r.op = "remove_hyperedge"
  <2>1. o.event.type = "HyperedgeRemoved" /\ o.event.index = r.h
    BY <1>5 DEF Outcomes, remove_hyperedge
  <2>2. o.graph = [g EXCEPT !.edges = Drop(g.edges, {r.h})]
    BY <1>5 DEF Outcomes, remove_hyperedge
  <2> QED
    BY <2>1, <2>2
<1>6. CASE r.op = "update_hyperedge_weight"
  BY <1>6 DEF Outcomes, update_hyperedge_weight
<1>7. CASE r.op = "update_hyperedge_vertices"
  <2> HIDE DEF UpdatedMembers, View, Replay
  <2>1. o \in UpdatedMembers(g, r.h, r.members)
    BY <1>7 DEF Outcomes, update_hyperedge_vertices
  <2> QED
    BY <2>1, ReplayUpdatesMembers
<1>8. CASE r.op = "join_coalition"
  <2> DEFINE old == g.edges[r.h].members
             new == IF r.v \in Range(old) THEN old ELSE Append(old, r.v)
  <2> HIDE DEF UpdatedMembers, View, Replay
  <2>1. o \in UpdatedMembers(g, r.h, new)
    BY <1>8 DEF Outcomes, join_coalition
  <2> QED
    BY <2>1, ReplayUpdatesMembers
<1>9. CASE r.op = "leave_coalition"
  <2> DEFINE old == g.edges[r.h].members
             left == Picked(old, {i \in DOMAIN old : old[i] # r.v})
  <2> HIDE DEF UpdatedMembers, View, Replay
  <2>1. o \in UpdatedMembers(g, r.h, left)
    BY <1>9 DEF Outcomes, leave_coalition
  <2> QED
    BY <2>1, ReplayUpdatesMembers
<1>10. CASE r.op = "reverse_hyperedge"
  <2> DEFINE reversed == SE!Reverse(g.edges[r.h].members)
  <2> HIDE DEF GraphSetMembers, View, Replay, WithMembers
  <2>1. /\ o.graph = GraphSetMembers(g, r.h, reversed)
        /\ o.event.type = "HyperedgeReversed"
        /\ o.event.index = r.h /\ o.event.new = reversed
    BY <1>10 DEF Outcomes, reverse_hyperedge
  <2> QED
    BY <2>1, ReplaySetsMembers
<1>11. CASE r.op = "join_hyperedges"
  <2> DEFINE target == r.hs[1]
             gone == Range(Tail(r.hs)) \ {target}
             joined == JoinedMembers(g, r.hs)
             grown == [g.edges EXCEPT ![target].members = joined]
  <2>0. o = [graph |-> GraphRemoveHyperedges(
                            GraphSetMembers(g, target, joined), gone),
             event |-> [type |-> "HyperedgesJoined", target |-> target,
                        sources |-> Tail(r.hs), new |-> joined]]
    BY <1>11 DEF Outcomes, join_hyperedges
  <2>1. /\ o.event.type = "HyperedgesJoined" /\ o.event.target = target
        /\ o.event.new = joined /\ o.event.sources = Tail(r.hs)
    BY <2>0
  <2>2. o.graph = GraphRemoveHyperedges(GraphSetMembers(g, target, joined),
                                        gone)
    BY <2>0
  <2> HIDE DEF target, joined
  <2>3. GraphSetMembers(g, target, joined)
            = Graph(g.verts, grown, g.nextV, g.nextE)
    OBVIOUS
  <2>4. View(o.graph) = [verts |-> g.verts, edges |-> Drop(grown, gone)]
    BY <2>2, <2>3
  <2>5. WithMembers(View(g), target, joined)
            = [verts |-> g.verts, edges |-> grown]
    OBVIOUS
  <2> QED
    BY <2>1, <2>4, <2>5
<1>12. CASE r.op = "contract_hyperedge_vertices"
  <2> DEFINE new == ContractedMembers(g.edges[r.h].members, r.members, r.v)
  <2> HIDE DEF GraphSetMembers, View, Replay, WithMembers
  <2>1. /\ o.graph = GraphSetMembers(g, r.h, new)
        /\ o.event.type = "VerticesContracted"
        /\ o.event.index = r.h /\ o.event.new = new
    BY <1>12 DEF Outcomes, contract_hyperedge_vertices
  <2> QED
    BY <2>1, ReplaySetsMembers
<1>13. CASE r.op = "clear_hyperedges"
  BY <1>13 DEF Outcomes, clear_hyperedges
<1>14. CASE r.op = "clear"
  BY <1>14 DEF Outcomes, clear, EmptyGraph
<1> QED
  BY <1>1, <1>2, <1>3, <1>4, <1>5, <1>6, <1>7, <1>8, <1>9, <1>10, <1>11,
     <1>12, <1>13, <1>14 DEF Outcomes

-----------------------------------------------------------------------------
(***************************************************************************)
(* Types.  The log and the tap's channel are sequences; that of the tap is *)
(* bounded.                                                                *)
(***************************************************************************)
LogIsSeq == \E S : log \in Seq(S)
TapIsSeq == \E S : tap \in Seq(S)

TypeInv == TypeOK /\ LogIsSeq /\ TapIsSeq

(* A send into the tap keeps it typed and within its capacity. *)
LEMMA TapEventKeepsType ==
    ASSUME TapIsSeq, Len(tap) <= TapCap, NEW entry, tap_event(entry)
    PROVE  TapIsSeq' /\ Len(tap') <= TapCap
<1>1. PICK S : tap \in Seq(S)
  BY DEF TapIsSeq
<1>2. tap \in Seq(S \cup {entry}) /\ Append(tap, entry) \in Seq(S \cup {entry})
  BY <1>1
<1>3. Len(Append(tap, entry)) = Len(tap) + 1 /\ Len(tap) \in Nat
  BY <1>1
<1> QED
  BY <1>2, <1>3, TapCapIsNat DEF tap_event, TapIsSeq

(* One more entry in the log. *)
LEMMA AppendKeepsLog ==
    ASSUME LogIsSeq, NEW entry, log' = Append(log, entry)
    PROVE  /\ LogIsSeq'
           /\ Len(log) \in Nat
           /\ DOMAIN log = 1..Len(log) /\ DOMAIN log' = 1..(Len(log) + 1)
           /\ \A i \in DOMAIN log : log'[i] = log[i]
           /\ log'[Len(log) + 1] = entry
<1>1. PICK S : log \in Seq(S)
  BY DEF LogIsSeq
<1>2. log \in Seq(S \cup {entry}) /\ log' \in Seq(S \cup {entry})
  BY <1>1
<1> QED
  BY <1>2 DEF LogIsSeq

(* The types hold at the start. *)
LEMMA TypeInit == Init => TypeInv
<1> SUFFICES ASSUME Init PROVE TypeInv
  OBVIOUS
<1>1. TapIsSeq /\ Len(tap) = 0 /\ LogIsSeq
  BY DEF Init, TapIsSeq, LogIsSeq
<1>2. tapOpen \in BOOLEAN
  BY DEF Init
<1>3. /\ DOMAIN call = Calls
      /\ \A c \in Calls : /\ call[c].val \in Values
                          /\ call[c].ts \in Nat /\ call[c].id \in Nat
                          /\ call[c].index \in Nat
                          /\ call[c].result \in Results
                          /\ DOMAIN call[c] = Locals
  BY RootIsAValue DEF Init, NoLocals, Results, Locals
<1>4. Len(tap) <= TapCap
  BY <1>1, TapCapIsNat
<1> QED
  BY <1>1, <1>2, <1>3, <1>4, RootIsAValue
  DEF Init, TypeInv, TypeOK, Steps, Answers, Results

(* Every step keeps the types. *)
LEMMA TypeStep == TypeInv /\ [Next]_vars => TypeInv'
<1> SUFFICES ASSUME TypeInv, [Next]_vars PROVE TypeInv'
  OBVIOUS
<1> USE DEF TypeInv, shared, values, taps, runtime, history,
            Steps, MutationSteps, SnapshotSteps, Results, Answers
<1>1. ASSUME NEW c \in Calls, NEW v \in Values, create_snapshot(c, v)
      PROVE  TypeInv'
  BY <1>1 DEF create_snapshot, TypeOK, TapIsSeq, LogIsSeq
<1>2. ASSUME NEW c \in Calls, NEW v \in Values, NEW r \in Requests,
             Spawn(c, v, r)
      PROVE  TypeInv'
  <2>1. call'[c] = [call[c] EXCEPT !.val = v, !.req = r]
    BY <1>2 DEF Spawn, TypeOK
  <2>2. DOMAIN call'[c] = Locals
    BY <2>1 DEF TypeOK
  <2> QED
    BY SMTT(30), <1>2, <2>2 DEF Spawn, TypeOK, TapIsSeq, LogIsSeq
<1>3. ASSUME NEW c \in Calls, Lock(c) PROVE TypeInv'
  BY <1>3 DEF Lock, TypeOK, TapIsSeq, LogIsSeq
<1>4. ASSUME NEW c \in Calls, RunJob(c) PROVE TypeInv'
  <2>1. poisoned' \in BOOLEAN
    BY <1>4 DEF RunJob, Job, TypeOK
  <2> QED
    BY <1>4, <2>1 DEF RunJob, TypeOK, TapIsSeq, LogIsSeq
<1>5. ASSUME NEW c \in Calls, Tick(c) PROVE TypeInv'
  BY SMTT(30), <1>5 DEF Tick, TypeOK, TapIsSeq, LogIsSeq
<1>6. ASSUME NEW c \in Calls, Record(c) PROVE TypeInv'
  <2>1. TapIsSeq' /\ Len(tap') <= TapCap
    BY <1>6, TapEventKeepsType DEF Record, AppendEvent, TypeOK
  <2>2. LogIsSeq'
    BY <1>6, AppendKeepsLog DEF Record, AppendEvent
  <2> QED
    BY <1>6, <2>1, <2>2 DEF Record, AppendEvent, Release, Answer, TypeOK
<1>7. ASSUME NEW c \in Calls, Fail(c) PROVE TypeInv'
  BY <1>7 DEF Fail, Release, Answer, TypeOK, TapIsSeq, LogIsSeq
<1>8. ASSUME NEW c \in Calls, LockSnapshot(c) PROVE TypeInv'
  BY <1>8 DEF LockSnapshot, TypeOK, TapIsSeq, LogIsSeq
<1>9. ASSUME NEW c \in Calls, RecordMarker(c) PROVE TypeInv'
  <2>1. TapIsSeq' /\ Len(tap') <= TapCap
    BY <1>9, TapEventKeepsType DEF RecordMarker, AppendEvent, TypeOK
  <2>2. LogIsSeq' /\ Len(log) \in Nat
    BY <1>9, AppendKeepsLog DEF RecordMarker, AppendEvent
  <2> QED
    BY SMTT(30), <1>9, <2>1, <2>2 DEF RecordMarker, AppendEvent, Release, TypeOK
<1>10. ASSUME NEW c \in Calls, InsertSnapshot(c) PROVE TypeInv'
  BY <1>10 DEF InsertSnapshot, Answer, TypeOK, TapIsSeq, LogIsSeq
<1>11. ASSUME NEW c \in Calls, DropFuture(c) PROVE TypeInv'
  BY <1>11 DEF DropFuture, TypeOK, TapIsSeq, LogIsSeq
<1>12. ASSUME NEW c \in Calls, DropSnapshot(c) PROVE TypeInv'
  BY <1>12 DEF DropSnapshot, Release, TypeOK, TapIsSeq, LogIsSeq
<1>13. ASSUME NEW c \in Calls, CancelTask(c) PROVE TypeInv'
  <2>1. unlogged' \in BOOLEAN
    BY <1>13 DEF CancelTask, TypeOK
  <2> QED
    BY <1>13, <2>1 DEF CancelTask, Release, Answer, TypeOK, TapIsSeq, LogIsSeq
<1>14. ASSUME NEW c \in Calls, RunOrphan(c) PROVE TypeInv'
  <2>1. poisoned' \in BOOLEAN /\ unlogged' \in BOOLEAN
    BY <1>14 DEF RunOrphan, Job, TypeOK
  <2> QED
    BY <1>14, <2>1 DEF RunOrphan, TypeOK, TapIsSeq, LogIsSeq
<1>15. ASSUME NEW v \in Values, NEW w \in Values, Clone(v, w) PROVE TypeInv'
  BY <1>15 DEF Clone, TypeOK, TapIsSeq, LogIsSeq
<1>16. CASE Forward
  <2>1. PICK S : tap \in Seq(S)
    BY DEF TapIsSeq
  <2>2. tap' \in Seq(S) /\ Len(tap') <= TapCap
    BY <1>16, <2>1, TapCapIsNat DEF Forward, TypeOK
  <2> QED
    BY <1>16, <2>2 DEF Forward, TypeOK, TapIsSeq, LogIsSeq
<1>17. CASE CloseTap
  <2>1. tap' \in Seq({}) /\ Len(tap') <= TapCap
    BY <1>17, TapCapIsNat DEF CloseTap
  <2> QED
    BY <1>17, <2>1 DEF CloseTap, TypeOK, TapIsSeq, LogIsSeq
<1>18. CASE ShutDown
  BY <1>18 DEF ShutDown, TypeOK, TapIsSeq, LogIsSeq
<1>19. CASE UNCHANGED vars
  BY <1>19 DEF vars, TypeOK, TapIsSeq, LogIsSeq
<1> QED
  BY <1>1, <1>2, <1>3, <1>4, <1>5, <1>6, <1>7, <1>8, <1>9, <1>10, <1>11,
     <1>12, <1>13, <1>14, <1>15, <1>16, <1>17, <1>18, <1>19
  DEF Next, Progress

(* Every step keeps the types: no interleaving of tasks, drops, clones and *)
(* shutdown lets the tap outgrow its channel.                              *)
THEOREM TypeCorrect == Spec => []TypeOK
<1>1. TypeInv => TypeOK
  BY DEF TypeInv
<1> QED
  BY TypeInit, TypeStep, <1>1, PTL DEF Spec

-----------------------------------------------------------------------------
(***************************************************************************)
(* The log replays to the graph.                                           *)
(*                                                                         *)
(* The mutation lock belongs to the one call that is past taking it, so at *)
(* most one change is in the graph and not yet in the log; that change is  *)
(* an outcome of its request on the graph as of the last append, and the   *)
(* replayed log is the view of that graph.                                 *)
(***************************************************************************)
LockInv == \A c \in Calls : Holds(c) <=> mutation = c

InFlight(c) == \E o \in Outcomes(committed, call[c].req) :
                  o.graph = graph /\ o.event = call[c].event

GraphInv ==
    /\ IsGraph(graph) /\ IsGraph(committed)
    /\ ~unlogged => /\ replayed = View(committed)
                    /\ \A c \in Calls : Pending(c) => InFlight(c)
                    /\ (\A c \in Calls : ~Pending(c)) => graph = committed

ReplayInv == TypeInv /\ LockInv /\ GraphInv

(* Every step keeps the lock with the call that holds it. *)
LEMMA LockStep == TypeInv /\ LockInv /\ [Next]_vars => LockInv'
<1> SUFFICES ASSUME TypeInv, LockInv, [Next]_vars PROVE LockInv'
  OBVIOUS
<1> USE NoCallIsNoCall
    DEF TypeInv, TypeOK, LockInv, Holds, MutationSteps, SnapshotSteps, Release
<1>1. ASSUME NEW c \in Calls, NEW v \in Values, create_snapshot(c, v)
      PROVE  LockInv'
  BY <1>1 DEF create_snapshot
<1>2. ASSUME NEW c \in Calls, NEW v \in Values, NEW r \in Requests,
             Spawn(c, v, r)
      PROVE  LockInv'
  BY <1>2 DEF Spawn
<1>3. ASSUME NEW c \in Calls, Progress(c) PROVE LockInv'
  <2>1. CASE Lock(c)
    BY <2>1 DEF Lock
  <2>2. CASE RunJob(c)
    BY <2>2 DEF RunJob
  <2>3. CASE Tick(c)
    BY <2>3 DEF Tick
  <2>4. CASE Record(c)
    BY <2>4 DEF Record
  <2>5. CASE Fail(c)
    BY <2>5 DEF Fail
  <2>6. CASE LockSnapshot(c)
    BY <2>6 DEF LockSnapshot
  <2>7. CASE RecordMarker(c)
    BY <2>7 DEF RecordMarker
  <2>8. CASE InsertSnapshot(c)
    BY <2>8 DEF InsertSnapshot
  <2> QED
    BY <1>3, <2>1, <2>2, <2>3, <2>4, <2>5, <2>6, <2>7, <2>8 DEF Progress
<1>4. ASSUME NEW c \in Calls, DropFuture(c) PROVE LockInv'
  BY <1>4 DEF DropFuture
<1>5. ASSUME NEW c \in Calls, DropSnapshot(c) PROVE LockInv'
  BY <1>5 DEF DropSnapshot
<1>6. ASSUME NEW c \in Calls, CancelTask(c) PROVE LockInv'
  BY <1>6 DEF CancelTask
<1>7. ASSUME NEW c \in Calls, RunOrphan(c) PROVE LockInv'
  BY <1>7 DEF RunOrphan
<1>8. ASSUME NEW v \in Values, NEW w \in Values, Clone(v, w) PROVE LockInv'
  BY <1>8 DEF Clone
<1>9. CASE Forward \/ CloseTap \/ ShutDown \/ UNCHANGED vars
  BY <1>9 DEF Forward, CloseTap, ShutDown, vars
<1> QED
  BY <1>1, <1>2, <1>3, <1>4, <1>5, <1>6, <1>7, <1>8, <1>9 DEF Next

(* A step that leaves the graph, the history and every pending change      *)
(* alone keeps GraphInv.                                                   *)
LEMMA QuietStep ==
    ASSUME GraphInv, UNCHANGED <<graph, committed, replayed, unlogged>>,
           \A d \in Calls : Pending(d)' <=> Pending(d),
           \A d \in Calls : Pending(d) => /\ call'[d].event = call[d].event
                                         /\ call'[d].req = call[d].req
    PROVE  GraphInv'
BY DEF GraphInv, InFlight

(* Every step keeps the replayed log the view of the committed graph. *)
LEMMA GraphStep == TypeInv /\ LockInv /\ GraphInv /\ [Next]_vars => GraphInv'
<1> SUFFICES ASSUME TypeInv, LockInv, GraphInv, [Next]_vars PROVE GraphInv'
  OBVIOUS
<1> USE DEF shared, values, taps, runtime, history
<1>1. ASSUME NEW c \in Calls, NEW v \in Values, create_snapshot(c, v)
      PROVE  GraphInv'
  BY <1>1, QuietStep DEF create_snapshot, TypeInv, TypeOK, Pending
<1>2. ASSUME NEW c \in Calls, NEW v \in Values, NEW r \in Requests,
             Spawn(c, v, r)
      PROVE  GraphInv'
  BY <1>2, QuietStep DEF Spawn, TypeInv, TypeOK, Pending
<1>3. ASSUME NEW c \in Calls, Lock(c) PROVE GraphInv'
  BY <1>3, QuietStep DEF Lock, TypeInv, TypeOK, Pending
<1>4. ASSUME NEW c \in Calls, RunJob(c) PROVE GraphInv'
  <2>1. \A d \in Calls : ~Pending(d)
    BY <1>4 DEF RunJob, LockInv, Holds, Pending
  <2>2. \A d \in Calls \ {c} : ~Pending(d)'
    BY <1>4, <2>1 DEF RunJob, TypeInv, TypeOK, Pending
  <2>3. PICK result \in Results, event \in JobEvents(call[c].req) :
          /\ Job(call[c].req, result, event)
          /\ call' = [call EXCEPT ![c] = [@ EXCEPT !.result = result,
                                                   !.event = event]]
    BY <1>4 DEF RunJob
  <2>4. call'[c].result = result /\ pc'[c] = "returned"
    <3>1. call'[c] = [call[c] EXCEPT !.result = result, !.event = event]
      BY <2>3 DEF TypeInv, TypeOK
    <3>2. pc'[c] = "returned"
      BY <1>4 DEF RunJob, TypeInv, TypeOK
    <3> QED
      BY <3>1, <3>2 DEF TypeInv, TypeOK, Locals
  <2>5. UNCHANGED <<committed, replayed, unlogged>>
    BY <1>4 DEF RunJob
  <2>6. CASE result # "ok"
    <3>1. ~Pending(c)' /\ graph' = graph
      BY <2>3, <2>4, <2>6 DEF Pending, Job
    <3> QED
      BY <2>1, <2>2, <2>5, <3>1 DEF GraphInv
  <2>7. CASE result = "ok"
    <3>1. PICK o \in Outcomes(graph, call[c].req) :
              graph' = o.graph /\ event = o.event
      BY <2>3, <2>7 DEF Job
    <3>2. IsGraph(graph')
      BY <3>1, OutcomeIsGraph DEF GraphInv
    <3>3. call'[c].event = event /\ call'[c].req = call[c].req
      BY <2>3 DEF TypeInv, TypeOK
    <3>4. ~unlogged => InFlight(c)'
      BY <2>1, <2>5, <3>1, <3>3 DEF GraphInv, InFlight
    <3>5. Pending(c)'
      BY <2>4, <2>7 DEF Pending
    <3> QED
      BY <2>2, <2>5, <3>2, <3>4, <3>5 DEF GraphInv
  <2> QED
    BY <2>6, <2>7
<1>5. ASSUME NEW c \in Calls, Tick(c) PROVE GraphInv'
  BY <1>5, QuietStep DEF Tick, TypeInv, TypeOK, Pending
<1>6. ASSUME NEW c \in Calls, Record(c) PROVE GraphInv'
  <2>1. \A d \in Calls : ~Pending(d)'
    <3>1. \A d \in Calls \ {c} : ~Pending(d)
      BY <1>6 DEF Record, LockInv, Holds, Pending
    <3>2. pc' = [pc EXCEPT ![c] = "done"] /\ call' = call
      BY <1>6 DEF Record
    <3> QED
      BY <3>1, <3>2 DEF Pending, TypeInv, TypeOK
  <2>2. committed' = graph /\ graph' = graph /\ unlogged' = unlogged
    BY <1>6 DEF Record
  <2>3. ASSUME ~unlogged PROVE replayed' = View(graph)
    <3>1. PICK o \in Outcomes(committed, call[c].req) :
              o.graph = graph /\ o.event = call[c].event
      BY <1>6, <2>3 DEF Record, Pending, GraphInv, InFlight
    <3>2. replayed' = Replay(View(committed), o.event)
      BY <1>6, <2>3, <3>1 DEF Record, AppendEvent, GraphInv
    <3> QED
      BY <3>1, <3>2, ReplayAgrees DEF GraphInv
  <2> QED
    BY <2>1, <2>2, <2>3 DEF GraphInv
<1>7. ASSUME NEW c \in Calls, Fail(c) PROVE GraphInv'
  BY <1>7, QuietStep DEF Fail, TypeInv, TypeOK, Pending
<1>8. ASSUME NEW c \in Calls, LockSnapshot(c) PROVE GraphInv'
  BY <1>8, QuietStep DEF LockSnapshot, TypeInv, TypeOK, Pending
<1>9. ASSUME NEW c \in Calls, RecordMarker(c) PROVE GraphInv'
  <2>1. replayed' = replayed
    BY <1>9 DEF RecordMarker, AppendEvent, Replay
  <2> QED
    BY <1>9, <2>1, QuietStep DEF RecordMarker, TypeInv, TypeOK, Pending
<1>10. ASSUME NEW c \in Calls, InsertSnapshot(c) PROVE GraphInv'
  BY <1>10, QuietStep DEF InsertSnapshot, TypeInv, TypeOK, Pending
<1>11. ASSUME NEW c \in Calls, DropFuture(c) PROVE GraphInv'
  BY <1>11, QuietStep DEF DropFuture, Pending
<1>12. ASSUME NEW c \in Calls, DropSnapshot(c) PROVE GraphInv'
  BY <1>12, QuietStep DEF DropSnapshot, SnapshotSteps, TypeInv, TypeOK, Pending
<1>13. ASSUME NEW c \in Calls, CancelTask(c) PROVE GraphInv'
  <2>1. CASE Pending(c)
    <3>1. unlogged'
      BY <1>13, <2>1 DEF CancelTask, Pending
    <3> QED
      BY <1>13, <3>1 DEF CancelTask, GraphInv
  <2>2. CASE ~Pending(c)
    <3>1. unlogged' = unlogged
      BY <1>13, <2>2 DEF CancelTask, Pending, TypeInv, TypeOK
    <3> QED
      BY <1>13, <2>2, <3>1, QuietStep DEF CancelTask, Pending, TypeInv, TypeOK
  <2> QED
    BY <2>1, <2>2
<1>14. ASSUME NEW c \in Calls, RunOrphan(c) PROVE GraphInv'
  <2>1. PICK result \in Results, event \in JobEvents(call[c].req) :
          /\ Job(call[c].req, result, event)
          /\ unlogged' = (unlogged \/ result = "ok")
    BY <1>14 DEF RunOrphan
  <2>2. CASE result # "ok"
    <3>1. graph' = graph /\ unlogged' = unlogged
      BY <2>1, <2>2 DEF Job, TypeInv, TypeOK
    <3> QED
      BY <1>14, <3>1, QuietStep DEF RunOrphan, Pending
  <2>3. CASE result = "ok"
    <3>1. PICK o \in Outcomes(graph, call[c].req) : graph' = o.graph
      BY <2>1, <2>3 DEF Job
    <3>2. IsGraph(graph') /\ unlogged'
      BY <2>1, <2>3, <3>1, OutcomeIsGraph DEF GraphInv
    <3> QED
      BY <1>14, <3>2 DEF RunOrphan, GraphInv
  <2> QED
    BY <2>2, <2>3
<1>15. ASSUME NEW v \in Values, NEW w \in Values, Clone(v, w) PROVE GraphInv'
  BY <1>15, QuietStep DEF Clone, Pending
<1>16. CASE Forward \/ CloseTap \/ ShutDown \/ UNCHANGED vars
  BY <1>16, QuietStep DEF Forward, CloseTap, ShutDown, vars, Pending
<1> QED
  BY <1>1, <1>2, <1>3, <1>4, <1>5, <1>6, <1>7, <1>8, <1>9, <1>10, <1>11,
     <1>12, <1>13, <1>14, <1>15, <1>16 DEF Next, Progress

(* Replaying the log gives the graph, over any interleaving of the task,   *)
(* pool and snapshot steps of any number of calls, failed and panicking    *)
(* jobs, dropped futures and clones, until a shutdown of the runtime       *)
(* separates a change from its event.                                      *)
THEOREM LogAlwaysReplays == Spec => []LogReplaysGraph
<1>1. Init => ReplayInv
  <2> SUFFICES ASSUME Init PROVE LockInv /\ GraphInv
    BY TypeInit DEF ReplayInv
  <2>1. \A c \in Calls : pc[c] = "idle"
    BY DEF Init
  <2>2. LockInv
    BY <2>1, NoCallIsNoCall DEF Init, LockInv, Holds
  <2>3. GraphInv
    BY <2>1, GraphsAreGraphs DEF Init, GraphInv, Pending
  <2> QED
    BY <2>2, <2>3
<1>2. ReplayInv /\ [Next]_vars => ReplayInv'
  BY TypeStep, LockStep, GraphStep DEF ReplayInv
<1>3. ReplayInv => LogReplaysGraph
  BY DEF ReplayInv, GraphInv, LogReplaysGraph
<1> QED
  BY <1>1, <1>2, <1>3, PTL DEF Spec

-----------------------------------------------------------------------------
(***************************************************************************)
(* What the log says: each call's answer against it, the snapshots and the *)
(* tap that follow it, the poison that stops it, and the refinement of the *)
(* atomic EventSourcedGraph by the steps of the tasks.                     *)
(***************************************************************************)
LEMMA TypesHold == Spec => [](TypeInv /\ LockInv)
<1>1. Init => LockInv
  BY NoCallIsNoCall DEF Init, LockInv, Holds
<1> QED
  BY <1>1, TypeInit, TypeStep, LockStep, PTL DEF Spec

(* A step either appends the one entry of a call that is about to record,  *)
(* or leaves the log alone.                                                *)
Recording(c) ==
    \/ Record(c) /\ log' = Append(log, Entry(c, call[c].event))
    \/ /\ RecordMarker(c)
       /\ log' = Append(log, Entry(c, [type |-> "SnapshotMarker",
                                       id |-> call[c].id]))

(* Only a call that records changes the log. *)
LEMMA LogGrows ==
    ASSUME [Next]_vars
    PROVE  log' = log \/ \E c \in Calls : Recording(c)
<1> USE DEF shared, history
<1>1. ASSUME NEW c \in Calls, Progress(c)
      PROVE  log' = log \/ Recording(c)
  BY <1>1 DEF Progress, Recording, Lock, RunJob, Tick, Record, Fail,
              LockSnapshot, RecordMarker, InsertSnapshot, AppendEvent
<1>2. ASSUME NEW c \in Calls,
             \/ \E v \in Values : create_snapshot(c, v)
             \/ \E v \in Values, r \in Requests : Spawn(c, v, r)
             \/ DropFuture(c) \/ DropSnapshot(c)
             \/ CancelTask(c) \/ RunOrphan(c)
      PROVE  log' = log
  BY <1>2 DEF create_snapshot, Spawn, DropFuture, DropSnapshot, CancelTask,
              RunOrphan
<1>3. ASSUME NEW v \in Values, NEW w \in Values, Clone(v, w) PROVE log' = log
  BY <1>3 DEF Clone
<1>4. CASE Forward \/ CloseTap \/ ShutDown \/ UNCHANGED vars
  BY <1>4 DEF Forward, CloseTap, ShutDown, vars
<1> QED
  BY <1>1, <1>2, <1>3, <1>4 DEF Next

-----------------------------------------------------------------------------
(***************************************************************************)
(* Answers.  A call is in the log only past its append, a snapshot that is *)
(* past it is there, and a call that has its answer takes no more steps.   *)
(***************************************************************************)
Logged(c) == \E i \in DOMAIN log : log[i].call = c

LogsOnce == \A i, j \in DOMAIN log : log[i].call = log[j].call => i = j

CallInv(c) ==
    /\ Logged(c) => pc[c] \in {"snap_recorded", "done"}
    /\ pc[c] = "snap_recorded" => Logged(c)
    /\ answer[c] \notin {"none", "dropped"} => pc[c] = "done"
    /\ answer[c] = "ok" => Logged(c)
    /\ answer[c] \in {"error", "poisoned", "panicked", "cancelled"}
          => ~Logged(c)

AnswerInv == LogsOnce /\ \A c \in Calls : CallInv(c)

(* A call that records logs its own event, once. *)
LEMMA RecordingLogs ==
    ASSUME TypeInv, NEW c \in Calls, Recording(c)
    PROVE  /\ \A d : Logged(d)' <=> (Logged(d) \/ d = c)
           /\ AnswerInv => LogsOnce'
<1>1. PICK entry : log' = Append(log, entry) /\ entry.call = c
  BY DEF Recording, Entry
<1>2. /\ DOMAIN log = 1..Len(log) /\ DOMAIN log' = 1..(Len(log) + 1)
      /\ Len(log) \in Nat
      /\ \A i \in DOMAIN log : log'[i] = log[i]
      /\ log'[Len(log) + 1] = entry
  BY <1>1, AppendKeepsLog DEF TypeInv
<1>3. ASSUME NEW d PROVE Logged(d)' <=> (Logged(d) \/ d = c)
  BY <1>1, <1>2 DEF Logged
<1>4. ASSUME AnswerInv PROVE LogsOnce'
  <2>1. ~Logged(c)
    BY <1>4 DEF AnswerInv, CallInv, Recording, Record, RecordMarker
  <2>2. \A i \in DOMAIN log : log'[i].call # c
    BY <2>1, <1>2 DEF Logged
  <2> QED
    BY <1>1, <1>2, <2>2, <1>4 DEF AnswerInv, LogsOnce
<1> QED
  BY <1>3, <1>4

(* Every step keeps the answers in step with the log. *)
LEMMA AnswerStep == TypeInv /\ AnswerInv /\ [Next]_vars => AnswerInv'
<1> SUFFICES ASSUME TypeInv, AnswerInv, [Next]_vars PROVE AnswerInv'
  OBVIOUS
<1>1. ASSUME NEW c \in Calls, Recording(c) PROVE AnswerInv'
  <2>1. \A d : Logged(d)' <=> (Logged(d) \/ d = c)
    BY <1>1, RecordingLogs
  <2>2. ASSUME NEW d \in Calls, d # c PROVE CallInv(d)'
    <3>1. pc'[d] = pc[d] /\ answer'[d] = answer[d] /\ (Logged(d)' <=> Logged(d))
      BY <1>1, <2>1, <2>2
      DEF Recording, Record, RecordMarker, Answer, TypeInv, TypeOK
    <3> QED
      BY <3>1 DEF AnswerInv, CallInv
  <2>3. CallInv(c)'
    <3>1. Logged(c)'
      BY <2>1
    <3>2. CASE Record(c)
      <4>1. answer[c] \in {"none", "dropped"}
        BY <3>2 DEF Record, AnswerInv, CallInv
      <4>2. pc'[c] = "done" /\ answer'[c] \in {"ok", "dropped"}
        BY <3>2, <4>1 DEF Record, Answer, TypeInv, TypeOK
      <4> QED
        BY <3>1, <4>2 DEF CallInv
    <3>3. CASE RecordMarker(c)
      <4>1. answer[c] \in {"none", "dropped"} /\ answer' = answer
        BY <3>3 DEF RecordMarker, AnswerInv, CallInv
      <4>2. pc'[c] = "snap_recorded"
        BY <3>3 DEF RecordMarker, TypeInv, TypeOK
      <4> QED
        BY <3>1, <4>1, <4>2 DEF CallInv
    <3> QED
      BY <1>1, <3>2, <3>3 DEF Recording
  <2> QED
    BY <1>1, <2>2, <2>3, RecordingLogs DEF AnswerInv
<1>2. ASSUME log' = log PROVE AnswerInv'
  <2>0. /\ LogsOnce' /\ \A d : Logged(d)' <=> Logged(d)
    BY <1>2 DEF AnswerInv, LogsOnce, Logged
  <2> SUFFICES ASSUME NEW d \in Calls PROVE CallInv(d)'
    BY <2>0 DEF AnswerInv
  <2>1. CASE pc'[d] = pc[d] /\ answer'[d] = answer[d]
    BY <2>0, <2>1 DEF AnswerInv, CallInv
  <2>2. ASSUME NEW c \in Calls, NEW v \in Values, create_snapshot(c, v)
        PROVE  CallInv(d)'
    BY <2>0, <2>2 DEF create_snapshot, AnswerInv, CallInv, TypeInv, TypeOK
  <2>3. ASSUME NEW c \in Calls, NEW v \in Values, NEW r \in Requests,
               Spawn(c, v, r)
        PROVE  CallInv(d)'
    BY <2>0, <2>3 DEF Spawn, AnswerInv, CallInv, TypeInv, TypeOK
  <2>4. ASSUME NEW c \in Calls, Lock(c) \/ RunJob(c) \/ Tick(c)
        PROVE  CallInv(d)'
    BY <2>0, <2>4 DEF Lock, RunJob, Tick, AnswerInv, CallInv, TypeInv, TypeOK
  <2>5. ASSUME NEW c \in Calls, Fail(c) PROVE CallInv(d)'
    <3>1. CASE d # c
      BY <2>1, <2>5, <3>1 DEF Fail, Answer, TypeInv, TypeOK
    <3>2. CASE d = c
      <4>1. answer[c] \in {"none", "dropped"} /\ ~Logged(c)
        BY <2>5 DEF Fail, AnswerInv, CallInv
      <4>2. pc'[c] = "done" /\ answer'[c] # "ok"
        BY <2>5, <4>1 DEF Fail, Answer, TypeInv, TypeOK
      <4> QED
        BY <2>0, <3>2, <4>1, <4>2 DEF CallInv
    <3> QED
      BY <3>1, <3>2
  <2>6. ASSUME NEW c \in Calls, LockSnapshot(c) PROVE CallInv(d)'
    BY <2>0, <2>6 DEF LockSnapshot, AnswerInv, CallInv, TypeInv, TypeOK
  <2>7. ASSUME NEW c \in Calls, InsertSnapshot(c) PROVE CallInv(d)'
    <3>1. CASE d # c
      BY <2>1, <2>7, <3>1 DEF InsertSnapshot, Answer, TypeInv, TypeOK
    <3>2. CASE d = c
      <4>1. answer[c] \in {"none", "dropped"} /\ Logged(c)
        BY <2>7 DEF InsertSnapshot, AnswerInv, CallInv
      <4>2. pc'[c] = "done" /\ answer'[c] \in {"ok", "dropped"}
        BY <2>7, <4>1 DEF InsertSnapshot, Answer, TypeInv, TypeOK
      <4> QED
        BY <2>0, <3>2, <4>1, <4>2 DEF CallInv
    <3> QED
      BY <3>1, <3>2
  <2>8. ASSUME NEW c \in Calls, DropFuture(c) PROVE CallInv(d)'
    BY <2>0, <2>8 DEF DropFuture, AnswerInv, CallInv, TypeInv, TypeOK
  <2>9. ASSUME NEW c \in Calls, DropSnapshot(c) PROVE CallInv(d)'
    BY <2>0, <2>9 DEF DropSnapshot, AnswerInv, CallInv, TypeInv, TypeOK
  <2>10. ASSUME NEW c \in Calls, CancelTask(c) PROVE CallInv(d)'
    <3>1. CASE d # c
      BY <2>1, <2>10, <3>1 DEF CancelTask, Answer, TypeInv, TypeOK
    <3>2. CASE d = c
      <4>1. answer[c] \in {"none", "dropped"} /\ ~Logged(c)
        BY <2>10 DEF CancelTask, MutationSteps, AnswerInv, CallInv
      <4>2. pc'[c] = "done" /\ answer'[c] \in {"cancelled", "dropped"}
        BY <2>10, <4>1 DEF CancelTask, Answer, TypeInv, TypeOK
      <4> QED
        BY <2>0, <3>2, <4>1, <4>2 DEF CallInv
    <3> QED
      BY <3>1, <3>2
  <2>11. ASSUME NEW c \in Calls, RunOrphan(c) PROVE CallInv(d)'
    BY <2>1, <2>11 DEF RunOrphan
  <2>12. ASSUME NEW v \in Values, NEW w \in Values, Clone(v, w)
         PROVE  CallInv(d)'
    BY <2>1, <2>12 DEF Clone
  <2>13. CASE Forward \/ CloseTap \/ ShutDown \/ UNCHANGED vars
    BY <2>1, <2>13 DEF Forward, CloseTap, ShutDown, vars
  <2>14. ASSUME NEW c \in Calls, Record(c) \/ RecordMarker(c)
         PROVE  CallInv(d)'
    <3>1. Recording(c)
      BY <2>14 DEF Recording, Record, RecordMarker, AppendEvent
    <3> QED
      BY <1>1, <3>1 DEF AnswerInv
  <2> QED
    BY <2>2, <2>3, <2>4, <2>5, <2>6, <2>7, <2>8, <2>9, <2>10, <2>11, <2>12,
       <2>13, <2>14 DEF Next, Progress
<1> QED
  BY <1>1, <1>2, LogGrows

(***************************************************************************)
(* A caller is told what is in the log: one event if its mutation was      *)
(* applied, none if it failed, panicked or was cancelled, and no call ever *)
(* records twice (TemporalHypergraph::mutate and create_snapshot).         *)
(***************************************************************************)
THEOREM AnswersAlwaysMatchLog == Spec => []AnswersMatchLog
<1>1. Init => AnswerInv
  BY DEF Init, AnswerInv, LogsOnce, CallInv, Logged
<1>2. AnswerInv => AnswersMatchLog
  BY DEF AnswerInv, LogsOnce, CallInv, Logged, AnswersMatchLog
<1> QED
  BY <1>1, <1>2, AnswerStep, TypesHold, PTL DEF Spec

-----------------------------------------------------------------------------
(***************************************************************************)
(* Followers.  A marker stays where it was appended, also while the        *)
(* snapshot waits to be put into the map; the tap is fed under the log's   *)
(* guard, with an entry that was not in the log before.                    *)
(***************************************************************************)
MarkerAt(index, ts, id) ==
    /\ index + 1 \in DOMAIN log
    /\ log[index + 1].ts = ts
    /\ log[index + 1].event = [type |-> "SnapshotMarker", id |-> id]

SnapshotInv ==
    /\ \A c \in Calls : pc[c] = "snap_recorded" =>
          MarkerAt(call[c].index, call[c].ts, call[c].id)
    /\ \A t \in DOMAIN snapshots :
          MarkerAt(snapshots[t].index, t, snapshots[t].id)

(* A marker in the log stays where it is. *)
LEMMA MarkersStay ==
    ASSUME TypeInv, [Next]_vars, NEW index, NEW ts, NEW id,
           MarkerAt(index, ts, id)
    PROVE  MarkerAt(index, ts, id)'
<1>1. CASE log' = log
  BY <1>1 DEF MarkerAt
<1>2. ASSUME NEW entry, log' = Append(log, entry)
      PROVE  MarkerAt(index, ts, id)'
  <2>1. /\ DOMAIN log = 1..Len(log) /\ DOMAIN log' = 1..(Len(log) + 1)
        /\ Len(log) \in Nat
        /\ \A i \in DOMAIN log : log'[i] = log[i]
    BY <1>2, AppendKeepsLog DEF TypeInv
  <2>2. index + 1 \in DOMAIN log'
    BY <2>1 DEF MarkerAt
  <2> QED
    BY <2>1, <2>2 DEF MarkerAt
<1> QED
  BY <1>1, <1>2, LogGrows DEF Recording

(* Every step keeps the snapshots at their markers. *)
LEMMA SnapshotStep == TypeInv /\ SnapshotInv /\ [Next]_vars => SnapshotInv'
<1> SUFFICES ASSUME TypeInv, SnapshotInv, [Next]_vars PROVE SnapshotInv'
  OBVIOUS
<1> USE DEF shared
<1>1. \A index, ts, id : MarkerAt(index, ts, id) => MarkerAt(index, ts, id)'
  BY MarkersStay
<1>2. ASSUME snapshots' = snapshots,
             \A c \in Calls : pc'[c] = "snap_recorded" =>
                pc[c] = "snap_recorded" /\ call'[c] = call[c]
      PROVE  SnapshotInv'
  BY <1>1, <1>2 DEF SnapshotInv, MarkerAt
<1>3. ASSUME NEW c \in Calls, NEW v \in Values, create_snapshot(c, v)
      PROVE  SnapshotInv'
  BY <1>2, <1>3 DEF create_snapshot, TypeInv, TypeOK
<1>4. ASSUME NEW c \in Calls, NEW v \in Values, NEW r \in Requests,
             Spawn(c, v, r)
      PROVE  SnapshotInv'
  BY <1>2, <1>4 DEF Spawn, TypeInv, TypeOK
<1>5. ASSUME NEW c \in Calls,
             \/ Lock(c) \/ RunJob(c) \/ Tick(c) \/ Record(c) \/ Fail(c)
             \/ LockSnapshot(c)
      PROVE  SnapshotInv'
  BY <1>2, <1>5 DEF Lock, RunJob, Tick, Record, Fail, LockSnapshot, TypeInv,
                    TypeOK
<1>6. ASSUME NEW c \in Calls, RecordMarker(c) PROVE SnapshotInv'
  <2>1. /\ snapshots' = snapshots
        /\ call' = [call EXCEPT ![c].index = Len(log)]
        /\ pc' = [pc EXCEPT ![c] = "snap_recorded"]
        /\ log' = Append(log, Entry(c, [type |-> "SnapshotMarker",
                                        id |-> call[c].id]))
    BY <1>6 DEF RecordMarker, AppendEvent
  <2>2. /\ log'[Len(log) + 1] = Entry(c, [type |-> "SnapshotMarker",
                                          id |-> call[c].id])
        /\ Len(log) + 1 \in DOMAIN log'
    BY <2>1, AppendKeepsLog DEF TypeInv
  <2>3. /\ call'[c].index = Len(log) /\ call'[c].ts = call[c].ts
        /\ call'[c].id = call[c].id
    BY <2>1 DEF TypeInv, TypeOK, Locals
  <2>4. MarkerAt(call[c].index, call[c].ts, call[c].id)'
    BY <2>2, <2>3 DEF MarkerAt, Entry
  <2>5. ASSUME NEW d \in Calls, d # c, pc'[d] = "snap_recorded"
        PROVE  MarkerAt(call[d].index, call[d].ts, call[d].id)'
    <3>1. pc[d] = "snap_recorded" /\ call'[d] = call[d]
      BY <2>1, <2>5 DEF TypeInv, TypeOK
    <3>2. MarkerAt(call[d].index, call[d].ts, call[d].id)
      BY <3>1 DEF SnapshotInv
    <3> QED
      BY <1>1, <3>1, <3>2 DEF MarkerAt
  <2>6. \A t \in DOMAIN snapshots' :
           MarkerAt(snapshots[t].index, t, snapshots[t].id)'
    BY <1>1, <2>1 DEF SnapshotInv, MarkerAt
  <2> QED
    BY <2>4, <2>5, <2>6 DEF SnapshotInv
<1>7. ASSUME NEW c \in Calls, InsertSnapshot(c) PROVE SnapshotInv'
  <2>1. /\ snapshots' = Put(snapshots, call[c].ts,
                            [id |-> call[c].id, index |-> call[c].index])
        /\ pc[c] = "snap_recorded" /\ pc' = [pc EXCEPT ![c] = "done"]
        /\ UNCHANGED <<log, call>>
    BY <1>7 DEF InsertSnapshot
  <2>2. MarkerAt(call[c].index, call[c].ts, call[c].id)
    BY <2>1 DEF SnapshotInv
  <2>3. ASSUME NEW t \in DOMAIN snapshots'
        PROVE  MarkerAt(snapshots[t].index, t, snapshots[t].id)'
    <3>1. CASE t = call[c].ts
      <4>1. /\ snapshots'[t].index = call[c].index
            /\ snapshots'[t].id = call[c].id
        BY <2>1, <3>1 DEF Put
      <4> QED
        BY <2>1, <2>2, <3>1, <4>1 DEF MarkerAt
    <3>2. CASE t # call[c].ts
      <4>1. t \in DOMAIN snapshots /\ snapshots'[t] = snapshots[t]
        BY <2>1, <2>3, <3>2 DEF Put
      <4> QED
        BY <2>1, <4>1 DEF SnapshotInv, MarkerAt
    <3> QED
      BY <3>1, <3>2
  <2>4. ASSUME NEW d \in Calls, pc'[d] = "snap_recorded"
        PROVE  MarkerAt(call[d].index, call[d].ts, call[d].id)'
    <3>1. pc[d] = "snap_recorded" /\ call'[d] = call[d]
      BY <2>1, <2>4 DEF TypeInv, TypeOK
    <3> QED
      BY <2>1, <3>1 DEF SnapshotInv, MarkerAt
  <2> QED
    BY <2>3, <2>4 DEF SnapshotInv
<1>8. ASSUME NEW c \in Calls,
             DropFuture(c) \/ DropSnapshot(c) \/ CancelTask(c) \/ RunOrphan(c)
      PROVE  SnapshotInv'
  BY <1>2, <1>8 DEF DropFuture, DropSnapshot, CancelTask, RunOrphan, TypeInv,
                    TypeOK
<1>9. ASSUME NEW v \in Values, NEW w \in Values, Clone(v, w)
      PROVE  SnapshotInv'
  BY <1>2, <1>9 DEF Clone
<1>10. CASE Forward \/ CloseTap \/ ShutDown \/ UNCHANGED vars
  BY <1>2, <1>10 DEF Forward, CloseTap, ShutDown, vars
<1> QED
  BY <1>3, <1>4, <1>5, <1>6, <1>7, <1>8, <1>9, <1>10 DEF Next, Progress

(* The entries of s are entries of the log lg, in its order. *)
Follows(lg, s) ==
    \A i \in DOMAIN s :
        \E k \in DOMAIN lg :
            /\ lg[k] = s[i]
            /\ \A j \in 1..(i - 1), l \in DOMAIN lg : lg[l] = s[j] => l < k

(* A follower of a log still follows it when either or both grow. *)
LEMMA FollowsGrowth ==
    ASSUME NEW S, NEW lg \in Seq(S), NEW s \in Seq(S), NEW e \in S,
           Follows(lg, s), \A i \in DOMAIN lg : lg[i] # e
    PROVE  Follows(Append(lg, e), s) /\ Follows(Append(lg, e), Append(s, e))
<1> DEFINE more == Append(lg, e)
           n == Len(lg)
           t == Append(s, e)
           m == Len(s)
<1>1. /\ DOMAIN lg = 1..n /\ DOMAIN more = 1..(n + 1) /\ n \in Nat
      /\ \A i \in 1..n : more[i] = lg[i]
      /\ more[n + 1] = e
  OBVIOUS
<1>2. /\ DOMAIN s = 1..m /\ DOMAIN t = 1..(m + 1) /\ m \in Nat
      /\ \A i \in 1..m : t[i] = s[i]
      /\ t[m + 1] = e
  OBVIOUS
<1> HIDE DEF more, n, t, m
<1>3. \A i \in 1..m : s[i] # e
  BY <1>1, <1>2 DEF Follows
<1>4. ASSUME NEW i \in 1..m
      PROVE  \E k \in 1..n :
                /\ more[k] = s[i]
                /\ \A j \in 1..(i - 1), l \in 1..(n + 1) :
                      more[l] = s[j] => l < k
  <2>1. PICK k \in 1..n :
             /\ lg[k] = s[i]
             /\ \A j \in 1..(i - 1), l \in 1..n : lg[l] = s[j] => l < k
    BY <1>1, <1>2 DEF Follows
  <2>2. ASSUME NEW j \in 1..(i - 1), NEW l \in 1..(n + 1), more[l] = s[j]
        PROVE  l < k
    <3>1. j \in 1..m /\ s[j] # e
      BY <1>2, <1>3
    <3>2. l \in 1..n /\ lg[l] = s[j]
      BY <1>1, <2>2, <3>1
    <3> QED
      BY <2>1, <3>2
  <2> QED
    BY <1>1, <2>1, <2>2
<1>5. Follows(more, s)
  <2> SUFFICES ASSUME NEW i \in DOMAIN s
               PROVE  \E k \in DOMAIN more :
                         /\ more[k] = s[i]
                         /\ \A j \in 1..(i - 1), l \in DOMAIN more :
                               more[l] = s[j] => l < k
    BY DEF Follows
  <2>1. PICK k \in 1..n :
             /\ more[k] = s[i]
             /\ \A j \in 1..(i - 1), l \in 1..(n + 1) : more[l] = s[j] => l < k
    BY <1>2, <1>4
  <2>2. k \in DOMAIN more
    BY <1>1
  <2> QED
    BY <1>1, <2>1, <2>2
<1>6. Follows(more, t)
  <2> SUFFICES ASSUME NEW i \in DOMAIN t
               PROVE  \E k \in DOMAIN more :
                         /\ more[k] = t[i]
                         /\ \A j \in 1..(i - 1), l \in DOMAIN more :
                               more[l] = t[j] => l < k
    BY DEF Follows
  <2>1. CASE i \in 1..m
    <3>1. PICK k \in 1..n :
               /\ more[k] = s[i]
               /\ \A j \in 1..(i - 1), l \in 1..(n + 1) :
                     more[l] = s[j] => l < k
      BY <1>4, <2>1
    <3>2. k \in DOMAIN more /\ t[i] = s[i]
      BY <1>1, <1>2, <2>1
    <3>3. \A j \in 1..(i - 1) : t[j] = s[j]
      BY <1>2, <2>1
    <3> QED
      BY <1>1, <3>1, <3>2, <3>3
  <2>2. CASE i = m + 1
    <3>1. ASSUME NEW j \in 1..(i - 1), NEW l \in DOMAIN more, more[l] = t[j]
          PROVE  l < n + 1
      <4>1. j \in 1..m /\ t[j] # e
        BY <1>2, <1>3, <2>2
      <4> QED
        BY <1>1, <3>1, <4>1
    <3>2. n + 1 \in DOMAIN more /\ more[n + 1] = t[i]
      BY <1>1, <1>2, <2>2
    <3> QED
      BY <3>1, <3>2
  <2> QED
    BY <1>2, <2>1, <2>2
<1> QED
  BY <1>5, <1>6 DEF more, t

(* The log, the channel and what left it are sequences of entries. *)
EntrySeqs == \E S : log \in Seq(S) /\ tap \in Seq(S) /\ forwarded \in Seq(S)

TapInv == EntrySeqs /\ Follows(log, forwarded \o tap)

(* Moving the head of one list to the end of another keeps their sum. *)
LEMMA MoveHead ==
    ASSUME NEW S, NEW s \in Seq(S), NEW t \in Seq(S), t # <<>>
    PROVE  Append(s, Head(t)) \o Tail(t) = s \o t
<1> DEFINE a == Append(s, Head(t)) \o Tail(t)
           b == s \o t
<1>1. /\ Append(s, Head(t)) \in Seq(S) /\ Tail(t) \in Seq(S)
      /\ Len(Append(s, Head(t))) = Len(s) + 1
      /\ Len(t) \in Nat \ {0} /\ Len(Tail(t)) = Len(t) - 1
      /\ Len(s) \in Nat
      /\ \A i \in 1..Len(s) : Append(s, Head(t))[i] = s[i]
      /\ Append(s, Head(t))[Len(s) + 1] = t[1]
      /\ \A i \in 1..(Len(t) - 1) : Tail(t)[i] = t[i + 1]
  OBVIOUS
<1>2. a \in Seq(S) /\ b \in Seq(S) /\ Len(a) = Len(b)
  BY <1>1
<1>3. ASSUME NEW i \in 1..Len(a) PROVE a[i] = b[i]
  BY <1>1
<1> QED
  BY <1>2, <1>3

(* tap_event under the log's guard: the new entry goes last on both sides. *)
LEMMA TapEntryStep ==
    ASSUME TapInv, NEW entry, \A i \in DOMAIN log : log[i] # entry,
           log' = Append(log, entry), tap_event(entry), forwarded' = forwarded
    PROVE  TapInv'
<1>1. PICK S0 : log \in Seq(S0) /\ tap \in Seq(S0) /\ forwarded \in Seq(S0)
  BY DEF TapInv, EntrySeqs
<1> DEFINE S == S0 \cup {entry}
<1>2. /\ log \in Seq(S) /\ tap \in Seq(S) /\ forwarded \in Seq(S)
      /\ entry \in S
  BY <1>1
<1> HIDE DEF S
<1>3. forwarded \o tap \in Seq(S)
  BY <1>2
<1>4. /\ Follows(log', forwarded \o tap)
      /\ Follows(log', Append(forwarded \o tap, entry))
  BY <1>2, <1>3, FollowsGrowth DEF TapInv
<1>5. log' \in Seq(S) /\ tap' \in Seq(S) /\ forwarded' \in Seq(S)
  BY <1>2 DEF tap_event
<1>6. \/ forwarded' \o tap' = forwarded \o tap
      \/ forwarded' \o tap' = Append(forwarded \o tap, entry)
  <2>1. CASE tap' = tap
    BY <2>1
  <2>2. CASE tap' = Append(tap, entry)
    <3>1. forwarded \o Append(tap, entry) = Append(forwarded \o tap, entry)
      BY <1>2
    <3> QED
      BY <2>2, <3>1
  <2> QED
    BY <2>1, <2>2 DEF tap_event
<1> QED
  BY <1>4, <1>5, <1>6 DEF TapInv, EntrySeqs

(* Every step keeps the tap and what was taken from it behind the log. *)
LEMMA TapStep == TypeInv /\ AnswerInv /\ TapInv /\ [Next]_vars => TapInv'
<1> SUFFICES ASSUME TypeInv, AnswerInv, TapInv, [Next]_vars PROVE TapInv'
  OBVIOUS
<1> USE DEF shared, taps
<1>1. ASSUME UNCHANGED <<log, tap, forwarded>> PROVE TapInv'
  BY <1>1 DEF TapInv, EntrySeqs
<1>2. ASSUME NEW c \in Calls, Recording(c) PROVE TapInv'
  <2>1. PICK entry : /\ log' = Append(log, entry) /\ entry.call = c
                     /\ tap_event(entry) /\ forwarded' = forwarded
    BY <1>2 DEF Recording, Entry, Record, RecordMarker, AppendEvent
  <2>2. ~Logged(c)
    BY <1>2 DEF AnswerInv, CallInv, Recording, Record, RecordMarker
  <2>3. \A i \in DOMAIN log : log[i] # entry
    BY <2>1, <2>2 DEF Logged
  <2> QED
    BY <2>1, <2>3, TapEntryStep
<1>3. CASE Forward
  <2>1. PICK S : log \in Seq(S) /\ tap \in Seq(S) /\ forwarded \in Seq(S)
    BY DEF TapInv, EntrySeqs
  <2>2. /\ tap # <<>> /\ forwarded' = Append(forwarded, Head(tap))
        /\ tap' = Tail(tap) /\ log' = log
    BY <1>3 DEF Forward
  <2>3. tap' \in Seq(S) /\ forwarded' \in Seq(S)
    BY <2>1, <2>2
  <2>4. forwarded' \o tap' = forwarded \o tap
    BY <2>1, <2>2, MoveHead
  <2> QED
    BY <2>1, <2>2, <2>3, <2>4 DEF TapInv, EntrySeqs
<1>4. CASE CloseTap
  <2>1. PICK S : log \in Seq(S) /\ tap \in Seq(S) /\ forwarded \in Seq(S)
    BY DEF TapInv, EntrySeqs
  <2>2. tap' = <<>> /\ forwarded' = forwarded /\ log' = log
    BY <1>4 DEF CloseTap
  <2>3. forwarded' \o tap' = forwarded /\ tap' \in Seq(S)
    BY <2>1, <2>2
  <2>4. /\ DOMAIN forwarded \subseteq DOMAIN (forwarded \o tap)
        /\ \A i \in DOMAIN forwarded :
              /\ (forwarded \o tap)[i] = forwarded[i]
              /\ \A j \in 1..(i - 1) : (forwarded \o tap)[j] = forwarded[j]
    BY <2>1
  <2>5. Follows(log, forwarded)
    BY <2>4 DEF TapInv, Follows
  <2> QED
    BY <2>1, <2>2, <2>3, <2>5 DEF TapInv, EntrySeqs
<1>5. ASSUME NEW c \in Calls, Progress(c) PROVE TapInv'
  <2>1. CASE Record(c) \/ RecordMarker(c)
    BY <1>2, <2>1 DEF Recording, Record, RecordMarker, AppendEvent
  <2>2. CASE \/ Lock(c) \/ RunJob(c) \/ Tick(c) \/ Fail(c)
             \/ LockSnapshot(c) \/ InsertSnapshot(c)
    BY <1>1, <2>2 DEF Lock, RunJob, Tick, Fail, LockSnapshot, InsertSnapshot
  <2> QED
    BY <1>5, <2>1, <2>2 DEF Progress
<1>6. ASSUME NEW c \in Calls,
             \/ \E v \in Values : create_snapshot(c, v)
             \/ \E v \in Values, r \in Requests : Spawn(c, v, r)
             \/ DropFuture(c) \/ DropSnapshot(c)
             \/ CancelTask(c) \/ RunOrphan(c)
      PROVE  TapInv'
  BY <1>1, <1>6 DEF create_snapshot, Spawn, DropFuture, DropSnapshot,
                    CancelTask, RunOrphan
<1>7. ASSUME NEW v \in Values, NEW w \in Values, Clone(v, w) PROVE TapInv'
  BY <1>1, <1>7 DEF Clone
<1>8. CASE ShutDown \/ UNCHANGED vars
  BY <1>1, <1>8 DEF ShutDown, vars
<1> QED
  BY <1>3, <1>4, <1>5, <1>6, <1>7, <1>8 DEF Next

(***************************************************************************)
(* Whoever reads beside the log reads what it says: a stored snapshot's    *)
(* index names its own marker, and the tap's consumer gets logged events   *)
(* in log order, through drops on a full tap, a closed tap and snapshots   *)
(* dropped between the marker and the map.                                 *)
(***************************************************************************)
THEOREM FollowersAlwaysMatchLog == Spec => []FollowersMatchLog
<1>1. Init => AnswerInv /\ SnapshotInv
  BY DEF Init, AnswerInv, LogsOnce, CallInv, Logged, SnapshotInv
<1>2. Init => TapInv
  <2> SUFFICES ASSUME Init PROVE TapInv
    OBVIOUS
  <2>1. log = <<>> /\ tap = <<>> /\ forwarded = <<>>
    BY DEF Init
  <2>2. EntrySeqs
    <3>1. log \in Seq({}) /\ tap \in Seq({}) /\ forwarded \in Seq({})
      BY <2>1
    <3> QED
      BY <3>1 DEF EntrySeqs
  <2>3. DOMAIN (forwarded \o tap) = {}
    BY <2>1
  <2> QED
    BY <2>2, <2>3 DEF TapInv, Follows
<1>3. SnapshotInv /\ TapInv => FollowersMatchLog
  BY DEF SnapshotInv, TapInv, MarkerAt, Follows, FollowersMatchLog,
         SnapshotsPointAtMarkers, TapFollowsLog
<1> QED
  BY <1>1, <1>2, <1>3, AnswerStep, SnapshotStep, TapStep, TypesHold, PTL
  DEF Spec

-----------------------------------------------------------------------------
(***************************************************************************)
(* Poison.                                                                 *)
(***************************************************************************)
PoisonStops ==
    poisoned => /\ graph' = graph
                /\ \A c \in Calls : Pending(c)' => Pending(c)

(* No step records anything in a poisoned graph. *)
LEMMA PoisonStep == TypeInv /\ [Next]_vars => PoisonStops
<1> SUFFICES ASSUME TypeInv, [Next]_vars, poisoned PROVE PoisonStops
  BY DEF PoisonStops
<1> USE DEF shared
<1>1. ASSUME graph' = graph,
             \A c \in Calls :
                \/ pc'[c] \notin {"returned", "ticked"}
                \/ pc'[c] = pc[c] /\ call'[c] = call[c]
      PROVE  PoisonStops
  BY <1>1 DEF PoisonStops, Pending
<1>2. ASSUME NEW c \in Calls, NEW v \in Values, create_snapshot(c, v)
      PROVE  PoisonStops
  BY <1>1, <1>2 DEF create_snapshot, TypeInv, TypeOK
<1>3. ASSUME NEW c \in Calls, NEW v \in Values, NEW r \in Requests,
             Spawn(c, v, r)
      PROVE  PoisonStops
  BY <1>1, <1>3 DEF Spawn, TypeInv, TypeOK
<1>4. ASSUME NEW c \in Calls, RunJob(c) PROVE PoisonStops
  <2>1. PICK result \in Results, event \in JobEvents(call[c].req) :
          /\ Job(call[c].req, result, event)
          /\ call' = [call EXCEPT ![c] = [@ EXCEPT !.result = result,
                                                   !.event = event]]
    BY <1>4 DEF RunJob
  <2>2. result = "poisoned" /\ graph' = graph
    BY <2>1 DEF Job
  <2>3. pc'[c] = "returned" /\ call'[c].result = "poisoned"
    <3>1. call'[c] = [call[c] EXCEPT !.result = result, !.event = event]
      BY <2>1 DEF TypeInv, TypeOK
    <3>2. pc'[c] = "returned"
      BY <1>4 DEF RunJob, TypeInv, TypeOK
    <3> QED
      BY <2>2, <3>1, <3>2 DEF TypeInv, TypeOK, Locals
  <2>4. \A d \in Calls \ {c} : pc'[d] = pc[d] /\ call'[d] = call[d]
    BY <1>4, <2>1 DEF RunJob, TypeInv, TypeOK
  <2> QED
    BY <2>2, <2>3, <2>4 DEF PoisonStops, Pending
<1>5. ASSUME NEW c \in Calls, Tick(c) PROVE PoisonStops
  BY <1>5 DEF Tick, PoisonStops, Pending, TypeInv, TypeOK
<1>6. ASSUME NEW c \in Calls,
             \/ Lock(c) \/ Record(c) \/ Fail(c) \/ LockSnapshot(c)
             \/ RecordMarker(c) \/ InsertSnapshot(c)
      PROVE  PoisonStops
  BY <1>1, <1>6 DEF Lock, Record, Fail, LockSnapshot, RecordMarker,
                    InsertSnapshot, TypeInv, TypeOK
<1>7. ASSUME NEW c \in Calls, DropFuture(c) \/ DropSnapshot(c) \/ CancelTask(c)
      PROVE  PoisonStops
  BY <1>1, <1>7 DEF DropFuture, DropSnapshot, CancelTask, TypeInv, TypeOK
<1>8. ASSUME NEW c \in Calls, RunOrphan(c) PROVE PoisonStops
  <2>1. graph' = graph /\ UNCHANGED <<pc, call>>
    BY <1>8 DEF RunOrphan, Job
  <2> QED
    BY <1>1, <2>1
<1>9. ASSUME NEW v \in Values, NEW w \in Values, Clone(v, w)
      PROVE  PoisonStops
  BY <1>1, <1>9 DEF Clone
<1>10. CASE Forward \/ CloseTap \/ ShutDown \/ UNCHANGED vars
  BY <1>1, <1>10 DEF Forward, CloseTap, ShutDown, vars
<1> QED
  BY <1>2, <1>3, <1>4, <1>5, <1>6, <1>7, <1>8, <1>9, <1>10 DEF Next, Progress

(***************************************************************************)
(* Once a mutator has panicked under the write lock no later step changes  *)
(* the graph or gives a call a change to record, also for the jobs already *)
(* submitted and for orphaned ones.                                        *)
(***************************************************************************)
THEOREM PoisonAlwaysStops == Spec => PoisonStopsMutations
<1>1. [](TypeInv /\ LockInv) /\ [][Next]_vars => [][PoisonStops]_vars
  BY PoisonStep, PTL
<1> QED
  BY <1>1, TypesHold, PTL DEF Spec, PoisonStopsMutations, PoisonStops

-----------------------------------------------------------------------------
(***************************************************************************)
(* Refinement.  A call takes effect at its append.  The entries of a value *)
(* lie behind its clock, and the timestamp a call took from it lies        *)
(* between the two until it is recorded, because whoever ticked holds the  *)
(* mutation lock; a value that is not live yet has recorded nothing.       *)
(***************************************************************************)
Behind(v, t) == \A i \in DOMAIN log : log[i].by = v => log[i].ts < t

ClockInv ==
    /\ \A i \in DOMAIN log : /\ log[i].by \in live /\ log[i].ts \in Nat
                             /\ log[i].ts < clock[log[i].by]
    /\ \A c \in Calls : pc[c] # "idle" => call[c].val \in live
    /\ \A c \in Calls : pc[c] \in {"ticked", "snap_ticked"} =>
          call[c].ts < clock[call[c].val] /\ Behind(call[c].val, call[c].ts)
    /\ \A c \in Calls : pc[c] \in MutationSteps => call[c].req \in Requests

(* Every step keeps the log in the order of the clock. *)
LEMMA ClockStep == TypeInv /\ LockInv /\ ClockInv /\ [Next]_vars => ClockInv'
<1> SUFFICES ASSUME TypeInv, LockInv, ClockInv, [Next]_vars PROVE ClockInv'
  OBVIOUS
<1> USE DEF shared, values, MutationSteps
<1>1. ASSUME UNCHANGED <<log, live, clock>>,
             \A c \in Calls : \/ pc'[c] = pc[c] /\ call'[c] = call[c]
                              \/ /\ pc'[c] \in {"submitted", "returned"}
                                 /\ pc[c] \in MutationSteps
                                 /\ call'[c].val = call[c].val
                                 /\ call'[c].req = call[c].req
                              \/ pc[c] # "idle" /\ pc'[c] = "done"
                                 /\ call'[c].val = call[c].val
      PROVE  ClockInv'
  BY <1>1 DEF ClockInv, Behind
<1>2. ASSUME NEW c \in Calls, NEW v \in Values, create_snapshot(c, v)
      PROVE  ClockInv'
  BY <1>2 DEF create_snapshot, ClockInv, Behind, TypeInv, TypeOK, Locals
<1>3. ASSUME NEW c \in Calls, NEW v \in Values, NEW r \in Requests,
             Spawn(c, v, r)
      PROVE  ClockInv'
  BY <1>3 DEF Spawn, ClockInv, Behind, TypeInv, TypeOK, Locals
<1>4. ASSUME NEW c \in Calls, Lock(c) \/ RunJob(c) PROVE ClockInv'
  <2>1. CASE Lock(c)
    BY <1>1, <2>1 DEF Lock, TypeInv, TypeOK
  <2>2. CASE RunJob(c)
    <3>1. PICK result, event :
            call' = [call EXCEPT ![c] = [@ EXCEPT !.result = result,
                                                  !.event = event]]
      BY <2>2 DEF RunJob
    <3>2. /\ call'[c].val = call[c].val /\ call'[c].req = call[c].req
          /\ \A d \in Calls \ {c} : call'[d] = call[d]
      BY <3>1 DEF TypeInv, TypeOK, Locals
    <3>3. /\ pc[c] = "submitted" /\ pc'[c] = "returned"
          /\ \A d \in Calls \ {c} : pc'[d] = pc[d]
      BY <2>2 DEF RunJob, TypeInv, TypeOK
    <3>4. UNCHANGED <<log, live, clock>>
      BY <2>2 DEF RunJob
    <3> QED
      BY <1>1, <3>2, <3>3, <3>4
  <2> QED
    BY <1>4, <2>1, <2>2
<1>5. ASSUME NEW c \in Calls, Fail(c) PROVE ClockInv'
  BY <1>1, <1>5 DEF Fail, TypeInv, TypeOK
<1>6. ASSUME NEW c \in Calls,
             InsertSnapshot(c) \/ DropSnapshot(c) \/ CancelTask(c)
      PROVE  ClockInv'
  BY <1>1, <1>6 DEF InsertSnapshot, DropSnapshot, CancelTask, SnapshotSteps,
                    TypeInv, TypeOK
<1>7. ASSUME NEW c \in Calls, Tick(c) \/ LockSnapshot(c) PROVE ClockInv'
  <2> DEFINE v == call[c].val
  <2>1. /\ UNCHANGED <<log, live>>
        /\ clock' = [clock EXCEPT ![v] = @ + 1]
        /\ call' = [call EXCEPT ![c].ts = clock[v]]
        /\ \/ pc[c] = "returned" /\ pc' = [pc EXCEPT ![c] = "ticked"]
           \/ pc[c] = "snap_queued" /\ pc' = [pc EXCEPT ![c] = "snap_ticked"]
    BY <1>7 DEF Tick, LockSnapshot
  <2>2. \A d \in Calls : pc[d] \notin {"ticked", "snap_ticked"}
    BY <1>7, NoCallIsNoCall DEF Tick, LockSnapshot, LockInv, Holds
  <2>3. /\ v \in live /\ v \in Values /\ clock[v] \in Nat
        /\ clock'[v] = clock[v] + 1
        /\ \A w \in Values : clock[w] \in Nat /\ clock[w] <= clock'[w]
    BY <2>1 DEF ClockInv, TypeInv, TypeOK
  <2>4. /\ call'[c].val = v /\ call'[c].ts = clock[v]
        /\ call'[c].req = call[c].req
        /\ \A d \in Calls \ {c} : call'[d] = call[d] /\ pc'[d] = pc[d]
    BY <2>1 DEF TypeInv, TypeOK, Locals
  <2>5. /\ pc'[c] \in {"ticked", "snap_ticked"}
        /\ pc'[c] = "ticked" => pc[c] = "returned"
    BY <2>1 DEF TypeInv, TypeOK
  <2>6. Behind(v, clock[v])'
    BY <2>1, <2>3 DEF ClockInv, Behind
  <2>7. ASSUME NEW i \in DOMAIN log' 
        PROVE  /\ log'[i].by \in live' /\ log'[i].ts \in Nat
               /\ log'[i].ts < clock'[log'[i].by]
    <3>1. /\ i \in DOMAIN log /\ log[i].by \in live /\ log[i].ts \in Nat
          /\ log[i].ts < clock[log[i].by] /\ log[i].by \in Values
      BY <2>1 DEF ClockInv, TypeInv, TypeOK
    <3>2. clock[log[i].by] \in Nat /\ clock'[log[i].by] \in Nat
          /\ clock[log[i].by] <= clock'[log[i].by]
      BY <2>1, <2>3, <3>1 DEF TypeInv, TypeOK
    <3> QED
      BY <2>1, <3>1, <3>2
  <2>8. \A d \in Calls : pc'[d] # "idle" => call'[d].val \in live'
    BY <2>1, <2>3, <2>4 DEF ClockInv
  <2>9. ASSUME NEW d \in Calls, pc'[d] \in {"ticked", "snap_ticked"}
        PROVE  /\ call'[d].ts < clock'[call'[d].val]
               /\ Behind(call[d].val, call[d].ts)'
    <3>1. d = c
      BY <2>2, <2>4, <2>9
    <3> QED
      BY <2>1, <2>3, <2>4, <2>6, <3>1 DEF Behind, ClockInv
  <2>10. \A d \in Calls : pc'[d] \in MutationSteps => call'[d].req \in Requests
    BY <2>4, <2>5 DEF ClockInv
  <2> QED
    BY <2>7, <2>8, <2>9, <2>10 DEF ClockInv
<1>8. ASSUME NEW c \in Calls, Recording(c) PROVE ClockInv'
  <2>1. PICK entry :
          log' = Append(log, entry) /\ entry.by = call[c].val
          /\ entry.ts = call[c].ts
    BY <1>8 DEF Recording, Entry
  <2>2. /\ DOMAIN log = 1..Len(log) /\ DOMAIN log' = 1..(Len(log) + 1)
        /\ Len(log) \in Nat
        /\ \A i \in DOMAIN log : log'[i] = log[i]
        /\ log'[Len(log) + 1] = entry
    BY <2>1, AppendKeepsLog DEF TypeInv
  <2>3. /\ UNCHANGED <<live, clock>>
        /\ pc[c] \in {"ticked", "snap_ticked"}
        /\ pc'[c] \in {"done", "snap_recorded"}
        /\ call'[c].val = call[c].val
        /\ \A d \in Calls \ {c} : pc'[d] = pc[d] /\ call'[d] = call[d]
    BY <1>8 DEF Recording, Record, RecordMarker, TypeInv, TypeOK, Locals
  <2>4. \A d \in Calls : pc'[d] \notin {"ticked", "snap_ticked"}
    BY <2>3 DEF LockInv, Holds
  <2>5. /\ call[c].val \in live /\ call[c].ts \in Nat
        /\ call[c].ts < clock[call[c].val]
    BY <2>3 DEF ClockInv, TypeInv, TypeOK
  <2>6. ASSUME NEW i \in DOMAIN log'
        PROVE  /\ log'[i].by \in live' /\ log'[i].ts \in Nat
               /\ log'[i].ts < clock'[log'[i].by]
    <3>1. CASE i \in DOMAIN log
      BY <2>2, <2>3, <3>1 DEF ClockInv
    <3>2. CASE i = Len(log) + 1
      BY <2>1, <2>2, <2>3, <2>5, <3>2
    <3> QED
      BY <2>2, <3>1, <3>2
  <2>7. \A d \in Calls : pc'[d] # "idle" => call'[d].val \in live'
    BY <2>3, <2>5 DEF ClockInv
  <2>8. \A d \in Calls : pc'[d] \in MutationSteps => call'[d].req \in Requests
    BY <2>3 DEF ClockInv
  <2> QED
    BY <2>4, <2>6, <2>7, <2>8 DEF ClockInv
<1>9. ASSUME NEW c \in Calls, DropFuture(c) \/ RunOrphan(c) PROVE ClockInv'
  BY <1>1, <1>9 DEF DropFuture, RunOrphan
<1>10. ASSUME NEW v \in Values, NEW w \in Values, Clone(v, w) PROVE ClockInv'
  <2>1. /\ UNCHANGED <<log, pc, call>> /\ live' = live \cup {w}
        /\ w \notin live /\ clock' = [clock EXCEPT ![w] = clock[v]]
    BY <1>10 DEF Clone
  <2>2. \A u \in live : clock'[u] = clock[u]
    BY <2>1 DEF TypeInv, TypeOK
  <2>3. ASSUME NEW i \in DOMAIN log'
        PROVE  /\ log'[i].by \in live' /\ log'[i].ts \in Nat
               /\ log'[i].ts < clock'[log'[i].by]
    BY <2>1, <2>2 DEF ClockInv
  <2>4. ASSUME NEW c \in Calls, pc'[c] \in {"ticked", "snap_ticked"}
        PROVE  /\ call'[c].ts < clock'[call'[c].val]
               /\ Behind(call[c].val, call[c].ts)'
    BY <2>1, <2>2, <2>4 DEF ClockInv, Behind
  <2> QED
    BY <2>1, <2>3, <2>4 DEF ClockInv
<1>11. CASE Forward \/ CloseTap \/ ShutDown \/ UNCHANGED vars
  BY <1>1, <1>11 DEF Forward, CloseTap, ShutDown, vars
<1>12. ASSUME NEW c \in Calls, Record(c) \/ RecordMarker(c) PROVE ClockInv'
  BY <1>8, <1>12 DEF Recording, Record, RecordMarker, AppendEvent
<1> QED
  BY <1>2, <1>3, <1>4, <1>5, <1>6, <1>7, <1>9, <1>10, <1>11, <1>12
  DEF Next, Progress

AtomicInv ==
    /\ TypeInv /\ LockInv /\ GraphInv /\ AnswerInv /\ ClockInv

(* What the refinement needs holds in every state. *)
LEMMA AtomicInvHolds == Spec => []AtomicInv
<1>1. Init => LockInv /\ AnswerInv /\ ClockInv /\ GraphInv
  <2> SUFFICES ASSUME Init PROVE LockInv /\ AnswerInv /\ ClockInv /\ GraphInv
    OBVIOUS
  <2>1. log = <<>> /\ \A c \in Calls : pc[c] = "idle" /\ answer[c] = "none"
    BY DEF Init
  <2>2. LockInv
    BY <2>1, NoCallIsNoCall DEF Init, LockInv, Holds
  <2>3. AnswerInv
    BY <2>1 DEF AnswerInv, LogsOnce, CallInv, Logged
  <2>4. ClockInv
    BY <2>1 DEF ClockInv, Behind, MutationSteps
  <2>5. GraphInv
    BY <2>1, GraphsAreGraphs DEF Init, GraphInv, Pending
  <2> QED
    BY <2>2, <2>3, <2>4, <2>5
<1> QED
  BY <1>1, TypeInit, TypeStep, LockStep, GraphStep, AnswerStep, ClockStep, PTL
  DEF Spec, AtomicInv

(* What a call appends is new: its value never recorded as late a          *)
(* timestamp, nor the call anything before.                                *)
LEMMA EntryIsFresh ==
    ASSUME AtomicInv, NEW c \in Calls, pc[c] \in {"ticked", "snap_ticked"}
    PROVE  /\ Atomic!Fresh(call[c].ts, call[c].val, c)
           /\ call[c].ts \in Nat /\ call[c].val \in Values
BY DEF AtomicInv, AnswerInv, CallInv, Logged, ClockInv, Behind, Atomic!Fresh,
       TypeInv, TypeOK

(***************************************************************************)
(* The steps of the tasks implement the atomic graph: each append is one   *)
(* atomic mutation or marker, a change lost to the runtime's shutdown is a *)
(* Lose, and every other step stutters.                                    *)
(***************************************************************************)
LEMMA StepIsAtomic ==
    ASSUME Nat \subseteq Timestamps, Nat \subseteq SnapshotIds,
           AtomicInv, [Next]_vars
    PROVE  [Atomic!Next]_(Atomic!vars)
<1> USE DEF shared, history
<1>1. ASSUME UNCHANGED <<committed, log, replayed>>,
             unlogged' = unlogged \/ unlogged' = TRUE
      PROVE  [Atomic!Next]_(Atomic!vars)
  BY <1>1 DEF Atomic!Next, Atomic!Lose, Atomic!vars
<1>2. ASSUME NEW c \in Calls, Record(c) PROVE Atomic!Next
  <2> DEFINE t == call[c].ts
             v == call[c].val
             e == call[c].event
  <2>1. /\ pc[c] = "ticked" /\ committed' = graph /\ unlogged' = unlogged
        /\ log' = Append(log, Atomic!Entry(t, v, c, e))
        /\ replayed' = Replay(replayed, e)
    BY <1>2 DEF Record, AppendEvent, Entry, Atomic!Entry
  <2>2. Atomic!Fresh(t, v, c) /\ t \in Timestamps /\ v \in Values
    BY <2>1, EntryIsFresh
  <2>3. CASE ~unlogged
    <3>1. call[c].req \in Requests
      BY <2>1 DEF AtomicInv, ClockInv, MutationSteps
    <3>2. PICK o \in Outcomes(committed, call[c].req) :
              o.graph = graph /\ o.event = e
      BY <2>1, <2>3 DEF AtomicInv, GraphInv, InFlight, Pending
    <3>3. Atomic!Mutate(t, v, c, call[c].req)
      BY <2>1, <2>2, <3>2 DEF Atomic!Mutate, Atomic!Append1
    <3> QED
      BY <2>2, <3>1, <3>3 DEF Atomic!Next
  <2>4. CASE unlogged
    <3>1. PICK S : log \in Seq(S)
      BY DEF AtomicInv, TypeInv, LogIsSeq
    <3> DEFINE entry == Atomic!Entry(t, v, c, e)
    <3>2. /\ Append(log, entry) \in Seq(S \cup {entry})
          /\ Len(Append(log, entry)) = Len(log) + 1 /\ Len(log) \in Nat
          /\ Append(log, entry)[Len(log) + 1] = entry
      BY <3>1
    <3> HIDE DEF entry
    <3>3. log' # log /\ Atomic!Last(log') = entry
      BY <2>1, <3>2 DEF Atomic!Last, entry
    <3>4. entry.event = e
      BY DEF entry, Atomic!Entry
    <3>5. Atomic!RecordAfterLoss(t, v, c)
      BY <2>1, <2>2, <2>4, <3>3, <3>4 DEF Atomic!RecordAfterLoss
    <3> QED
      BY <2>2, <3>5 DEF Atomic!Next
  <2> QED
    BY <2>3, <2>4
<1>3. ASSUME NEW c \in Calls, RecordMarker(c) PROVE Atomic!Next
  <2> DEFINE t == call[c].ts
             v == call[c].val
             e == [type |-> "SnapshotMarker", id |-> call[c].id]
  <2>1. /\ pc[c] = "snap_ticked" /\ UNCHANGED <<committed, unlogged>>
        /\ log' = Append(log, Atomic!Entry(t, v, c, e))
        /\ replayed' = Replay(replayed, e)
    BY <1>3 DEF RecordMarker, AppendEvent, Entry, Atomic!Entry
  <2>2. Atomic!Fresh(t, v, c) /\ t \in Timestamps /\ v \in Values
    BY <2>1, EntryIsFresh
  <2>3. call[c].id \in SnapshotIds
    BY DEF AtomicInv, TypeInv, TypeOK
  <2>4. Atomic!Mark(t, v, c, call[c].id)
    BY <2>1, <2>2 DEF Atomic!Mark, Atomic!Append1
  <2> QED
    BY <2>2, <2>3, <2>4 DEF Atomic!Next
<1>4. ASSUME NEW c \in Calls,
             \/ Lock(c) \/ RunJob(c) \/ Tick(c) \/ Fail(c)
             \/ LockSnapshot(c) \/ InsertSnapshot(c)
      PROVE  [Atomic!Next]_(Atomic!vars)
  BY <1>1, <1>4 DEF Lock, RunJob, Tick, Fail, LockSnapshot, InsertSnapshot
<1>5. ASSUME NEW c \in Calls,
             \/ \E v \in Values : create_snapshot(c, v)
             \/ \E v \in Values, r \in Requests : Spawn(c, v, r)
             \/ DropFuture(c) \/ DropSnapshot(c)
      PROVE  [Atomic!Next]_(Atomic!vars)
  BY <1>1, <1>5 DEF create_snapshot, Spawn, DropFuture, DropSnapshot
<1>6. ASSUME NEW c \in Calls, CancelTask(c) \/ RunOrphan(c)
      PROVE  [Atomic!Next]_(Atomic!vars)
  <2>1. UNCHANGED <<committed, log, replayed>>
    BY <1>6 DEF CancelTask, RunOrphan
  <2>2. unlogged' = unlogged \/ unlogged' = TRUE
    <3>0. unlogged \in BOOLEAN
      BY DEF AtomicInv, TypeInv, TypeOK
    <3>1. CASE CancelTask(c)
      <4>1. PICK x \in BOOLEAN : unlogged' = (unlogged \/ x)
        BY <3>1 DEF CancelTask
      <4> QED
        BY <3>0, <4>1
    <3>2. CASE RunOrphan(c)
      <4>1. PICK result : unlogged' = (unlogged \/ result = "ok")
        BY <3>2 DEF RunOrphan
      <4> QED
        BY <3>0, <4>1
    <3> QED
      BY <1>6, <3>1, <3>2
  <2> QED
    BY <1>1, <2>1, <2>2
<1>7. ASSUME NEW v \in Values, NEW w \in Values, Clone(v, w)
      PROVE  [Atomic!Next]_(Atomic!vars)
  BY <1>1, <1>7 DEF Clone
<1>8. CASE Forward \/ CloseTap \/ ShutDown \/ UNCHANGED vars
  BY <1>1, <1>8 DEF Forward, CloseTap, ShutDown, vars
<1> QED
  BY <1>2, <1>3, <1>4, <1>5, <1>6, <1>7, <1>8 DEF Next, Progress

(***************************************************************************)
(* TemporalHypergraph implements EventSourcedGraph, over the unbounded     *)
(* timestamps and snapshot ids the model checker has to cut off: a         *)
(* mutation and its event are one atomic step to whoever reads the log,    *)
(* and the events of one value carry increasing timestamps, although the   *)
(* task changes the graph, ticks and appends in separate steps that        *)
(* clones, dropped futures and a shutdown interleave with.                 *)
(***************************************************************************)
THEOREM TasksImplementAtomic ==
    ASSUME Nat \subseteq Timestamps, Nat \subseteq SnapshotIds
    PROVE  Spec => ImplementsAtomic
<1>1. Init => Atomic!Init
  BY DEF Init, Atomic!Init
<1>2. AtomicInv /\ [Next]_vars => [Atomic!Next]_(Atomic!vars)
  BY StepIsAtomic
<1> QED
  BY <1>1, <1>2, AtomicInvHolds, PTL DEF Spec, Atomic!Spec, ImplementsAtomic
=============================================================================
