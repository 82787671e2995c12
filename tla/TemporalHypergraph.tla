------------------------- MODULE TemporalHypergraph -------------------------
(***************************************************************************)
(* src/topology/temporal.rs: the event-sourced wrapper of the graph, one   *)
(* process per call.                                                       *)
(*                                                                         *)
(* A mutation call runs as a spawned task: it takes the mutation lock that *)
(* all clones share, hands its job to the executor pool, which changes the *)
(* graph under the graph's write lock, and once the job returned ticks its *)
(* value's clock, appends and taps the event and releases the lock.  A     *)
(* snapshot call runs on its caller's task and takes the same lock.        *)
(* Everything between two awaits is one step.                              *)
(***************************************************************************)
EXTENDS Hypergraph, SequencesExt

CONSTANTS Values,       \* TemporalHypergraph values: an original and its clones
          Root,         \* the original
          Calls,        \* calls in flight, each used once
          Requests,     \* what a mutation call may ask for
          InitGraphs,   \* the graphs that new and wrap may start from
          TapCap,       \* capacity of the event tap's channel, 0: no tap
          MayShutDown,  \* the tokio runtime may shut down under the calls
          NoCall,       \* the mutation lock is free
          NoEvent       \* the job has not produced an event

ASSUME GraphsAreGraphs == \A g \in InitGraphs : IsGraph(g)
ASSUME RootIsAValue == Root \in Values
ASSUME NoCallIsNoCall == NoCall \notin Calls
ASSUME TapCapIsNat == TapCap \in Nat
ASSUME MayShutDownIsBool == MayShutDown \in BOOLEAN

VARIABLES
    graph, poisoned,          \* SharedGraph: the graph and its lock's poison
    log,                      \* EventLog.events
    snapshots,                \* timestamp -> [id, index]
    live, clock, counter,     \* per value: clock and snapshot_counter
    mutation,                 \* holder of the mutation lock
    tap, tapOpen, forwarded,  \* the tap's channel and what left it
    pc, call, answer,         \* per call: step, locals, what its caller got
    shutdown, orphans,        \* runtime shutting down; jobs without a task
    committed, replayed, unlogged   \* history, see below

(***************************************************************************)
(* History variables, which no guard reads: the graph as of the last       *)
(* append, the initial graph with every logged event replayed, and whether *)
(* a change reached the graph whose event never will reach the log.        *)
(***************************************************************************)
history == <<committed, replayed, unlogged>>

shared   == <<graph, poisoned, log, snapshots>>
values   == <<live, clock, counter>>
taps     == <<tap, tapOpen, forwarded>>
runtime  == <<shutdown, orphans>>
vars     == <<shared, values, mutation, taps, pc, call, answer, runtime,
              history>>

MutationSteps == {"queued", "submitted", "returned", "ticked"}
SnapshotSteps == {"snap_queued", "snap_ticked", "snap_recorded"}
Steps == {"idle", "done"} \cup MutationSteps \cup SnapshotSteps

Results == {"none", "ok", "error", "poisoned", "panicked"}
Answers == Results \cup {"cancelled", "dropped"}

(* SnapshotIds and timestamps are u64 counters that start at 0. *)
NoLocals == [val |-> Root, req |-> NoEvent, event |-> NoEvent,
             result |-> "none", ts |-> 0, id |-> 0, index |-> 0]

Locals == {"val", "req", "event", "result", "ts", "id", "index"}

Init ==
    /\ graph \in InitGraphs /\ poisoned = FALSE
    /\ log = <<>> /\ snapshots = <<>>
    /\ live = {Root}
    /\ clock = [v \in Values |-> 0] /\ counter = [v \in Values |-> 0]
    /\ mutation = NoCall
    /\ tap = <<>> /\ tapOpen = (TapCap > 0) /\ forwarded = <<>>
    /\ pc = [c \in Calls |-> "idle"]
    /\ call = [c \in Calls |-> NoLocals]
    /\ answer = [c \in Calls |-> "none"]
    /\ shutdown = FALSE /\ orphans = {}
    /\ committed = graph /\ replayed = View(graph) /\ unlogged = FALSE

-----------------------------------------------------------------------------
(* tap_event: a full or closed tap drops the event.                        *)
tap_event(entry) ==
    tap' = IF tapOpen /\ Len(tap) < TapCap THEN Append(tap, entry) ELSE tap

Entry(c, e) == [ts |-> call[c].ts, by |-> call[c].val, call |-> c, event |-> e]

(* mutant: the log is kept sorted by timestamp. *)
AppendEvent_sorted(c, e) ==
    LET before == Cardinality({i \in DOMAIN log : log[i].ts < call[c].ts})
    IN  /\ tap_event(Entry(c, e))
        /\ log' = SubSeq(log, 1, before) \o <<Entry(c, e)>>
                     \o SubSeq(log, before + 1, Len(log))
        /\ replayed' = Replay(replayed, e)
        /\ UNCHANGED <<tapOpen, forwarded>>

(***************************************************************************)
(* Under the event-log write guard: tap the event, then append it.         *)
(***************************************************************************)
AppendEvent(c, e) ==
    /\ tap_event(Entry(c, e))
    /\ log' = Append(log, Entry(c, e))
    /\ replayed' = Replay(replayed, e)
    /\ UNCHANGED <<tapOpen, forwarded>>

(* The reply reaches a caller that still waits for it. *)
Answer(c, a) ==
    answer' = [answer EXCEPT ![c] = IF @ = "dropped" THEN @ ELSE a]

Release(c) == mutation' = IF mutation = c THEN NoCall ELSE mutation

-----------------------------------------------------------------------------
(***************************************************************************)
(* mutate: the first poll spawns the task.                                 *)
(***************************************************************************)
Spawn(c, v, r) ==
    /\ pc[c] = "idle" /\ v \in live /\ ~shutdown
    /\ pc' = [pc EXCEPT ![c] = "queued"]
    /\ call' = [call EXCEPT ![c] = [@ EXCEPT !.val = v, !.req = r]]
    /\ UNCHANGED <<shared, values, mutation, taps, answer, runtime, history>>

(* mutation.lock().await, then the job is handed to the pool. *)
Lock(c) ==
    /\ pc[c] = "queued" /\ mutation = NoCall
    /\ mutation' = c
    /\ pc' = [pc EXCEPT ![c] = "submitted"]
    /\ UNCHANGED <<shared, values, taps, call, answer, runtime, history>>

(* mutant: the job takes the graph out of a poisoned lock. *)
Job_ignores_poison(r, result, event) ==
    \/ /\ MayReject(graph, r) /\ ~Panics(graph, r)
       /\ result = "error" /\ event = NoEvent
       /\ UNCHANGED <<graph, poisoned>>
    \/ /\ Panics(graph, r) /\ result = "panicked" /\ event = NoEvent
       /\ poisoned' = TRUE /\ UNCHANGED graph
    \/ /\ result = "ok"
       /\ \E o \in Outcomes(graph, r) : graph' = o.graph /\ event = o.event
       /\ UNCHANGED poisoned

(***************************************************************************)
(* One job on the pool, under the graph's write lock: its result, the      *)
(* event its finish closure will build, and what it did to the graph.  A   *)
(* panic poisons the lock.                                                 *)
(***************************************************************************)
Job(r, result, event) ==
    \/ /\ poisoned /\ result = "poisoned" /\ event = NoEvent
       /\ UNCHANGED <<graph, poisoned>>
    \/ /\ ~poisoned /\ MayReject(graph, r) /\ ~Panics(graph, r)
       /\ result = "error" /\ event = NoEvent
       /\ UNCHANGED <<graph, poisoned>>
    \/ /\ ~poisoned /\ Panics(graph, r)
       /\ result = "panicked" /\ event = NoEvent
       /\ poisoned' = TRUE /\ UNCHANGED graph
    \/ /\ ~poisoned /\ result = "ok"
       /\ \E o \in Outcomes(graph, r) : graph' = o.graph /\ event = o.event
       /\ UNCHANGED poisoned

(* The events a job may hand to its finish closure in this state. *)
JobEvents(r) == {o.event : o \in Outcomes(graph, r)} \cup {NoEvent}

RunJob(c) ==
    /\ pc[c] = "submitted"
    /\ \E result \in Results, event \in JobEvents(call[c].req) :
          /\ Job(call[c].req, result, event)
          /\ call' = [call EXCEPT ![c] = [@ EXCEPT !.result = result,
                                                   !.event = event]]
    /\ pc' = [pc EXCEPT ![c] = "returned"]
    /\ UNCHANGED <<log, snapshots, values, mutation, taps, answer, runtime,
                   history>>

(* mutant: the event is tapped before the event-log guard is taken. *)
Tick_taps_early(c) ==
    /\ pc[c] = "returned" /\ call[c].result = "ok"
    /\ call' = [call EXCEPT ![c].ts = clock[call[c].val]]
    /\ clock' = [clock EXCEPT ![call[c].val] = @ + 1]
    /\ tap_event([ts |-> clock[call[c].val], by |-> call[c].val, call |-> c,
                  event |-> call[c].event])
    /\ pc' = [pc EXCEPT ![c] = "ticked"]
    /\ UNCHANGED <<shared, live, counter, mutation, tapOpen, forwarded, answer,
                   runtime, history>>

(* The job succeeded: tick the clock and build the event. *)
Tick(c) ==
    /\ pc[c] = "returned" /\ call[c].result = "ok"
    /\ call' = [call EXCEPT ![c].ts = clock[call[c].val]]
    /\ clock' = [clock EXCEPT ![call[c].val] = @ + 1]
    /\ pc' = [pc EXCEPT ![c] = "ticked"]
    /\ UNCHANGED <<shared, live, counter, mutation, taps, answer, runtime,
                   history>>

(* mutant: the task can be cancelled between its append and its reply. *)
Record_replies_later(c) ==
    /\ pc[c] = "ticked"
    /\ AppendEvent(c, call[c].event)
    /\ committed' = graph
    /\ Release(c) /\ Answer(c, "ok")
    /\ UNCHANGED <<graph, poisoned, snapshots, values, pc, call, runtime,
                   unlogged>>

(* events.write().await, tap, append, release the mutation lock, reply. *)
Record(c) ==
    /\ pc[c] = "ticked"
    /\ AppendEvent(c, call[c].event)
    /\ committed' = graph
    /\ Release(c) /\ Answer(c, "ok")
    /\ pc' = [pc EXCEPT ![c] = "done"]
    /\ UNCHANGED <<graph, poisoned, snapshots, values, call, runtime,
                   unlogged>>

(* mutant: the error path returns with the lock held. *)
Fail_keeps_lock(c) ==
    /\ pc[c] = "returned" /\ call[c].result # "ok"
    /\ Answer(c, call[c].result)
    /\ pc' = [pc EXCEPT ![c] = "done"]
    /\ UNCHANGED <<shared, values, mutation, taps, call, runtime, history>>

(* The job failed or panicked: no tick, no event, the lock is released. *)
Fail(c) ==
    /\ pc[c] = "returned" /\ call[c].result # "ok"
    /\ Release(c) /\ Answer(c, call[c].result)
    /\ pc' = [pc EXCEPT ![c] = "done"]
    /\ UNCHANGED <<shared, values, taps, call, runtime, history>>

(* mutant: the work is not spawned, and stops with the future. *)
DropFuture_aborts(c) ==
    /\ pc[c] \in MutationSteps /\ answer[c] = "none"
    /\ Release(c)
    /\ answer' = [answer EXCEPT ![c] = "dropped"]
    /\ pc' = [pc EXCEPT ![c] = "done"]
    /\ UNCHANGED <<shared, values, taps, call, runtime, history>>

(* The caller drops the future: the task runs on. *)
DropFuture(c) ==
    /\ pc[c] \in MutationSteps /\ answer[c] = "none"
    /\ answer' = [answer EXCEPT ![c] = "dropped"]
    /\ UNCHANGED <<shared, values, mutation, taps, pc, call, runtime, history>>

-----------------------------------------------------------------------------
(***************************************************************************)
(* create_snapshot: the marker goes through the same lock and the same     *)
(* event-log guard; the snapshots map is written after both are released.  *)
(***************************************************************************)
create_snapshot(c, v) ==
    /\ pc[c] = "idle" /\ v \in live /\ ~shutdown
    /\ call' = [call EXCEPT ![c] = [@ EXCEPT !.val = v, !.id = counter[v]]]
    /\ counter' = [counter EXCEPT ![v] = @ + 1]
    /\ pc' = [pc EXCEPT ![c] = "snap_queued"]
    /\ UNCHANGED <<shared, live, clock, mutation, taps, answer, runtime,
                   history>>

LockSnapshot(c) ==
    /\ pc[c] = "snap_queued" /\ mutation = NoCall
    /\ mutation' = c
    /\ call' = [call EXCEPT ![c].ts = clock[call[c].val]]
    /\ clock' = [clock EXCEPT ![call[c].val] = @ + 1]
    /\ pc' = [pc EXCEPT ![c] = "snap_ticked"]
    /\ UNCHANGED <<shared, live, counter, taps, answer, runtime, history>>

(* mutant: the index is read after the append. *)
RecordMarker_late_index(c) ==
    /\ pc[c] = "snap_ticked"
    /\ AppendEvent(c, [type |-> "SnapshotMarker", id |-> call[c].id])
    /\ call' = [call EXCEPT ![c].index = Len(log')]
    /\ Release(c)
    /\ pc' = [pc EXCEPT ![c] = "snap_recorded"]
    /\ UNCHANGED <<graph, poisoned, snapshots, values, answer, runtime,
                   committed, unlogged>>

RecordMarker(c) ==
    /\ pc[c] = "snap_ticked"
    /\ AppendEvent(c, [type |-> "SnapshotMarker", id |-> call[c].id])
    /\ call' = [call EXCEPT ![c].index = Len(log)]
    /\ Release(c)
    /\ pc' = [pc EXCEPT ![c] = "snap_recorded"]
    /\ UNCHANGED <<graph, poisoned, snapshots, values, answer, runtime,
                   committed, unlogged>>

InsertSnapshot(c) ==
    /\ pc[c] = "snap_recorded"
    /\ snapshots' = Put(snapshots, call[c].ts,
                        [id |-> call[c].id, index |-> call[c].index])
    /\ Answer(c, "ok")
    /\ pc' = [pc EXCEPT ![c] = "done"]
    /\ UNCHANGED <<graph, poisoned, log, values, mutation, taps, call, runtime,
                   history>>

(* The snapshot future is not spawned: dropping it stops it at its await. *)
DropSnapshot(c) ==
    /\ pc[c] \in SnapshotSteps
    /\ Release(c)
    /\ answer' = [answer EXCEPT ![c] = "dropped"]
    /\ pc' = [pc EXCEPT ![c] = "done"]
    /\ UNCHANGED <<shared, values, taps, call, runtime, history>>

-----------------------------------------------------------------------------
(***************************************************************************)
(* Clone: everything shared except the clock and the snapshot counter,     *)
(* which the clone starts from the original's current values.              *)
(***************************************************************************)
Clone(v, w) ==
    /\ v \in live /\ w \notin live
    /\ live' = live \cup {w}
    /\ clock' = [clock EXCEPT ![w] = clock[v]]
    /\ counter' = [counter EXCEPT ![w] = counter[v]]
    /\ UNCHANGED <<shared, mutation, taps, pc, call, answer, runtime, history>>

(* The tap's receiver: takes one event, or goes away. *)
Forward ==
    /\ tap # <<>>
    /\ forwarded' = Append(forwarded, Head(tap))
    /\ tap' = Tail(tap)
    /\ UNCHANGED <<shared, values, mutation, tapOpen, pc, call, answer,
                   runtime, history>>

CloseTap ==
    /\ tapOpen
    /\ tapOpen' = FALSE /\ tap' = <<>>
    /\ UNCHANGED <<shared, values, mutation, forwarded, pc, call, answer,
                   runtime, history>>

(***************************************************************************)
(* Runtime shutdown: from then on no call starts and each task may be      *)
(* dropped at the await it waits in (TaskCancelled).  A job the pool       *)
(* already holds still runs, without a task to record its event.           *)
(***************************************************************************)
ShutDown ==
    /\ MayShutDown /\ ~shutdown
    /\ shutdown' = TRUE
    /\ UNCHANGED <<shared, values, mutation, taps, pc, call, answer, orphans,
                   history>>

CancelTask(c) ==
    /\ shutdown /\ pc[c] \in MutationSteps
    /\ orphans' = IF pc[c] = "submitted" THEN orphans \cup {c} ELSE orphans
    /\ unlogged' = \/ unlogged
                   \/ pc[c] = "returned" /\ call[c].result = "ok"
                   \/ pc[c] = "ticked"
    /\ Release(c) /\ Answer(c, "cancelled")
    /\ pc' = [pc EXCEPT ![c] = "done"]
    /\ UNCHANGED <<shared, values, taps, call, shutdown, committed, replayed>>

RunOrphan(c) ==
    /\ c \in orphans
    /\ orphans' = orphans \ {c}
    /\ \E result \in Results, event \in JobEvents(call[c].req) :
          /\ Job(call[c].req, result, event)
          /\ unlogged' = (unlogged \/ result = "ok")
    /\ UNCHANGED <<log, snapshots, values, mutation, taps, pc, call, answer,
                   shutdown, committed, replayed>>

-----------------------------------------------------------------------------
(* The steps a task, the pool or the snapshot's caller takes by itself. *)
Progress(c) ==
    \/ Lock(c) \/ RunJob(c) \/ Tick(c) \/ Record(c) \/ Fail(c)
    \/ LockSnapshot(c) \/ RecordMarker(c) \/ InsertSnapshot(c)

Next ==
    \/ \E c \in Calls :
          \/ \E v \in Values : create_snapshot(c, v)
          \/ \E v \in Values, r \in Requests : Spawn(c, v, r)
          \/ Progress(c)
          \/ DropFuture(c) \/ DropSnapshot(c)
          \/ CancelTask(c) \/ RunOrphan(c)
    \/ \E v, w \in Values : Clone(v, w)
    \/ Forward \/ CloseTap \/ ShutDown

Spec == Init /\ [][Next]_vars

(***************************************************************************)
(* The executor runs every submitted job and the scheduler polls every     *)
(* woken task; tokio's Mutex is FIFO, so no waiter is passed over for      *)
(* ever.                                                                   *)
(***************************************************************************)
FairSpec ==
    /\ Spec
    /\ \A c \in Calls : SF_vars(Lock(c) \/ LockSnapshot(c))
    /\ \A c \in Calls : WF_vars(Progress(c))

-----------------------------------------------------------------------------
(***************************************************************************)
(* Properties.                                                             *)
(***************************************************************************)

(* Every variable keeps its shape; the mutation lock is held by exactly    *)
(* the call that is between taking and releasing it.                       *)
TypeOK ==
    /\ poisoned \in BOOLEAN /\ tapOpen \in BOOLEAN /\ shutdown \in BOOLEAN
    /\ unlogged \in BOOLEAN
    /\ live \subseteq Values
    /\ clock \in [Values -> Nat] /\ counter \in [Values -> Nat]
    /\ mutation \in Calls \cup {NoCall}
    /\ pc \in [Calls -> Steps]
    /\ answer \in [Calls -> Answers]
    /\ orphans \subseteq Calls
    /\ DOMAIN call = Calls
    /\ \A c \in Calls : /\ call[c].val \in Values
                        /\ call[c].ts \in Nat /\ call[c].id \in Nat
                        /\ call[c].index \in Nat
                        /\ call[c].result \in Results
                        /\ DOMAIN call[c] = Locals
    /\ Len(tap) <= TapCap

Holds(c) == pc[c] \in {"submitted", "returned", "ticked", "snap_ticked"}

(* A change that reached the graph and waits for its event. *)
Pending(c) == pc[c] = "ticked" \/ (pc[c] = "returned" /\ call[c].result = "ok")

(* Replaying the log gives the graph whenever no task is between its       *)
(* change and its event, unless a runtime shutdown cancelled one there:    *)
(* "records every mutation as an event, so the graph state at any point in *)
(* time can be reconstructed" (temporal.rs:34-36), over any interleaving   *)
(* of tasks, dropped futures, failed and panicking jobs.                   *)
LogReplaysGraph ==
    ~unlogged /\ (\A c \in Calls : ~Pending(c)) => replayed = View(graph)

(* A caller that got its result has one event in the log and one that got  *)
(* an error has none: "a failed mutation ticks no timestamp" and records   *)
(* nothing (temporal.rs:41), and no call records twice.                    *)
AnswersMatchLog ==
    /\ \A i, j \in DOMAIN log : log[i].call = log[j].call => i = j
    /\ \A c \in Calls :
          LET recorded == \E i \in DOMAIN log : log[i].call = c
          IN  /\ answer[c] = "ok" => recorded
              /\ answer[c] \in {"error", "poisoned", "panicked", "cancelled"}
                    => ~recorded

(* A stored snapshot's event_index names its own marker                    *)
(* (temporal.rs:657-661), although the map is written after the log guard  *)
(* is released.                                                            *)
SnapshotsPointAtMarkers ==
    \A t \in DOMAIN snapshots :
        LET s == snapshots[t]
        IN  /\ s.index + 1 \in DOMAIN log
            /\ log[s.index + 1].ts = t
            /\ log[s.index + 1].event = [type |-> "SnapshotMarker",
                                         id |-> s.id]

(* The tap's consumer sees a subsequence of the log: what it received and  *)
(* what waits for it are logged events in log order ("tap order always     *)
(* matches log order", temporal.rs:666-668).                               *)
TapFollowsLog ==
    LET tapped == forwarded \o tap
    IN  \A i \in DOMAIN tapped :
            \E k \in DOMAIN log :
                /\ log[k] = tapped[i]
                /\ \A j \in 1..(i - 1), l \in DOMAIN log :
                      log[l] = tapped[j] => l < k

(* What is read beside the log agrees with it: the snapshots through their *)
(* indices and the tap's consumer through its order, each written in       *)
(* another hold of a lock than the graph.                                  *)
FollowersMatchLog == SnapshotsPointAtMarkers /\ TapFollowsLog

(* After a panic under the write lock the graph stays as the panic left it *)
(* and no call gets a change to record any more; a change made before the  *)
(* panic, by a task that lost its lock to no one, is still recorded.       *)
PoisonStopsMutations ==
    [][poisoned => /\ graph' = graph
                   /\ \A c \in Calls : Pending(c)' => Pending(c)]_vars

(* "A mutation future dropped after its first poll still applies the       *)
(* change and records its event" (temporal.rs:44-46): every call that      *)
(* started ends, and no call stays behind the mutation lock of a call that *)
(* was dropped, failed, panicked or was cancelled.                         *)
EveryCallEnds == \A c \in Calls : pc[c] # "idle" ~> pc[c] = "done"

(***************************************************************************)
(* The detailed task steps implement the atomic EventSourcedGraph: a call  *)
(* takes effect when its event is appended, whatever was dropped, failed,  *)
(* panicked or cancelled in between.                                       *)
(***************************************************************************)
CONSTANTS Timestamps, SnapshotIds

Atomic == INSTANCE EventSourcedGraph WITH graph <- committed, lost <- unlogged

ImplementsAtomic == Atomic!Spec
=============================================================================
