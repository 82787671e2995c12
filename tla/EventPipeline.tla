--------------------------- MODULE EventPipeline ----------------------------
(***************************************************************************)
(* The way of an event to the store: the graph's event tap and the         *)
(* service's trace tap, a forwarder behind each (src/persistence/tee.rs,   *)
(* src/persistence/decision.rs, or the log/bus tee of                      *)
(* src/subsystems/durable.rs), one bounded channel into the store writer   *)
(* (src/persistence/writer.rs) and a stream of the store per forwarder.    *)
(* Each stream is an AppendOnlyLog; FileEventStore implements it.          *)
(*                                                                         *)
(* Event n is the n-th of the in-memory log.  A decision carries the       *)
(* length the log had when its position was read.                          *)
(***************************************************************************)
EXTENDS Naturals, Sequences, SequencesExt

CONSTANTS MaxEvents, MaxDecisions,   \* bounds: what is produced
          TapCap, WriterCap,         \* channel capacities
          MayCancel,                 \* the shared token may be cancelled
          MayFail,                   \* encodes, appends, sends may fail
          Bus                        \* decisions go through the log/bus tee

ASSUME PipelineBounds ==
    /\ MaxEvents \in Nat /\ MaxDecisions \in Nat
    /\ TapCap \in Nat \ {0} /\ WriterCap \in Nat \ {0}
ASSUME PipelineFlags == {MayCancel, MayFail, Bus} \subseteq BOOLEAN

Streams == {"Topology", "Decisions"}

VARIABLES
    logged, decided,         \* events in the memory log; decisions taken
    tap, tapOpen,            \* per stream: tap channel, its sender alive
    fwd,                     \* per forwarder: [step, item, remaining]
    cancelled,               \* the token all tasks share
    queue,                   \* the writer's channel
    writer,                  \* [step, item]
    stream, wedged,    \* the store
    bus,                     \* what the durable bus got
    gap, failed, atCancel    \* history, see below

(***************************************************************************)
(* History: per stream, whether an item was lost that the stream goes on   *)
(* without: dropped on the way to the writer's channel, or its append      *)
(* failed before anything was written; the items whose append failed or    *)
(* was refused; what the writer's channel and the writer held when the     *)
(* token was cancelled.                                                    *)
(***************************************************************************)
producers == <<logged, decided>>
store     == <<stream, wedged>>
history   == <<gap, failed, atCancel>>
vars      == <<producers, tap, tapOpen, fwd, cancelled, queue, writer, store,
               bus, history>>

NoItem == [stream |-> "none", n |-> 0, len |-> 0]
Item(s, n, len) == [stream |-> s, n |-> n, len |-> len]
Uncounted == TapCap + 1      \* CancelDrain.remaining is None

Init ==
    /\ logged = 0 /\ decided = 0
    /\ tap = [s \in Streams |-> <<>>] /\ tapOpen = [s \in Streams |-> TRUE]
    /\ fwd = [s \in Streams |-> [step |-> "recv", item |-> NoItem,
                                 remaining |-> Uncounted]]
    /\ cancelled = FALSE
    /\ queue = <<>> /\ writer = [step |-> "recv", item |-> NoItem]
    /\ stream = [s \in Streams |-> <<>>]
    /\ wedged = [s \in Streams |-> FALSE]
    /\ bus = <<>>
    /\ gap = [s \in Streams |-> FALSE] /\ failed = {} /\ atCancel = {}

Stopped(s) == fwd[s].step = "stopped"

-----------------------------------------------------------------------------
(***************************************************************************)
(* The taps: tap_event and emit_trace try_send; a full tap, or one whose   *)
(* forwarder stopped, drops the item.                                      *)
(***************************************************************************)
(* mutant: a full tap makes room by dropping its oldest item. *)
try_emit_evicts(s, item) ==
    /\ tap' = IF Stopped(s) THEN tap
              ELSE [tap EXCEPT ![s] = Append(IF Len(@) < TapCap THEN @
                                             ELSE Tail(@), item)]
    /\ UNCHANGED gap

try_emit(s, item) ==
    LET fits == ~Stopped(s) /\ Len(tap[s]) < TapCap
    IN  /\ tap' = IF fits THEN [tap EXCEPT ![s] = Append(@, item)] ELSE tap
        /\ gap' = IF fits THEN gap ELSE [gap EXCEPT ![s] = TRUE]

LogEvent ==
    /\ tapOpen["Topology"] /\ logged < MaxEvents
    /\ logged' = logged + 1
    /\ try_emit("Topology", Item("Topology", logged + 1, 0))
    /\ UNCHANGED <<decided, tapOpen, fwd, cancelled, queue, writer, store, bus,
                   failed, atCancel>>

(* The position was read before the manager call: any length up to now. *)
Decide ==
    /\ tapOpen["Decisions"] /\ decided < MaxDecisions
    /\ decided' = decided + 1
    /\ \E len \in 0..logged :
          try_emit("Decisions", Item("Decisions", decided + 1, len))
    /\ UNCHANGED <<logged, tapOpen, fwd, cancelled, queue, writer, store, bus,
                   failed, atCancel>>

(* The graph, or the service, and with it the tap's sender is dropped. *)
DropTap(s) ==
    /\ tapOpen[s]
    /\ tapOpen' = [tapOpen EXCEPT ![s] = FALSE]
    /\ UNCHANGED <<producers, tap, fwd, cancelled, queue, writer, store, bus,
                   history>>

Cancel ==
    /\ MayCancel /\ ~cancelled
    /\ cancelled' = TRUE
    /\ atCancel' = Range(queue) \cup {writer.item}
    /\ UNCHANGED <<producers, tap, tapOpen, fwd, queue, writer, store, bus,
                   gap, failed>>

-----------------------------------------------------------------------------
(***************************************************************************)
(* The forwarders.  Topology reads with try_recv once cancelled, Decisions *)
(* with CancelDrain.                                                       *)
(***************************************************************************)
Counts(s) == s = "Decisions" /\ fwd[s].remaining # Uncounted

(* CancelDrain sees the cancel: count what is buffered. *)
ObserveCancel ==
    /\ fwd["Decisions"].step = "recv" /\ cancelled /\ ~Counts("Decisions")
    /\ fwd' = [fwd EXCEPT !["Decisions"].remaining = Len(tap["Decisions"])]
    /\ UNCHANGED <<producers, tap, tapOpen, cancelled, queue, writer, store,
                   bus, history>>

(* The next item of the tap, one fewer left of a counted drain. *)
Take(s) ==
    /\ fwd[s].step = "recv" /\ tap[s] # <<>>
    /\ s = "Decisions" => (cancelled => Counts(s)) /\ fwd[s].remaining > 0
    /\ fwd' = [fwd EXCEPT ![s] =
                  [step |-> "forward", item |-> Head(tap[s]),
                   remaining |-> IF Counts(s) THEN @.remaining - 1
                                              ELSE @.remaining]]
    /\ tap' = [tap EXCEPT ![s] = Tail(@)]
    /\ UNCHANGED <<producers, tapOpen, cancelled, queue, writer, store, bus,
                   history>>

(* The tap is closed and empty, or cancelled and drained; what is left in  *)
(* the tap, and the forwarder's writer_tx, go with the task.               *)
StopForwarder(s) ==
    /\ fwd[s].step = "recv"
    /\ \/ tap[s] = <<>> /\ ~tapOpen[s] /\ ~cancelled
       \/ cancelled /\ tap[s] = <<>> /\ (s = "Decisions" => Counts(s))
       \/ Counts(s) /\ fwd[s].remaining = 0
    /\ fwd' = [fwd EXCEPT ![s] = [@ EXCEPT !.step = "stopped"]]
    /\ tap' = [tap EXCEPT ![s] = <<>>]
    /\ UNCHANGED <<producers, tapOpen, cancelled, queue, writer, store, bus,
                   history>>

AfterSend(s) ==
    fwd' = [fwd EXCEPT ![s] =
               IF s = "Decisions" /\ Bus THEN [@ EXCEPT !.step = "publish"]
               ELSE [@ EXCEPT !.step = "recv", !.item = NoItem]]

(* forward_one, forward_decision_trace: send().await waits for room... *)
Forward(s) ==
    /\ fwd[s].step = "forward"
    /\ writer.step # "stopped" /\ Len(queue) < WriterCap
    /\ queue' = Append(queue, fwd[s].item)
    /\ AfterSend(s)
    /\ UNCHANGED <<producers, tap, tapOpen, cancelled, writer, store, bus,
                   history>>

(* mutant: the send does not notice that the receiver is gone. *)
SendClosed_waits(s) ==
    /\ fwd[s].step = "forward" /\ writer.step = "stopped"
    /\ UNCHANGED vars

(* ...a send to a stopped writer fails and the record is dropped... *)
SendClosed(s) ==
    /\ fwd[s].step = "forward" /\ writer.step = "stopped"
    /\ AfterSend(s)
    /\ UNCHANGED <<producers, tap, tapOpen, cancelled, queue, writer, store,
                   bus, history>>

(* ...and so is one that cannot be encoded. *)
EncodeFails(s) ==
    /\ fwd[s].step = "forward"
    /\ MayFail /\ gap' = [gap EXCEPT ![s] = TRUE]
    /\ AfterSend(s)
    /\ UNCHANGED <<producers, tap, tapOpen, cancelled, queue, writer, store,
                   bus, failed, atCancel>>

(* tee_one, second half: publish on the bus; a failed send is logged. *)
Publish ==
    /\ fwd["Decisions"].step = "publish"
    /\ \/ bus' = Append(bus, fwd["Decisions"].item)
       \/ MayFail /\ UNCHANGED bus
    /\ fwd' = [fwd EXCEPT !["Decisions"] = [@ EXCEPT !.step = "recv",
                                                     !.item = NoItem]]
    /\ UNCHANGED <<producers, tap, tapOpen, cancelled, queue, writer, store,
                   history>>

-----------------------------------------------------------------------------
(***************************************************************************)
(* The store writer.                                                       *)
(***************************************************************************)
WriterTake ==
    /\ writer.step = "recv" /\ queue # <<>>
    /\ writer' = [step |-> "append", item |-> Head(queue)]
    /\ queue' = Tail(queue)
    /\ UNCHANGED <<producers, tap, tapOpen, fwd, cancelled, store, bus, history>>

(* mutant: a failed append is tried again. *)
offload_append_retries ==
    LET i == writer.item IN
    /\ writer.step = "append"
    /\ \/ /\ ~wedged[i.stream]
          /\ stream' = [stream EXCEPT ![i.stream] = Append(@, i)]
          /\ \/ writer' = [step |-> "recv", item |-> NoItem]
             \/ MayFail /\ UNCHANGED writer
          /\ UNCHANGED <<wedged, failed>>
    /\ UNCHANGED <<producers, tap, tapOpen, fwd, cancelled, queue, bus, gap,
                   atCancel>>

(***************************************************************************)
(* offload_append: one attempt, whose error is logged.  Rotation and       *)
(* encoding come first and their errors leave the stream as it was, so     *)
(* that the next record takes the place of the lost one (store.rs:223-233);*)
(* a failed write wedges the stream, and a wedged stream refuses.          *)
(***************************************************************************)
offload_append ==
    LET i == writer.item IN
    /\ writer.step = "append"
    /\ writer' = [step |-> "recv", item |-> NoItem]
    /\ \/ /\ ~wedged[i.stream]
          /\ stream' = [stream EXCEPT ![i.stream] = Append(@, i)]
          /\ UNCHANGED <<wedged, failed, gap>>
       \/ /\ MayFail /\ ~wedged[i.stream]
          /\ gap' = [gap EXCEPT ![i.stream] = TRUE]
          /\ failed' = failed \cup {i} /\ UNCHANGED store
       \/ /\ MayFail \/ wedged[i.stream]
          /\ wedged' = [wedged EXCEPT ![i.stream] = TRUE]
          /\ failed' = failed \cup {i} /\ UNCHANGED <<stream, gap>>
    /\ UNCHANGED <<producers, tap, tapOpen, fwd, cancelled, queue, bus, atCancel>>

(* Every sender is gone, or try_recv found nothing after the cancel... *)
WriterEnds ==
    /\ writer.step = "recv" /\ queue = <<>>
    /\ cancelled \/ \A s \in Streams : Stopped(s)
    /\ writer' = [writer EXCEPT !.step = "ending"]
    /\ UNCHANGED <<producers, tap, tapOpen, fwd, cancelled, queue, store, bus,
                   history>>

(* ...and the receiver is dropped, with a record sent since. *)
CloseWriter ==
    /\ writer.step = "ending"
    /\ writer' = [writer EXCEPT !.step = "stopped"]
    /\ queue' = <<>>
    /\ UNCHANGED <<producers, tap, tapOpen, fwd, cancelled, store, bus, history>>

-----------------------------------------------------------------------------
Forwarder(s) == Take(s) \/ StopForwarder(s) \/ Forward(s) \/ SendClosed(s)
Writer == WriterTake \/ offload_append \/ WriterEnds \/ CloseWriter

Next == \/ LogEvent \/ Decide \/ Cancel \/ ObserveCancel \/ Publish \/ Writer
        \/ \E s \in Streams : DropTap(s) \/ Forwarder(s) \/ EncodeFails(s)

Spec == Init /\ [][Next]_vars

(* The scheduler polls the three tasks; nobody has to produce, drop a tap, *)
(* cancel or fail.                                                         *)
FairSpec ==
    /\ Spec
    /\ WF_vars(Forwarder("Topology"))
    /\ WF_vars(Forwarder("Decisions") \/ ObserveCancel \/ Publish)
    /\ WF_vars(Writer)

-----------------------------------------------------------------------------
(***************************************************************************)
(* Properties.                                                             *)
(***************************************************************************)
AllStopped == writer.step = "stopped" /\ \A s \in Streams : Stopped(s)

Increasing(items) == \A i, j \in DOMAIN items : i < j => items[i].n < items[j].n

Produced(s) == IF s = "Topology" THEN logged ELSE decided

(* decision_store_record: the parent is Topology record event_log_len - 1. *)
ParentSeq(d) == d.len - 1

(* The Topology record a decision names is the last event its position had *)
(* counted, or is not stored (yet).                                        *)
ParentExact(d) ==
    d.len > 0 /\ ParentSeq(d) < Len(stream["Topology"]) =>
        stream["Topology"][ParentSeq(d) + 1].n = d.len

(***************************************************************************)
(* Delivery is at most once and in order, per stream and on the bus,       *)
(* through both hops, with drops, failed appends and a cancel in between   *)
(* ("at-most-once from the tee onward", writer.rs).  Dropping the taps     *)
(* loses nothing: once every task has ended without a cancel, the store    *)
(* holds every event and decision that its tap and encoder let through and *)
(* whose append did not fail (tee.rs, "lossless").  A cancel does not lose *)
(* what the writer had accepted: all of it was appended, or its append     *)
(* failed, when the writer stops (writer.rs: "records accepted before the  *)
(* cancel are still written").  And a decision's parent is never the wrong *)
(* event while the topology tap dropped nothing (decision.rs, "Parent      *)
(* precondition") and every topology append that failed wedged the stream: *)
(* one that failed before its write shifts the events after it.            *)
(***************************************************************************)
DeliveredOnceInOrder ==
    /\ \A s \in Streams : Increasing(stream[s])
    /\ Increasing(bus)
    /\ AllStopped /\ ~cancelled =>
          \A s \in Streams : ~gap[s] /\ ~wedged[s] => Len(stream[s]) = Produced(s)
    /\ writer.step = "stopped" =>
          \A i \in atCancel \ {NoItem} :
             i \in failed \/ i \in Range(stream[i.stream])
    /\ ~gap["Topology"] => \A d \in Range(stream["Decisions"]) : ParentExact(d)

(* A cancel ends all three tasks, and so does dropping both taps, with the *)
(* channels full and the tasks waiting on each other or not.               *)
PipelineStops ==
    (cancelled \/ \A s \in Streams : ~tapOpen[s]) ~> AllStopped
=============================================================================
