----------------------------- MODULE Ingestion ------------------------------
(***************************************************************************)
(* Ingestion: a pump reads a source and feeds each sample to the monitor   *)
(* its router names (src/ingest/source.rs), a monitor task per key keeps a *)
(* ring of samples and publishes an update for each                        *)
(* (src/ingest/monitor.rs); another holder of the handles tells samples    *)
(* and pings.  Sample n is the n-th that was made.                         *)
(***************************************************************************)
EXTENDS Naturals, Sequences, SequencesExt

CONSTANTS Keys,           \* sample keys
          Monitors,       \* the keys that have a monitor
          router,         \* pump's router: key -> key of the monitor behind
          Capacity,       \* history_capacity of the monitors
          QueueCap,       \* COMMAND_CAPACITY
          MaxSamples      \* bound: samples made

ASSUME MonitorsHaveKeys == Monitors \subseteq Keys
ASSUME NamesAreFree == "none" \notin Keys
ASSUME RouterOK == DOMAIN router \subseteq Keys /\ \A k \in DOMAIN router :
                                                      router[k] \in Monitors
ASSUME IngestBounds ==
    Capacity \in Nat /\ QueueCap \in Nat \ {0} /\ MaxSamples \in Nat

VARIABLES
    made,               \* samples made so far
    stopped, cancelled, \* tasks that ended; tasks whose token is cancelled
    queue,              \* per monitor: its commands
    history, latest,    \* per monitor: SampleMonitor
    ingested, published,\* history: per monitor, all samples it took, and
                        \* those whose update went to the bus
    refused,            \* history: samples dropped as of the wrong key
    pump,               \* [step, sample]
    fed, dropped,       \* PumpStats, as the samples themselves
    read,               \* history: samples the source yielded
    result,             \* of pump_source: "none", "ok", "exhausted", "err"
    teller              \* the other holder: [step, to, told]

monitor == <<queue, history, latest, ingested, published, refused>>
source  == <<pump, fed, dropped, read, result>>
ingestvars == <<made, stopped, cancelled, monitor, source, teller>>

Tasks == Monitors \union {"pump"}
NoSample == [key |-> "none", n |-> 0]

IngestInit ==
    /\ made = 0 /\ stopped = {} /\ cancelled = {}
    /\ queue = [m \in Monitors |-> <<>>]
    /\ history = [m \in Monitors |-> <<>>]
    /\ latest = [m \in Monitors |-> NoSample]
    /\ ingested = [m \in Monitors |-> <<>>]
    /\ published = [m \in Monitors |-> <<>>]
    /\ refused = {}
    /\ pump = [step |-> "next", sample |-> NoSample]
    /\ fed = {} /\ dropped = {} /\ read = {} /\ result = "none"
    /\ teller = [step |-> "idle", to |-> "none", told |-> {}]

(* A monitor's own token, or the root both descend from. *)
Cancel ==
    /\ cancelled' \in {Tasks} \union {cancelled \union {m} : m \in Monitors}
    /\ cancelled' # cancelled
    /\ UNCHANGED <<made, stopped, monitor, source, teller>>

-----------------------------------------------------------------------------
(* monitor_loop *)

(* mutant: the ring makes room one sample too late. *)
Push_late(m, s) ==
    Append(IF Len(history[m]) > Capacity THEN Tail(history[m]) ELSE history[m],
           s)

Push(m, s) ==
    Append(IF Len(history[m]) = Capacity /\ history[m] # <<>>
           THEN Tail(history[m]) ELSE history[m], s)

(* ingest, and the update to the bus; a sample of another key is dropped. *)
ingest(m, s) ==
    IF s.key # m
    THEN /\ refused' = refused \union {s}
         /\ UNCHANGED <<history, latest, ingested, published>>
    ELSE /\ history' = [history EXCEPT ![m] = Push(m, s)]
         /\ latest' = [latest EXCEPT ![m] = s]
         /\ ingested' = [ingested EXCEPT ![m] = Append(@, s)]
         /\ published' = [published EXCEPT ![m] = Append(@, s)]
         /\ UNCHANGED refused

(* Sample, Feed and Ping; a Snapshot changes nothing. *)
Handle(m) ==
    /\ m \notin stopped \union cancelled /\ queue[m] # <<>>
    /\ queue' = [queue EXCEPT ![m] = Tail(@)]
    /\ LET cmd == Head(queue[m])
       IN  /\ IF cmd.type = "Ping"
              THEN UNCHANGED <<history, latest, ingested, published, refused>>
              ELSE ingest(m, cmd.sample)
           /\ pump' = IF cmd.type = "Feed" /\ pump.step = "ack"
                      THEN [pump EXCEPT !.step = "acked"] ELSE pump
           /\ teller' = IF cmd.type = "Ping"
                        THEN [teller EXCEPT !.step = "flushed"] ELSE teller
    /\ UNCHANGED <<made, stopped, cancelled, fed, dropped, read, result>>

HandlesDropped == pump.step = "done" /\ teller.step = "dropped"

(* A cancelled monitor drops its commands, and their acknowledgements; one *)
(* without handles ends when its queue is empty.                           *)
StopMonitor(m) ==
    /\ m \notin stopped
    /\ m \in cancelled \/ (queue[m] = <<>> /\ HandlesDropped)
    /\ stopped' = stopped \union {m}
    /\ queue' = [queue EXCEPT ![m] = <<>>]
    /\ UNCHANGED <<made, cancelled, history, latest, ingested, published,
                   refused, source, teller>>

-----------------------------------------------------------------------------
(* pump_source *)

(* mutant: only the paced sleep watches the token. *)
PumpCancelled_sleepOnly ==
    /\ pump.step = "sleep" /\ "pump" \in cancelled
    /\ pump' = [step |-> "done", sample |-> NoSample]
    /\ result' = "ok" /\ stopped' = stopped \union {"pump"}
    /\ UNCHANGED <<made, cancelled, monitor, fed, dropped, read, teller>>

(* The biased select of the outer loop, or of the paced sleep. *)
PumpCancelled ==
    /\ pump.step \in {"next", "sleep"} /\ "pump" \in cancelled
    /\ pump' = [step |-> "done", sample |-> NoSample]
    /\ result' = "ok" /\ stopped' = stopped \union {"pump"}
    /\ UNCHANGED <<made, cancelled, monitor, fed, dropped, read, teller>>

(* next_sample yields; Realtime pacing may sleep first. *)
NextSample ==
    \E k \in Keys, step \in {"sleep", "route"} :
        /\ pump.step = "next" /\ "pump" \notin cancelled /\ made < MaxSamples
        /\ made' = made + 1
        /\ LET s == [key |-> k, n |-> made + 1]
           IN  pump' = [step |-> step, sample |-> s] /\ read' = read \union {s}
        /\ UNCHANGED <<stopped, cancelled, monitor, fed, dropped, result,
                       teller>>

(* The source is exhausted, or fails. *)
SourceEnds ==
    /\ pump.step = "next" /\ "pump" \notin cancelled
    /\ result' \in {"exhausted", "sourceErr"}
    /\ pump' = [step |-> "done", sample |-> NoSample]
    /\ stopped' = stopped \union {"pump"}
    /\ UNCHANGED <<made, cancelled, monitor, fed, dropped, read, teller>>

Wake ==
    /\ pump.step = "sleep" /\ "pump" \notin cancelled
    /\ pump' = [pump EXCEPT !.step = "route"]
    /\ UNCHANGED <<made, stopped, cancelled, monitor, fed, dropped, read,
                   result, teller>>

NoMonitor ==
    /\ pump.step = "route" /\ pump.sample.key \notin DOMAIN router
    /\ dropped' = dropped \union {pump.sample}
    /\ pump' = [step |-> "next", sample |-> NoSample]
    /\ UNCHANGED <<made, stopped, cancelled, monitor, fed, read, result, teller>>

(* mutant: feed returns once the command is queued. *)
Feed_unacked ==
    /\ pump.step = "route" /\ pump.sample.key \in DOMAIN router
    /\ LET m == router[pump.sample.key]
       IN  /\ m \notin stopped /\ Len(queue[m]) < QueueCap
           /\ queue' = [queue EXCEPT ![m] =
                           Append(@, [type |-> "Feed", sample |-> pump.sample])]
    /\ pump' = [pump EXCEPT !.step = "acked"]
    /\ UNCHANGED <<made, stopped, cancelled, history, latest, ingested,
                   published, refused, fed, dropped, read, result, teller>>

(* feed: the command waits for room, then for its acknowledgement. *)
Feed ==
    /\ pump.step = "route" /\ pump.sample.key \in DOMAIN router
    /\ LET m == router[pump.sample.key]
       IN  /\ m \notin stopped /\ Len(queue[m]) < QueueCap
           /\ queue' = [queue EXCEPT ![m] =
                           Append(@, [type |-> "Feed", sample |-> pump.sample])]
    /\ pump' = [pump EXCEPT !.step = "ack"]
    /\ UNCHANGED <<made, stopped, cancelled, history, latest, ingested,
                   published, refused, fed, dropped, read, result, teller>>

(* The monitor is gone: at the send, or with the acknowledgement. *)
FeedFails ==
    /\ pump.step \in {"route", "ack"} /\ pump.sample.key \in DOMAIN router
    /\ router[pump.sample.key] \in stopped
    /\ pump' = [step |-> "done", sample |-> NoSample]
    /\ result' = "feedErr" /\ stopped' = stopped \union {"pump"}
    /\ UNCHANGED <<made, cancelled, monitor, fed, dropped, read, teller>>

Fed ==
    /\ pump.step = "acked"
    /\ fed' = fed \union {pump.sample}
    /\ pump' = [step |-> "next", sample |-> NoSample]
    /\ UNCHANGED <<made, stopped, cancelled, monitor, dropped, read, result,
                   teller>>

-----------------------------------------------------------------------------
(* Another holder of the handles: tell, and ping the same monitor. *)

tell(m, k) ==
    /\ teller.step = "idle" /\ teller.to \in {"none", m}
    /\ made < MaxSamples /\ m \notin stopped /\ Len(queue[m]) < QueueCap
    /\ made' = made + 1
    /\ LET s == [key |-> k, n |-> made + 1]
       IN  /\ queue' = [queue EXCEPT ![m] =
                           Append(@, [type |-> "Sample", sample |-> s])]
           /\ teller' = [teller EXCEPT !.to = m, !.told = @ \union {s}]
    /\ UNCHANGED <<stopped, cancelled, history, latest, ingested, published,
                   refused, source>>

ping ==
    LET m == teller.to
    IN  /\ teller.step = "idle" /\ m # "none" /\ m \notin stopped
        /\ Len(queue[m]) < QueueCap
        /\ queue' = [queue EXCEPT ![m] = Append(@, [type |-> "Ping",
                                                    sample |-> NoSample])]
        /\ teller' = [teller EXCEPT !.step = "ping"]
        /\ UNCHANGED <<made, stopped, cancelled, history, latest, ingested,
                       published, refused, source>>

drop_handle ==
    /\ teller.step \in {"idle", "flushed"}
    /\ teller' = [teller EXCEPT !.step = "dropped"]
    /\ UNCHANGED <<made, stopped, cancelled, monitor, source>>

-----------------------------------------------------------------------------
Pump == PumpCancelled \/ NextSample \/ SourceEnds \/ Wake \/ NoMonitor
        \/ Feed \/ FeedFails \/ Fed

Monitor(m) == Handle(m) \/ StopMonitor(m)

IngestNext ==
    \/ Cancel \/ Pump
    \/ \E m \in Monitors : Monitor(m)
    \/ \E m \in Monitors, k \in Keys : tell(m, k)
    \/ ping \/ drop_handle

IngestSpec == IngestInit /\ [][IngestNext]_ingestvars

(* The scheduler polls the tasks, the timer fires. *)
IngestFairSpec ==
    /\ IngestSpec /\ \A m \in Monitors : WF_ingestvars(Monitor(m))
    /\ WF_ingestvars(PumpCancelled) /\ WF_ingestvars(Wake) /\ WF_ingestvars(NoMonitor)
    /\ SF_ingestvars(Feed) /\ WF_ingestvars(FeedFails) /\ WF_ingestvars(Fed)

-----------------------------------------------------------------------------
(* The ring holds the newest samples of its key, latest the last of them. *)
HistoryIsNewest ==
    \A m \in Monitors :
        /\ IsSuffix(history[m], ingested[m])
        /\ Len(history[m]) = IF Len(ingested[m]) < Capacity
                             THEN Len(ingested[m]) ELSE Capacity
        /\ ingested[m] # <<>> => latest[m] = Last(ingested[m])

(***************************************************************************)
(* An acknowledgement stands for the work: every sample counted as fed is  *)
(* on the bus ("every forwarded sample was ingested and its update         *)
(* published", source.rs:89), a ping that returned is a barrier behind     *)
(* what was told before it, and the pump's counters account for every      *)
(* sample the source yielded, but for one in hand at a cancel.             *)
(***************************************************************************)
AcknowledgedWereHandled ==
    /\ \A s \in fed : \E m \in Monitors : Contains(published[m], s)
    /\ teller.step = "flushed" =>
          \A s \in teller.told :
             s \in refused \/ Contains(ingested[teller.to], s)
    /\ fed \intersect dropped = {}
    /\ result = "exhausted" => read = fed \union dropped
    /\ result = "ok" => \A s, t \in read \ (fed \union dropped) : s = t

(* The monitor's accounts of its samples: what it keeps, and what it told  *)
(* others it had kept.                                                     *)
SamplesAccounted == HistoryIsNewest /\ AcknowledgedWereHandled

(* A cancelled pump ends, also in the middle of a feed, and a monitor ends *)
(* when the last of its handles is gone.                                   *)
TasksEnd ==
    /\ "pump" \in cancelled ~> pump.step = "done"
    /\ \A m \in Monitors : HandlesDropped ~> m \in stopped
=============================================================================
