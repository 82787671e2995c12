# TLA+ specifications of koalisi

koalisi is a library for forming coalitions of agents. A temporal hypergraph
holds agents (vertices) and coalitions (hyperedges) and records every change
as an event. A service task puts joins and leaves behind a decision policy;
taps carry events, decisions and task outcomes to forwarders, a durable store
and remote readers; the policies are compared on a bench of generated tasks.
This directory models the concurrent and persistent part of it, the state the
policies keep and the bench that judges them, checks the models with TLC and
proves the central results with TLAPS.

`PROJECT.json` lists the components, the runs, the mutants (a plausible bug per
checked property, which TLC must find), the source lines behind every
definition, the findings, the hazards and the theorems. Paths below are
relative to `src/src/` of the repository.

## 1. Inventory

| part | state | operations | talks to |
|---|---|---|---|
| temporal hypergraph (`topology/temporal.rs`) | graph, event log, clock, snapshots, mutation lock, poison flag | 16 mutation methods, `create_snapshot`, `clone` | the executor (a job per mutation), the event tap |
| event log, queries (`topology/event_log.rs`, `queries.rs`) | per-vertex and per-hyperedge index | append; exists/weight/members/lifespan at a time | reads the log |
| coalition manager (`topology/coalitions.rs`) | none of its own | join, leave, `try_join_coalition`, `try_leave_coalition`, membership history, feedback seeding | graph, policy, feedback store |
| coalition service (`subsystems/coalition_actor.rs`) | command channel, token, `panicked`, taps | join, leave, members, closed | manager, decision tap, trace tap |
| daemon (`main.rs`) | join loop index, exit status | `run_until_stopped`, `offer`, `join_loop` | service handle, runtime |
| store (`persistence/store.rs`, `chain.rs`) | segment files, index, write buffer, wedged flag | open with recovery, append with rotation, read, verify | file system |
| persistence tasks (`persistence/tee.rs`, `decision.rs`, `writer.rs`, `core/drain.rs`, `subsystems/durable.rs`) | channels, drain count | forward, write, drain after a cancel | taps, store, bus |
| remote gateway, client (`subsystems/remote.rs`) | numbered ring of events; cursor, connected peers | buffer, serve; dial, discover, pump, request, poll | libp2p, decision tap |
| supervision, runtime (`core/supervision.rs`, `runtime.rs`) | restart deque, tokens, tracker | supervise, cancel/close/wait | supervised tasks |
| outcomes, feedback (`subsystems/outcome.rs`, `algorithms/feedback.rs`) | outcome tap, counters | emit, forward, record, seed, value | sinks, decision policy |
| ingestion (`ingest/monitor.rs`, `source.rs`) | command queue, ring, latest view, pump statistics | feed, tell, ping, pump | update bus |
| analytics (`topology/analytics.rs`) | none | delta, count series, activity rankings, statistics, magnitude trajectory | reads the log |
| wire codec, replay (`persistence/wire.rs`, `replay.rs`) | none | project an event, read a stream in batches into a fresh log | store |
| coalition algorithms (`algorithms/`) | particles and lineage of a search | value calculators, partitions and bounds, workload shares, search, `record_trajectory` | feedback store, manager |
| decision tee (`subsystems/coalition_actor.rs`) | a channel per leg | fan out every decision, thin a full leg, drop a closed one | decision tap; gateway, durable and other consumers |
| client connections (`subsystems/remote.rs`) | `connected_peers` | dial, discover, pump, request | the swarm |
| stateless policies (`decision/mod.rs`, `aif_policy.rs`, `aif_mm_policy.rs`) | none | should_join, should_leave | feedback store, executor |
| persistent arm (`decision/aif_persistent_policy.rs`) | agents' models, evictions per task, lockouts | join, leave, next task | shared by its callers |
| group policy (`decision/group_policy.rs`) | rosters, a model per step, an action ledger | ask, observe, bisect, prune | persistent arm, process theory, other threads |
| magnitude policy (`decision/magnitude_policy.rs`) | evaluator cache keyed by candidate | join, leave, reseed, bounded number of entries | shared by calls of several coalitions |
| residual wrapper (`process/residual.rs`) | none | add the priced residual of the demand to a decision, so that a sole coverer is kept | magnitude policy |
| process theory (`process/`) | none | demands, rewrite rules, prices, search, verification of its trace | string diagrams (external) |
| harness (`harness/`) | battery, trace, reconstruction | generate, run a policy, signal outcomes, replay a trace | every policy |
| configuration, logging, synthetic sources | none | settings, text, test data | - |

What is hard here, and what has to be true:

- **Two-step mutations.** The graph changes on a rayon thread and the event is
  appended later by the task that asked. Callers drop futures, mutators panic,
  the runtime shuts down. The log must still replay to the graph, an answer
  must agree with the log, and no call may hang.
- **Awaits inside a command.** `try_join_coalition` reads agent, members and
  weights, awaits a policy, then joins, and other holders of the graph act in
  between.
- **Shutdown.** Cancels race queued commands, buffered records, full channels,
  a restarting task and a panic. Every wait must end and nothing accepted may
  be lost where the docs promise so.
- **Persistence.** A crash between two writes, a failed write, a segment
  boundary, limits of zero.
- **The network.** Evictions, timeouts, replies that come late, connections
  that come and go while nobody looks.
- **Reads that are not one read.** A join value is computed from two reads of
  counters that change, the fitness of a structure from one read per block.
- **Views of a history.** Queries, series, trajectories and a replayed stream
  all retell one log, each from another part of it.

- **State under a policy.** The evaluator cache is shared by calls of different
  coalitions, the arm checks its cap under one lock and acts under another, the
  group policy asks its ledger, unlocks, decides and writes back while another
  thread asks too.
- **A judge that replays.** The bench does not watch a policy, it reconstructs
  what it did from a trace; every recorded action must be accounted for once,
  and a rewritten workflow must still ask for the same work.
- **One slow reader.** A leg of the tee whose consumer stops must not cost the
  others a decision.

The full list, at the lines where it bites, is `hazards` in `PROJECT.json`.

## 2. Modules

| module | models | composed with |
|---|---|---|
| `Lists` | the selection of a list's elements by position | used by `Hypergraph`, `RemoteGateway`, `MagnitudePolicy`, `ProcessTheory`, `Reconstruction` |
| `Hypergraph` | the graph operations as pure operators: outcome of a request, event, replay of an event | used by all topology modules |
| `EventSourcedGraph` | **abstract**: a graph change and its event are one step; after a runtime shutdown lost an event, only the order of the log is promised | implemented by `TemporalHypergraph` |
| `TemporalHypergraph` | `mutate` and `create_snapshot` as task steps (lock, job, tick, append, reply), dropped futures, shutdown, clones, event tap | refines `EventSourcedGraph` |
| `TemporalQueries` | index of `EventLog`, queries, membership history, as operators on a log | instantiates `EventSourcedGraph` |
| `TemporalAnalytics` | deltas, count series, activity counts and the samples of a magnitude trajectory, as operators on a log | extends `TemporalQueries` |
| `StreamReplay` | projection of an event to the wire and back, the forwarder's record, the batched replay of a stream that another build may have written | extends `TemporalQueries` (`MCTemporalQueries` runs all three) |
| `CoalitionService` | the handle, the channel, the service task and the manager's `try_` methods await by await | extends `Hypergraph` |
| `Daemon` | main's three tasks, with the service reduced to its handle | - |
| `AppendOnlyLog` | **abstract**: a log that loses at most an unacknowledged or unsynced suffix on a crash | implemented by `FileEventStore` |
| `FileEventStore` | segments, buffer, index, recovery of one stream | refines `AppendOnlyLog`; checked in `MCLifecycle`, where it shares nothing with the tasks |
| `CancelDrain` | the two drain disciplines after a cancel | the same choices in `EventPipeline` |
| `EventPipeline` | taps, forwarders, writer channel, writer and two streams | composes the two drain disciplines with the writer and the store reduced to its streams |
| `RemoteGateway` | buffer, gateway task, a polling client, lossy network | - |
| `Supervision` | supervisor, instance, runtime shutdown | - |
| `OutcomeFeedback` | outcome tap, forwarder, feedback store, a threshold decision | - |
| `CoalitionAlgorithms` | value calculators, partitions and bounds, workload shares, as operators | used by `CoalitionSearch` |
| `CoalitionSearch` | the population search block by block over a feedback store, the recording of its lineage, a distribution | extends `OutcomeFeedback` |
| `Ingestion` | pump, monitor tasks, other holders of a handle | - |
| `DecisionTee` | the fan-out task, its legs and their consumers; the durable forwarder as one of them | `MCRemote`, beside the gateway |
| `RemoteConnections` | the client's set of connected peers against the connections of the swarm | `MCRemote`, and alone in `dial_peer` |
| `ProcessTheory` | demands, signals, rules, prices and residuals, as operators | used by the rewriting, the policies and the harness |
| `WorkflowRewrite` | the search over rewritings and the verification of its trace | extends `ProcessTheory` |
| `PersistentArm` | registry, cap, lockout and readmission, with callers that interleave between the locks | - |
| `GroupPolicy` | rosters, models, ledger, replay of a model's past, a second thread that asks | extends `PersistentArm`, `ProcessTheory` |
| `ReferencePolicies` | the four policies the bench compares with, as operators and a record | used by `WorkflowHarness` |
| `AifPolicies` | the two stateless active-inference policies, as operators | used by `WorkflowHarness` |
| `WorkflowHarness` | generation of an instance for every seed, flat and workflow tasks, outcome signals | drives `ReferencePolicies`, `AifPolicies`, `GroupPolicy` and a policy that answers freely |
| `Reconstruction` | the traced policy's record and its replay with every error it can report | extends the harness |
| `MagnitudePolicy` | the evaluator cache and the decisions taken from it | - |
| `ResidualPolicy` | the residual wrapper over the magnitude policy | extends `MagnitudePolicy`, `ProcessTheory` |
| `*Proofs` | theorems with their proofs | extend their component; `EventPipelineProofs` also takes the drain and the replay of the stream, `PolicyProofs` the persistent arm, the magnitude policy, the residual wrapper, the outcomes, the group policy with its models on the bench, and the rewriting of workflows |
| `DataLemmas` | lemmas about lists, selections, sums over finite sets and remainders | extended by the proof modules that cite them |
| `MC*` | sets of requests, graphs and messages for TLC | `MCRemote`, `MCLifecycle` and `MCHarness` check several components that share no state: a variable `part` says which one this behaviour is about, the others stay where they started |

How state and actions correspond to the code: variables carry the names of the
fields they stand for; an action is one uninterrupted stretch of a task between
two awaits (or between two effects another task can see), and `map` gives its
lines. Variables marked *history* exist only to state properties. A definition
marked *mutant* is used by no specification: it is the bug its property must
catch.

Abstractions shared by the modules:

- weights, payloads and messages are model values or numbers; floating-point
  scores appear only where a property reads them (`OutcomeFeedback`,
  `CoalitionAlgorithms`: integers in a unit per calculator in which the values
  are exact), and a policy's answer is a free choice;
- a draw of the search's random generator is a free choice among the values it
  can give, so one behaviour stands for every seed and every pair of
  probabilities; the rounding of a workload share is a free choice too;
- the magnitude of a list of masks is a constant of the model in units of the
  rounding: evaluations of one set of agents in other orders, or by the fast
  route, differ by the roundoff at most, and an incremental evaluation is the
  fresh one of its own order up to the noise;
- the inference engine behind the persistent and the group policies answers
  freely or fails; beliefs are what was shown to a model, in order;
- a string diagram gives every role a leg, the chain of that role's cells; the
  external library matches consecutive cells of a leg, and a rewrite is one step;
- expected free energy is minus the competence it is taken of: a decision with
  margin zero reads only the order;
- a frame's hash is the sequence of records up to it, so hashes never collide;
  a frame is two cells (length, body), which is enough for every torn write;
- a power failure keeps the synced part and any prefix of the rest; a tail that
  the file system fills with zeros is not modelled;
- after a failed write the buffered writer may still put the rest of the frame
  on disk when it is dropped, so a record whose append failed may be read back
  later; the model allows it, `AckedAreRead` does not forbid it;
- sends, receives and `try_send` of a tokio channel are atomic; a `select!`
  marked `biased` takes its first ready arm, an unbiased one any ready arm.

## 3. Runs

A run checks the safety and the liveness properties of its components
together, so no run uses symmetry. All bounds are in the `.cfg` files. The type
invariants of `TemporalHypergraph` and `Supervision` are proved and not run; in
the other modules the properties themselves read every variable they need. A
property with an equals sign behind it is a conjunction of the named parts.

| run | shows | bounds and why they suffice |
|---|---|---|
| `temporal` | two calls in every interleaving on a value and its clone, with dropped futures, panicking mutators and a shutdown: the log replays to the graph (`LogReplaysGraph`), answers match it (`AnswersMatchLog`), snapshots index their markers and the tap follows the log (`FollowersMatchLog` = `SnapshotsPointAtMarkers`, `TapFollowsLog`), a poisoned graph records nothing (`PoisonStopsMutations`), the steps implement `EventSourcedGraph` (`ImplementsAtomic`), every call ends (`EveryCallEnds`) | two calls race on one lock, one waiting and one holding it; a one-slot tap is full, empty and closed often; the requests are a plain change, one that removes hyperedges and one that panics. All sixteen methods are covered by the proof of `LogAlwaysReplays` |
| `queries` | for every log of a graph that starts empty: until something is cleared, the point-in-time queries and lifespans are those of the replay and the membership history shows every episode (`PastMatchesReplay` = `UnclearedQueriesMatch`, `HistoryShowsMembership`); over clears too, deltas over the half-open range of the code, count series and trajectory samples are those of the replay, and the activity counts those of the elements' histories (`AnalyticsMatchReplay`), and the persisted stream replays to the same log or fails as a whole (`ReplayParity`) | logs of five events: the shortest on which removals, re-additions, joins and contractions can disagree have four; two agents, two coalitions, one event of a clone at a moment the original also used; a clock that ends at 7 so that series reach its end; batches of two, so that a stream has a full batch, a last one and an empty one; indices up to 3 on the reader; a caller names vertices it was given and one vertex stands for an agent at a time; the history leaves out targets of joins, see section 5 |
| `queries_clear` | *violation*: the two clears are invisible to the queries (`QueriesMatchReplay`) | four events |
| `delta_end` | *violation*: a delta reaches to its end and includes it (`DeltaReachesTo`) | four events; the counterexample needs two moments |
| `service` | answers match the log and traces the decisions (`AccountsAgree` = `AnswersMatchLog`, `TracesMatchDecisions`), a join or leave moves its own agent only (`OnlyItsAgentMoves`), the end is visible (`EndIsVisible`), every request returns and a cancelled service stops (`EveryRequestReturns`) | two commands through a one-slot channel and a one-slot tap, and one foreign mutation (a leave, a removed agent, a removed coalition, a poisoning panic) at any await |
| `drain_loop` | *violation*: the try_recv drain never ends under a producer that goes on (`DrainStops`) | capacity four; the counterexample needs one |
| `pipeline` | nothing is written twice or out of order, parents are exact, except behind an event the stream went on without, nothing accepted is lost by a shutdown without failures, and after a cancel what the writer had accepted is written, or its append failed (`DeliveredOnceInOrder`); every task ends (`PipelineStops`) | two events and a decision through one-slot channels, so that both forwarders wait on a full writer |
| `gateway` | a leg of the tee gets its decisions in order and loses one only when it is itself full or closed (`LegsAreIndependent`); the buffer is the newest events (`BufferIsNewest`); a client accounts for every number and misses only evicted ones (`CursorAccounts`); the connected set is right wherever the loops look at it (`ConnectedIsTracked`); tee and gateway end, the gateway with its tap drained into the buffer (`RemoteEnds` = `TeeStops`, `GatewayStops`) | three decisions, a two-slot tap and two one-slot legs, so that one leg is full while the other is not; three records through a two-event buffer (one eviction), three requests, so that a reply can come two requests late; clients share no state at the gateway, so one is enough; two peers with two connections and three methods, so that a connection opens and closes between two calls |
| `dial_peer` | *violation*: `dial` returns the peer it dialled (`DialReturnsItsPeer`) | two peers; the counterexample needs one inbound connection |
| `lifecycle` | the restart budget holds in every window (`BudgetHolds`); after a cancel at most one instance starts and none is left when shutdown returns, also when the factory panics (`CancelIsFinal`); the exit reports the first failure of the documented order (`ExitReportsTheWorst`); the ring is the newest samples and an acknowledgement stands for the work (`SamplesAccounted` = `HistoryIsNewest`, `AcknowledgedWereHandled`); shutdown returns, the daemon exits, pump and monitor end (`LifecycleEnds` = `ShutdownReturns`, `DaemonExits`, `TasksEnd`); a store reopens after any crash, reads back what it acknowledged and its chain verifies (`StoreSurvives` = `OpenSucceeds`, `AckedAreRead`), and it implements `AppendOnlyLog` (`ImplementsLog`) | two restarts in a window of two over seven ticks: three full windows; three candidates, any policy, a signal at any step; one monitor and a key without one, a ring of two, four samples; six appends in segments of two (three segments, rotation on a full and on a recovered segment) and of zero (every append rotates), three crashes |
| `outcome` | sinks agree, the counters are those of the calls and a shutdown without a cancel is lossless (`SinksAgree`); an undisturbed marginal of a join or a stay is the candidate's own (`QuietMarginal`); a search keeps its best and its recording leaves exactly that structure (`SearchKeepsBest`); the bounds of a partition bracket its structures and the shares of a distribution partition the work (`PlansAreExact` = `BoundsBracketStructures`, `SharesPartitionWork`); the forwarder ends (`ForwarderStops`) | three sinks that may panic, four outcomes, a two-slot tap; searches over three agents (five structures, three shapes) and over none, with every calculator, one particle for two rounds and three for one, the store written once at any block; speeds 0, 1 and 3 of up to three agents, seven coalitions (floors, exact shares, a zero sum, a remainder that goes round); a search or a distribution starts before the first outcome and the forwarder rests meanwhile |
| `harness` | the replay of a trace ends every task as the run did, and refuses a trace that is cut short, too long or altered (`ReconstructionAgrees`); a leave sweep loses no coverage and keeps nobody redundant under the prunes and the active-inference policies, and the identity prune keeps a coverer with the best record (`SweepsKeepCoverage` = `PruneKeepsTheBest`, `AifKeepsCoverage`); the group policy's ledger counts every decision, task and update of either thread once (`GroupAccounts`) and a role's model learns from its own role's steps only, in order (`ModelsSeeTheirSteps`); what a derivation of any length may change in a workflow, and that its verified trace and price stand (`RewritesKeepClass`); an evicted agent is locked out, and the cap is passed by at most one eviction per further caller in flight (`EvictionsAreBounded`); a decision from the shared cache acts as two fresh evaluations do, on the fast route except where the frozen margin is roundoff (`MagnitudeDecidesFresh`); the residual wrapper joins whenever its inner policy does and leaves only when it does (`ResidualOnlyKeeps`) | batteries of two tasks over pools of three agents, four bits and two roles, at most two redraws; a replay cap of 1, so that a model's past is cut; ten configurations of the active-inference policies (beliefs for and against a partner, a margin, a refused engine) on flat tasks; nine group configurations; one question of another thread at any step; every drawn workflow under both prices with fuel for three rewrites; two callers and two agents of the arm over three tasks and three calls; a cache of two candidates under calls of seven coalitions, so that entries are evicted and reseeded; noise and roundoff of one unit and a band of two, margins on both sides of every threshold, magnitudes that depend on the order of the members and fall one unit lower on the fast route, where joins and leaves flip |

Deadlock checking is off: every task may have ended and the behaviour stops.
The liveness properties show that the waits end instead.

### Fairness

The tokio scheduler polls every runnable task and rayon runs every job, so a
task's own steps are weakly fair. Strong fairness is used twice: for taking the
mutation lock (tokio's mutex is FIFO, so a waiter is not passed over for ever)
and for a feed into a monitor queue that is full now and then (permits are FIFO
too). A failed encode or append is never assumed to happen.
Of the tee only its own task is fair: its legs may never be read.
Nothing is assumed of consumers of taps, of callers, of the
network, of ctrl-c, or of a policy beyond its call returning or panicking.
`drain_loop` states fairness for the producer as well, otherwise its
counterexample would only be a producer that stops.

## 4. Proofs

Proved by TLAPS for all values of the constants, from the named assumptions of
the component modules: capacities of channels are positive, bounds are
naturals, initial graphs are graphs, the indices they and the requests hold are
naturals (a `usize`), the service's requests are its three commands, null
values are outside the sets they stand beside (`NoCallIsNoCall`,
`NamesAreFree`, `CallersOK`, `NoneIsNoAsk`), the callers of an arm are finitely many and its
caps and lockouts are naturals (`ArmConfigsOK`), a group policy has at least one
role (`GroupConfigsOK`; its constructor clamps the number), an outcome signal is one of
its three kinds (`SignalsOK`), agents are finitely many and
the prices of a process are naturals on finitely many steps (`AgentsOK`,
`PricesAreCounts`), and the pool a staffing price is taken over is finite
(`PoolIsFinite`). Three assumptions are about the code the model leaves out:
fresh magnitudes of one set of agents, in any order of the members (the code
keeps the caller's) and by either route, fail together and differ by the
roundoff at most (`FreshValuesAgree`; that the fast route fails where the
generic one does is guaranteed for one of its branches,
`decision/magnitude_policy.rs:999-1005`, and assumed for the others), the noise
and the roundoff together are within the band (`MagnitudeAssumption`), and what the typed kernel can
measure the untyped one can (`ProbeSeesFailures`, the condition under which the
wrapper's probe is disclosed to be exact, `process/residual.rs:392-399`). TLC
evaluates every assumption on the constants of the runs. The bounds of the runs
(`Max...`) are constants too, so a theorem holds for every one of them. Each
theorem has an inductive invariant of named parts; a step lemma per part has
one case per action.

### The temporal hypergraph (`TemporalHypergraphProofs`)

- **`TypeCorrect`**: the type invariant, with the tap within its channel for
  every capacity.
- **`LogAlwaysReplays`**: whenever no change waits for its event and no
  shutdown lost one, the log replays to the graph, for all sixteen methods and
  any number of calls and clones. `LogReplaysGraph` is not inductive: nothing
  in it says that only one change can be in flight, nor that the pending event
  belongs to the pending change. The invariant adds `LockInv` (the mutation
  lock is held by exactly the call that is between lock and release) and
  `GraphInv` (the pending event is an outcome of its request on the graph as of
  the last append). `ReplayAgrees` is the algebraic part: replaying the event
  of an outcome gives the view of the outcome's graph, a case per method, and
  `OutcomeIsGraph` keeps the graph's shape.
- **`AnswersAlwaysMatchLog`**: `AnswerInv` follows a call: it is in the log
  only past its append, once, and with an answer it takes no further step.
- **`FollowersAlwaysMatchLog`**: `SnapshotInv` gives the marker of a snapshot
  from its append on, before the snapshot itself is inserted; `TapInv` states
  that what left the tap, followed by what is in it, is a subsequence of the
  log, in a form that appending and forwarding keep (`Follows`: a rising map of
  positions).
- **`PoisonAlwaysStops`**: an action property, a case per action.
- **`TasksImplementAtomic`**: every step of the tasks is a step of
  `EventSourcedGraph` or a stutter. It needs all of the above and `ClockInv`
  (per value: recorded timestamps lie behind the pending one, and that behind
  the clock). The theorem assumes what the code has and a model checker must
  cut off: timestamps and snapshot numbers are all the naturals.
  `EventSourcedGraph` takes the outcomes of a request, the view and the replay
  as parameters, so that this proof needs nothing of their definitions.

### The service (`CoalitionServiceProofs`)

- **`EndAlwaysVisible`**: the end of the service shows in channel, token and
  flag before a caller can meet it. `ChannelInv` (a command is queued, served
  or answered once), `CurrentInv` (the command in hand is the one served last
  and has no answer) and `EndInv` (a service that is ending by a panic has set
  its flag).
- **`AccountsAlwaysAgree`**: answers, traces and log agree. `LogInv` ties the
  one event of a command to the step the service is at; `PositionInv` says that
  what the command read of the log's length and clock is where its event will
  stand, up to events of other holders; `TraceInv` keeps that true of the
  traces in the tap and behind it, in serving order.
- **`OnlyItsAgentAlwaysMoves`**: between the policy's look and the mutation
  other holders may have done anything to the graph; the mutation still adds or
  removes its own agent only. `MembersInv` says that the graph's member lists
  hold indices, which every outcome of the fourteen mutations keeps
  (`OutcomeTyped`), and that only a join or a leave gets as far as the
  mutation. The facts about `retain` (`PickedFacts`: the kept elements, and
  nothing else, at positions numbered without a gap) and about the joining of
  lists (`FlattenType`) are proved from the well-foundedness of the naturals.
  Selections are written `Picked`, by position.

### The store (`StoreProofs`)

- **`StoreAlwaysSurvives`**: the store reopens after every crash, reads back
  what it acknowledged and kept, and its chain verifies, for every segment size
  (zero too, where every append rotates) and any number of records and crashes.
  `StoreSurvives` speaks of an open store only; its invariant `StoreInv` holds
  at every step and when the store is down. `FilesOK` is the part about the
  disk: each file begins where the one before ends, no number is missing, only
  the last file may be torn, unsynced or empty, each whole frame carries its
  number, and each carries the hash of the frame before it (`Linked`, stated
  over numbers, so that a segment boundary is nothing special). `UpOK` ties the
  memory to it: the index (`IndexOK`, which allows the second entry for an empty
  file that a rotation opens again), the head, the length of the active file,
  and `WedgeOK`: a torn tail implies a wedged stream, whose BufWriter holds
  exactly the missing rest of the frame, so that dropping the store completes
  the frame and never leaves half of another. The lemmas are about four changes
  of the files, and every action is one of them: a cut (`CutOK`: open, sync,
  failed write, kill, power failure), one more frame (`GrownOK`: write, kill,
  drop), a new file (`NewFileOK`) and a lost last file (`DroppedOK`).
- **`StoreImplementsLog`**: the file store implements `AppendOnlyLog`, with the
  records a reopen would find (`Stored`) for the log's. `StoreInv` does not
  suffice: `LogInv` adds that what is secured lies in the synced part of the
  files (`SyncedEnd`), and that the record being written, or left in the
  BufWriter of a wedged stream, is later than every record stored
  (`RecordInv`): a drop may complete a frame whose append failed long before,
  after many more failed ones. Each change of the files is `Quiet` (the log
  stutters), `Adds` one record (`Store`), or a part of the old files (`Part`,
  `LoseTail`).

### Forwarders, writer, drain and replay (`EventPipelineProofs`)

- **`AlwaysDeliveredOnceInOrder`**: `OrderInv` numbers the places an item
  passes (stream, writer, queue, forwarder, tap) and puts everything in an
  earlier place below everything in a later one. `CountInv` says that without a
  drop or a failure no number is missing between them, as long as the places
  are still served; `StopInv` and `EmptyInv` say who may have stopped and what
  it left behind; `AcceptedInv` follows what the writer held at the cancel;
  `BusInv` is the same order on the bus. An append can fail in two ways: in the
  write, which wedges its stream, or before it (rotation, encoding), after
  which the stream goes on and the next record takes the lost one's number.
  The second is a gap like a dropped item, so the clauses on losslessness and on
  the parents ask for a stream without one.
- **`CountedDrainIsBounded`**: assuming the counted discipline and any
  capacity, after the cancel at most the buffered items are taken; what was
  taken and what is still owed never exceed the count.
- **`ReplayAlwaysReturnsTheLog`**: a stream that holds the records of the log
  replays to its events, unaltered and in order, from any sequence number and
  for every batch size; with one record this reader cannot represent it fails
  exactly when that record is in the part asked for. The batch loop is
  recursive: `Replayed` says in closed form what it returns (the first
  undecodable record, or every event), `LoopTurn` that this solves the loop's
  equation, and `ReplayReads` that the equation has no other solution, from the
  largest cursor at which two could differ. Field by field,
  `try_into_event` then undoes `from_event`. The theorem is about the log of
  `EventSourcedGraph`; of a log that lost an event (`lost`) the specification
  says nothing, and `ReaderFits` is the reader's side of the contract: its
  indices are at least as wide as those of the log it replays.

### Gateway, client and tee (`RemoteProofs`)

- **`BufferAlwaysNewest`**: the gateway's buffer is the newest records,
  numbered without a gap. The strengthening says what waits in the channel:
  exactly the records after the newest buffered one.
- **`CursorAlwaysAccounts`**: received and missed numbers add up to the
  cursor. The invariant speaks of every reply in the network, the late ones
  too: a reply that is still awaited continues from the cursor it was asked
  with, and what it skips had been evicted. It is why the code may drop late
  replies by id. The reply filters with `Picked`, the kept positions in
  order, where one would write `SelectSeq`: the prover has no facts about that
  operator.
- **`ConnectedAlwaysTracked`**: the last event about a peer in the swarm's
  queue tells how the peer stands, and without one `connected_peers` does.
- **`LegsAlwaysIndependent`**: what a leg received is a thinning of what the
  tee has offered it (`LegInv`, with `Done` counting the record in the tee's
  hand for the legs it has passed), and exactly that while the leg was never
  full or closed.

### Lifecycle (`LifecycleProofs`)

- **`BudgetAlwaysHolds`, `SupervisionTypeCorrect`**: no window holds more
  restarts than the limit. The deque is a suffix of all restarts; the
  strengthening says that the restarts are ordered in time and that whatever
  was pruned lies outside the window of the last restart.
- **`CancelIsAlwaysFinal`**: a supervisor that started an instance after the
  cancel is awaiting it or has ended, so it never gets back to its check.
- **`ExitAlwaysReports`**: the report is read after both tasks ended and
  nothing it was read from changes afterwards.
- **`SamplesAlwaysAccounted`**: for a ring of positive capacity and a router
  that files each monitor under its own key (`Routed`); both hypotheses are
  needed, section 5 says what happens without them. `RingInv` is the ring,
  `PumpInv` places every sample the source yielded (counted, in the pump's
  hand, or lost with the pump), `FeedInv` says that the one feed in a queue is
  the one the pump waits for, `TellInv` that what was told before a ping is
  handled or in front of it.

### The policies and what feeds them (`PolicyProofs`)

- **`EvictionsAlwaysBounded`**: leaves that have passed the check of the cap
  plus the evictions of the task never exceed the cap by more than the other
  callers (`CapInv`); the counter is the number of evictions in the record of
  the task (`CountInv`); `evicted_at` is the task of the agent's last eviction,
  and the check of a join nothing overlapped still stands when it is applied
  (`LockInv`).
- **`DecisionsAreFresh`**: whatever its cache served before, a magnitude
  policy agrees with two fresh generic evaluations of its snapshot
  (`FrozenDecision`): on the default route it acts as they do, on the fast
  route it may act otherwise where their margin is within twice the roundoff of
  the threshold. `CacheOK` says what an entry is at
  any time: built for its own requirement, its pool the members and then the
  registered masks without repetition, its base the magnitude of its members.
  Every way through a dispatch leaves an entry that answers for the call's
  members or none (`Answers`). A snapshot is a list without repeats. The
  members that stay keep their order on both sides of a call (`PickedTwice`), so
  the base is the fresh value of the smaller side exactly, while base plus
  candidate and the larger side are two line-ups of one set (`OnceFacts`), up to
  the roundoff apart (`SideValues`). Outside the knife edge an error within the
  noise and the roundoff moves no decision (`OutsideTheEdge`), because both
  together are at most the band; at the edge the default route takes the frozen
  value, and the fast one its own or the certified base (`RoundedAgrees`).
- **`WrappedDecisionsAreFresh`, `CorrectionOnlyKeeps`**: the wrapper dispatches
  through the same cache. A correction is a natural number, as more agents
  leave fewer steps uncovered (`GainFacts`, from `SumGrows`), and it is at least
  lambda for a sole coverer. The margin of a join is a public field and may be
  negative, so the bound on lambda is its distance from zero.
- **`OutcomesReachEverySink`**: `Handed` places every accepted outcome: called
  on a sink, in the forwarder's hand for the sinks it has not reached, or in the
  tap, in order. `StoreInv` is the counters against the calls of the first
  sink; an outcome counts once per seat an agent has in it.
- **`QuietMarginalsAreTheCandidates`**: between the two reads of a decision the
  first one stays what a read would still give, unless marked disturbed
  (`QuietInv`); the difference of the two is the candidate's part of a sum
  (`SumTakesOut`).
- **`GroupAlwaysAccounts`**: the group policy's ledger, with a second thread
  asking at any step. `Ledger` carries the decisions against their ends and
  against the trace and the thread's questions, one decision in flight at most.
  With role-matched masks every query of a leave but the agent's own role's
  compares a mask with itself (`AskFacts`), so a decision adds at most one query
  that tells; that holds too when building the queries stops half-way, because
  what is counted is then a prefix of both (`EndsFacts`), and a decision in
  flight reserves its query beforehand (`PendingTells`). The learning gate needs
  what is still owed: from `begin_task` to `observe_outcome` a model of the
  roster may be one update behind what is expected of it (`DueTo`), and
  afterwards it is behind only if it missed one, for good, as updates never
  exceed what is expected (`LearnOK`).
- **`ModelsAlwaysSeeTheirSteps`**: what the window of a role's model holds is
  what the ends of the tasks so far make of it (`Memory`). A task's end adds
  one outcome to the tasks the role was on, and the newest REPLAY_CAP of a list
  that grows are those before without the oldest, if the window was full, and
  the new one (`NewestGrows`, `RememberedGrows`). That the outcome is the role's
  own (`OutcomeIs`) rests on the drawing of the instance: a workflow asks of each
  bit one role at most (`DrawnSteps`), so a signal of bits says which role's
  step was met; and the run begins when every task is drawn (`TasksInv`). The
  task in force is the bench's from `begin_task` to `observe_outcome`
  (`TaskFor`), and no decision, also of the second thread, touches a model.
- **`RewritesAlwaysKeepClass`**: what a derivation of any length keeps of a
  workflow. The invariant is that both traces replay from the start to the
  writing they stand for (`Leads`), that the writing has kept its class
  (`ClassKept`), and that the declared one costs no more than the start; the
  replay is then bound to succeed, which is why `unsound` is never reached. A
  step splices one leg: two or three cells out, one in (`Spliced`). What the
  splice does to the demand is counted cell by cell, and the uniform cost falls
  because a rewrite loses at least one cell or one spider's step. The bit
  `(Bits - 4) mod Bits` is in no fused pair (`Unfused`: a sum with it leaves the
  other bit), and the rules are read back from their number by quotient and
  remainder.

Sums (`SumFunctionOnSet`) take the elements in an order `CHOOSE` fixes. That
the order does not matter is an induction over finite sets; it is done in
`DataLemmas` by looking at the smallest set for which it fails
(`SmallestSet`), which needs no induction rule.

### Only model-checked

- Every liveness property: the prover has no rule for fairness and ENABLED.
- The queries and the analytics: folds over a log. An
  induction would have to be made by least counterexample for every fold, as
  `DataLemmas` does for sums, over operators of the sequence library that the
  prover has no facts about (`SelectSeq`, `FoldLeft`).
- The search, the plans, the reconstruction and the sweeps:
  `CoalitionAlgorithms` is recursive, which the prover cannot read, and the
  others replay whole traces or tasks with folds.

## 5. Findings

Four runs refute a sentence of the code's docs; `findings` in `PROJECT.json`
quotes them: clears the queries cannot see (`queries_clear`), a delta that
leaves out the moment it ends at (`delta_end`), a drain after a cancel that a
busy producer keeps going for ever (`drain_loop`), and a `dial` that returns the
peer of whatever connection comes first (`dial_peer`).

Smaller observations made while modelling, without a run of their own:

- a clone shares the log and has a clock of its own (`temporal.rs:781`), so the
  log is in timestamp order per value (part of `ImplementsAtomic`) and not over
  all values; the queries stop
  at the first later timestamp, and the `queries` run therefore lets a clone
  record only at a moment the original has reached;
- a merge overwrites the start of a membership its target already had
  (`coalitions.rs:269`), so the earlier part is missing from the history;
- the writer's module doc says that the decision forwarder breaks immediately
  (`writer.rs:7`); it drains through `CancelDrain`;
- the writer's doc says of a failed append that "the failing stream wedges"
  (`writer.rs:19-20`). One that fails in the rotation or the encoding does not
  wedge it (`store.rs:223-233`), and `offload_append` logs the error and the
  writer goes on (`writer.rs:40-43`): the next record takes the lost one's
  sequence number, nothing in the store shows the hole, and the parents of later
  decisions, counted in events, point one past their predecessor. `EventPipeline`
  has both failures, and `DeliveredOnceInOrder` says what holds behind a hole;
- the marginal of a join is computed from two reads of the counters
  (`decision/mod.rs:243`), so an outcome in between enters it; `QuietMarginal`
  says what holds otherwise;
- a monitor of capacity 0 never trims its ring, and a monitor acknowledges a
  sample whose key it does not serve (`ingest/monitor.rs`);
- `delta` panics for `from` after `to`, as `BTreeMap::range` does; a count series of
  resolution 0 never ends; both series are crate-private without a caller;
- a join of hyperedges whose sources name the target removes the target from
  `hyperedge_count_series`;
- `wire.rs:16` relies on the external graph never reusing an index; the model
  does not, and lets a clear restart the numbering;
- a distribution is keyed by agent id, so of two agents with one id the first
  loses its share (`dcvc.rs`);
- on a tie `find_best_partition` names the last partition and
  `compute_all_partition_bounds` puts the first in front; for an empty value
  bucket the latter takes minus infinity and `compute_partition_upper_bound`
  skips it (`aipa.rs`);
- `dial` and `discover` drop `ConnectionClosed`, and closing one of two
  connections takes the peer out of `connected_peers` (`remote.rs:674`);
- the gateway's biased select takes a record before any network event
  (`remote.rs:491`), so a producer that always has one ready keeps requests
  waiting; a gateway that is started again numbers from the start
  (`remote.rs:486`), and a client's old cursor is then ahead of it;
- a factory that panics ends its supervisor without cancelling the token
  (`core/supervision.rs:71`): shutdown still returns, and nobody is told;
- the persistent arm checks its cap and acts in two critical sections, so
  callers that interleave overshoot it, each further one by at most one; an
  eviction of an agent that is already evicted restarts its lockout; the arm
  does not override `observe_outcome` of the trait, so under the library's own
  harness the cap is per instance;
- in the group policy's accounts, a skipped observation and a doubled one of
  the same model cancel out: the learning signal reads exact;
- `process/theory.rs` says of a bit that it "appears in **no** returned triple";
  the bit `(bits - 4) % bits` appears as a target;
- the active-inference policies compare a coalition with the candidate alone,
  so a candidate that covers everything the coalition would cover with it gains
  nothing and is refused (`decision/aif_policy.rs:316`): a narrow first arrival
  can leave a task uncovered that one agent of the pool covers; `AifKeepsCoverage`
  says when this cannot happen;
- the price of an unstaffable step is meant to make the optimizer route away
  from it (`process/cost.rs`); two scarce steps of price 2+3 can fuse into one
  unstaffable step of price 1+3;
- with weight 0 the residual wrapper is said to be the identity
  (`process/residual.rs:48`). A role outside the typed inner policy's
  modulation makes that policy decline (`decision/magnitude_policy.rs:4170`)
  with score 0; the wrapper's untyped probe does not see it, as its comment
  discloses (`process/residual.rs:393`), and the fold then reads the 0 of a
  declined leave as a leave. `ResidualOnlyKeeps` is stated for roles within
  the modulation.

## 6. Not modelled, and why

- **Floating-point numerics.** The expected free energy and belief alignment of
  the stateless active-inference policies, the beliefs and votes inside the
  persistent and the group policies, the value of a magnitude and its
  incremental update, the rounding of sums, and empty value buckets. Where a
  component uses one, it is a free choice or a constant.
- **Experiment drivers.** The programs in `src/examples/` run batteries over
  registered seeds and print tables. They configure the harness and format
  text, and hold none of the library's logic. They are over a third of the
  repository's lines, and the tests inside the library's files are most of the
  rest, so the definitions map about half of the library's own code and only an
  eighth of all lines of Rust.
- **Lookups.** The accessors and other filters of the log, and the manager's methods that forward to one
  method of the graph. Vertices that share an `agent_id` are left out of the
  trajectory's samples.
- **Text and settings.** Configuration, logging, the LLM stub, the report of
  the harness, the printing and parsing of workflows, the synthetic sources.
- **External.** libp2p, SurrealDB, tokio, rayon, CBOR, the file system, the
  inference engine and the string-diagram library appear as external actions,
  from how the code uses them.

## 7. Plan

Done: the temporal hypergraph, its queries, analytics and persisted stream; the
service, its tee and the daemon; store, forwarders, writer and drain; gateway
and client; supervision; outcomes, search and algorithms; ingestion; process
theory, policies and harness. Left to model: the gateway over two generations
(the numbers restart, cursors do not), and a run that puts the tee in front of
the gateway and the durable forwarder as one behaviour.

Theorem worth proving next: `PastMatchesReplay`, with its folds as functions of
the position.
