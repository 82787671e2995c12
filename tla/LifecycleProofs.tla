-------------------------- MODULE LifecycleProofs ---------------------------
(***************************************************************************)
(* The tasks around the service: supervision's restart budget and its      *)
(* final cancel, the daemon's exit, and the accounts of ingestion, each    *)
(* for every value of its constants.                                       *)
(***************************************************************************)
EXTENDS Supervision, Daemon, Ingestion, TLAPS

-----------------------------------------------------------------------------
(***************************************************************************)
(* The restart budget of Supervision holds for every limit, every window   *)
(* and every course of the clock.  The inductive invariant says what the   *)
(* deque stands for: it is the tail of the restart log from first on, and  *)
(* whatever was pruned is older than the window at every later restart.    *)
(***************************************************************************)
(* The restart instants are in order and not in the future. *)
LogOrdered ==
    /\ \A i \in 1..Len(log) : log[i] <= now
    /\ \A i, j \in 1..Len(log) : i <= j => log[i] <= log[j]

(* What left the deque lies outside the window of the last restart. *)
PrunedAreOld ==
    step # "end" =>
        \A i \in 1..(first - 1) : log[Len(log)] - log[i] > Window

IInv == TypeOK /\ LogOrdered /\ PrunedAreOld /\ BudgetHolds

(* The invariant holds at the start: nothing was restarted yet. *)
LEMMA InitIInv == Init => IInv
<1> SUFFICES ASSUME Init PROVE IInv
  OBVIOUS
<1>1. log = <<>> /\ Len(log) = 0 /\ log \in Seq(Nat) /\ first = 1
  BY DEF Init
<1>2. TypeOK
  <2>1. first \in 1..(Len(log) + 1) /\ Len(log) - first + 1 <= Limit
    BY <1>1, LimitIsNat
  <2>2. root \in BOOLEAN /\ token \in BOOLEAN
    BY Zenon DEF Init
  <2> QED BY <1>1, <2>1, <2>2 DEF Init, TypeOK
<1>3. LogOrdered /\ PrunedAreOld /\ BudgetHolds
  BY <1>1 DEF LogOrdered, PrunedAreOld, BudgetHolds
<1> QED BY <1>2, <1>3 DEF IInv

(* Every step but a restart leaves the log alone. *)
LEMMA QuietStep ==
  ASSUME IInv, UNCHANGED <<log, first>>, now' \in Nat, now' >= now,
         step' = "end" \/ step # "end",
         root' \in BOOLEAN, token' \in BOOLEAN,
         shutdown' \in {"no", "cancelled", "closed", "done"},
         step' \in {"check", "spawn", "await", "end"},
         task' \in {"none", "running", "ok", "panic", "aborted"},
         late' \in Nat
  PROVE  IInv'
<1>1. TypeOK'
  BY DEF IInv, TypeOK
<1>2. LogOrdered'
  BY DEF IInv, TypeOK, LogOrdered
<1>3. PrunedAreOld'
  BY DEF IInv, PrunedAreOld
<1>4. BudgetHolds'
  BY DEF IInv, BudgetHolds
<1> QED BY <1>1, <1>2, <1>3, <1>4 DEF IInv

(***************************************************************************)
(* A restart at index n of the log: the pruned ones are out of the window, *)
(* and fewer than Limit are left in the deque before it.                   *)
(***************************************************************************)
LEMMA RestartStep ==
  ASSUME IInv, step # "end", NEW k \in first..(Len(log) + 1),
         Pruned(k), first' = k, Restart(k),
         UNCHANGED <<now, root, shutdown, task>>
  PROVE  IInv'
<1> DEFINE n == Len(log)
<1>1. /\ now \in Nat /\ log \in Seq(Nat) /\ first \in 1..(n + 1)
      /\ n \in Nat /\ k \in 1..(n + 1) /\ n - k + 1 < Limit
  BY DEF IInv, TypeOK, Restart
<1>2. /\ log' \in Seq(Nat) /\ Len(log') = n + 1 /\ log'[n + 1] = now
      /\ \A i \in 1..n : log'[i] = log[i]
  BY <1>1 DEF Restart
<1> HIDE DEF n
<1>3. \A i \in 1..(k - 1) : now - log[i] > Window
  <2> SUFFICES ASSUME NEW i \in 1..(k - 1) PROVE now - log[i] > Window
    OBVIOUS
  <2>1. CASE i >= first
    BY <1>1, <2>1 DEF Pruned
  <2>2. CASE i < first
    <3>1. i \in 1..(first - 1) /\ n \in 1..n /\ i \in 1..n
      BY <1>1, <2>2
    <3>2. log[n] - log[i] > Window /\ log[n] <= now
      BY <3>1, <1>1 DEF IInv, PrunedAreOld, LogOrdered, n
    <3>3. log[n] \in Nat /\ log[i] \in Nat
      BY <3>1, <1>1 DEF n
    <3> QED BY SMTT(30), <3>2, <3>3, <1>1, TimesAreNat
  <2> QED BY <2>1, <2>2, <1>1
<1>4. TypeOK'
  <2>1. first' \in 1..(Len(log') + 1) /\ Len(log') - first' + 1 <= Limit
    BY <1>1, <1>2, LimitIsNat
  <2> QED BY <2>1, <1>2 DEF IInv, TypeOK, Restart
<1>5. LogOrdered'
  <2>1. \A i \in 1..n : log[i] \in Nat /\ log[i] <= now
    BY <1>1 DEF IInv, LogOrdered, n
  <2>2. \A i, j \in 1..n : i <= j => log[i] <= log[j]
    BY DEF IInv, LogOrdered, n
  <2>3. ASSUME NEW i \in 1..(n + 1) PROVE log'[i] <= now
    <3>1. CASE i = n + 1
      BY <3>1, <1>1, <1>2
    <3>2. CASE i \in 1..n
      BY <3>2, <1>2, <2>1
    <3> QED BY <3>1, <3>2, <1>1
  <2>4. ASSUME NEW i \in 1..(n + 1), NEW j \in 1..(n + 1), i <= j
        PROVE  log'[i] <= log'[j]
    <3>1. CASE j = n + 1
      BY <3>1, <2>3, <1>2
    <3>2. CASE j \in 1..n
      <4>1. i \in 1..n
        BY <3>2, <2>4, <1>1
      <4> QED BY <4>1, <3>2, <2>4, <1>2, <2>2
    <3> QED BY <3>1, <3>2, <1>1
  <2> QED BY <1>2, <2>3, <2>4 DEF LogOrdered, Restart
<1>6. PrunedAreOld'
  <2> SUFFICES ASSUME NEW i \in 1..(k - 1)
               PROVE  log'[Len(log')] - log'[i] > Window
    BY DEF PrunedAreOld
  <2>1. i \in 1..n
    BY <1>1
  <2> QED BY <2>1, <1>2, <1>3
<1>7. BudgetHolds'
  <2> SUFFICES ASSUME NEW i \in 1..(n + 1), i + Limit <= n + 1
               PROVE  log'[i + Limit] - log'[i] > Window
    BY <1>2 DEF BudgetHolds
  <2>1. CASE i + Limit = n + 1
    <3>1. i \in 1..(k - 1) /\ i \in 1..n
      BY <2>1, <1>1, LimitIsNat
    <3> QED BY <3>1, <2>1, <1>2, <1>3
  <2>2. CASE i + Limit <= n
    <3>1. i \in 1..n /\ i + Limit \in 1..n
      BY <2>2, <1>1, LimitIsNat
    <3>2. log[i + Limit] - log[i] > Window
      BY <3>1, <2>2 DEF IInv, BudgetHolds, n
    <3> QED BY <3>1, <3>2, <1>2
  <2> QED BY <2>1, <2>2, <1>1, LimitIsNat
<1> QED BY <1>4, <1>5, <1>6, <1>7 DEF IInv

(* The supervisor gives up: the deque is pruned, and it ends. *)
LEMMA GiveUpStep ==
  ASSUME IInv, NEW k \in first..(Len(log) + 1), first' = k, GiveUp(k),
         UNCHANGED <<now, root, shutdown, task>>
  PROVE  IInv'
<1>1. TypeOK'
  <2>1. k \in 1..(Len(log) + 1) /\ Len(log) - k + 1 <= Limit
    BY LimitIsNat DEF IInv, TypeOK
  <2> QED BY <2>1 DEF IInv, TypeOK, GiveUp
<1>2. LogOrdered'
  BY DEF IInv, LogOrdered, GiveUp
<1>3. PrunedAreOld'
  BY DEF PrunedAreOld, GiveUp
<1>4. BudgetHolds'
  BY DEF IInv, BudgetHolds, GiveUp
<1> QED BY <1>1, <1>2, <1>3, <1>4 DEF IInv

(* Every step keeps the invariant: a restart, the end of the budget, or a  *)
(* step that leaves the log alone.                                        *)
LEMMA StepIInv == IInv /\ [Next]_vars => IInv'
<1> SUFFICES ASSUME IInv, [Next]_vars PROVE IInv'
  OBVIOUS
<1>1. CASE Tick
  BY <1>1, QuietStep DEF Tick, supervisor, IInv, TypeOK
<1>2. CASE ShutdownCancel
  BY <1>2, QuietStep DEF ShutdownCancel, supervisor, IInv, TypeOK
<1>3. CASE ShutdownClose \/ ShutdownWait
  BY <1>3, QuietStep DEF ShutdownClose, ShutdownWait, supervisor, IInv, TypeOK
<1>4. CASE CheckToken
  BY <1>4, QuietStep DEF CheckToken, IInv, TypeOK
<1>5. CASE Spawn \/ FactoryPanics
  BY <1>5, QuietStep DEF Spawn, FactoryPanics, IInv, TypeOK
<1>6. CASE AwaitDone
  BY <1>6, QuietStep DEF AwaitDone, IInv, TypeOK
<1>7. CASE AwaitPanic
  <2>1. CASE token
    BY <1>7, <2>1, QuietStep DEF AwaitPanic, IInv, TypeOK
  <2>2. CASE ~token
    <3>1. PICK k \in first..(Len(log) + 1) :
             Pruned(k) /\ first' = k /\ (GiveUp(k) \/ Restart(k))
      BY <1>7, <2>2 DEF AwaitPanic
    <3>2. step # "end" /\ UNCHANGED <<now, root, shutdown, task>>
      BY <1>7 DEF AwaitPanic
    <3> QED BY <3>1, <3>2, GiveUpStep, RestartStep
  <2> QED BY <2>1, <2>2
<1>8. CASE TaskEnds \/ TaskObservesCancel
  BY <1>8, QuietStep DEF TaskEnds, TaskObservesCancel, IInv, TypeOK
<1>9. CASE UNCHANGED vars
  BY <1>9, QuietStep DEF vars, supervisor, IInv, TypeOK
<1> QED BY <1>1, <1>2, <1>3, <1>4, <1>5, <1>6, <1>7, <1>8, <1>9
    DEF Next, Supervise

(***************************************************************************)
(* However often the task panics and however the clock runs, of any        *)
(* Limit + 1 restarts the last is more than Window after the first         *)
(* (supervise, core/supervision.rs).                                       *)
(***************************************************************************)
THEOREM BudgetAlwaysHolds == Spec => []BudgetHolds
<1>1. IInv => BudgetHolds
  BY DEF IInv
<1> QED BY <1>1, InitIInv, StepIInv, PTL DEF Spec

(* The supervisor's variables keep their types, the deque its bound. *)
THEOREM SupervisionTypeCorrect == Spec => []TypeOK
<1>1. IInv => TypeOK
  BY DEF IInv
<1> QED BY <1>1, InitIInv, StepIInv, PTL DEF Spec

(***************************************************************************)
(* A late instance, spawned between the check of the token and the cancel, *)
(* leaves the supervisor where it awaits that instance or has ended: it    *)
(* never gets back to the check.  And an instance runs only while the      *)
(* supervisor awaits it.                                                   *)
(***************************************************************************)
CancelInv ==
    /\ late <= 1 /\ (late > 0 => token /\ step \in {"await", "end"})
    /\ task = "running" => step = "await"
    /\ shutdown = "done" => step = "end"

(* Every step keeps what a cancelled token means to each task. *)
LEMMA CancelStep == TypeOK /\ CancelInv /\ [Next]_vars => CancelInv'
<1> SUFFICES ASSUME TypeOK, CancelInv, [Next]_vars PROVE CancelInv'
  OBVIOUS
<1> USE DEF CancelInv, TypeOK
<1>1. CASE Tick \/ ShutdownCancel \/ ShutdownClose \/ ShutdownWait
  BY <1>1 DEF Tick, ShutdownCancel, ShutdownClose, ShutdownWait, supervisor
<1>2. CASE CheckToken \/ FactoryPanics \/ AwaitDone
  BY <1>2 DEF CheckToken, FactoryPanics, AwaitDone
<1>3. CASE Spawn
  BY <1>3 DEF Spawn
<1>4. CASE AwaitPanic
  BY <1>4 DEF AwaitPanic, GiveUp, Restart
<1>5. CASE TaskEnds \/ TaskObservesCancel
  BY <1>5 DEF TaskEnds, TaskObservesCancel
<1>6. CASE UNCHANGED vars
  BY <1>6 DEF vars, supervisor
<1> QED BY <1>1, <1>2, <1>3, <1>4, <1>5, <1>6 DEF Next, Supervise

(***************************************************************************)
(* Whenever the cancel comes, and whether or not the task watches its      *)
(* token, at most one instance starts after it, and shutdown returns only  *)
(* once the supervisor and its instance have ended (supervise and          *)
(* CoalitionRuntime::shutdown).                                            *)
(***************************************************************************)
THEOREM CancelIsAlwaysFinal == Spec => []CancelIsFinal
<1>1. Init => CancelInv
  BY DEF Init, CancelInv
<1>2. CancelInv => CancelIsFinal
  BY DEF CancelInv, CancelIsFinal
<1> QED BY <1>1, <1>2, CancelStep, SupervisionTypeCorrect, PTL DEF Spec

-----------------------------------------------------------------------------
(***************************************************************************)
(* The daemon's exit.  Its report is read once, after both tasks ended;    *)
(* nothing it was read from changes afterwards.                            *)
(***************************************************************************)
DaemonTypes ==
    /\ signal \in {"pending", "ok", "failed"}
    /\ signalled \in {"none", "ok", "failed"}
    /\ panicked \in BOOLEAN

ExitInv == main = "exited" => Drained /\ failures = Failures

DaemonInv == DaemonTypes /\ ExitInv

(* Every step keeps the report and what it was read from. *)
LEMMA DaemonStep == DaemonInv /\ [DaemonNext]_daemonvars => DaemonInv'
<1> SUFFICES ASSUME DaemonInv, [DaemonNext]_daemonvars PROVE DaemonInv'
  OBVIOUS
<1> USE DEF DaemonInv
<1>1. CASE \E r \in {"ok", "failed"} : CtrlC(r)
  BY <1>1 DEF CtrlC, tokens, actor, joiner, daemon, DaemonTypes, ExitInv, Drained, Failures
<1>2. CASE ServiceStep
  <2>1. /\ UNCHANGED <<signal, joiner, daemon>> /\ service # "end"
        /\ panicked' \in {panicked, TRUE}
    BY <1>2 DEF ServiceStep, Stop, Take, WorkPanics, PanicEnds, Answer, actor
  <2>2. main # "exited" /\ main' # "exited"
    BY <2>1 DEF ExitInv, Drained, daemon
  <2>3. DaemonTypes'
    BY <2>1 DEF DaemonTypes, daemon
  <2> QED
    BY <2>2, <2>3 DEF ExitInv
<1>3. CASE LoopStep \/ LoopPanics
  <2>1. /\ UNCHANGED <<signal, panicked, daemon>> /\ loop \in {"select", "join", "members"}
    BY <1>3 DEF LoopStep, LoopPanics, Offer, JoinReturns, MembersReturn,
                LoopCancelled, actor
  <2>2. main # "exited" /\ main' # "exited"
    BY <2>1 DEF ExitInv, Drained, daemon
  <2>3. DaemonTypes'
    BY <2>1 DEF DaemonTypes, daemon
  <2> QED
    BY <2>2, <2>3 DEF ExitInv
<1>4. CASE SelectSignal \/ SelectClosed \/ Shutdown
  <2>1. /\ main' # "exited" /\ UNCHANGED <<signal, panicked>>
        /\ signalled' = signalled \/ (signal # "pending" /\ signalled' = signal)
    BY <1>4 DEF SelectSignal, SelectClosed, Shutdown, actor
  <2> QED
    BY <2>1 DEF DaemonTypes, ExitInv
<1>5. CASE Report
  <2>1. /\ UNCHANGED <<signal, actor, loop, signalled>> /\ Drained
        /\ failures' = Failures
    BY <1>5 DEF Report, joiner
  <2>2. Failures' = Failures /\ Drained'
    BY <2>1 DEF Failures, Drained, actor
  <2> QED
    BY <2>1, <2>2 DEF DaemonTypes, ExitInv, actor
<1>6. CASE Exited \/ UNCHANGED daemonvars
  BY SMTT(30), <1>6 DEF Exited, daemonvars, actor, joiner, daemon, DaemonTypes, ExitInv, Drained, Failures
<1> QED
  BY <1>1, <1>2, <1>3, <1>4, <1>5, <1>6 DEF DaemonNext, MainStep

(* run_until_stopped returns Ok exactly when ctrl-c came first and neither *)
(* task panicked, also during the drain, and otherwise the first error of  *)
(* its order; for any number of candidates.                                *)
THEOREM ExitAlwaysReports == DaemonSpec => []ExitReportsTheWorst
<1>1. DaemonInit => DaemonInv
  BY DEF DaemonInit, DaemonInv, DaemonTypes, ExitInv
<1>2. DaemonInv => ExitReportsTheWorst
  <2> SUFFICES ASSUME DaemonInv, main = "exited"
               PROVE  /\ failures = <<>> <=> signalled = "ok" /\ ~panicked /\ loop = "done"
                      /\ signalled = "failed" => Head(failures) = "signal"
                      /\ panicked /\ signalled # "failed" => Head(failures) = "panicked"
    BY DEF ExitReportsTheWorst
  <2>1. /\ failures = Failures /\ loop \in {"done", "failed"} /\ DaemonTypes
    BY DEF DaemonInv, ExitInv, Drained
  <2>2. CASE signalled = "failed"
    BY <2>1, <2>2 DEF Failures
  <2>3. CASE signalled # "failed" /\ panicked
    BY <2>1, <2>3 DEF Failures
  <2>4. CASE signalled # "failed" /\ ~panicked
    BY <2>1, <2>4 DEF Failures, DaemonTypes
  <2> QED
    BY <2>2, <2>3, <2>4
<1> QED
  BY <1>1, <1>2, DaemonStep, PTL DEF DaemonSpec

-----------------------------------------------------------------------------
(***************************************************************************)
(* Ingestion's accounts, for rings that keep something and a router whose  *)
(* monitors serve the keys they are filed under.                           *)
(***************************************************************************)
Routed == \A k \in DOMAIN router : router[k] = k

Sample  == [key : Keys, n : Nat]
Command == [type : {"Sample", "Feed"}, sample : Sample]
           \union [type : {"Ping"}, sample : {NoSample}]

(* The pump has a sample in its hand. *)
Holding == pump.step \in {"sleep", "route", "ack", "acked"}

IngestTypes ==
    /\ made \in Nat /\ queue \in [Monitors -> Seq(Command)]
    /\ history \in [Monitors -> Seq(Sample)] /\ DOMAIN latest = Monitors
    /\ ingested \in [Monitors -> Seq(Sample)] /\ published \in [Monitors -> Seq(Sample)]
    /\ pump \in [step : {"next", "sleep", "route", "ack", "acked", "done"},
                 sample : Sample \union {NoSample}]
    /\ Holding => pump.sample \in Sample
    /\ teller \in [step : {"idle", "ping", "flushed", "dropped"},
                   to : Monitors \union {"none"}, told : SUBSET Sample]

(* Ring h holds the newest samples of all. *)
Ring(h, all) ==
    /\ Len(all) < Capacity => Len(h) = Len(all)
    /\ Len(all) >= Capacity => Len(h) = Capacity
    /\ \A i \in 1..Len(h) : h[i] = all[Len(all) - Len(h) + i]

RingInv ==
    \A m \in Monitors :
        /\ Ring(history[m], ingested[m])
        /\ ingested[m] # <<>> => latest[m] = Last(ingested[m])

(* What the source yielded is counted, in the pump's hand, or lost with    *)
(* the pump; a new sample is none of the old ones.                         *)
PumpInv ==
    /\ result = "none" <=> pump.step # "done"
    /\ fed \union dropped \subseteq read /\ \A s \in read : s.n \in Nat /\ s.n <= made
    /\ fed \intersect dropped = {}
    /\ pump.step = "next" => read = fed \union dropped
    /\ Holding => /\ pump.sample \notin fed \union dropped
                  /\ read = fed \union dropped \union {pump.sample}
    /\ result = "exhausted" => read = fed \union dropped
    /\ result = "ok" => \A s, t \in read \ (fed \union dropped) : s = t

OnBus(s) == \E m \in Monitors : Contains(published[m], s)

(* The one Feed on its way is the one the pump waits for, and an           *)
(* acknowledged sample is on the bus.                                      *)
FeedInv ==
    /\ \A m \in Monitors : \A i \in 1..Len(queue[m]) :
          queue[m][i].type = "Feed" =>
             /\ pump.step = "ack" /\ queue[m][i].sample = pump.sample
             /\ pump.sample.key \in DOMAIN router /\ m = router[pump.sample.key]
             /\ \A j \in 1..Len(queue[m]) : queue[m][j].type = "Feed" => i = j
    /\ \A m \in Monitors \cap stopped : pump.step # "done" => queue[m] = <<>>
    /\ pump.step = "acked" => OnBus(pump.sample)
    /\ \A s \in fed : OnBus(s)

Handled(s) == s \in refused \/ Contains(ingested[teller.to], s)

Told(s) == [type |-> "Sample", sample |-> s]

(* What was told is handled, queued before the ping, or lost with its      *)
(* monitor.                                                                *)
TellInv ==
    /\ teller.told # {} => teller.to \in Monitors
    /\ \A m \in Monitors : \A i \in 1..Len(queue[m]) :
          queue[m][i].type = "Ping" =>
             /\ teller.step = "ping" /\ m = teller.to
             /\ \A j \in 1..Len(queue[m]) : queue[m][j].type = "Ping" => i = j
             /\ \A s \in teller.told : Handled(s) \/ \E j \in 1..(i - 1) : queue[m][j] = Told(s)
    /\ \A s \in teller.told : \/ Handled(s) \/ teller.to \in stopped
                              \/ \E j \in 1..Len(queue[teller.to]) : queue[teller.to][j] = Told(s)
    /\ teller.step = "flushed" => \A s \in teller.told : Handled(s)

IngestInv == IngestTypes /\ RingInv /\ PumpInv /\ FeedInv /\ TellInv

-----------------------------------------------------------------------------
(* The steps that leave the monitors and the teller alone. *)
PumpOnly == PumpCancelled \/ NextSample \/ SourceEnds \/ Wake \/ NoMonitor
            \/ FeedFails \/ Fed

(* What a longer sequence contains. *)
LEMMA ContainsAppend ==
    ASSUME NEW S, NEW q \in Seq(S), NEW e \in S
    PROVE  /\ Contains(Append(q, e), e)
           /\ \A x : Contains(q, x) => Contains(Append(q, e), x)
<1>1. /\ Len(q) \in Nat /\ Len(Append(q, e)) = Len(q) + 1
      /\ Append(q, e)[Len(q) + 1] = e
      /\ \A i \in 1..Len(q) : Append(q, e)[i] = q[i]
  OBVIOUS
<1>2. Contains(Append(q, e), e)
  <2>1. Len(q) + 1 \in 1..Len(Append(q, e))
    BY <1>1
  <2> QED
    BY <1>1, <2>1 DEF Contains
<1>3. ASSUME NEW x, Contains(q, x) PROVE Contains(Append(q, e), x)
  <2>1. PICK i \in 1..Len(q) : q[i] = x
    BY <1>3 DEF Contains
  <2>2. i \in 1..Len(Append(q, e)) /\ Append(q, e)[i] = x
    BY <1>1, <2>1
  <2> QED
    BY <2>2 DEF Contains
<1> QED
  BY <1>2, <1>3

(* A ring is a suffix of what was pushed into it. *)
LEMMA RingIsSuffix ==
    ASSUME NEW S, NEW h \in Seq(S), NEW all \in Seq(S), Ring(h, all), Capacity \in Nat
    PROVE  IsSuffix(h, all)
<1> DEFINE n == Len(h)
           k == Len(all)
           r == Reverse(h)
           t == Reverse(all)
<1>1. /\ n \in Nat /\ k \in Nat /\ n <= k
      /\ \A i \in 1..n : h[i] = all[k - n + i]
  <2>1. n \in Nat /\ k \in Nat
    OBVIOUS
  <2>2. n <= k
    BY <2>1 DEF Ring
  <2> QED
    BY <2>1, <2>2 DEF Ring
<1>2. \A i \in 1..n : n - i + 1 \in 1..n /\ i \in 1..k
  BY <1>1
<1>3. \A i \in 1..n : r[i] = h[n - i + 1] /\ t[i] = all[k - i + 1]
  BY <1>1, <1>2 DEF Reverse
<1>4. \A i \in 1..n : r[i] = t[i]
  <2> SUFFICES ASSUME NEW i \in 1..n PROVE r[i] = t[i]
    OBVIOUS
  <2>1. n - i + 1 \in 1..n /\ k - n + (n - i + 1) = k - i + 1
    BY <1>1
  <2>2. h[n - i + 1] = all[k - n + (n - i + 1)]
    BY <1>1, <2>1
  <2> QED
    BY <1>3, <2>1, <2>2
<1>5. r \in Seq(S) /\ Len(r) = n /\ t \in Seq(S) /\ Len(t) = k
  <2>1. \A i \in 1..n : h[n - i + 1] \in S
    BY <1>1, <1>2
  <2>2. \A i \in 1..k : all[k - i + 1] \in S
    BY <1>1
  <2> QED
    BY <1>1, <2>1, <2>2 DEF Reverse
<1> HIDE DEF r, t, n, k
<1>6. SubSeq(r, 1, n) = SubSeq(t, 1, n)
  BY <1>1, <1>4, <1>5
<1> QED
  BY <1>1, <1>5, <1>6 DEF IsSuffix, IsPrefix, r, t, n, k

(* One more sample keeps the ring. *)
LEMMA RingPush ==
    ASSUME NEW m \in Monitors, NEW s \in Sample, NEW all \in Seq(Sample),
           history[m] \in Seq(Sample), Ring(history[m], all), Capacity \in Nat \ {0}
    PROVE  Push(m, s) \in Seq(Sample) /\ Ring(Push(m, s), Append(all, s))
<1> DEFINE h == history[m]
           n == Len(h)
           k == Len(all)
           b == Append(all, s)
<1>1. /\ n \in Nat /\ k \in Nat /\ (k < Capacity => n = k) /\ (k >= Capacity => n = Capacity)
      /\ \A i \in 1..n : h[i] = all[k - n + i]
  <2>1. n \in Nat /\ k \in Nat
    OBVIOUS
  <2>2. (k < Capacity => n = k) /\ (k >= Capacity => n = Capacity)
    BY DEF Ring
  <2> QED
    BY <2>1, <2>2 DEF Ring
<1>2. /\ b \in Seq(Sample) /\ Len(b) = k + 1 /\ b[k + 1] = s
      /\ \A i \in 1..k : b[i] = all[i]
  OBVIOUS
<1>3. CASE n = Capacity
  <2>1. h # <<>> /\ Push(m, s) = Append(Tail(h), s)
    BY <1>3 DEF Push
  <2>2. /\ Tail(h) \in Seq(Sample) /\ Len(Tail(h)) = n - 1
        /\ \A i \in 1..(n - 1) : Tail(h)[i] = h[i + 1]
    BY <2>1
  <2> DEFINE p == Append(Tail(h), s)
  <2>3. /\ p \in Seq(Sample) /\ Len(p) = n /\ p[n] = s
        /\ \A i \in 1..(n - 1) : p[i] = h[i + 1]
    BY <1>1, <1>3, <2>2
  <2> HIDE DEF p, b, h, n, k
  <2>4. ASSUME NEW i \in 1..n PROVE p[i] = b[k + 1 - n + i]
    <3>1. CASE i = n
      BY <1>1, <1>2, <2>3, <3>1
    <3>2. CASE i # n
      <4>a. n <= k /\ n \in Nat /\ k \in Nat /\ i \in Nat /\ 1 <= i /\ i < n
        BY <1>1, <1>3, <3>2
      <4>1. i \in 1..(n - 1) /\ i + 1 \in 1..n /\ k - n + (i + 1) \in 1..k
            /\ k - n + (i + 1) = k + 1 - n + i
        BY <4>a
      <4>2. p[i] = h[i + 1] /\ h[i + 1] = all[k - n + (i + 1)]
        BY <1>1, <2>3, <4>1
      <4> QED
        BY <1>2, <4>1, <4>2
    <3> QED
      BY <3>1, <3>2
  <2>5. (k + 1 < Capacity => n = k + 1) /\ (k + 1 >= Capacity => n = Capacity)
    BY <1>1, <1>3
  <2>6. Ring(p, b)
    <3>1. Len(p) = n /\ Len(b) = k + 1
      BY <1>2, <2>3
    <3>2. ASSUME NEW i \in 1..Len(p) PROVE p[i] = b[Len(b) - Len(p) + i]
      <4>1. Len(b) - Len(p) + i = k + 1 - n + i
        BY <1>1, <3>1
      <4> QED
        BY <2>4, <3>1, <4>1
    <3> QED
      BY <2>5, <3>1, <3>2 DEF Ring
  <2> QED
    BY <2>1, <2>3, <2>6 DEF p, b, h
<1>4. CASE n # Capacity
  <2>1. Push(m, s) = Append(h, s)
    BY <1>4 DEF Push
  <2> DEFINE p == Append(h, s)
  <2>2. /\ p \in Seq(Sample) /\ Len(p) = n + 1 /\ p[n + 1] = s
        /\ \A i \in 1..n : p[i] = h[i]
    OBVIOUS
  <2> HIDE DEF p, b, h, n, k
  <2>3. n = k /\ k < Capacity
    BY <1>1, <1>4
  <2>4. ASSUME NEW i \in 1..(n + 1) PROVE p[i] = b[i]
    <3>1. CASE i = n + 1
      BY <1>2, <2>2, <2>3, <3>1
    <3>2. CASE i # n + 1
      <4>1. i \in 1..n /\ i \in 1..k /\ k - n + i = i
        BY <1>1, <2>3, <3>2
      <4> QED
        BY <1>1, <1>2, <2>2, <4>1
    <3> QED
      BY <3>1, <3>2
  <2>5. (k + 1 < Capacity => n + 1 = k + 1) /\ (k + 1 >= Capacity => n + 1 = Capacity)
    BY <1>1, <2>3
  <2>6. Ring(p, b)
    <3>1. Len(p) = n + 1 /\ Len(b) = k + 1
      BY <1>2, <2>2
    <3>2. ASSUME NEW i \in 1..Len(p) PROVE p[i] = b[Len(b) - Len(p) + i]
      <4>1. Len(b) - Len(p) + i = i
        BY <1>1, <2>3, <3>1
      <4> QED
        BY <2>4, <3>1, <4>1
    <3> QED
      BY <2>5, <3>1, <3>2 DEF Ring
  <2> QED
    BY <2>1, <2>2, <2>6 DEF p, b, h
<1> QED
  BY <1>3, <1>4

(* What a monitor does with the command it takes. *)
LEMMA HandleEffect ==
    ASSUME IngestTypes, NEW m \in Monitors, Handle(m)
    PROVE  LET cmd == queue[m][1] IN
           /\ m \notin stopped /\ cmd \in Command /\ Len(queue[m]) \in Nat \ {0}
           /\ queue' \in [Monitors -> Seq(Command)]
           /\ \A d \in Monitors \ {m} : queue'[d] = queue[d]
           /\ Len(queue'[m]) = Len(queue[m]) - 1
           /\ \A i \in 1..Len(queue'[m]) : queue'[m][i] = queue[m][i + 1]
           /\ IF cmd.type = "Ping"
              THEN UNCHANGED <<history, latest, ingested, published, refused>>
              ELSE cmd.sample \in Sample /\ ingest(m, cmd.sample)
           /\ pump' = IF cmd.type = "Feed" /\ pump.step = "ack"
                      THEN [pump EXCEPT !.step = "acked"] ELSE pump
           /\ teller' = IF cmd.type = "Ping"
                        THEN [teller EXCEPT !.step = "flushed"] ELSE teller
           /\ UNCHANGED <<made, stopped, fed, dropped, read, result>>
<1>1. queue[m] \in Seq(Command) /\ queue[m] # <<>> /\ m \notin stopped
  BY DEF IngestTypes, Handle
<1>2. /\ Head(queue[m]) = queue[m][1] /\ queue[m][1] \in Command
      /\ Len(queue[m]) \in Nat \ {0} /\ Tail(queue[m]) \in Seq(Command)
      /\ Len(Tail(queue[m])) = Len(queue[m]) - 1
      /\ \A i \in 1..(Len(queue[m]) - 1) : Tail(queue[m])[i] = queue[m][i + 1]
  BY <1>1
<1>3. queue' = [queue EXCEPT ![m] = Tail(queue[m])]
  BY DEF Handle
<1>4. /\ queue' \in [Monitors -> Seq(Command)] /\ queue'[m] = Tail(queue[m])
      /\ \A d \in Monitors \ {m} : queue'[d] = queue[d]
  BY <1>2, <1>3 DEF IngestTypes
<1>5. queue[m][1].type # "Ping" => queue[m][1].sample \in Sample
  BY <1>2 DEF Command
<1>6. /\ IF queue[m][1].type = "Ping"
         THEN UNCHANGED <<history, latest, ingested, published, refused>>
         ELSE ingest(m, queue[m][1].sample)
      /\ pump' = IF queue[m][1].type = "Feed" /\ pump.step = "ack"
                 THEN [pump EXCEPT !.step = "acked"] ELSE pump
      /\ teller' = IF queue[m][1].type = "Ping"
                   THEN [teller EXCEPT !.step = "flushed"] ELSE teller
      /\ UNCHANGED <<made, stopped, fed, dropped, read, result>>
  BY <1>2 DEF Handle
<1> QED
  BY <1>1, <1>2, <1>4, <1>5, <1>6

(* A command's work only adds to the accounts, and leaves its sample in    *)
(* one of them.                                                            *)
LEMMA IngestEffect ==
    ASSUME IngestTypes, NEW m \in Monitors, Capacity \in Nat \ {0}, RingInv,
           NEW s \in Sample, ingest(m, s)
    PROVE  /\ history' \in [Monitors -> Seq(Sample)] /\ DOMAIN latest' = Monitors
           /\ ingested' \in [Monitors -> Seq(Sample)]
           /\ published' \in [Monitors -> Seq(Sample)] /\ RingInv'
           /\ \A d \in Monitors : \A x : /\ Contains(published[d], x) => Contains(published'[d], x)
                                         /\ Contains(ingested[d], x) => Contains(ingested'[d], x)
           /\ refused \subseteq refused'
           /\ s.key = m => Contains(published'[m], s)
           /\ s \in refused' \/ Contains(ingested'[m], s)
<1>1. CASE s.key # m
  BY <1>1 DEF ingest, IngestTypes, RingInv
<1>2. CASE s.key = m
  <2>1. /\ history' = [history EXCEPT ![m] = Push(m, s)]
        /\ latest' = [latest EXCEPT ![m] = s]
        /\ ingested' = [ingested EXCEPT ![m] = Append(ingested[m], s)]
        /\ published' = [published EXCEPT ![m] = Append(published[m], s)]
        /\ UNCHANGED refused
    BY <1>2 DEF ingest
  <2>2. /\ history[m] \in Seq(Sample) /\ ingested[m] \in Seq(Sample)
        /\ published[m] \in Seq(Sample) /\ Ring(history[m], ingested[m])
    BY DEF IngestTypes, RingInv
  <2>3. /\ Push(m, s) \in Seq(Sample) /\ Append(ingested[m], s) \in Seq(Sample)
        /\ Append(published[m], s) \in Seq(Sample)
        /\ Ring(Push(m, s), Append(ingested[m], s))
    BY <2>2, RingPush
  <2>4. /\ history' \in [Monitors -> Seq(Sample)] /\ DOMAIN latest' = Monitors
        /\ ingested' \in [Monitors -> Seq(Sample)]
        /\ published' \in [Monitors -> Seq(Sample)]
        /\ history'[m] = Push(m, s) /\ latest'[m] = s
        /\ ingested'[m] = Append(ingested[m], s)
        /\ published'[m] = Append(published[m], s)
        /\ \A d \in Monitors \ {m} : /\ history'[d] = history[d] /\ latest'[d] = latest[d]
                                     /\ ingested'[d] = ingested[d]
                                     /\ published'[d] = published[d]
    BY <2>1, <2>3 DEF IngestTypes
  <2>5. /\ \A x : Contains(published[m], x) => Contains(published'[m], x)
        /\ \A x : Contains(ingested[m], x) => Contains(ingested'[m], x)
        /\ Contains(published'[m], s) /\ Contains(ingested'[m], s)
    BY <2>2, <2>4, ContainsAppend
  <2>6. ASSUME NEW d \in Monitors
        PROVE  /\ Ring(history'[d], ingested'[d])
               /\ ingested'[d] # <<>> => latest'[d] = Last(ingested'[d])
    <3>1. CASE d # m
      <4>1. /\ Ring(history[d], ingested[d])
            /\ ingested[d] # <<>> => latest[d] = Last(ingested[d])
        BY DEF RingInv
      <4> QED
        BY <2>4, <3>1, <4>1
    <3>2. CASE d = m
      <4>1. Last(Append(ingested[m], s)) = s
        BY <2>2 DEF Last
      <4> QED
        BY <2>3, <2>4, <3>2, <4>1
    <3> QED
      BY <3>1, <3>2
  <2>7. RingInv'
    BY <2>6 DEF RingInv
  <2>8. \A d \in Monitors : \A x : /\ Contains(published[d], x) => Contains(published'[d], x)
                                   /\ Contains(ingested[d], x) => Contains(ingested'[d], x)
    BY <2>4, <2>5
  <2> QED
    BY <2>1, <2>4, <2>5, <2>7, <2>8
<1> QED
  BY <1>1, <1>2

(* A monitor that handles a command keeps the accounts. *)
LEMMA HandleStep ==
    ASSUME IngestInv, Capacity > 0, Routed, NEW m \in Monitors, Handle(m)
    PROVE  IngestInv'
<1> DEFINE cmd == queue[m][1]
<1>1. IngestTypes /\ RingInv /\ PumpInv /\ FeedInv /\ TellInv /\ Capacity \in Nat \ {0}
  BY IngestBounds DEF IngestInv
<1>2. /\ m \notin stopped /\ cmd \in Command /\ Len(queue[m]) \in Nat \ {0}
      /\ queue' \in [Monitors -> Seq(Command)]
      /\ \A d \in Monitors \ {m} : queue'[d] = queue[d]
      /\ Len(queue'[m]) = Len(queue[m]) - 1
      /\ \A i \in 1..Len(queue'[m]) : queue'[m][i] = queue[m][i + 1]
      /\ IF cmd.type = "Ping"
         THEN UNCHANGED <<history, latest, ingested, published, refused>>
         ELSE cmd.sample \in Sample /\ ingest(m, cmd.sample)
      /\ pump' = IF cmd.type = "Feed" /\ pump.step = "ack"
                 THEN [pump EXCEPT !.step = "acked"] ELSE pump
      /\ teller' = IF cmd.type = "Ping"
                   THEN [teller EXCEPT !.step = "flushed"] ELSE teller
      /\ UNCHANGED <<made, stopped, fed, dropped, read, result>>
  BY <1>1, HandleEffect
<1>3. /\ history' \in [Monitors -> Seq(Sample)] /\ DOMAIN latest' = Monitors
      /\ ingested' \in [Monitors -> Seq(Sample)]
      /\ published' \in [Monitors -> Seq(Sample)] /\ RingInv'
      /\ \A d \in Monitors : \A x : /\ Contains(published[d], x) => Contains(published'[d], x)
                                    /\ Contains(ingested[d], x) => Contains(ingested'[d], x)
      /\ refused \subseteq refused'
  <2>1. CASE cmd.type = "Ping"
    <3>1. UNCHANGED <<history, latest, ingested, published, refused>>
      BY <1>2, <2>1
    <3>2. RingInv'
      BY <1>1, <3>1 DEF RingInv
    <3> QED
      BY <1>1, <3>1, <3>2 DEF IngestTypes
  <2>2. CASE cmd.type # "Ping"
    <3>1. PICK s \in Sample : ingest(m, s)
      BY <1>2, <2>2
    <3>2. /\ history' \in [Monitors -> Seq(Sample)] /\ DOMAIN latest' = Monitors
          /\ ingested' \in [Monitors -> Seq(Sample)]
          /\ published' \in [Monitors -> Seq(Sample)] /\ RingInv'
          /\ refused \subseteq refused'
      BY <1>1, <3>1, IngestEffect
    <3>3. ASSUME NEW d \in Monitors, NEW x
          PROVE  /\ Contains(published[d], x) => Contains(published'[d], x)
                 /\ Contains(ingested[d], x) => Contains(ingested'[d], x)
      BY <1>1, <3>1, IngestEffect
    <3> QED
      BY <3>2, <3>3
  <2> QED
    BY <2>1, <2>2
<1>4. /\ teller'.to = teller.to /\ teller'.told = teller.told
      /\ cmd.type = "Ping" => teller'.step = "flushed"
      /\ cmd.type # "Ping" => teller' = teller
      /\ teller' \in [step : {"idle", "ping", "flushed", "dropped"},
                      to : Monitors \union {"none"}, told : SUBSET Sample]
  BY <1>1, <1>2 DEF IngestTypes
<1>5. /\ pump'.sample = pump.sample
      /\ cmd.type # "Feed" => pump' = pump
      /\ cmd.type = "Feed" => pump.step = "ack" /\ pump'.step = "acked"
      /\ pump' \in [step : {"next", "sleep", "route", "ack", "acked", "done"},
                    sample : Sample \union {NoSample}]
  <2>1. cmd.type = "Feed" => pump.step = "ack"
    <3>1. 1 \in 1..Len(queue[m])
      BY <1>2
    <3> QED
      BY <1>1, <3>1 DEF FeedInv
  <2> QED
    BY <1>1, <1>2, <2>1 DEF IngestTypes
<1>6. Len(queue[m]) - 1 \in Nat /\ 1 \in 1..Len(queue[m])
      /\ \A i \in 1..Len(queue'[m]) : i + 1 \in 1..Len(queue[m]) /\ i + 1 # 1
  BY <1>2
<1>t. IngestTypes'
  BY <1>1, <1>2, <1>3, <1>4, <1>5 DEF IngestTypes, Holding
<1>p. PumpInv'
  BY <1>1, <1>2, <1>5 DEF PumpInv, Holding
<1> HIDE DEF cmd
<1>f. FeedInv'
  <2>1. \A x : OnBus(x) => OnBus(x)'
    BY <1>3 DEF OnBus
  <2>2. ASSUME NEW d \in Monitors, NEW i \in 1..Len(queue'[d]), queue'[d][i].type = "Feed"
        PROVE  /\ cmd.type # "Feed"
               /\ pump.step = "ack" /\ queue'[d][i].sample = pump.sample
               /\ pump.sample.key \in DOMAIN router /\ d = router[pump.sample.key]
               /\ \A j \in 1..Len(queue'[d]) : queue'[d][j].type = "Feed" => i = j
    <3>1. CASE d = m
      <4>1. queue[m][i + 1] = queue'[m][i] /\ i + 1 \in 1..Len(queue[m]) /\ i + 1 # 1
        BY <1>2, <1>6, <2>2, <3>1
      <4>2. cmd.type # "Feed"
        BY <1>1, <1>6, <2>2, <3>1, <4>1 DEF FeedInv, cmd
      <4>3. ASSUME NEW j \in 1..Len(queue'[m]), queue'[m][j].type = "Feed" PROVE i = j
        <5>1. queue[m][j + 1] = queue'[m][j] /\ j + 1 \in 1..Len(queue[m])
          BY <1>2, <1>6
        <5>2. i + 1 = j + 1
          BY <1>1, <2>2, <3>1, <4>1, <4>3, <5>1 DEF FeedInv
        <5> QED
          BY <3>1, <5>2
      <4> QED
        BY <1>1, <2>2, <3>1, <4>1, <4>2, <4>3 DEF FeedInv
    <3>2. CASE d # m
      <4>1. queue'[d] = queue[d]
        BY <1>2, <3>2
      <4>2. /\ pump.step = "ack" /\ queue'[d][i].sample = pump.sample
            /\ pump.sample.key \in DOMAIN router /\ d = router[pump.sample.key]
            /\ \A j \in 1..Len(queue'[d]) : queue'[d][j].type = "Feed" => i = j
        BY <1>1, <2>2, <4>1 DEF FeedInv
      <4>3. cmd.type # "Feed"
        BY <1>1, <1>6, <3>2, <4>2 DEF FeedInv, cmd
      <4> QED
        BY <4>2, <4>3
    <3> QED
      BY <3>1, <3>2
  <2>3. cmd.type = "Feed" => OnBus(pump.sample)'
    <3> SUFFICES ASSUME cmd.type = "Feed" PROVE OnBus(pump.sample)'
      OBVIOUS
    <3>1. /\ cmd.sample = pump.sample /\ pump.sample.key \in DOMAIN router
          /\ m = router[pump.sample.key]
      BY <1>1, <1>6 DEF FeedInv, cmd
    <3>2. cmd.sample.key = m /\ cmd.sample \in Sample /\ ingest(m, cmd.sample)
      BY <1>2, <3>1 DEF Routed, cmd
    <3>3. Contains(published'[m], cmd.sample)
      BY <1>1, <3>2, IngestEffect
    <3> QED
      BY <1>5, <3>1, <3>3 DEF OnBus
  <2>4. ASSUME NEW d \in Monitors \cap stopped', pump'.step # "done" PROVE queue'[d] = <<>>
    <3>1. d \in stopped /\ d # m /\ pump.step # "done" /\ queue'[d] = queue[d]
      BY <1>2, <1>5, <2>4
    <3> QED
      BY <1>1, <3>1 DEF FeedInv
  <2>5. pump'.step = "acked" => OnBus(pump.sample)'
    BY <1>1, <1>5, <2>1, <2>3 DEF FeedInv
  <2>6. \A s \in fed' : OnBus(s)'
    BY <1>1, <1>2, <2>1 DEF FeedInv
  <2>7. \A d \in Monitors : \A i \in 1..Len(queue'[d]) :
          queue'[d][i].type = "Feed" =>
             /\ pump'.step = "ack" /\ queue'[d][i].sample = pump'.sample
             /\ pump'.sample.key \in DOMAIN router /\ d = router[pump'.sample.key]
             /\ \A j \in 1..Len(queue'[d]) : queue'[d][j].type = "Feed" => i = j
    BY <1>5, <2>2
  <2> QED
    BY <2>4, <2>5, <2>6, <2>7 DEF FeedInv
<1>l. TellInv'
  <2>1. ASSUME NEW s \in teller.told, Handled(s) PROVE Handled(s)'
    <3>1. teller.to \in Monitors
      BY <1>1 DEF TellInv
    <3> QED
      BY <1>3, <1>4, <2>1, <3>1 DEF Handled
  <2>2. CASE cmd.type = "Ping"
    <3>1. /\ teller.step = "ping" /\ m = teller.to
          /\ \A j \in 1..Len(queue[m]) : queue[m][j].type = "Ping" => 1 = j
          /\ \A s \in teller.told : Handled(s) \/ \E j \in 1..(1 - 1) : queue[m][j] = Told(s)
      BY <1>1, <1>6, <2>2 DEF TellInv, cmd
    <3>2. \A s \in teller.told : Handled(s)
      BY <3>1
    <3>3. ASSUME NEW d \in Monitors, NEW i \in 1..Len(queue'[d]) PROVE queue'[d][i].type # "Ping"
      <4>1. CASE d = m
        <5>1. queue'[m][i] = queue[m][i + 1] /\ i + 1 \in 1..Len(queue[m]) /\ i + 1 # 1
          BY <1>2, <1>6, <4>1
        <5> QED
          BY <3>1, <4>1, <5>1
      <4>2. CASE d # m
        BY <1>1, <1>2, <3>1, <4>2 DEF TellInv
      <4> QED
        BY <4>1, <4>2
    <3>4. \A s \in teller'.told : Handled(s)'
      BY <1>4, <2>1, <3>2
    <3>5. teller'.told # {} => teller'.to \in Monitors
      BY <1>1, <1>4 DEF TellInv
    <3> QED
      BY <3>3, <3>4, <3>5 DEF TellInv
  <2>3. CASE cmd.type # "Ping"
    <3>1. teller' = teller /\ cmd.sample \in Sample /\ ingest(m, cmd.sample)
      BY <1>2, <1>4, <2>3 DEF cmd
    <3>2. cmd.sample \in refused' \/ Contains(ingested'[m], cmd.sample)
      BY <1>1, <3>1, IngestEffect
    (* A queued sample is now handled, or one place nearer. *)
    <3>3. ASSUME NEW s \in teller.told, m = teller.to, NEW j \in 1..Len(queue[m]),
                 queue[m][j] = Told(s)
          PROVE  Handled(s)' \/ (j - 1 \in 1..Len(queue'[m]) /\ queue'[m][j - 1] = Told(s))
      <4>1. CASE j = 1
        <5>1. cmd.sample = s
          BY <3>3, <4>1 DEF cmd, Told
        <5> QED
          BY <3>1, <3>2, <3>3, <5>1 DEF Handled
      <4>2. CASE j # 1
        <5>1. j - 1 \in 1..Len(queue'[m]) /\ j - 1 + 1 = j
          BY <1>2, <4>2
        <5> QED
          BY <1>2, <3>3, <5>1
      <4> QED
        BY <4>1, <4>2
    <3>4. ASSUME NEW d \in Monitors, NEW i \in 1..Len(queue'[d]), queue'[d][i].type = "Ping"
          PROVE  /\ teller'.step = "ping" /\ d = teller'.to
                 /\ \A j \in 1..Len(queue'[d]) : queue'[d][j].type = "Ping" => i = j
                 /\ \A s \in teller'.told :
                       Handled(s)' \/ \E j \in 1..(i - 1) : queue'[d][j] = Told(s)
      <4>1. CASE d # m
        <5>1. queue'[d] = queue[d]
          BY <1>2, <4>1
        <5>2. /\ teller.step = "ping" /\ d = teller.to
              /\ \A j \in 1..Len(queue[d]) : queue[d][j].type = "Ping" => i = j
              /\ \A s \in teller.told : Handled(s) \/ \E j \in 1..(i - 1) : queue[d][j] = Told(s)
          BY <1>1, <3>4, <5>1 DEF TellInv
        <5> QED
          BY <2>1, <3>1, <5>1, <5>2
      <4>2. CASE d = m
        <5>1. queue'[m][i] = queue[m][i + 1] /\ i + 1 \in 1..Len(queue[m]) /\ i \in Nat
          BY <1>2, <1>6, <4>2
        <5>2. /\ teller.step = "ping" /\ m = teller.to
              /\ \A j \in 1..Len(queue[m]) : queue[m][j].type = "Ping" => i + 1 = j
              /\ \A s \in teller.told :
                    Handled(s) \/ \E j \in 1..((i + 1) - 1) : queue[m][j] = Told(s)
          BY <1>1, <3>4, <4>2, <5>1 DEF TellInv
        <5>3. ASSUME NEW j \in 1..Len(queue'[m]), queue'[m][j].type = "Ping" PROVE i = j
          <6>1. queue'[m][j] = queue[m][j + 1] /\ j + 1 \in 1..Len(queue[m])
            BY <1>2, <1>6
          <6>2. i + 1 = j + 1
            BY <5>2, <5>3, <6>1
          <6> QED
            BY <5>1, <6>2
        <5>4. ASSUME NEW s \in teller.told
              PROVE  Handled(s)' \/ \E j \in 1..(i - 1) : queue'[m][j] = Told(s)
          <6>1. CASE Handled(s)
            BY <2>1, <6>1
          <6>2. CASE ~Handled(s)
            <7>1. PICK j \in 1..((i + 1) - 1) : queue[m][j] = Told(s)
              BY <5>2, <6>2
            <7>2. j \in 1..Len(queue[m]) /\ (j - 1 \in 1..Len(queue'[m]) => j - 1 \in 1..(i - 1))
              BY <1>2, <5>1
            <7>3. Handled(s)' \/ (j - 1 \in 1..Len(queue'[m]) /\ queue'[m][j - 1] = Told(s))
              BY <3>3, <5>2, <7>1, <7>2
            <7> QED
              BY <7>2, <7>3
          <6> QED
            BY <6>1, <6>2
        <5> QED
          BY <3>1, <4>2, <5>2, <5>3, <5>4
      <4> QED
        BY <4>1, <4>2
    <3>5. ASSUME NEW s \in teller.told
          PROVE  \/ Handled(s)' \/ teller.to \in stopped
                 \/ \E j \in 1..Len(queue'[teller.to]) : queue'[teller.to][j] = Told(s)
      <4>1. teller.to \in Monitors
        BY <1>1 DEF TellInv
      <4>2. CASE Handled(s) \/ teller.to \in stopped
        BY <2>1, <4>2
      <4>3. CASE ~Handled(s) /\ teller.to \notin stopped
        <5>1. PICK j \in 1..Len(queue[teller.to]) : queue[teller.to][j] = Told(s)
          BY <1>1, <4>3 DEF TellInv
        <5> QED
          BY SMTT(30), <1>2, <3>3, <4>1, <5>1
      <4> QED
        BY <4>2, <4>3
    <3>6. /\ teller'.told # {} => teller'.to \in Monitors
          /\ teller'.step = "flushed" => \A s \in teller'.told : Handled(s)'
      BY <1>1, <2>1, <3>1 DEF TellInv
    <3>7. \A s \in teller'.told :
             \/ Handled(s)' \/ teller'.to \in stopped'
             \/ \E j \in 1..Len(queue'[teller'.to]) : queue'[teller'.to][j] = Told(s)
      BY <1>2, <3>1, <3>5
    <3> HIDE DEF Told, Handled
    <3> QED
      BY <3>4, <3>6, <3>7 DEF TellInv
  <2> QED
    BY <2>2, <2>3
<1> QED
  BY <1>3, <1>t, <1>p, <1>f, <1>l DEF IngestInv

(* One more command at the end of a queue. *)
LEMMA Enqueue ==
    ASSUME IngestTypes, NEW m \in Monitors, NEW e \in Command,
           queue' = [queue EXCEPT ![m] = Append(queue[m], e)]
    PROVE  /\ queue' \in [Monitors -> Seq(Command)]
           /\ \A d \in Monitors \ {m} : queue'[d] = queue[d]
           /\ Len(queue[m]) \in Nat /\ Len(queue'[m]) = Len(queue[m]) + 1
           /\ queue'[m][Len(queue[m]) + 1] = e
           /\ \A i \in 1..Len(queue[m]) : queue'[m][i] = queue[m][i]
           /\ \A i \in 1..Len(queue'[m]) : i \in 1..Len(queue[m]) \/ i = Len(queue[m]) + 1
<1>1. queue[m] \in Seq(Command) /\ Append(queue[m], e) \in Seq(Command)
  BY DEF IngestTypes
<1>2. /\ queue' \in [Monitors -> Seq(Command)] /\ queue'[m] = Append(queue[m], e)
      /\ \A d \in Monitors \ {m} : queue'[d] = queue[d]
  BY <1>1 DEF IngestTypes
<1>3. /\ Len(queue[m]) \in Nat /\ Len(queue'[m]) = Len(queue[m]) + 1
      /\ queue'[m][Len(queue[m]) + 1] = e
      /\ \A i \in 1..Len(queue[m]) : queue'[m][i] = queue[m][i]
  BY <1>1, <1>2
<1>4. \A i \in 1..Len(queue'[m]) : i \in 1..Len(queue[m]) \/ i = Len(queue[m]) + 1
  BY <1>3
<1> QED
  BY <1>2, <1>3, <1>4

(* The pump's own steps keep the accounts. *)
LEMMA PumpStep ==
    ASSUME IngestInv, PumpOnly
    PROVE  IngestInv'
<1>1. IngestTypes /\ RingInv /\ PumpInv /\ FeedInv /\ TellInv
  BY DEF IngestInv
<1>2. /\ UNCHANGED <<queue, history, latest, ingested, published, refused, teller>>
      /\ stopped' = stopped \/ (stopped' = stopped \union {"pump"} /\ pump'.step = "done")
      /\ pump.step # "done"
      /\ pump.step = "ack" => router[pump.sample.key] \in stopped
      /\ pump'.step # "acked" /\ (fed' = fed \/ (pump.step = "acked" /\ fed' = fed \union {pump.sample}))
  BY <1>1 DEF PumpOnly, PumpCancelled, NextSample, SourceEnds, Wake, NoMonitor, FeedFails, Fed,
         monitor, IngestTypes
<1>3. /\ made' \in Nat
      /\ pump' \in [step : {"next", "sleep", "route", "ack", "acked", "done"},
                    sample : Sample \union {NoSample}]
      /\ Holding' => pump'.sample \in Sample
  <2>1. CASE NextSample
    <3>1. PICK k \in Keys, st \in {"sleep", "route"} :
             /\ made' = made + 1
             /\ pump' = [step |-> st, sample |-> [key |-> k, n |-> made + 1]]
      BY <2>1 DEF NextSample
    <3>2. made + 1 \in Nat
      BY <1>1 DEF IngestTypes
    <3>3. [key |-> k, n |-> made + 1] \in Sample
      BY <3>2 DEF Sample
    <3> QED
      BY <3>1, <3>2, <3>3 DEF Holding
  <2>2. CASE PumpCancelled \/ SourceEnds \/ NoMonitor \/ FeedFails \/ Fed
    BY <1>1, <2>2 DEF PumpCancelled, SourceEnds, NoMonitor, FeedFails, Fed, IngestTypes, Holding
  <2>3. CASE Wake
    BY <1>1, <2>3 DEF Wake, IngestTypes, Holding
  <2> QED
    BY <2>1, <2>2, <2>3 DEF PumpOnly
<1>t. IngestTypes'
  BY <1>1, <1>2, <1>3 DEF IngestTypes
<1>4. RingInv'
  BY <1>1, <1>2 DEF RingInv
<1>5. TellInv'
  BY <1>1, <1>2 DEF TellInv, Handled
<1>6. FeedInv'
  <2>1. ASSUME NEW m \in Monitors, NEW i \in 1..Len(queue[m]) PROVE queue[m][i].type # "Feed"
    <3> SUFFICES ASSUME queue[m][i].type = "Feed" PROVE FALSE
      OBVIOUS
    <3>1. pump.step = "ack" /\ m = router[pump.sample.key]
      BY <1>1 DEF FeedInv
    <3>2. queue[m] = <<>>
      BY <1>1, <1>2, <3>1 DEF FeedInv
    <3> QED
      BY <3>2
  <2>2. \A x : OnBus(x) => OnBus(x)'
    BY <1>2 DEF OnBus
  <2>3. \A s \in fed' : OnBus(s)'
    BY <1>1, <1>2, <2>2 DEF FeedInv
  <2>4. \A m \in Monitors \cap stopped' : pump'.step # "done" => queue'[m] = <<>>
    BY <1>1, <1>2 DEF FeedInv
  <2> QED
    BY <1>2, <2>1, <2>3, <2>4 DEF FeedInv
<1>7. PumpInv'
  <2>1. CASE NextSample
    <3>k. PICK k \in Keys, st \in {"sleep", "route"} :
             LET s == [key |-> k, n |-> made + 1] IN
             /\ pump.step = "next" /\ made' = made + 1
             /\ pump' = [step |-> st, sample |-> s] /\ read' = read \union {s}
             /\ UNCHANGED <<fed, dropped, result>>
      BY <2>1 DEF NextSample
    <3>1. PICK s : /\ s = [key |-> k, n |-> made + 1] /\ pump.step = "next"
                   /\ made' = made + 1 /\ pump' = [step |-> st, sample |-> s]
                   /\ read' = read \union {s} /\ UNCHANGED <<fed, dropped, result>>
      BY <3>k
    <3>2. made \in Nat /\ s.n = made + 1 /\ pump'.step \in {"sleep", "route"} /\ pump'.sample = s
      BY <1>1, <3>1 DEF IngestTypes
    <3>3. s \notin read
      BY <1>1, <3>2 DEF PumpInv
    <3>4. \A x \in read' : x.n \in Nat /\ x.n <= made'
      BY <1>1, <3>1, <3>2 DEF PumpInv
    <3> QED
      BY <1>1, <3>1, <3>2, <3>3, <3>4 DEF PumpInv, Holding
  <2>2. CASE PumpCancelled
    BY <1>1, <2>2 DEF PumpCancelled, PumpInv, Holding
  <2>3. CASE SourceEnds
    BY <1>1, <2>3 DEF SourceEnds, PumpInv, Holding
  <2>4. CASE FeedFails
    BY <1>1, <2>4 DEF FeedFails, PumpInv, Holding
  <2>5. CASE NoMonitor
    BY <1>1, <2>5 DEF NoMonitor, PumpInv, Holding
  <2>6. CASE Fed
    BY <1>1, <2>6 DEF Fed, PumpInv, Holding
  <2>7. CASE Wake
    BY <1>1, <2>7 DEF Wake, PumpInv, Holding, IngestTypes
  <2> QED
    BY <2>1, <2>2, <2>3, <2>4, <2>5, <2>6, <2>7 DEF PumpOnly
<1> QED
  BY <1>t, <1>4, <1>5, <1>6, <1>7 DEF IngestInv

(* Nobody but the pump changes its accounts; others may make samples. *)
LEMMA PumpKept ==
    ASSUME IngestTypes, PumpInv, made' \in Nat, made <= made',
           UNCHANGED <<pump, fed, dropped, read, result>>
    PROVE  PumpInv'
<1>1. \A s \in read' : s.n \in Nat /\ s.n <= made'
  BY DEF PumpInv, IngestTypes
<1> QED
  BY <1>1 DEF PumpInv, Holding

(* The pump's command enters the queue of its monitor. *)
LEMMA FeedStep == IngestInv /\ Feed => IngestInv'
<1> SUFFICES ASSUME IngestInv, Feed PROVE IngestInv'
  OBVIOUS
<1>1. IngestTypes /\ RingInv /\ PumpInv /\ FeedInv /\ TellInv
  BY DEF IngestInv
<1>2. PICK m, e : /\ pump.sample.key \in DOMAIN router /\ m = router[pump.sample.key]
                  /\ pump.step = "route" /\ e = [type |-> "Feed", sample |-> pump.sample]
                  /\ m \notin stopped /\ queue' = [queue EXCEPT ![m] = Append(queue[m], e)]
                  /\ pump' = [pump EXCEPT !.step = "ack"]
                  /\ UNCHANGED <<made, stopped, history, latest, ingested, published,
                                 refused, fed, dropped, read, result, teller>>
  BY DEF Feed
<1>3. m \in Monitors /\ pump.sample \in Sample /\ e \in Command /\ e.type = "Feed"
      /\ e.sample = pump.sample
  BY <1>1, <1>2, RouterOK DEF IngestTypes, Holding, Command
<1>4. /\ queue' \in [Monitors -> Seq(Command)]
      /\ \A d \in Monitors \ {m} : queue'[d] = queue[d]
      /\ Len(queue[m]) \in Nat /\ Len(queue'[m]) = Len(queue[m]) + 1
      /\ queue'[m][Len(queue[m]) + 1] = e
      /\ \A i \in 1..Len(queue[m]) : queue'[m][i] = queue[m][i]
      /\ \A i \in 1..Len(queue'[m]) : i \in 1..Len(queue[m]) \/ i = Len(queue[m]) + 1
  <2>1. queue' = [queue EXCEPT ![m] = Append(queue[m], e)]
    BY <1>2
  <2> QED
    BY <1>1, <1>3, <2>1, Enqueue
<1>5. /\ pump'.step = "ack" /\ pump'.sample = pump.sample
      /\ pump' \in [step : {"next", "sleep", "route", "ack", "acked", "done"},
                    sample : Sample \union {NoSample}]
  BY <1>1, <1>2 DEF IngestTypes
<1>6. IngestTypes'
  BY <1>1, <1>2, <1>3, <1>4, <1>5 DEF IngestTypes
<1>7. RingInv'
  BY <1>1, <1>2 DEF RingInv
<1>8. PumpInv'
  BY <1>1, <1>2, <1>5 DEF PumpInv, Holding
<1>9. FeedInv'
  <2>1. \A d \in Monitors : \A i \in 1..Len(queue[d]) : queue[d][i].type # "Feed"
    BY <1>1, <1>2 DEF FeedInv
  <2>2. ASSUME NEW d \in Monitors, NEW i \in 1..Len(queue'[d]), queue'[d][i].type = "Feed"
        PROVE  d = m /\ i = Len(queue[m]) + 1 /\ queue'[d][i] = e
    BY <1>4, <2>1, <2>2
  <2>3. \A d \in Monitors : \A i \in 1..Len(queue'[d]) :
          queue'[d][i].type = "Feed" =>
             /\ pump'.step = "ack" /\ queue'[d][i].sample = pump'.sample
             /\ pump'.sample.key \in DOMAIN router /\ d = router[pump'.sample.key]
             /\ \A j \in 1..Len(queue'[d]) : queue'[d][j].type = "Feed" => i = j
    BY <1>2, <1>3, <1>5, <2>2
  <2>4. \A x : OnBus(x) => OnBus(x)'
    BY <1>2 DEF OnBus
  <2>5. \A d \in Monitors \cap stopped' : pump'.step # "done" => queue'[d] = <<>>
    BY <1>1, <1>2, <1>4 DEF FeedInv
  <2>6. \A s \in fed' : OnBus(s)'
    BY <1>1, <1>2, <2>4 DEF FeedInv
  <2> QED
    BY <1>5, <2>3, <2>5, <2>6 DEF FeedInv
<1>10. TellInv'
  <2>1. \A s : Handled(s)' <=> Handled(s)
    BY <1>2 DEF Handled
  <2>2. ASSUME NEW d \in Monitors, NEW i \in 1..Len(queue'[d]), queue'[d][i].type = "Ping"
        PROVE  /\ teller.step = "ping" /\ d = teller.to
               /\ \A j \in 1..Len(queue'[d]) : queue'[d][j].type = "Ping" => i = j
               /\ \A s \in teller.told :
                     Handled(s) \/ \E j \in 1..(i - 1) : queue'[d][j] = Told(s)
    <3>1. CASE d # m
      BY SMTT(30), <1>1, <1>4, <2>2, <3>1 DEF TellInv
    <3>2. CASE d = m
      <4>1. i \in 1..Len(queue[m]) /\ queue'[m][i] = queue[m][i]
        BY <1>3, <1>4, <2>2, <3>2
      <4>2. /\ teller.step = "ping" /\ m = teller.to
            /\ \A j \in 1..Len(queue[m]) : queue[m][j].type = "Ping" => i = j
            /\ \A s \in teller.told : Handled(s) \/ \E j \in 1..(i - 1) : queue[m][j] = Told(s)
        BY <1>1, <2>2, <3>2, <4>1 DEF TellInv
      <4>3. \A j \in 1..Len(queue'[m]) : queue'[m][j].type = "Ping" => i = j
        BY <1>3, <1>4, <4>2
      <4>4. ASSUME NEW j \in 1..(i - 1) PROVE queue'[m][j] = queue[m][j]
        <5>1. j \in 1..Len(queue[m])
          BY <1>4, <4>1
        <5> QED
          BY <1>4, <5>1
      <4> QED
        BY <3>2, <4>2, <4>3, <4>4
    <3> QED
      BY <3>1, <3>2
  <2>3. ASSUME NEW s \in teller.told
        PROVE  \/ Handled(s) \/ teller.to \in stopped
               \/ \E j \in 1..Len(queue'[teller.to]) : queue'[teller.to][j] = Told(s)
    <3> SUFFICES ASSUME ~Handled(s), teller.to \notin stopped
                 PROVE  \E j \in 1..Len(queue'[teller.to]) : queue'[teller.to][j] = Told(s)
      OBVIOUS
    <3>1. PICK j \in 1..Len(queue[teller.to]) : queue[teller.to][j] = Told(s)
      BY <1>1 DEF TellInv
    <3>2. teller.to \in Monitors
      BY <1>1 DEF TellInv
    <3>3. j \in 1..Len(queue'[teller.to]) /\ queue'[teller.to][j] = Told(s)
      BY SMTT(30), <1>4, <3>1, <3>2
    <3> QED
      BY <3>3
  <2> HIDE DEF Told, Handled
  <2> QED
    BY SMTT(30), <1>1, <1>2, <2>1, <2>2, <2>3 DEF TellInv
<1> QED
  BY <1>6, <1>7, <1>8, <1>9, <1>10 DEF IngestInv

(* Nobody but the pump feeds, and a monitor that stops loses its queue. *)
LEMMA FeedKept ==
    ASSUME FeedInv, UNCHANGED <<pump, fed, published>>,
           \A d \in Monitors : \A i \in 1..Len(queue'[d]) :
              queue'[d][i].type = "Feed" =>
                 i \in 1..Len(queue[d]) /\ queue'[d][i] = queue[d][i],
           \A d \in Monitors \cap stopped' : pump.step # "done" => queue'[d] = <<>>
    PROVE  FeedInv'
<1>1. ASSUME NEW d \in Monitors, NEW i \in 1..Len(queue'[d]), queue'[d][i].type = "Feed"
      PROVE  /\ pump.step = "ack" /\ queue'[d][i].sample = pump.sample
             /\ pump.sample.key \in DOMAIN router /\ d = router[pump.sample.key]
             /\ \A j \in 1..Len(queue'[d]) : queue'[d][j].type = "Feed" => i = j
  <2>1. i \in 1..Len(queue[d]) /\ queue'[d][i] = queue[d][i]
    BY <1>1
  <2> QED
    BY <1>1, <2>1 DEF FeedInv
<1>2. \A x : OnBus(x) => OnBus(x)'
  BY DEF OnBus
<1> QED
  BY <1>1, <1>2 DEF FeedInv

(* Before a ping and after it no ping is queued. *)
LEMMA NoPing ==
    ASSUME TellInv, teller.step # "ping", NEW d \in Monitors, NEW i \in 1..Len(queue[d])
    PROVE  queue[d][i].type # "Ping"
BY DEF TellInv

(* A told sample enters the queue of its monitor. *)
LEMMA TellStep ==
    ASSUME IngestInv, NEW m \in Monitors, NEW k \in Keys, tell(m, k)
    PROVE  IngestInv'
<1>1. IngestTypes /\ RingInv /\ PumpInv /\ FeedInv /\ TellInv
  BY DEF IngestInv
<1>2. PICK s, e : /\ s = [key |-> k, n |-> made + 1] /\ e = Told(s)
                  /\ teller.step = "idle" /\ teller.to \in {"none", m} /\ m \notin stopped
                  /\ made' = made + 1 /\ queue' = [queue EXCEPT ![m] = Append(queue[m], e)]
                  /\ teller' = [teller EXCEPT !.to = m, !.told = teller.told \union {s}]
                  /\ UNCHANGED <<stopped, history, latest, ingested, published, refused,
                                 pump, fed, dropped, read, result>>
  BY DEF tell, source, Told
<1>3. made \in Nat /\ made' \in Nat /\ made <= made' /\ s \in Sample /\ e \in Command /\ e.type = "Sample"
  BY <1>1, <1>2 DEF IngestTypes, Sample, Told, Command
<1>4. /\ queue' \in [Monitors -> Seq(Command)]
      /\ \A d \in Monitors \ {m} : queue'[d] = queue[d]
      /\ Len(queue[m]) \in Nat /\ Len(queue'[m]) = Len(queue[m]) + 1
      /\ queue'[m][Len(queue[m]) + 1] = e
      /\ \A i \in 1..Len(queue[m]) : queue'[m][i] = queue[m][i]
      /\ \A i \in 1..Len(queue'[m]) : i \in 1..Len(queue[m]) \/ i = Len(queue[m]) + 1
  <2>1. queue' = [queue EXCEPT ![m] = Append(queue[m], e)]
    BY <1>2
  <2> QED
    BY <1>1, <1>3, <2>1, Enqueue
<1>5. /\ teller'.step = "idle" /\ teller'.to = m /\ teller'.told = teller.told \union {s}
      /\ teller' \in [step : {"idle", "ping", "flushed", "dropped"},
                      to : Monitors \union {"none"}, told : SUBSET Sample]
  BY <1>1, <1>2, <1>3 DEF IngestTypes
<1>6. IngestTypes'
  BY <1>1, <1>2, <1>3, <1>4, <1>5 DEF IngestTypes, Holding
<1>7. RingInv'
  BY <1>1, <1>2 DEF RingInv
<1>8. PumpInv'
  BY <1>1, <1>2, <1>3, PumpKept
<1>9. FeedInv'
  <2>1. \A d \in Monitors : \A i \in 1..Len(queue'[d]) :
           queue'[d][i].type = "Feed" => i \in 1..Len(queue[d]) /\ queue'[d][i] = queue[d][i]
    BY <1>3, <1>4
  <2>2. \A d \in Monitors \cap stopped' : pump.step # "done" => queue'[d] = <<>>
    BY <1>1, <1>2, <1>4 DEF FeedInv
  <2> QED
    BY <1>1, <1>2, <2>1, <2>2, FeedKept
<1>10. TellInv'
  <2>1. ASSUME NEW d \in Monitors, NEW i \in 1..Len(queue'[d]) PROVE queue'[d][i].type # "Ping"
    <3>1. CASE i \in 1..Len(queue[d]) /\ queue'[d][i] = queue[d][i]
      BY <1>1, <1>2, <3>1, NoPing
    <3>2. CASE d = m /\ i = Len(queue[m]) + 1
      BY <1>3, <1>4, <3>2
    <3> QED
      BY <1>4, <3>1, <3>2
  <2>2. ASSUME NEW t \in teller'.told
        PROVE  Handled(t)' \/ \E j \in 1..Len(queue'[m]) : queue'[m][j] = Told(t)
    <3>1. CASE t = s
      <4>1. Len(queue[m]) + 1 \in 1..Len(queue'[m])
        BY <1>4
      <4> QED
        BY <1>2, <1>4, <3>1, <4>1
    <3>2. CASE t \in teller.told
      <4>1. teller.to = m
        BY <1>1, <1>2, <3>2, NamesAreFree, MonitorsHaveKeys DEF TellInv
      <4>2. Handled(t) \/ \E j \in 1..Len(queue[m]) : queue[m][j] = Told(t)
        BY <1>1, <1>2, <3>2, <4>1 DEF TellInv
      <4>3. Handled(t) => Handled(t)'
        BY <1>2, <1>5, <4>1 DEF Handled
      <4>4. \A j \in 1..Len(queue[m]) : j \in 1..Len(queue'[m]) /\ queue'[m][j] = queue[m][j]
        BY <1>4
      <4> QED
        BY <4>2, <4>3, <4>4
    <3> QED
      BY <1>5, <3>1, <3>2
  <2> HIDE DEF Told, Handled
  <2> QED
    BY <1>5, <2>1, <2>2 DEF TellInv
<1> QED
  BY <1>6, <1>7, <1>8, <1>9, <1>10 DEF IngestInv

(* The ping enters the queue behind everything told. *)
LEMMA PingStep == IngestInv /\ ping => IngestInv'
<1> SUFFICES ASSUME IngestInv, ping PROVE IngestInv'
  OBVIOUS
<1>1. IngestTypes /\ RingInv /\ PumpInv /\ FeedInv /\ TellInv
  BY DEF IngestInv
<1>2. PICK m, e : /\ m = teller.to /\ e = [type |-> "Ping", sample |-> NoSample]
                  /\ teller.step = "idle" /\ m # "none" /\ m \notin stopped
                  /\ queue' = [queue EXCEPT ![m] = Append(queue[m], e)]
                  /\ teller' = [teller EXCEPT !.step = "ping"]
                  /\ UNCHANGED <<made, stopped, history, latest, ingested, published,
                                 refused, pump, fed, dropped, read, result>>
  BY DEF ping, source
<1>3. made \in Nat /\ m \in Monitors /\ e \in Command /\ e.type = "Ping"
  BY <1>1, <1>2 DEF IngestTypes, Command
<1>4. /\ queue' \in [Monitors -> Seq(Command)]
      /\ \A d \in Monitors \ {m} : queue'[d] = queue[d]
      /\ Len(queue[m]) \in Nat /\ Len(queue'[m]) = Len(queue[m]) + 1
      /\ queue'[m][Len(queue[m]) + 1] = e
      /\ \A i \in 1..Len(queue[m]) : queue'[m][i] = queue[m][i]
      /\ \A i \in 1..Len(queue'[m]) : i \in 1..Len(queue[m]) \/ i = Len(queue[m]) + 1
  <2>1. queue' = [queue EXCEPT ![m] = Append(queue[m], e)]
    BY <1>2
  <2> QED
    BY <1>1, <1>3, <2>1, Enqueue
<1>5. /\ teller'.step = "ping" /\ teller'.to = m /\ teller'.told = teller.told
      /\ teller' \in [step : {"idle", "ping", "flushed", "dropped"},
                      to : Monitors \union {"none"}, told : SUBSET Sample]
  BY <1>1, <1>2 DEF IngestTypes
<1>6. IngestTypes'
  BY <1>1, <1>2, <1>4, <1>5 DEF IngestTypes, Holding
<1>7. RingInv'
  BY <1>1, <1>2 DEF RingInv
<1>8. PumpInv'
  BY <1>1, <1>2, <1>3, PumpKept
<1>9. FeedInv'
  <2>1. \A d \in Monitors : \A i \in 1..Len(queue'[d]) :
           queue'[d][i].type = "Feed" => i \in 1..Len(queue[d]) /\ queue'[d][i] = queue[d][i]
    BY <1>3, <1>4
  <2>2. \A d \in Monitors \cap stopped' : pump.step # "done" => queue'[d] = <<>>
    BY <1>1, <1>2, <1>4 DEF FeedInv
  <2> QED
    BY <1>1, <1>2, <2>1, <2>2, FeedKept
<1>10. TellInv'
  <2>1. ASSUME NEW d \in Monitors, NEW i \in 1..Len(queue'[d]), queue'[d][i].type = "Ping"
        PROVE  d = m /\ i = Len(queue[m]) + 1
    <3>1. CASE i \in 1..Len(queue[d]) /\ queue'[d][i] = queue[d][i]
      BY <1>1, <1>2, <2>1, <3>1, NoPing
    <3> QED
      BY <1>4, <3>1
  <2>2. ASSUME NEW t \in teller.told
        PROVE  Handled(t)' \/ \E j \in 1..Len(queue[m]) : queue'[m][j] = Told(t)
    <3>1. Handled(t) \/ \E j \in 1..Len(queue[m]) : queue[m][j] = Told(t)
      BY <1>1, <1>2 DEF TellInv
    <3>2. Handled(t) => Handled(t)'
      BY <1>2, <1>5 DEF Handled
    <3> QED
      BY <1>4, <3>1, <3>2
  <2> HIDE DEF Told, Handled
  <2>3. \A d \in Monitors : \A i \in 1..Len(queue'[d]) :
          queue'[d][i].type = "Ping" =>
             /\ teller'.step = "ping" /\ d = teller'.to
             /\ \A j \in 1..Len(queue'[d]) : queue'[d][j].type = "Ping" => i = j
             /\ \A t \in teller'.told :
                   Handled(t)' \/ \E j \in 1..(i - 1) : queue'[d][j] = Told(t)
    <3>1. (Len(queue[m]) + 1) - 1 = Len(queue[m])
      BY <1>4
    <3> QED
      BY <1>5, <2>1, <2>2, <3>1
  <2>4. \A t \in teller'.told :
          Handled(t)' \/ \E j \in 1..Len(queue'[teller'.to]) : queue'[teller'.to][j] = Told(t)
    <3>1. \A j \in 1..Len(queue[m]) : j \in 1..Len(queue'[m])
      BY <1>4
    <3> QED
      BY <1>5, <2>2, <3>1
  <2> QED
    BY <1>3, <1>5, <2>3, <2>4 DEF TellInv
<1> QED
  BY <1>6, <1>7, <1>8, <1>9, <1>10 DEF IngestInv

(* A monitor that stops drops its queue: what was told it is lost, and a   *)
(* feed or ping in it is never acknowledged.                               *)
LEMMA StopStep ==
    ASSUME IngestInv, NEW m \in Monitors, StopMonitor(m)
    PROVE  IngestInv'
<1>1. IngestTypes /\ RingInv /\ PumpInv /\ FeedInv /\ TellInv
  BY DEF IngestInv
<1>2. /\ stopped' = stopped \union {m} /\ queue' = [queue EXCEPT ![m] = <<>>]
      /\ UNCHANGED <<made, history, latest, ingested, published, refused, pump, fed,
                     dropped, read, result, teller>>
  BY DEF StopMonitor, source
<1>3. /\ queue' \in [Monitors -> Seq(Command)] /\ queue'[m] = <<>> /\ Len(queue'[m]) = 0
      /\ \A d \in Monitors \ {m} : queue'[d] = queue[d]
  BY <1>1, <1>2 DEF IngestTypes
<1>4. made \in Nat /\ made' \in Nat /\ made <= made'
  BY <1>1, <1>2 DEF IngestTypes
<1>5. IngestTypes'
  BY <1>1, <1>2, <1>3 DEF IngestTypes, Holding
<1>6. RingInv'
  BY <1>1, <1>2 DEF RingInv
<1>7. PumpInv'
  BY <1>1, <1>2, <1>4, PumpKept
<1>8. FeedInv'
  <2>1. \A d \in Monitors : \A i \in 1..Len(queue'[d]) :
           queue'[d][i].type = "Feed" => i \in 1..Len(queue[d]) /\ queue'[d][i] = queue[d][i]
    BY <1>3
  <2>2. \A d \in Monitors \cap stopped' : pump.step # "done" => queue'[d] = <<>>
    BY <1>1, <1>2, <1>3 DEF FeedInv
  <2> QED
    BY <1>1, <1>2, <2>1, <2>2, FeedKept
<1>9. TellInv'
  <2>1. \A s : Handled(s)' <=> Handled(s)
    BY <1>2 DEF Handled
  <2>2. ASSUME NEW d \in Monitors, NEW i \in 1..Len(queue'[d]) PROVE queue'[d] = queue[d]
    BY <1>3
  <2>3. ASSUME NEW s \in teller.told
        PROVE  \/ Handled(s) \/ teller.to \in stopped'
               \/ \E j \in 1..Len(queue'[teller.to]) : queue'[teller.to][j] = Told(s)
    <3>1. teller.to \in Monitors
      BY <1>1 DEF TellInv
    <3>2. CASE teller.to = m
      BY <1>2, <3>2
    <3>3. CASE teller.to # m
      BY <1>1, <1>2, <1>3, <3>1, <3>3 DEF TellInv
    <3> QED
      BY <3>2, <3>3
  <2> HIDE DEF Told, Handled
  <2> QED
    BY <1>1, <1>2, <2>1, <2>2, <2>3 DEF TellInv
<1> QED
  BY <1>5, <1>6, <1>7, <1>8, <1>9 DEF IngestInv

(* Every step keeps the accounts. *)
LEMMA IngestStep ==
    ASSUME IngestInv, Capacity > 0, Routed, [IngestNext]_ingestvars
    PROVE  IngestInv'
<1>1. IngestTypes /\ RingInv /\ PumpInv /\ FeedInv /\ TellInv
  BY DEF IngestInv
<1>2. CASE Cancel \/ UNCHANGED ingestvars
  <2>1. UNCHANGED <<made, stopped, queue, history, latest, ingested, published, refused,
                    pump, fed, dropped, read, result, teller>>
    BY <1>2 DEF Cancel, ingestvars, monitor, source
  <2> QED
    BY <2>1 DEF IngestInv, IngestTypes, RingInv, PumpInv, FeedInv, TellInv, Holding, OnBus, Handled
<1>3. CASE drop_handle
  <2>1. /\ teller.step \in {"idle", "flushed"} /\ teller' = [teller EXCEPT !.step = "dropped"]
        /\ UNCHANGED <<made, stopped, queue, history, latest, ingested, published, refused,
                       pump, fed, dropped, read, result>>
    BY <1>3 DEF drop_handle, monitor, source
  <2>2. /\ teller'.to = teller.to /\ teller'.told = teller.told /\ teller'.step = "dropped"
        /\ teller' \in [step : {"idle", "ping", "flushed", "dropped"},
                        to : Monitors \union {"none"}, told : SUBSET Sample]
    BY <1>1, <2>1 DEF IngestTypes
  <2>3. IngestTypes' /\ RingInv' /\ PumpInv' /\ FeedInv'
    <3>1. IngestTypes' /\ RingInv'
      BY <1>1, <2>1, <2>2 DEF IngestTypes, RingInv, Holding
    <3>2. PumpInv'
      BY <1>1, <2>1 DEF PumpInv, Holding
    <3>3. FeedInv'
      BY <1>1, <2>1 DEF FeedInv, OnBus
    <3> QED
      BY <3>1, <3>2, <3>3
  <2>4. TellInv'
    <3>1. \A s : Handled(s)' <=> Handled(s)
      BY <2>1, <2>2 DEF Handled
    <3>2. \A d \in Monitors : \A i \in 1..Len(queue[d]) : queue[d][i].type # "Ping"
      BY <1>1, <2>1, NoPing
    <3> HIDE DEF Told, Handled
    <3> QED
      BY <1>1, <2>1, <2>2, <3>1, <3>2 DEF TellInv
  <2> QED
    BY <2>3, <2>4 DEF IngestInv
<1>4. CASE Pump
  BY <1>4, FeedStep, PumpStep DEF Pump, PumpOnly
<1>5. CASE \E m \in Monitors : Monitor(m)
  BY <1>5, HandleStep, StopStep DEF Monitor
<1>6. CASE \E m \in Monitors, k \in Keys : tell(m, k)
  BY <1>6, TellStep
<1>7. CASE ping
  BY <1>7, PingStep
<1> QED
  BY <1>2, <1>3, <1>4, <1>5, <1>6, <1>7 DEF IngestNext

(* A monitor's ring is the newest of what it took, everything the pump     *)
(* counts as fed is on the bus, a ping that returned stands behind all     *)
(* that was told before it, and the pump's counters account for what its   *)
(* source yielded (ingest/monitor.rs, ingest/source.rs): for any number of *)
(* keys, monitors and samples, any order of the cancellations and any      *)
(* queue, if the ring keeps something and the router files each monitor    *)
(* under the key it serves.                                                *)
THEOREM SamplesAlwaysAccounted ==
    ASSUME Capacity > 0, Routed
    PROVE  IngestSpec => []SamplesAccounted
<1>1. IngestInit => IngestInv
  <2> SUFFICES ASSUME IngestInit PROVE IngestInv
    OBVIOUS
  <2>1. /\ \A m \in Monitors : /\ Len(queue[m]) = 0 /\ queue[m] = <<>> /\ ingested[m] = <<>>
                               /\ Len(history[m]) = 0 /\ Len(ingested[m]) = 0
        /\ pump.step = "next" /\ pump.sample = NoSample /\ teller.step = "idle"
        /\ teller.told = {} /\ fed = {} /\ dropped = {} /\ read = {} /\ result = "none"
    BY DEF IngestInit
  <2>2. IngestTypes
    BY DEF IngestInit, IngestTypes, Holding
  <2>3. RingInv
    <3> SUFFICES ASSUME NEW m \in Monitors
                 PROVE  /\ Ring(history[m], ingested[m])
                        /\ ingested[m] # <<>> => latest[m] = Last(ingested[m])
      BY DEF RingInv
    <3>1. Len(history[m]) = 0 /\ Len(ingested[m]) = 0 /\ ingested[m] = <<>>
      BY <2>1
    <3> QED
      BY <3>1, IngestBounds DEF Ring
  <2>4. PumpInv /\ FeedInv /\ TellInv
    BY <2>1 DEF PumpInv, FeedInv, TellInv, Holding
  <2> QED
    BY <2>2, <2>3, <2>4 DEF IngestInv
<1>2. IngestInv /\ [IngestNext]_ingestvars => IngestInv'
  BY IngestStep
<1>3. IngestInv => SamplesAccounted
  <2> SUFFICES ASSUME IngestInv PROVE SamplesAccounted
    OBVIOUS
  <2>1. ASSUME NEW m \in Monitors
        PROVE  /\ IsSuffix(history[m], ingested[m])
               /\ Len(history[m]) = IF Len(ingested[m]) < Capacity
                                    THEN Len(ingested[m]) ELSE Capacity
               /\ ingested[m] # <<>> => latest[m] = Last(ingested[m])
    <3>1. /\ history[m] \in Seq(Sample) /\ ingested[m] \in Seq(Sample)
          /\ Ring(history[m], ingested[m])
          /\ ingested[m] # <<>> => latest[m] = Last(ingested[m])
      BY DEF IngestInv, IngestTypes, RingInv
    <3>2. IsSuffix(history[m], ingested[m])
      BY <3>1, IngestBounds, RingIsSuffix
    <3>3. Len(history[m]) = IF Len(ingested[m]) < Capacity
                            THEN Len(ingested[m]) ELSE Capacity
      BY <3>1, IngestBounds DEF Ring
    <3> QED
      BY <3>1, <3>2, <3>3
  <2>2. HistoryIsNewest
    BY <2>1 DEF HistoryIsNewest
  <2>3. AcknowledgedWereHandled
    BY DEF IngestInv, PumpInv, FeedInv, TellInv, OnBus, Handled, AcknowledgedWereHandled
  <2> QED
    BY <2>2, <2>3 DEF SamplesAccounted
<1> QED
  BY <1>1, <1>2, <1>3, PTL DEF IngestSpec

=============================================================================
