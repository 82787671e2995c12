----------------------------- MODULE Supervision ----------------------------
(***************************************************************************)
(* A supervised task (src/core/supervision.rs) under the runtime's         *)
(* three-step shutdown (src/core/runtime.rs): a panic restarts the task    *)
(* while fewer than Limit restarts lie in the sliding window; the token    *)
(* handed to the supervisor is a child of the runtime's.                   *)
(***************************************************************************)
EXTENDS Integers, Sequences

CONSTANTS Limit,      \* restart_limit, 0 included
          Window,     \* window, in ticks of the clock
          MaxTime,    \* bound: ticks of the clock
          Watches     \* the task watches its token

ASSUME LimitIsNat == Limit \in Nat
ASSUME TimesAreNat == Window \in Nat /\ MaxTime \in Nat
ASSUME WatchesIsBool == Watches \in BOOLEAN

VARIABLES
    now,              \* Instant::now()
    root, token,      \* cancelled: the runtime's token, the supervisor's
    shutdown,         \* the runtime's: "no", "cancelled", "closed", "done"
    step,             \* the supervisor: "check", "spawn", "await", "end"
    task,             \* the instance: "none", "running", or how it ended:
                      \* "ok", "panic", "aborted"
    log, first,       \* every restart instant; the deque holds log[first..]
    late              \* history: instances spawned with the token cancelled

supervisor == <<step, task, log, first, late>>
vars == <<now, root, token, shutdown, supervisor>>

Init ==
    /\ now = 0 /\ root = FALSE /\ token = FALSE /\ shutdown = "no"
    /\ step = "check" /\ task = "none" /\ log = <<>> /\ first = 1
    /\ late = 0

Tick ==
    /\ now < MaxTime /\ now' = now + 1
    /\ UNCHANGED <<root, token, shutdown, supervisor>>

-----------------------------------------------------------------------------
(* CoalitionRuntime::shutdown: cancel, close, wait. *)

(* mutant: the cancel does not reach the supervisor's token. *)
ShutdownCancel_rootOnly ==
    /\ shutdown = "no" /\ shutdown' = "cancelled"
    /\ root' = TRUE
    /\ UNCHANGED <<now, token, supervisor>>

ShutdownCancel ==
    /\ shutdown = "no" /\ shutdown' = "cancelled"
    /\ root' = TRUE /\ token' = TRUE
    /\ UNCHANGED <<now, supervisor>>

ShutdownClose ==
    /\ shutdown = "cancelled" /\ shutdown' = "closed"
    /\ UNCHANGED <<now, root, token, supervisor>>

(* TaskTracker::wait: closed, and no tracked task is left. *)
ShutdownWait ==
    /\ shutdown = "closed" /\ step = "end" /\ shutdown' = "done"
    /\ UNCHANGED <<now, root, token, supervisor>>

-----------------------------------------------------------------------------
(* supervise *)

CheckToken ==
    /\ step = "check"
    /\ step' = IF token THEN "end" ELSE "spawn"
    /\ UNCHANGED <<now, root, token, shutdown, task, log, first, late>>

(* A child token and a fresh instance; the cancel may come in between. *)
Spawn ==
    /\ step = "spawn" /\ step' = "await" /\ task' = "running"
    /\ late' = IF token THEN late + 1 ELSE late
    /\ UNCHANGED <<now, root, token, shutdown, log, first>>

(***************************************************************************)
(* factory(child) runs on the supervisor's own task: a panic there ends    *)
(* the supervisor, which is neither restarted nor cancels its token.       *)
(***************************************************************************)
FactoryPanics ==
    /\ step = "spawn" /\ step' = "end"
    /\ UNCHANGED <<now, root, token, shutdown, task, log, first, late>>

(* The instance completes, panics or is aborted with the tokio runtime. *)
TaskEnds ==
    /\ task = "running"
    /\ task' \in {"ok", "panic", "aborted"}
    /\ UNCHANGED <<now, root, token, shutdown, step, log, first, late>>

(* An instance that watches its token returns when it is cancelled. *)
TaskObservesCancel ==
    /\ Watches /\ task = "running" /\ token
    /\ task' = "ok"
    /\ UNCHANGED <<now, root, token, shutdown, step, log, first, late>>

AwaitDone ==
    /\ step = "await" /\ task \in {"ok", "aborted"}
    /\ step' = "end"
    /\ UNCHANGED <<now, root, token, shutdown, task, log, first, late>>

(* mutant: an instant as old as the window is dropped. *)
Pruned_strict(k) ==
    /\ \A j \in first..(k - 1) : now - log[j] >= Window
    /\ k <= Len(log) => now - log[k] < Window

(* pop_front while the front is older than the window: k is the new front. *)
Pruned(k) ==
    /\ \A j \in first..(k - 1) : now - log[j] > Window
    /\ k <= Len(log) => now - log[k] <= Window

GiveUp(k) ==
    /\ Len(log) - k + 1 >= Limit
    /\ token' = TRUE
    /\ step' = "end"
    /\ UNCHANGED <<log, late>>

Restart(k) ==
    /\ Len(log) - k + 1 < Limit
    /\ log' = Append(log, now)
    /\ step' = "check" /\ UNCHANGED <<token, late>>

(* mutant: a panic restarts the task without a look at the token. *)
AwaitPanic_blind ==
    /\ step = "await" /\ task = "panic"
    /\ \E k \in first..(Len(log) + 1) :
          /\ Pruned(k) /\ Len(log) - k + 1 < Limit
          /\ first' = k /\ log' = Append(log, now) /\ step' = "spawn"
    /\ UNCHANGED <<now, root, token, shutdown, task, late>>

AwaitPanic ==
    /\ step = "await" /\ task = "panic"
    /\ \/ /\ token
          /\ step' = "end" /\ UNCHANGED <<token, log, first, late>>
       \/ /\ ~token
          /\ \E k \in first..(Len(log) + 1) :
                /\ Pruned(k) /\ first' = k
                /\ GiveUp(k) \/ Restart(k)
    /\ UNCHANGED <<now, root, shutdown, task>>

-----------------------------------------------------------------------------
Supervise == CheckToken \/ Spawn \/ FactoryPanics \/ AwaitDone \/ AwaitPanic

Next ==
    \/ Tick \/ ShutdownCancel \/ ShutdownClose \/ ShutdownWait
    \/ Supervise \/ TaskEnds \/ TaskObservesCancel

Spec == Init /\ [][Next]_vars

(* The scheduler polls the supervisor, the instance and shutdown's caller. *)
FairSpec ==
    /\ Spec
    /\ WF_vars(Supervise) /\ WF_vars(TaskObservesCancel)
    /\ WF_vars(ShutdownClose) /\ WF_vars(ShutdownWait)

-----------------------------------------------------------------------------
(* The variables keep their ranges, and the deque holds at most Limit. *)
TypeOK ==
    /\ now \in Nat
    /\ root \in BOOLEAN /\ token \in BOOLEAN
    /\ shutdown \in {"no", "cancelled", "closed", "done"}
    /\ step \in {"check", "spawn", "await", "end"}
    /\ task \in {"none", "running", "ok", "panic", "aborted"}
    /\ log \in Seq(Nat) /\ first \in 1..(Len(log) + 1)
    /\ Len(log) - first + 1 <= Limit
    /\ late \in Nat

(***************************************************************************)
(* "up to restart_limit restarts within a sliding window": of any          *)
(* Limit + 1 restarts the last comes more than Window after the first.     *)
(***************************************************************************)
BudgetHolds ==
    \A i \in 1..Len(log) : i + Limit <= Len(log) =>
        log[i + Limit] - log[i] > Window

(***************************************************************************)
(* A cancelled task is not restarted: the one instance that can still      *)
(* start is the one spawned after the loop's check, and shutdown does not  *)
(* return before it has ended either ("drain still transitively waits for  *)
(* the instance").                                                         *)
(***************************************************************************)
CancelIsFinal ==
    /\ late <= 1
    /\ shutdown = "done" => step = "end" /\ task # "running"

(* shutdown returns, if the task watches its token. *)
ShutdownReturns == shutdown = "cancelled" ~> shutdown = "done"
=============================================================================
