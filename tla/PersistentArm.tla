--------------------------- MODULE PersistentArm ---------------------------
(***************************************************************************)
(* The persistent active-inference arm (decision/aif_persistent_policy.rs):*)
(* one world model behind a mutex, the window of outcomes it replays into  *)
(* each query, and the eviction cap and rejoin lockout around the engine's *)
(* answer.                                                                 *)
(*                                                                         *)
(* The inference engine is external: a query fails or gives p(control 1)   *)
(* below, at or above one half, freely.  A decision takes the mutex up to  *)
(* three times and lets go of it in between, so decisions of several       *)
(* callers, and the end of a task, fall between its steps.                 *)
(***************************************************************************)
EXTENDS Integers, Sequences, FiniteSets, SequencesExt

CONSTANTS
    REPLAY_CAP,     \* outcomes kept for replay
    ArmAgents,      \* agents decided about
    ArmCallers,     \* threads that share the arm
    ArmConfigs,     \* [eviction_cap : {None} \cup Nat, rejoin_lockout_tasks : Nat]
    None,           \* no eviction cap
    MaxArmTasks,    \* bound: tasks observed
    MaxArmCalls     \* bound: decisions asked for

ASSUME ArmBounds == REPLAY_CAP \in Nat \ {0} /\ MaxArmTasks \in Nat /\ MaxArmCalls \in Nat
ASSUME ArmConfigsOK ==
    ArmConfigs \subseteq [eviction_cap : {None} \union Nat, rejoin_lockout_tasks : Nat]
ASSUME CallersOK == IsFiniteSet(ArmCallers) /\ None \notin Nat \union ArmCallers

-----------------------------------------------------------------------------
(* A world model and its window.  An observation says of each bit of the    *)
(* universe whether it was required and, if so, whether it was met.         *)
NewModel == [replay |-> << >>, tasks_observed |-> 0]

Observation(required, per_bit) ==
    [b \in DOMAIN per_bit |-> IF b \notin required THEN "no_obs"
                              ELSE IF per_bit[b] THEN "success" ELSE "failure"]

(* observe_outcome_checked: a width mismatch leaves no trace; an update the *)
(* engine rejects is not counted by the caller but is pushed all the same.  *)
ObservesWidth(width, per_bit) == Cardinality(DOMAIN per_bit) = width

ObserveOutcome(model, required, per_bit) ==
    LET kept == IF Len(model.replay) = REPLAY_CAP THEN Tail(model.replay) ELSE model.replay
    IN  [replay |-> Append(kept, Observation(required, per_bit)),
         tasks_observed |-> model.tasks_observed + 1]

-----------------------------------------------------------------------------
VARIABLES
    arm,        \* [tasks_observed, evictions_this_task, evicted_at, asked, config]
    asks,       \* per caller its decision in progress
    verdicts    \* the decisions that acted: history

armvars == <<arm, asks, verdicts>>

NoAsk == [step |-> "idle", leave |-> FALSE, agent |-> None, overlapped |-> FALSE]

ArmInit ==
    /\ arm \in {[tasks_observed |-> 0, evictions_this_task |-> 0,
                 evicted_at |-> [a \in ArmAgents |-> None],
                 asked |-> 0, config |-> c] : c \in ArmConfigs}
    /\ asks = [c \in ArmCallers |-> NoAsk]
    /\ verdicts = << >>

Overlap(c) == [d \in ArmCallers |-> [asks[d] EXCEPT !.overlapped = @ \/ (d # c /\ asks[d].step # "idle")]]

(* mutant: the lockout ends a task early. *)
LockedOut_short(a) ==
    /\ arm.config.rejoin_lockout_tasks > 0
    /\ arm.evicted_at[a] # None
    /\ arm.tasks_observed > arm.evicted_at[a]
    /\ arm.tasks_observed < arm.evicted_at[a] + arm.config.rejoin_lockout_tasks

LockedOut(a) ==
    /\ arm.config.rejoin_lockout_tasks > 0
    /\ arm.evicted_at[a] # None
    /\ arm.tasks_observed > arm.evicted_at[a]
    /\ arm.tasks_observed <= arm.evicted_at[a] + arm.config.rejoin_lockout_tasks

CapExhausted ==
    /\ arm.config.eviction_cap # None
    /\ arm.evictions_this_task >= arm.config.eviction_cap

(* The checks before a query, each under its own hold of the mutex: a       *)
(* locked-out join and a leave past the cap decline without a query.        *)
Ask(c, a, leave) ==
    /\ asks[c].step = "idle"
    /\ arm.asked < MaxArmCalls
    /\ LET declines == IF leave THEN CapExhausted ELSE LockedOut(a)
       IN  asks' = [asks EXCEPT ![c] =
                IF declines THEN NoAsk
                ELSE [step |-> "query", leave |-> leave, agent |-> a, overlapped |-> FALSE]]
    /\ arm' = [arm EXCEPT !.asked = @ + 1]
    /\ UNCHANGED verdicts

(* decide: a requirement without a bit of the universe is declined before   *)
(* the mutex; the engine fails or answers; a tie leaves and does not join.  *)
(* The decision counter only seeds the engine and is left out.              *)
Acts(leave, p1) == IF leave THEN p1 \in {"half", "above"} ELSE p1 = "above"

Query(c, required, p1) ==
    /\ asks[c].step = "query"
    /\ LET act == required /\ p1 # "error" /\ Acts(asks[c].leave, p1)
       IN  /\ asks' = [asks EXCEPT ![c] = IF act /\ asks[c].leave THEN [@ EXCEPT !.step = "count"]
                                          ELSE NoAsk]
           /\ verdicts' = IF act /\ ~asks[c].leave
                          THEN Append(verdicts, [leave |-> FALSE, agent |-> asks[c].agent,
                                                 task |-> arm.tasks_observed,
                                                 overlapped |-> asks[c].overlapped])
                          ELSE verdicts
    /\ UNCHANGED arm

(* A leave that acted is counted under a third hold of the mutex.           *)
CountEviction(c) ==
    /\ asks[c].step = "count"
    /\ LET a == asks[c].agent IN
       /\ arm' = [arm EXCEPT !.evictions_this_task = @ + 1,
                             !.evicted_at[a] = arm.tasks_observed]
       /\ verdicts' = Append(verdicts, [leave |-> TRUE, agent |-> a, task |-> arm.tasks_observed,
                                        overlapped |-> asks[c].overlapped])
    /\ asks' = [Overlap(c) EXCEPT ![c] = NoAsk]

(* observe_outcome on the arm itself: the task boundary.                    *)
EndTask ==
    /\ arm.tasks_observed < MaxArmTasks
    /\ arm' = [arm EXCEPT !.tasks_observed = @ + 1, !.evictions_this_task = 0]
    /\ asks' = Overlap(None)
    /\ UNCHANGED verdicts

ArmNext ==
    \/ \E c \in ArmCallers :
          \/ \E a \in ArmAgents, leave \in BOOLEAN : Ask(c, a, leave)
          \/ \E required \in BOOLEAN, p1 \in {"error", "below", "half", "above"} :
                Query(c, required, p1)
          \/ CountEviction(c)
    \/ EndTask

ArmSpec == ArmInit /\ [][ArmNext]_armvars

-----------------------------------------------------------------------------
EvictionsIn(t) == {i \in DOMAIN verdicts : verdicts[i].leave /\ verdicts[i].task = t}

LastEviction(i) ==
    {j \in 1 .. i - 1 : /\ verdicts[j].leave /\ verdicts[j].agent = verdicts[i].agent
                        /\ \A k \in j + 1 .. i - 1 :
                              ~(verdicts[k].leave /\ verdicts[k].agent = verdicts[i].agent)}

(***************************************************************************)
(* The eviction cap and the rejoin lockout over the answers the arm gave,  *)
(* whatever its callers' steps fall between.  The cap is checked before    *)
(* the query and counted after it, so the callers in flight when it is     *)
(* reached may pass it, each once, and never a cap of zero; one caller     *)
(* alone never passes it.  An agent evicted in task t is not admitted in   *)
(* the next rejoin_lockout_tasks tasks by a join that nothing overlapped.  *)
(***************************************************************************)
EvictionsAreBounded ==
    LET cap  == arm.config.eviction_cap
        Slack == IF cap = 0 THEN 0 ELSE Cardinality(ArmCallers) - 1
    IN  /\ cap # None => \A t \in 0 .. arm.tasks_observed :
              Cardinality(EvictionsIn(t)) <= cap + Slack
        /\ \A i \in DOMAIN verdicts :
              ~verdicts[i].leave /\ ~verdicts[i].overlapped =>
                  \A j \in LastEviction(i) :
                      \/ verdicts[i].task <= verdicts[j].task
                      \/ verdicts[i].task > verdicts[j].task + arm.config.rejoin_lockout_tasks
=============================================================================
