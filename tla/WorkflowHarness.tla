-------------------------- MODULE WorkflowHarness --------------------------
(***************************************************************************)
(* The experiment harness (src/src/harness/): the generation of a workflow *)
(* instance, the run of one policy over its tasks (joins in arrival order, *)
(* one leave sweep, scoring, the outcome shown to the policy), the trace   *)
(* of its decisions, and the reconstruction of every task's end from that  *)
(* trace.  The flat battery is the same run over tasks without roles.      *)
(*                                                                         *)
(* The pseudo-random stream is a free choice at every draw.  The policy is *)
(* one of the reference policies, a stateless active-inference policy, the *)
(* group policy, or "any": a policy that answers freely, which stands for  *)
(* all the others.  A second thread may ask the group policy for a         *)
(* decision of its own in between.                                         *)
(***************************************************************************)
EXTENDS GroupPolicy, ReferencePolicies, AifPolicies

CONSTANTS
    BenchConfigs,       \* what is run: the kind of battery, the policy, its role map and
                        \* configuration, the signal, and what an instance may draw:
                        \* pool, masks, arrivals, and who performs (rows)
    RedrawCap,          \* draws a task may have until it is role-feasible
    FlatSignalWidth,    \* width of the flat battery's outcome signal
    NTasks,             \* bound: tasks per instance
    MaxOther            \* bound: decisions of the second thread

ASSUME BenchBounds == /\ RedrawCap \in Nat \ {0} /\ FlatSignalWidth \in Nat \ {0}
                      /\ NTasks \in Nat /\ MaxOther \in Nat

(* new clamps the number of roles to at least one.                          *)
ASSUME GroupConfigsOK ==
    \A c \in BenchConfigs : c.policy = "group" =>
        c.group.n_roles \in Nat \ {0} /\ c.group.n_bits \in Nat

(* The three kinds of outcome signal.                                       *)
Signals == {"role_coverage", "performance", "both"}
ASSUME SignalsOK == \A c \in BenchConfigs : c.signal \in Signals

(* What a decision in progress keeps while it does not hold the mutex.      *)
Asks == [roster : SUBSET Nat, queries : SUBSET Nat, identical : SUBSET Nat,
         routed : BOOLEAN]
ASSUME NoneIsNoAsk == None \notin Asks

VARIABLES
    instance,   \* [config, tasks, rows]: what was generated
    bench,      \* the run: phase, draws of this task, task, arrival position, members, churn
    trace,      \* the traced policy's entries
    results,    \* one end state per task
    other       \* the second thread: [ask, leaves, asked]

benchvars == <<instance, bench, trace, results, other, ref, group>>

Idling == [ask |-> None, leaves |-> 0, asked |-> 0]
NoBench == [phase |-> "idle", attempts |-> 0, task |-> 0, pos |-> 0, members |-> << >>,
            churn |-> 0, missed |-> FALSE]

BenchInit ==
    /\ instance = [config |-> None, tasks |-> << >>, rows |-> << >>]
    /\ bench = NoBench
    /\ trace = << >> /\ results = << >>
    /\ other = Idling
    /\ ref = None
    /\ group = None

-----------------------------------------------------------------------------
(* The instance.                                                            *)

conf == instance.config
Workflow == conf.kind = "workflow"
PoolAgents == DOMAIN conf.pool
Caps == [a \in PoolAgents |-> conf.pool[a].caps]
TrueRoles == [a \in PoolAgents |-> conf.pool[a].role]
KnownRoles == [a \in conf.known |-> conf.pool[a].role]

NeedsPerformance(signal) == signal \in {"performance", "both"}

(* run_workflow_battery and the group policy's constructor refuse before    *)
(* any draw.                                                                *)
Start(config) ==
    /\ bench.phase = "idle"
    /\ LET refused == \/ NeedsPerformance(config.signal) /\ ~config.perf
                      \/ config.policy = "group" /\ ~Accepted(config.group)
       IN  /\ instance' = [instance EXCEPT !.config = config]
           /\ bench' = [bench EXCEPT !.phase = IF refused THEN "refused" ELSE "draw"]
           /\ ref' = NewRef(DOMAIN config.pool)
           /\ group' = IF config.policy = "group" /\ ~refused THEN NewGroup(config.group) ELSE group
    /\ UNCHANGED <<trace, results, other>>

Feasible(tags) == \A b \in DOMAIN tags : IsStaffable(conf.pool, Step(b, tags[b]))

(* One draw of a task's mask and tags.  An infeasible one is drawn again    *)
(* until the task has had RedrawCap draws.  A flat task draws no tags.      *)
DrawTask ==
    /\ bench.phase = "draw" /\ Len(instance.tasks) < NTasks
    /\ \E mask \in conf.masks, arrival \in conf.arrivals :
       \E tags \in [mask -> IF Workflow THEN RoleIds ELSE {0}] :
       LET drawn == [tags |-> tags, arrival |-> arrival, written |-> << >>]
           n     == Len(instance.tasks) + 1
           keep  == Feasible(tags) \/ ~Workflow
       IN  /\ instance' = IF keep THEN [instance EXCEPT !.tasks = Append(@, drawn)] ELSE instance
           /\ bench' = IF keep
                       THEN [bench EXCEPT !.attempts = 0,
                               !.phase = IF n < NTasks THEN "draw"
                                         ELSE IF Workflow THEN "shape" ELSE "begin"]
                       ELSE IF bench.attempts + 1 >= RedrawCap
                            THEN [bench EXCEPT !.phase = "infeasible"]
                            ELSE [bench EXCEPT !.attempts = @ + 1]
    /\ UNCHANGED <<trace, results, other, ref, group>>

Unwritten == {t \in DOMAIN instance.tasks : instance.tasks[t].written = << >>}

DrawShapes ==
    /\ bench.phase = "shape" /\ Unwritten # {}
    /\ LET t == Min(Unwritten) IN
       \E w \in DrawShape(TaggedSteps(instance.tasks[t].tags)) :
          instance' = [instance EXCEPT !.tasks[t].written = w]
    /\ UNCHANGED <<bench, trace, results, other, ref, group>>

DrawPerformance ==
    /\ bench.phase = "shape" /\ Unwritten = {}
    /\ \E rows \in IF conf.perf THEN [1 .. NTasks -> conf.rows] ELSE {<< >>} :
          instance' = [instance EXCEPT !.rows = rows]
    /\ bench' = [bench EXCEPT !.phase = "begin"]
    /\ UNCHANGED <<trace, results, other, ref, group>>

-----------------------------------------------------------------------------
(* The run.                                                                 *)

Task(t) == instance.tasks[t]
Steps(t) == IF Workflow THEN Distinct(Task(t).written) ELSE {}
Required(t) == IF Workflow THEN RequiredMask(Steps(t)) ELSE DOMAIN Task(t).tags
Arrival == Task(bench.task).arrival
Present == ToSet(bench.members)

BeginTasks ==
    /\ bench.phase = "begin" /\ bench.task < NTasks
    /\ LET t == bench.task + 1 IN
       /\ bench' = [bench EXCEPT !.task = t, !.phase = "join", !.pos = 2,
                                 !.members = <<Task(t).arrival[1]>>]
       /\ ref' = IF conf.policy \in {"prune", "prune_id"} THEN RefBegin(ref, Steps(t)) ELSE ref
       /\ group' = IF conf.policy = "group" THEN BeginTask(group, Steps(t)) ELSE group
    /\ UNCHANGED <<instance, trace, results, other>>

(* What the policy under test answers, and what answering does to it.       *)
RefDecides(leave, a, coalition, act) ==
    /\ conf.policy \in {"first", "keep", "prune", "prune_id"}
    /\ act = RefActs(conf.policy, ref, Caps, KnownRoles, a, coalition, leave)
    /\ ref' = IF conf.policy = "prune_id" THEN RefShow(ref, a, coalition) ELSE ref
    /\ UNCHANGED group

AifDecides(leave, a, coalition, act) ==
    /\ conf.policy \in {"aif", "aif_mm"}
    /\ act = AifActs(conf.policy, conf.aif, Caps, Required(bench.task), a, coalition, leave)
    /\ UNCHANGED <<ref, group>>

AnyDecides(act) == conf.policy = "any" /\ UNCHANGED <<ref, group>>

GroupDecides(leave, a, coalition, act) ==
    /\ conf.policy = "group"
    /\ LET begun == DecideStarts(group, KnownRoles, coalition \cup {a})
       IN  IF ~DecideAsks(group, KnownRoles, coalition \cup {a}) THEN ~act /\ group' = begun
           ELSE LET ask == AskOf(group, KnownRoles, Caps, a, coalition, leave)
                IN  \E ok \in BOOLEAN, last \in ask.roster :
                       /\ ok => last = Max(ask.roster)
                       /\ act => ok
                       /\ group' = DecideEnds(begun, ask, ok, last)
    /\ UNCHANGED ref

Decides(leave, a, coalition, act) ==
    /\ \/ RefDecides(leave, a, coalition, act)
       \/ AifDecides(leave, a, coalition, act)
       \/ AnyDecides(act)
       \/ GroupDecides(leave, a, coalition, act)
    /\ trace' = Append(trace, [leave |-> leave, act |-> act])

JoinNext ==
    /\ bench.phase = "join" /\ bench.pos <= Len(Arrival)
    /\ LET a == Arrival[bench.pos] IN
       \E act \in BOOLEAN :
          /\ Decides(FALSE, a, Present, act)
          /\ bench' = [bench EXCEPT !.pos = @ + 1,
                                    !.members = IF act THEN Append(@, a) ELSE @]
    /\ UNCHANGED <<instance, results, other>>

JoinsEnd ==
    /\ bench.phase = "join" /\ bench.pos > Len(Arrival)
    /\ bench' = [bench EXCEPT !.phase = "leave", !.pos = 1]
    /\ UNCHANGED <<instance, trace, results, other, ref, group>>

(* mutant: every member is asked about the coalition before the sweep. *)
LeaveNext_stale ==
    /\ bench.phase = "leave" /\ bench.pos <= Len(Arrival)
    /\ LET a == Arrival[bench.pos] IN
       IF a \in Present
       THEN \E act \in BOOLEAN :
               /\ Decides(TRUE, a, ToSet(Arrival), act)
               /\ bench' = [bench EXCEPT !.pos = @ + 1, !.churn = @ + IF act THEN 1 ELSE 0,
                               !.members = IF act THEN SelectSeq(@, LAMBDA m : m # a) ELSE @]
       ELSE /\ bench' = [bench EXCEPT !.pos = @ + 1]
            /\ UNCHANGED <<trace, ref, group>>
    /\ UNCHANGED <<instance, results, other>>

(* The sweep goes over the arrivals that are members; the coalition shown   *)
(* is the membership as the removals so far have left it.                   *)
LeaveNext ==
    /\ bench.phase = "leave" /\ bench.pos <= Len(Arrival)
    /\ LET a == Arrival[bench.pos] IN
       IF a \in Present
       THEN \E act \in BOOLEAN :
               /\ Decides(TRUE, a, Present, act)
               /\ bench' = [bench EXCEPT !.pos = @ + 1, !.churn = @ + IF act THEN 1 ELSE 0,
                               !.members = IF act THEN SelectSeq(@, LAMBDA m : m # a) ELSE @]
       ELSE /\ bench' = [bench EXCEPT !.pos = @ + 1]
            /\ UNCHANGED <<trace, ref, group>>
    /\ UNCHANGED <<instance, results, other>>

-----------------------------------------------------------------------------
(* Scoring and the outcome signal.                                          *)

StepCovered(members, s) == Covered(Caps, TrueRoles, members, s)
StepCoveredPerformed(members, s, row) == StepCovered(members \cap row, s)

PerformanceRow(t) == IF conf.perf THEN instance.rows[t] ELSE {}
Performed(t, members) == IF conf.perf THEN members \cap instance.rows[t] ELSE members

TaskEnd(t, members) ==
    [members    |-> members,
     steps      |-> Steps(t),
     covered    |-> {s \in Steps(t) : StepCovered(members, s)},
     performed  |-> {s \in Steps(t) : StepCoveredPerformed(members, s, PerformanceRow(t))},
     union      |-> UNION {Caps[m] : m \in members},
     roster     |-> {s.role : s \in Steps(t)},
     off_demand |-> {m \in members : TrueRoles[m] \notin {s.role : s \in Steps(t)}}]

Success(t, end) == IF Workflow THEN end.steps # {} /\ end.covered = end.steps
                   ELSE Required(t) \subseteq end.union

Signal(t, end) ==
    IF ~Workflow THEN [b \in 0 .. FlatSignalWidth - 1 |-> b \in end.union]
    ELSE [b \in Bit |->
            CASE conf.signal = "role_coverage" -> \E s \in end.covered : s.bit = b
              [] conf.signal = "both"          -> \E s \in end.performed : s.bit = b
              [] conf.signal = "performance"   ->
                    \E m \in end.members \cap PerformanceRow(t) : b \in Caps[m]]

ScoreTask ==
    /\ bench.phase = "leave" /\ bench.pos > Len(Arrival)
    /\ LET t   == bench.task
           end == TaskEnd(t, Present)
       IN  /\ results' = Append(results, end)
           /\ ref' = IF conf.policy = "prune_id"
                     THEN RefObserve(ref, Caps, KnownRoles, Present, Performed(t, Present))
                     ELSE ref
           /\ \E accepts \in IF conf.policy = "group" THEN SUBSET DOMAIN group.model ELSE {{}} :
                 /\ group' = IF conf.policy = "group" THEN ObserveGroup(group, Signal(t, end), accepts)
                             ELSE group
                 /\ bench' = [bench EXCEPT !.phase = IF t < NTasks THEN "begin" ELSE "done",
                       !.missed = @ \/ /\ conf.policy = "group" /\ group.task.open
                                       /\ \/ ~ObservesWidth(conf.group.n_bits, Signal(t, end))
                                          \/ ~(Expects(group, group.task.roster) \subseteq accepts)]
    /\ UNCHANGED <<instance, trace, other>>

-----------------------------------------------------------------------------
(* Another thread asks the group policy, in the two parts of a decision.    *)

Running == bench.phase \in {"begin", "join", "leave", "done"} /\ conf.policy = "group"

OtherStarts ==
    /\ Running /\ conf.shared /\ other.ask = None /\ other.asked < MaxOther
    /\ \E a \in PoolAgents, leave \in BOOLEAN :
          LET coalition == IF leave THEN PoolAgents ELSE PoolAgents \ {a} IN
          /\ group' = DecideStarts(group, KnownRoles, PoolAgents)
          /\ other' = [ask |-> IF DecideAsks(group, KnownRoles, PoolAgents)
                               THEN AskOf(group, KnownRoles, Caps, a, coalition, leave) ELSE None,
                       leaves |-> other.leaves + IF leave THEN 1 ELSE 0,
                       asked |-> other.asked + 1]
    /\ UNCHANGED <<instance, bench, trace, results, ref>>

OtherEnds(ok) ==
    /\ Running /\ other.ask # None
    /\ group' = DecideEnds(group, other.ask, ok, Max(other.ask.roster))
    /\ other' = [other EXCEPT !.ask = None]
    /\ UNCHANGED <<instance, bench, trace, results, ref>>

BenchNext ==
    \/ \E config \in BenchConfigs : Start(config)
    \/ DrawTask
    \/ DrawShapes
    \/ DrawPerformance
    \/ BeginTasks
    \/ JoinNext
    \/ JoinsEnd
    \/ LeaveNext
    \/ ScoreTask
    \/ OtherStarts
    \/ \E ok \in BOOLEAN : OtherEnds(ok)

BenchSpec == BenchInit /\ [][BenchNext]_benchvars
=============================================================================
