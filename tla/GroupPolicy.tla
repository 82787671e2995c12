---------------------------- MODULE GroupPolicy ----------------------------
(***************************************************************************)
(* The group active-inference policy (decision/group_policy.rs): per task  *)
(* a roster of the roles that have something to staff, one persistent      *)
(* world model per role or one for all, a vote of the roster's members per *)
(* decision, and the ledger of counters by which a run is declared valid.  *)
(*                                                                         *)
(* The engine (queries, votes, routing) is external: it fails or answers   *)
(* act or decline freely.  What is modelled is which role's model sees     *)
(* what, which queries can tell a leave from a stay, and every path's      *)
(* effect on the counters.  A decision clones the task under the policy's  *)
(* mutex, lets it go while the engine works, and takes it again to count.  *)
(***************************************************************************)
EXTENDS PersistentArm, ProcessTheory

VARIABLES
    group       \* the policy: its configuration, models, task and counters

NoTask == [open |-> FALSE, required |-> << >>, roster |-> {}]

(* Models are named by role, or all roles share model 0.                    *)
ModelOf(gconf, r) == IF gconf.shared THEN 0 ELSE r
Models(gconf) == {ModelOf(gconf, r) : r \in 0 .. gconf.n_roles - 1}

(* new: sampling and candidate-star routing are accepted only with the      *)
(* certainty-weighted vote, and routing only with the deterministic read.   *)
Accepted(gconf) ==
    /\ gconf.sampled => gconf.weighted
    /\ gconf.star # "off" => gconf.star = "valid" /\ ~gconf.sampled /\ gconf.weighted

NewGroup(gconf) ==
    [config |-> gconf, task |-> NoTask,
     model |-> [m \in Models(gconf) |-> NewModel],
     updates |-> [m \in Models(gconf) |-> 0], expected |-> [m \in Models(gconf) |-> 0],
     tasks_observed |-> 0, opened |-> 0, decisions |-> 0, reads |-> 0, agreement |-> 0,
     routed_reads |-> 0, declines_upstream |-> 0, declines_missing_role |-> 0,
     declines_no_demand |-> 0, leave_queries |-> 0, leave_queries_identical |-> 0,
     empty_role_slots |-> 0, begin_task_rejections |-> 0, outcome_updates_unapplied |-> 0]

-----------------------------------------------------------------------------
(* begin_task: the demand per role, without the bits the models do not      *)
(* have.  A role out of range or an empty roster refuses the task and       *)
(* leaves none in force.                                                    *)
DemandOf(g, steps) ==
    [r \in 0 .. g.config.n_roles - 1 |->
        {s.bit : s \in {t \in steps : t.role = r /\ t.bit < g.config.n_bits}}]

Roster(required) == {r \in DOMAIN required : required[r] # {}}

(* The models a task is expected to update.                                 *)
Expects(g, roster) == {ModelOf(g.config, r) : r \in roster}

(* mutant: a refused task leaves the last one in force. *)
BeginTask_keepsTask(g, steps) ==
    LET required == DemandOf(g, steps)
        roster   == Roster(required)
    IN  IF (\E s \in steps : s.role >= g.config.n_roles) \/ roster = {}
        THEN [g EXCEPT !.begin_task_rejections = @ + 1]
        ELSE [g EXCEPT !.task = [open |-> TRUE, required |-> required, roster |-> roster],
                       !.opened = @ + 1,
                       !.expected = [m \in DOMAIN @ |->
                                        @[m] + IF m \in Expects(g, roster) THEN 1 ELSE 0]]

BeginTask(g, steps) ==
    LET required == DemandOf(g, steps)
        roster   == Roster(required)
    IN  IF (\E s \in steps : s.role >= g.config.n_roles) \/ roster = {}
        THEN [g EXCEPT !.task = NoTask, !.begin_task_rejections = @ + 1]
        ELSE [g EXCEPT !.task = [open |-> TRUE, required |-> required, roster |-> roster],
                       !.opened = @ + 1,
                       !.empty_role_slots = @ + g.config.n_roles - Cardinality(roster),
                       !.expected = [m \in DOMAIN @ |->
                                        @[m] + IF m \in Expects(g, roster) THEN 1 ELSE 0]]

(* observe_outcome: a signal of another width, or no task in force, skips   *)
(* the task; otherwise every rostered role's model observes its own         *)
(* requirement (the shared one their union).  accepts are the models whose  *)
(* update the engine accepts.                                               *)
ObservedBy(g, m) == UNION {g.task.required[r] : r \in {q \in g.task.roster : ModelOf(g.config, q) = m}}

ObserveGroup(g, per_bit, accepts) ==
    LET models == Expects(g, g.task.roster)
    IN  IF ~ObservesWidth(g.config.n_bits, per_bit) \/ ~g.task.open
        THEN [g EXCEPT !.outcome_updates_unapplied = @ + 1]
        ELSE [g EXCEPT
                !.model = [m \in DOMAIN @ |-> IF m \in models
                              THEN ObserveOutcome(@[m], ObservedBy(g, m), per_bit) ELSE @[m]],
                !.updates = [m \in DOMAIN @ |-> @[m] + IF m \in models \cap accepts THEN 1 ELSE 0],
                !.tasks_observed = @ + 1,
                !.outcome_updates_unapplied = @ + IF models \cap accepts = {} THEN 1 ELSE 0]

-----------------------------------------------------------------------------
(* decide, in two holds of the mutex.  The first counts the decision and    *)
(* declines without a task or without every participant's role.  roles maps *)
(* the known agents to their roles.                                         *)
(* mutant: a decline without a task returns before it is counted. *)
DecideStarts_late(g, roles, participants) ==
    IF ~g.task.open THEN [g EXCEPT !.declines_no_demand = @ + 1]
    ELSE IF ~(participants \subseteq DOMAIN roles)
         THEN [g EXCEPT !.decisions = @ + 1, !.declines_missing_role = @ + 1]
         ELSE [g EXCEPT !.decisions = @ + 1]

DecideStarts(g, roles, participants) ==
    IF ~g.task.open THEN [g EXCEPT !.decisions = @ + 1, !.declines_no_demand = @ + 1]
    ELSE IF ~(participants \subseteq DOMAIN roles)
         THEN [g EXCEPT !.decisions = @ + 1, !.declines_missing_role = @ + 1]
         ELSE [g EXCEPT !.decisions = @ + 1]

DecideAsks(g, roles, participants) == g.task.open /\ participants \subseteq DOMAIN roles

(* coverage_masks: what a role's query sees before and after the act.  With *)
(* role-matched masks only that role's participants count.                  *)
CoverageMasks(g, roles, caps, role, agent, coalition, leave) ==
    LET Counts(a)  == ~g.config.matched \/ roles[a] = role
        union      == UNION {caps[a] : a \in {b \in coalition : Counts(b) /\ ~(leave /\ b = agent)}}
        own        == IF Counts(agent) THEN caps[agent] ELSE {}
    IN  IF leave THEN <<union \cup own, union>> ELSE <<own, own \cup union>>

(* The queries a leave asks, and those whose answer cannot depend on it.    *)
LeaveQueries(task, leave) == IF leave THEN task.roster ELSE {}
Identical(g, task, roles, caps, agent, coalition, leave) ==
    {r \in LeaveQueries(task, leave) :
        LET masks == CoverageMasks(g, roles, caps, r, agent, coalition, leave)
        IN  masks[1] = masks[2]}

Routed(g, task, role) ==
    g.config.star = "valid" /\ role \in task.roster /\ Cardinality(task.roster) >= 2

(* A decision in progress: what the second part needs of the task and the   *)
(* coalition the first part saw.                                            *)
AskOf(g, roles, caps, agent, coalition, leave) ==
    [roster    |-> g.task.roster,
     queries   |-> LeaveQueries(g.task, leave),
     identical |-> Identical(g, g.task, roles, caps, agent, coalition, leave),
     routed    |-> Routed(g, g.task, roles[agent])]

(* Its end.  The queries are built role by role; last is the role of the    *)
(* last one built, the end of the roster unless building it failed.  A read *)
(* may fail after all of them were built.                                   *)
DecideEnds(g, ask, ok, last) ==
    LET Built(s) == Cardinality({r \in s : r <= last})
        counted  == [g EXCEPT !.leave_queries = @ + Built(ask.queries),
                              !.leave_queries_identical = @ + Built(ask.identical)]
    IN  IF ~ok THEN [counted EXCEPT !.declines_upstream = @ + 1]
        ELSE [counted EXCEPT !.reads = @ + 1,
                             !.agreement = @ + IF g.config.sampled THEN 0 ELSE 1,
                             !.routed_reads = @ + IF ask.routed THEN 1 ELSE 0]

-----------------------------------------------------------------------------
(* s_learn_exact: the gate a run must pass.                                 *)
SLearnExact(g) ==
    /\ \A m \in DOMAIN g.updates : g.updates[m] = g.expected[m]
    /\ g.opened = g.tasks_observed
=============================================================================
