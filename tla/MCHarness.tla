----------------------------- MODULE MCHarness ------------------------------
(***************************************************************************)
(* The policies and the bench they are run on, for TLC: a battery under    *)
(* the reference, active-inference and group policies, the rewriting of a  *)
(* workflow, the persistent arm, and the magnitude policy under its        *)
(* residual wrapper.                                                       *)
(* They share no state; `part` says whose behaviour it is.                 *)
(***************************************************************************)
EXTENDS Reconstruction, WorkflowRewrite, ResidualPolicy

CONSTANTS a1, a2, a3, a4

VARIABLE part

allvars == <<part, benchvars, armvars, rewrite, resvars>>

-----------------------------------------------------------------------------
Worker(caps, role) == [caps |-> caps, role |-> role]

(* PoolA spreads the bits over two roles, PoolB nests them in one.          *)
PoolA == a1 :> Worker({0, 1}, 0) @@ a2 :> Worker({0}, 0) @@ a3 :> Worker({1, 2}, 1)
PoolB == a1 :> Worker({0}, 0) @@ a2 :> Worker({0, 1}, 0) @@ a3 :> Worker({0, 1, 2}, 0)
PoolC == a1 :> Worker({0, 1}, 0) @@ a2 :> Worker({1}, 1)
PoolD == a1 :> Worker({0}, 0) @@ a2 :> Worker({1}, 1)
MCWorkforce == a1 :> Worker({1, 2}, 0) @@ a2 :> Worker({1, 3}, 0) @@ a3 :> Worker({0, 1}, 1)
MCStaff == PoolA @@ a4 :> Worker({2}, NoValue)

Base == [kind |-> "workflow", policy |-> "any", signal |-> "role_coverage", perf |-> FALSE,
         pool |-> PoolA, known |-> {a1, a2, a3}, group |-> [shared |-> FALSE], shared |-> FALSE,
         masks |-> {{0, 1}}, arrivals |-> {<<a3, a1, a2>>}, rows |-> {},
         aif |-> [belief_weight |-> 0, join_margin |-> 0, engine_ok |-> TRUE]]
Inferred == [Base EXCEPT !.policy = "aif", !.kind = "flat", !.masks = {{}, {0, 1}, {0, 1, 2}},
                !.arrivals = {<<a1, a2, a3>>, <<a2, a3, a1>>, <<a3, a1, a2>>}]
Pruned == [Base EXCEPT !.masks = {{0, 1}, {1, 2}}, !.arrivals = {<<a1, a2, a3>>, <<a3, a1, a2>>}]
Grouped == [Base EXCEPT !.policy = "group", !.pool = PoolC, !.known = {a1, a2},
               !.arrivals = {<<a1, a2>>},
               !.group = [shared |-> FALSE, n_roles |-> 2, n_bits |-> Bits, sampled |-> FALSE,
                          weighted |-> TRUE, star |-> "off", matched |-> TRUE]]

MCBenchConfigs ==
    {Base, [Base EXCEPT !.kind = "flat", !.masks = {{}, {1, 2}}], [Base EXCEPT !.signal = "performance"]}
    \cup {[Pruned EXCEPT !.policy = p, !.pool = pool] :
             p \in {"first", "keep", "prune"}, pool \in {PoolA, PoolB}}
    \cup {[Pruned EXCEPT !.policy = "prune_id", !.pool = pool, !.known = known, !.perf = TRUE,
                         !.rows = {{a1, a2, a3}, {a2}, {a1, a3}}] :
             pool \in {PoolA, PoolB}, known \in {{a1, a2, a3}, {a1, a3}}}
    \cup {[c EXCEPT !.pool = pool] : pool \in {PoolA, PoolB},
             c \in {Inferred, [Inferred EXCEPT !.policy = "aif_mm"],
                    [Inferred EXCEPT !.aif.belief_weight = 3],
                    [Inferred EXCEPT !.aif.join_margin = 100],
                    [Inferred EXCEPT !.aif.engine_ok = FALSE]}}
    \cup {[Base EXCEPT !.policy = "aif"]}
    \cup {[Grouped EXCEPT !.signal = "both", !.perf = TRUE, !.rows = {{a2}}],
          [Grouped EXCEPT !.shared = TRUE, !.pool = PoolD],
          [Grouped EXCEPT !.pool = PoolD, !.group.star = "valid"],
          [Grouped EXCEPT !.group.n_roles = 1],
          [Grouped EXCEPT !.group.star = "valid", !.group.shared = TRUE, !.known = {a1}],
          [Grouped EXCEPT !.group.sampled = TRUE, !.group.matched = FALSE, !.kind = "flat",
                          !.masks = {{1}}],
          [Grouped EXCEPT !.group.n_bits = 1],
          [Grouped EXCEPT !.group.sampled = TRUE, !.group.weighted = FALSE],
          [Grouped EXCEPT !.group.star = "nan"]}

(* a2 is trusted, a3 does not get on with a1; an agent alone is neutral.     *)
MCAlignment(a, members) ==
    IF members = {a} THEN Neutral
    ELSE IF a = a2 THEN 50 ELSE IF a = a3 /\ a1 \in members THEN 10 ELSE Neutral

MCArmConfigs == [eviction_cap : {None, 0, 1}, rejoin_lockout_tasks : {0, 1}]

-----------------------------------------------------------------------------
(* Magnitudes with the features the policy depends on: a mask within        *)
(* another adds nothing, two masks interfere, three cannot be evaluated.    *)
(* The generic route rounds up a list that does not grow at its start.      *)
Dominated(masks) == {m \in masks : \E n \in masks \ {m} : m \subseteq n}
MCFastMagnitudeOf(masks, required) ==
    LET seen == {masks[i] \cap required : i \in DOMAIN masks} \ {{}}
        n    == Cardinality(seen)
    IN  IF n >= 3 THEN Failed
        ELSE Value(4 * (n - Cardinality(Dominated(seen))) - IF n = 2 THEN Cardinality(required) ELSE 0)
MCMagnitudeOf(masks, required) ==
    LET m  == MCFastMagnitudeOf(masks, required)
        up == Len(masks) > 1 /\ Cardinality(masks[1]) >= Cardinality(masks[2])
    IN  IF m.ok /\ up THEN Value(m.v + 1) ELSE m
MCTypedMagnitude(side, required) ==
    LET m == MCFastMagnitudeOf([i \in DOMAIN side |-> side[i].caps], required)
    IN  IF m.ok THEN Value(m.v + Cardinality({side[i].role : i \in DOMAIN side}) - 1) ELSE m

Untyped == [kind |-> "policy", join_margin |-> 0, leave_variant |-> "Evaluator", fast |-> FALSE,
            typed |-> FALSE]
MCMagConfigs ==
    {Untyped, [Untyped EXCEPT !.join_margin = 2, !.leave_variant = "Fresh"],
     [Untyped EXCEPT !.fast = TRUE], [Untyped EXCEPT !.fast = TRUE, !.leave_variant = "Fresh"],
     [Untyped EXCEPT !.typed = TRUE],
     [Untyped EXCEPT !.kind = "calculator"], [Untyped EXCEPT !.kind = "calculator", !.typed = TRUE]}
MCCoalitions == {<<>>, <<a1>>, <<a2, a3>>, <<a3, a2>>, <<a1, a1>>, <<a1, a2, a3>>, <<a2, a4>>}
MCLambdas == {-1, 5}
Written == [r \in RoleIds |-> IF r = 0 THEN <<Cell(0, FALSE)>> ELSE <<Cell(1, FALSE), Cell(2, TRUE)>>]
MCResiduals == {Priced(Written, "Occurrences", [s \in StepSet |-> 1])}

-----------------------------------------------------------------------------
(* Only the part that runs varies its configuration.                        *)
HarnessInit ==
    /\ part \in {"bench", "rewrite", "arm", "magnitude"}
    /\ BenchInit /\ RewriteInit /\ ArmInit /\ ResInit
    /\ part # "arm" => arm.config = [eviction_cap |-> None, rejoin_lockout_tasks |-> 0]
    /\ part # "magnitude" => policy = Untyped /\ residual.lambda = 0

HarnessNext ==
    /\ UNCHANGED part
    /\ \/ part = "bench" /\ BenchNext /\ UNCHANGED <<armvars, rewrite, resvars>>
       \/ part = "rewrite" /\ RewriteNext /\ UNCHANGED <<benchvars, armvars, resvars>>
       \/ part = "arm" /\ ArmNext /\ UNCHANGED <<benchvars, rewrite, resvars>>
       \/ part = "magnitude" /\ ResNext /\ UNCHANGED <<benchvars, armvars, rewrite>>

HarnessSpec == HarnessInit /\ [][HarnessNext]_allvars
=============================================================================
