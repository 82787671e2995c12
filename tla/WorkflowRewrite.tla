-------------------------- MODULE WorkflowRewrite --------------------------
(***************************************************************************)
(* Rewriting a workflow under the rule theory: the fuel-limited search for *)
(* a cheaper writing and the replay of its trace before the writing it     *)
(* declares is scored (src/src/process/rewrite.rs).                        *)
(*                                                                         *)
(* The search itself is the string-diagram library's and is external: here *)
(* it walks from the start, one match after another, and keeps the         *)
(* cheapest writing seen.  Where the writing has one match at a time, that *)
(* is everything any search order could do.                                *)
(***************************************************************************)
EXTENDS ProcessTheory

CONSTANTS
    Workforce,  \* the pool the staffing price is taken over
    Fuel        \* how many rewrites a search may make

ASSUME FuelIsNat == Fuel \in Nat
ASSUME PoolIsFinite == IsFiniteSet(DOMAIN Workforce)

VARIABLES
    rewrite     \* [phase, start, price, current, trace, best, steps]

RewriteIdle == [phase |-> "idle", start |-> << >>, price |-> "uniform", current |-> << >>,
                trace |-> << >>, best |-> << >>, steps |-> << >>]

RewriteInit == rewrite = RewriteIdle

CostOf(price, written) ==
    IF price = "uniform" THEN UniformCost(written) ELSE StaffingPrice(Workforce, written)

-----------------------------------------------------------------------------
(* The writings the harness draws: some bits, each with a role.             *)
Writings == UNION {DrawShape(TaggedSteps(tags)) :
                      tags \in UNION {[bits -> RoleIds] : bits \in SUBSET Bit \ {{}}}}

OptimizeWorkflow(w, price) ==
    /\ rewrite.phase = "idle"
    /\ CheckShape
    /\ rewrite' = [phase |-> "search", start |-> w, price |-> price, current |-> w,
                   trace |-> << >>, best |-> w, steps |-> << >>]

AllMatches(written) ==
    {m \in (DOMAIN RuleTheory) \X UNION {DOMAIN written[r] : r \in RoleIds} :
        Matches(written, RuleTheory[m[1]], m[2])}

(* The search (external): a match is taken while there is fuel, and the     *)
(* cheapest writing met so far is kept with the trace that led to it.       *)
SearchStep ==
    /\ rewrite.phase = "search"
    /\ Len(rewrite.trace) < Fuel
    /\ \E m \in AllMatches(rewrite.current) :
          LET w     == Rewrite(rewrite.current, RuleTheory[m[1]], m[2])
              trace == Append(rewrite.trace, m)
              finds == CostOf(rewrite.price, w) < CostOf(rewrite.price, rewrite.best)
          IN  rewrite' = [rewrite EXCEPT !.current = w, !.trace = trace,
                                         !.best = IF finds THEN w ELSE @,
                                         !.steps = IF finds THEN trace ELSE @]

SearchEnds ==
    /\ rewrite.phase = "search"
    /\ Len(rewrite.trace) = Fuel \/ AllMatches(rewrite.current) = {}
    /\ rewrite' = [rewrite EXCEPT !.phase = "declared"]

(* replay (external): every step is matched again before it is applied.     *)
ReplayStep(far, m) ==
    IF far.ok /\ Matches(far.written, RuleTheory[m[1]], m[2])
    THEN [ok |-> TRUE, written |-> Rewrite(far.written, RuleTheory[m[1]], m[2])]
    ELSE [far EXCEPT !.ok = FALSE]

Replay(start, steps) ==
    LET far[k \in 0 .. Len(steps)] == IF k = 0 THEN [ok |-> TRUE, written |-> start]
                                       ELSE ReplayStep(far[k - 1], steps[k])
    IN  far[Len(steps)]

VerifyOptimization ==
    /\ rewrite.phase = "declared"
    /\ LET replayed == Replay(rewrite.start, rewrite.steps)
           sound    == replayed.ok /\ replayed.written = rewrite.best
       IN  rewrite' = [rewrite EXCEPT !.phase = IF sound THEN "verified" ELSE "unsound"]

RewriteNext ==
    \/ \E w \in Writings, price \in {"uniform", "staffing"} : OptimizeWorkflow(w, price)
    \/ SearchStep
    \/ SearchEnds
    \/ VerifyOptimization

RewriteSpec == RewriteInit /\ [][RewriteNext]_rewrite

-----------------------------------------------------------------------------
Fusions(trace) == {m \in ToSet(trace) : RuleTheory[m[1]].schema = "fusion"}

(* The bit no fusion may consume: -4 modulo the width (theory.rs 202-212).  *)
Obstruction == (Bits - 4) % Bits

(***************************************************************************)
(* What a derivation of any length may and may not change, however its     *)
(* rules are combined.  Without a fusion the staffing question is the one  *)
(* the start asked; a step that was not demanded is a fusion's target; a   *)
(* role that had work keeps some and no role gains any; the bit            *)
(* (Bits - 4) mod Bits is never consumed, so it separates its neighbours   *)
(* for good; every rewrite removes at least one generator, so the theory   *)
(* has no endless derivation; and what is declared is what its trace       *)
(* derives, at no higher price than the start.                             *)
(***************************************************************************)
RewritesKeepClass ==
    rewrite.phase # "idle" =>
        LET before == Distinct(rewrite.start)
            after  == Distinct(rewrite.current)
        IN  /\ Fusions(rewrite.trace) = {} => after = before
            /\ after \ before \subseteq {RuleTheory[m[1]].target : m \in Fusions(rewrite.trace)}
            /\ {s.role : s \in before} = {s.role : s \in after}
            /\ {s \in before : s.bit = Obstruction} \subseteq after
            /\ UniformCost(rewrite.current) + Len(rewrite.trace) <= UniformCost(rewrite.start)
            /\ CostOf(rewrite.price, rewrite.best) <= CostOf(rewrite.price, rewrite.start)
            /\ rewrite.phase # "unsound"
=============================================================================
