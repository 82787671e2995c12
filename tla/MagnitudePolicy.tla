-------------------------- MODULE MagnitudePolicy --------------------------
(***************************************************************************)
(* MagnitudePolicy and MagnitudeValueCalculator                            *)
(* (src/src/decision/magnitude_policy.rs): join when the agent raises the  *)
(* coalition's magnitude by more than join_margin, leave when its removal  *)
(* does not lower it.  All clones of a policy share one cache of the last  *)
(* evaluator, keyed by requirement and member masks, with a bounded        *)
(* registry of the candidate masks it can score.                           *)
(*                                                                         *)
(* A call copies the masks it needs before it is offloaded, and a dispatch *)
(* takes the cache lock once, so a step is one dispatch of some caller on  *)
(* a snapshot that may be of any coalition; the magnitudes themselves      *)
(* (catgraph_magnitude, external) are constants, in units of the rounding: *)
(* what a fresh evaluation returns depends on the order of the masks, the  *)
(* fast arithmetic rounds in its own way, and the incremental value is off *)
(* by the noise.                                                           *)
(***************************************************************************)
EXTENDS Integers, Sequences, FiniteSets, SequencesExt, Lists

CONSTANTS
    REGISTRY_CAP,           \* candidate masks the registry holds at most
    Staff,                  \* agent -> [caps, role]; a role may be NoValue
    Coalitions,             \* the coalitions a caller may hold, as sequences
    Requirements,           \* the required capabilities a task may have
    MagConfigs,             \* policies and calculators: see MagInit
    Noise,                  \* |incremental value - fresh value in its order|
    Roundoff,               \* |one fresh value of a magnitude - another|
    Band,                   \* the knife-edge band
    MagnitudeOf(_, _),      \* masks, required -> [ok, v]: the generic route
    FastMagnitudeOf(_, _),  \* the same by the f64 factorization
    TypedMagnitude(_, _),   \* [caps, role] sequence, required -> [ok, v]
    NoValue

ASSUME MagnitudeAssumption ==
    /\ REGISTRY_CAP \in Nat \ {0}
    /\ Noise \in Nat /\ Roundoff \in Nat /\ Band \in Nat
    /\ Noise + Roundoff <= Band

ASSUME CallersHoldStaff ==
    /\ Coalitions \subseteq Seq(DOMAIN Staff)
    /\ \A p \in MagConfigs : p.join_margin \in Int

(* The masks of agents in the order they are listed.                        *)
CapsOf(agents) == [k \in DOMAIN agents |-> Staff[agents[k]].caps]
LineUps(A) == Bijection(1..Cardinality(A), A)

Distance(n) == IF n < 0 THEN -n ELSE n
Measured == [ok : BOOLEAN, v : Int]
Near(m, n) == m.ok = n.ok /\ (m.ok => Distance(m.v - n.v) <= Roundoff)

(* A magnitude is a number, or an error, and up to the rounding the same    *)
(* whichever way the members are numbered ("any permutation leaves the      *)
(* magnitude unchanged", magnitude_policy.rs:1051-1052; the masks keep the  *)
(* caller's order) and by either route ("Tolerance-equal to the generic     *)
(* route", :1403).  That the fast route fails where the generic one does is *)
(* guaranteed on its Gauss-Jordan branch only (:999-1005) and assumed on    *)
(* the others.                                                              *)
ASSUME FreshValuesAgree ==
    \A required \in Requirements, A \in (SUBSET DOMAIN Staff) \ {{}} :
        \A s, t \in LineUps(A) :
            /\ MagnitudeOf(CapsOf(s), required) \in Measured
            /\ FastMagnitudeOf(CapsOf(s), required) \in Measured
            /\ Near(MagnitudeOf(CapsOf(s), required), MagnitudeOf(CapsOf(t), required))
            /\ Near(FastMagnitudeOf(CapsOf(s), required), MagnitudeOf(CapsOf(s), required))

MaskSet == {Staff[a].caps : a \in DOMAIN Staff}
MaskLists == Seq(MaskSet)
Evaluators == [required : Requirements, pool : MaskLists, base : Int]
CacheEntries == [required : Requirements, members : MaskLists,
                 candidates : MaskLists, evaluator : Evaluators]
ASSUME NoValueIsNoValue == NoValue \notin Evaluators \cup CacheEntries

VARIABLES
    policy,     \* kind, join_margin, leave_variant, fast, typed
    cache,      \* the shared evaluator, or NoValue
    answer      \* a decision or value about to be returned, with its call
magvars == <<policy, cache, answer>>

Value(v) == [ok |-> TRUE, v |-> v]
Failed == [ok |-> FALSE, v |-> 0]
Decision(act, score) == [act |-> act, score |-> score]
Decline == Decision(FALSE, 0)

-----------------------------------------------------------------------------
(* Snapshots.                                                               *)

(* relevant_masks: first occurrences of the agents with a required bit.     *)
RelevantAgents(agents, required) ==
    Picked(agents, {i \in DOMAIN agents :
                       /\ Staff[agents[i]].caps \cap required # {}
                       /\ \A j \in 1..(i - 1) : agents[j] # agents[i]})
Masks(agents, required) == CapsOf(RelevantAgents(agents, required))

(* typed_relevant_masks; a participant without a role declines the call.    *)
Typeable(agents, required) ==
    \A a \in ToSet(RelevantAgents(agents, required)) : Staff[a].role # NoValue
TypedSide(agents, required) ==
    LET kept == RelevantAgents(agents, required)
    IN  [k \in DOMAIN kept |-> Staff[kept[k]]]

(* The coalition with the agent and without it: join_masks, leave_masks.    *)
With(c) == IF c.kind = "join" THEN Append(c.coalition, c.agent) ELSE c.coalition
Without(c) == IF c.kind = "join" THEN c.coalition
              ELSE Picked(c.coalition, {i \in DOMAIN c.coalition :
                                           c.coalition[i] # c.agent})

MagnitudeOrZero(masks, required) == IF masks = <<>> THEN Value(0)
                                    ELSE MagnitudeOf(masks, required)

(* FreshRoute: the arithmetic of the policy's own fresh evaluations; the    *)
(* evaluator and the calculator always take the generic one.                *)
RouteMagnitude(masks, required) == IF policy.fast THEN FastMagnitudeOf(masks, required)
                                   ELSE MagnitudeOf(masks, required)
RouteOrZero(masks, required) == IF masks = <<>> THEN Value(0)
                                ELSE RouteMagnitude(masks, required)

TypedOrZero(side, required) == IF side = <<>> THEN Value(0)
                               ELSE TypedMagnitude(side, required)

-----------------------------------------------------------------------------
(* The evaluator cache.                                                     *)

(* build_evaluator fails exactly where a fresh evaluation of the members    *)
(* would; the candidates cannot make it fail.                               *)
BuildEvaluator(required, members, candidates) ==
    IF MagnitudeOf(members, required).ok
    THEN [required |-> required, pool |-> members \o candidates,
          base |-> MagnitudeOf(members, required).v]
    ELSE NoValue

Entry(required, members, candidates) ==
    LET evaluator == BuildEvaluator(required, members, candidates)
    IN  IF evaluator = NoValue THEN NoValue
        ELSE [required |-> required, members |-> members,
              candidates |-> candidates, evaluator |-> evaluator]

(* mutant: the requirement is left out of the key.                        *)
HitOnMembersOnly(required, members) == cache # NoValue /\ cache.members = members

Hit(required, members) ==
    cache # NoValue /\ cache.required = required /\ cache.members = members

TakeRegistry == IF cache = NoValue \/ Len(cache.candidates) >= REGISTRY_CAP THEN <<>>
                ELSE cache.candidates

(* cached_base: the entry that answers for these members.                   *)
CachedBase(required, members) ==
    IF Hit(required, members) THEN cache
    ELSE Entry(required, members, TakeRegistry)

Register(candidates, caps) ==
    IF Contains(candidates, caps) THEN candidates ELSE Append(candidates, caps)

(* ensure_cached_candidate: the entry that can also score this candidate. A *)
(* miss takes the registry along; an unseen candidate on a hit rebuilds.    *)
EnsureCachedCandidate(required, members, caps) ==
    IF ~Hit(required, members)
    THEN Entry(required, members, Register(TakeRegistry, caps))
    ELSE IF Contains(cache.candidates, caps) THEN cache
    ELSE Entry(required, cache.members, Append(TakeRegistry, caps))

(* value_with: the members joined by the pool slot of the candidate.        *)
PoolSlot(entry, caps) ==
    Len(entry.members) + (CHOOSE i \in DOMAIN entry.candidates : entry.candidates[i] = caps)
ValueWith(entry, slot) ==
    LET e == entry.evaluator
    IN  MagnitudeOf(Append(SubSeq(e.pool, 1, Len(entry.members)), e.pool[slot]), e.required)

-----------------------------------------------------------------------------
(* Decisions.                                                               *)

(* join_decision_from_values and leave_decision_from_values.                *)
FromValues(kind, with, without) ==
    IF ~with.ok \/ ~without.ok THEN Decline
    ELSE LET delta == with.v - without.v
         IN  Decision(IF kind = "join" THEN delta > policy.join_margin ELSE delta <= 0, delta)

ThresholdOf(kind) == IF kind = "join" THEN policy.join_margin ELSE 0

(* mutant: the band is kept around zero, not around the caller's margin.  *)
IsKnifeEdge_at_zero(with, base, threshold) == Distance(with - base) <= Band

IsKnifeEdge(with, base, threshold) == Distance(with - base - threshold) <= Band

FreshDecision(c) == FromValues(c.kind, RouteOrZero(Masks(With(c), c.required), c.required),
                               RouteOrZero(Masks(Without(c), c.required), c.required))

(* typed_join_dispatch and typed_leave_dispatch: fresh on both sides.       *)
TypedDecision(c) ==
    IF ~Typeable(With(c), c.required) \/ ~Typeable(Without(c), c.required) THEN Decline
    ELSE FromValues(c.kind, TypedOrZero(TypedSide(With(c), c.required), c.required),
                    TypedOrZero(TypedSide(Without(c), c.required), c.required))

(* The value of the larger side: a certificate that nothing is added takes  *)
(* the base, a knife-edge margin is evaluated fresh, any other is kept.     *)
Settled(c, with, base, proof) ==
    IF ~with.ok THEN with
    ELSE IF proof THEN Value(base)
    ELSE IF IsKnifeEdge(with.v, base, ThresholdOf(c.kind))
         THEN RouteMagnitude(Masks(With(c), c.required), c.required)
    ELSE with

(* join_dispatch and leave_dispatch_evaluator: the entry after the call and *)
(* its decision.  noise and proof are what the external evaluator adds: an  *)
(* error within its tolerance, and the certificate, asked for by the fast   *)
(* route only and given only where the real increment is zero; the computed *)
(* one can be roundoff of either sign.                                      *)
Dispatched(c, noise, proof) ==
    LET with == Masks(With(c), c.required)
        without == Masks(Without(c), c.required)
        base == CachedBase(c.required, without)
        entry == EnsureCachedCandidate(c.required, without, Staff[c.agent].caps)
        fresh == ValueWith(entry, PoolSlot(entry, Staff[c.agent].caps))
        noisy == IF fresh.ok THEN Value(fresh.v + noise) ELSE fresh
        certain == proof /\ Distance(fresh.v - entry.evaluator.base) <= Roundoff
    IN  IF without = <<>> THEN [entry |-> cache, decision |-> FreshDecision(c)]
        ELSE IF Len(with) = Len(without)
        THEN [entry |-> base,
              decision |-> IF base = NoValue THEN Decline
                           ELSE FromValues(c.kind, Value(base.evaluator.base),
                                           Value(base.evaluator.base))]
        ELSE [entry |-> entry,
              decision |-> IF entry = NoValue THEN Decline
                           ELSE FromValues(c.kind,
                                    Settled(c, noisy, entry.evaluator.base, certain),
                                    Value(entry.evaluator.base))]

(* should_join and should_leave, sync or offloaded, with the cache they     *)
(* leave.  Typed calls and the Fresh leave variant do not touch the cache.  *)
Decided(c, noise, proof) ==
    IF policy.typed THEN [entry |-> cache, decision |-> TypedDecision(c)]
    ELSE IF c.kind = "leave" /\ policy.leave_variant = "Fresh"
    THEN [entry |-> cache, decision |-> FreshDecision(c)]
    ELSE Dispatched(c, noise, proof)

(* mutant: the proof is asked for with the toggle off.                    *)
Certificates_always == BOOLEAN

Certificates == IF policy.fast THEN BOOLEAN ELSE {FALSE}
Calls ==
    [kind : {"join", "leave"}, agent : DOMAIN Staff, coalition : Coalitions,
     required : Requirements]
Reasonable(c) == c.kind = "leave" => Contains(c.coalition, c.agent)

MagInit == policy \in MagConfigs /\ cache = NoValue /\ answer = NoValue

Decide ==
    /\ policy.kind = "policy" /\ answer = NoValue
    /\ \E c \in Calls, noise \in -Noise .. Noise, proof \in Certificates :
         /\ Reasonable(c)
         /\ LET d == Decided(c, noise, proof)
            IN  /\ cache' = d.entry
                /\ answer' = [call |-> c, inner |-> d.decision]
    /\ UNCHANGED policy

(* calculate_value: an error is the least value, NoValue here.              *)
CalculateValue ==
    /\ policy.kind = "calculator" /\ answer = NoValue
    /\ \E agents \in Coalitions, required \in Requirements :
         LET masks == Masks(agents, required)
             entry == CachedBase(required, masks)
             typed == TypedOrZero(TypedSide(agents, required), required)
             cached == ~policy.typed /\ masks # <<>>
         IN  /\ cache' = IF cached THEN entry ELSE cache
             /\ answer' = [agents |-> agents, required |-> required,
                           value |-> IF cached THEN IF entry = NoValue THEN NoValue
                                                    ELSE entry.evaluator.base
                                     ELSE IF ~policy.typed THEN 0
                                     ELSE IF Typeable(agents, required) /\ typed.ok
                                          THEN typed.v ELSE NoValue]
    /\ UNCHANGED policy

Returned == answer # NoValue /\ answer' = NoValue /\ UNCHANGED <<policy, cache>>

MagNext == Decide \/ CalculateValue \/ Returned
MagSpec == MagInit /\ [][MagNext]_magvars

-----------------------------------------------------------------------------
(* The decision of the frozen default: two fresh generic evaluations.       *)
FrozenDecision(c) ==
    FromValues(c.kind, MagnitudeOrZero(Masks(With(c), c.required), c.required),
               MagnitudeOrZero(Masks(Without(c), c.required), c.required))

Agrees(kind, reached, frozen) ==
    LET off == IF policy.fast THEN 2 * Roundoff ELSE Roundoff
    IN  /\ \/ reached.act = frozen.act
           \/ policy.fast /\ Distance(frozen.score - ThresholdOf(kind)) <= off
        /\ Distance(reached.score - frozen.score) <= Noise + off

(***************************************************************************)
(* Whatever coalitions, requirements and candidates the cache served       *)
(* before, whatever its incremental arithmetic rounded and in whatever     *)
(* order the callers list the members, an untyped call of the default      *)
(* policy acts exactly as two fresh evaluations of its own snapshot would  *)
(* (the decision-freeze contract of EvaluatorCache,                        *)
(* ensure_cached_candidate and is_knife_edge).  The EQ3 arm "changes       *)
(* decisions, deliberately" (:161-168): only where the frozen margin is    *)
(* float noise away from the threshold.  Either score is within the        *)
(* tolerance; the calculator returns the fresh value; and the registry     *)
(* never outgrows its cap, repeats a mask or disagrees with the            *)
(* evaluator's pool.                                                       *)
(***************************************************************************)
MagnitudeDecidesFresh ==
    /\ answer # NoValue /\ ~policy.typed =>
         IF policy.kind = "policy"
         THEN Agrees(answer.call.kind, answer.inner, FrozenDecision(answer.call))
         ELSE LET fresh == MagnitudeOrZero(Masks(answer.agents, answer.required),
                                           answer.required)
              IN  answer.value = IF fresh.ok THEN fresh.v ELSE NoValue
    /\ cache # NoValue =>
         /\ Len(cache.candidates) <= REGISTRY_CAP
         /\ IsInjective(cache.candidates)
         /\ cache.evaluator.required = cache.required
         /\ cache.evaluator.pool = cache.members \o cache.candidates
=============================================================================
