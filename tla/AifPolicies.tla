---------------------------- MODULE AifPolicies -----------------------------
(***************************************************************************)
(* The two stateless active-inference policies: the scalar one, whose      *)
(* competence blends coverage with beliefs (src/src/decision/              *)
(* aif_policy.rs), and the one with a modality per required bit            *)
(* (aif_mm_policy.rs).                                                     *)
(*                                                                         *)
(* The expected free energy G is the engine's and external.  It falls as   *)
(* the competence, or the number of covered modalities, rises; the order   *)
(* is all a decision with margin zero reads, so G is minus the competence. *)
(* Coverage counts in sixtieths, exact for up to six required bits, and    *)
(* belief_weight in quarters.                                              *)
(***************************************************************************)
EXTENDS Integers, FiniteSets, FiniteSetsExt

CONSTANT
    Alignment(_, _)     \* belief_weighted_preference of an agent among members

Whole == 60
Neutral == 30

UnionCaps(caps, members) == UNION {caps[m] : m \in members}

(* coverage: nothing required is covered.                                   *)
Coverage(mask, required) ==
    IF required = {} THEN Whole
    ELSE (Whole * Cardinality(mask \cap required)) \div Cardinality(required)

AlignmentOf(params, a, members) ==
    IF params.belief_weight <= 0 THEN Neutral ELSE Alignment(a, members)

BlendedCompetence(coverage, alignment, belief_weight) ==
    LET w == Max({0, Min({4, belief_weight})})
    IN  (4 - w) * coverage + w * alignment

(* G of a competence (efe_for_coverage), and of a set of covered            *)
(* modalities.  Nothing required is one modality that is covered.           *)
Efe(competence) == -competence
EfeOfModalities(required, covered) ==
    IF required = {} THEN -1 ELSE -Cardinality(required \cap covered)

(* G with the agent, and without it: of the agent alone when it asks to     *)
(* join, of the others when it asks to leave.                               *)
ScalarEfe(params, caps, required, a, coalition, leave) ==
    LET inside  == coalition \cup {a}
        outside == IF leave THEN coalition \ {a} ELSE {a}
        G(members, alignment) ==
            Efe(BlendedCompetence(Coverage(UnionCaps(caps, members), required),
                                  alignment, params.belief_weight))
    IN  [in |-> G(inside, AlignmentOf(params, a, inside)), out |-> G(outside, Neutral)]

ModalEfe(caps, required, a, coalition, leave) ==
    LET outside == IF leave THEN coalition \ {a} ELSE {a}
    IN  [in  |-> EfeOfModalities(required, UnionCaps(caps, coalition \cup {a})),
         out |-> EfeOfModalities(required, UnionCaps(caps, outside))]

(* A refused engine makes every G infinite, and no decision acts on that.   *)
JoinDecision(params, g) == params.engine_ok /\ g.out - g.in > params.join_margin

(* mutant: a member that changes nothing stays. *)
LeaveDecision_strict(params, g) == params.engine_ok /\ g.out - g.in < 0

LeaveDecision(params, g) == params.engine_ok /\ g.out - g.in <= 0

AifActs(policy, params, caps, required, a, coalition, leave) ==
    LET g == IF policy = "aif" THEN ScalarEfe(params, caps, required, a, coalition, leave)
             ELSE ModalEfe(caps, required, a, coalition, leave)
    IN  IF leave THEN LeaveDecision(params, g) ELSE JoinDecision(params, g)
=============================================================================
