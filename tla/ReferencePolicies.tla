------------------------- MODULE ReferencePolicies -------------------------
(***************************************************************************)
(* The engine-free reference policies of the harness (harness/recon.rs):   *)
(* first arrival alone, keep everyone, the redundancy prune and the        *)
(* identity prune, which also ranks members by a record of how often they  *)
(* performed.  A policy knows the roles of the agents in its role map; a   *)
(* member absent from it covers nothing.                                   *)
(***************************************************************************)
EXTENDS ProcessTheory

VARIABLES
    ref         \* the prunes: [steps, shown, records]

(* shown: the agents whose capabilities a decision has been shown;          *)
(* records: per agent <<performed, counted>>.                               *)
NewRef(agents) == [steps |-> {}, shown |-> {}, records |-> [a \in agents |-> <<0, 0>>]]

RefBegin(state, steps) == [state EXCEPT !.steps = steps]

Covers(caps, roles, a, s) == a \in DOMAIN roles /\ roles[a] = s.role /\ s.bit \in caps[a]
Covered(caps, roles, members, s) == \E m \in members : Covers(caps, roles, m, s)

(* RefPrune::should_leave: every step the coalition covers stays covered.   *)
Redundant(state, caps, roles, agent, coalition) ==
    \A s \in state.steps :
        Covered(caps, roles, coalition, s) => Covered(caps, roles, coalition \ {agent}, s)

(* Two records compared as (p1 + 1)(n2 + 2) and (p2 + 1)(n1 + 2).           *)
AtLeast(one, other) == (one[1] + 1) * (other[2] + 2) >= (other[1] + 1) * (one[2] + 2)

Outranked(state, caps, roles, agent, coalition) ==
    \A s \in {t \in state.steps : Covers(caps, roles, agent, t)} :
        \E m \in coalition \ {agent} : /\ Covers(caps, roles, m, s)
                                       /\ AtLeast(state.records[m], state.records[agent])

RefShow(state, agent, coalition) == [state EXCEPT !.shown = @ \cup coalition \cup {agent}]

(* What each policy answers.                                                *)
RefActs(policy, state, caps, roles, agent, coalition, leave) ==
    CASE policy = "first"    -> FALSE
      [] policy = "keep"     -> ~leave
      [] policy = "prune"    -> leave => Redundant(state, caps, roles, agent, coalition)
      [] policy = "prune_id" -> leave => /\ Redundant(state, caps, roles, agent, coalition)
                                         /\ Outranked(state, caps, roles, agent, coalition)

(* RefPruneId::observe_outcome: a member of known role and shown            *)
(* capabilities counts when the task demands one of its bits at its role.   *)
CountsOutcome(state, caps, roles, a) ==
    /\ a \in DOMAIN roles /\ a \in state.shown
    /\ \E s \in state.steps : s.role = roles[a] /\ s.bit \in caps[a]

RefObserve(state, caps, roles, members, performed) ==
    [state EXCEPT !.records = [a \in DOMAIN @ |->
        IF a \in members /\ CountsOutcome(state, caps, roles, a)
        THEN <<@[a][1] + IF a \in performed THEN 1 ELSE 0, @[a][2] + 1>>
        ELSE @[a]]]
=============================================================================
