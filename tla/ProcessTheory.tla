--------------------------- MODULE ProcessTheory ---------------------------
(***************************************************************************)
(* The process layer of the coalition library: typed workflow steps, the   *)
(* demand a workflow makes, the theory of rewrite rules over workflows,    *)
(* and the two prices a writing can be given (src/src/process/).           *)
(*                                                                         *)
(* A step is a capability bit at a role.  A writing gives every role a     *)
(* leg, the chain of that role's cells; the legs are composed in parallel, *)
(* so no rule reaches across two of them.  A wide cell is a step written   *)
(* as delta ; (s (x) s) ; mu : two occurrences between two spiders.  The   *)
(* string-diagram library is external; what is used of it here is that two *)
(* writings with the same legs have the same content and that a rule       *)
(* matches consecutive cells of a leg.                                     *)
(***************************************************************************)
EXTENDS Lists, SequencesExt, FiniteSetsExt

CONSTANTS
    Bits,       \* width of the capability universe
    Roles       \* number of roles

(***************************************************************************)
(* rule_theory is refused for a universe without bits or roles, and for    *)
(* one in which no fusion rule exists (Bits <= 2): see CheckShape.         *)
(***************************************************************************)
ASSUME ShapeAssumption == Bits \in Nat \ {0} /\ Roles \in Nat \ {0}

Bit == 0 .. Bits - 1
RoleIds == 0 .. Roles - 1
Step(b, r) == [bit |-> b, role |-> r]
StepSet == [bit : Bit, role : RoleIds]

-----------------------------------------------------------------------------
(* Writings and their demand.                                               *)

Cell(b, wide) == [bit |-> b, wide |-> wide]

Positions(written) == UNION {{<<r, i>> : i \in 1 .. Len(written[r])} : r \in RoleIds}
CellAt(written, p) == written[p[1]][p[2]]
Wide(written) == {p \in Positions(written) : CellAt(written, p).wide}

(* How often a step occurs: a wide cell holds it twice.                     *)
Multiplicity(written, s) ==
    LET leg   == written[s.role]
        cells == {i \in DOMAIN leg : leg[i].bit = s.bit}
    IN  Cardinality(cells) + Cardinality({i \in cells : leg[i].wide})

(* The staffing question: which (bit, role) pairs the workflow needs.       *)
Distinct(written) == {s \in StepSet : Multiplicity(written, s) > 0}

(* The pricing question: step occurrences, spiders excluded.                *)
Total(written) == Cardinality(Positions(written)) + Cardinality(Wide(written))

RequiredMask(steps) == {s.bit : s \in steps}

(* The writings draw_shape may give a task's steps: per role the steps in   *)
(* ascending bit order, each but the first of its leg wide or not.          *)
TaggedSteps(tags) == {Step(b, tags[b]) : b \in DOMAIN tags}
LegBits(steps, r) ==
    Picked([i \in 1 .. Bits |-> i - 1], {i \in 1 .. Bits : Step(i - 1, r) \in steps})
DrawShape(steps) ==
    LET later == {p \in RoleIds \X (2 .. Bits) : p[2] <= Len(LegBits(steps, p[1]))}
    IN  {[r \in RoleIds |-> [i \in DOMAIN LegBits(steps, r) |->
                                Cell(LegBits(steps, r)[i], <<r, i>> \in fanout)]] :
            fanout \in SUBSET later}

-----------------------------------------------------------------------------
(* The rule theory.                                                         *)

FusionTarget(b, c) == (b + c + 4) % Bits

(* All ordered pairs of bits, ascending.                                    *)
BitPairs == [i \in 1 .. Bits * Bits |-> <<(i - 1) \div Bits, (i - 1) % Bits>>]

(* mutant: a pair is fused even when its target is one of the two. *)
FusionPairs_any ==
    Picked(BitPairs, {i \in DOMAIN BitPairs : BitPairs[i][1] # BitPairs[i][2]})

(* The pairs of distinct bits whose target is neither of them; the same     *)
(* for every role.                                                          *)
Fuses(p) == p[1] # p[2] /\ FusionTarget(p[1], p[2]) \notin {p[1], p[2]}
FusionPairs == Picked(BitPairs, {i \in DOMAIN BitPairs : Fuses(BitPairs[i])})

CheckShape == Bits > 0 /\ Roles > 0 /\ FusionPairs # << >>

Label(schema, first, second, target) ==
    [schema |-> schema, sources |-> <<first, second>>, target |-> target]

(* The labels in theory order: for every role its idempotence rules, then   *)
(* for every role its fusions, then for every role its absorptions.  A      *)
(* trace names a rule by its index in this sequence.                        *)
OneStepRules(schema) ==
    [i \in 1 .. Roles * Bits |->
        LET s == Step((i - 1) % Bits, (i - 1) \div Bits) IN Label(schema, s, s, s)]

FusionRules ==
    [i \in 1 .. Roles * Len(FusionPairs) |->
        LET p == FusionPairs[((i - 1) % Len(FusionPairs)) + 1]
            r == (i - 1) \div Len(FusionPairs)
        IN  Label("fusion", Step(p[1], r), Step(p[2], r), Step(FusionTarget(p[1], p[2]), r))]

RuleTheory == OneStepRules("idempotence") \o FusionRules \o OneStepRules("absorption")

(* The cells a rule's left-hand side is made of.                            *)
Idempotence(rule) == <<Cell(rule.sources[1].bit, FALSE), Cell(rule.sources[2].bit, FALSE)>>
Fusion(rule) == <<Cell(rule.sources[1].bit, FALSE), Cell(rule.sources[2].bit, FALSE)>>
SpiderAbsorption(rule) == <<Cell(rule.sources[1].bit, TRUE)>>

LeftSide(rule) == CASE rule.schema = "idempotence" -> Idempotence(rule)
                    [] rule.schema = "fusion"      -> Fusion(rule)
                    [] rule.schema = "absorption"  -> SpiderAbsorption(rule)

(* A rule matches at a position where its left side begins, and puts one    *)
(* narrow cell in place of what it matched.                                 *)
Matches(written, rule, i) ==
    LET leg == written[rule.target.role]
        n   == Len(LeftSide(rule))
    IN  i + n - 1 <= Len(leg) /\ SubSeq(leg, i, i + n - 1) = LeftSide(rule)

Rewrite(written, rule, i) ==
    LET leg == written[rule.target.role]
    IN  [written EXCEPT ![rule.target.role] =
            SubSeq(leg, 1, i - 1) \o <<Cell(rule.target.bit, FALSE)>>
                \o SubSeq(leg, i + Len(LeftSide(rule)), Len(leg))]

-----------------------------------------------------------------------------
(* The staffing table over a pool: Agents -> [caps : SUBSET Bit, role].     *)

Holders(pool, s) == {a \in DOMAIN pool : s.bit \in pool[a].caps /\ s.role = pool[a].role}
IsStaffable(pool, s) == Holders(pool, s) # {}
Scarcity(pool, s) == Cardinality(DOMAIN pool) - Cardinality(Holders(pool, s))
Price(pool, s) == 1 + Scarcity(pool, s)

(* The cost of a writing: every hyperedge counts, a spider always 1.        *)
Spiders(written) == 2 * Cardinality(Wide(written))
UniformCost(written) == Total(written) + Spiders(written)
StaffingPrice(pool, written) ==
    Spiders(written)
        + SumFunctionOnSet([s \in StepSet |-> Multiplicity(written, s) * Price(pool, s)],
                           Distinct(written))
=============================================================================
