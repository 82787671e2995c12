--------------------------- MODULE ResidualPolicy ---------------------------
(***************************************************************************)
(* ResidualPolicy (src/src/process/residual.rs): a MagnitudePolicy whose   *)
(* score is corrected by lambda times the price of the steps the agent     *)
(* would cover or uncover.  The wrapper asks its inner policy on the same  *)
(* snapshot, so the inner cache moves with it.  The decline counter counts *)
(* the answers given as "refused".                                         *)
(***************************************************************************)
EXTENDS MagnitudePolicy, ProcessTheory

CONSTANTS
    Lambdas,        \* the coefficients a caller may pass, bad ones included
    Residuals       \* priced residuals: a bag of steps with a price each

(* A step has a price that is a count.                                      *)
ASSUME PricesAreCounts ==
    \A p \in Residuals : IsFiniteSet(DOMAIN p) /\ p \in [DOMAIN p -> Nat]

(* A side the untyped probe can evaluate, the typed arm can: what the       *)
(* wrapper assumes, and says it assumes (residual.rs:392-399).              *)
ASSUME ProbeSeesFailures ==
    \A required \in Requirements, A \in (SUBSET DOMAIN Staff) \ {{}} :
        \A s \in LineUps(A) :
            LET typed == TypedMagnitude([k \in DOMAIN s |-> Staff[s[k]]], required)
            IN  /\ typed \in Measured
                /\ MagnitudeOf(CapsOf(s), required).ok => typed.ok

VARIABLE residual   \* the wrapper: lambda, priced
resvars == <<magvars, residual>>

(* Residual::new: occurrences keep their multiplicity, distinct steps do    *)
(* not; price is per_gen of the step, spiders are never priced.             *)
Priced(written, basis, perGen) ==
    [s \in Distinct(written) |->
        perGen[s] * IF basis = "Occurrences" THEN Multiplicity(written, s) ELSE 1]

(* new: a negative or non-finite coefficient is clamped to zero.            *)
Clamped(lambda) == IF lambda \in Nat THEN lambda ELSE 0

StepStaffed(agents, s) ==
    \E a \in ToSet(agents) : Staff[a].role = s.role /\ s.bit \in Staff[a].caps

Uncovered(agents) ==
    SumFunctionOnSet(residual.priced,
                     {s \in DOMAIN residual.priced : ~StepStaffed(agents, s)})

HasRoles(agents) == \A a \in ToSet(agents) : Staff[a].role # NoValue

(* The probe evaluates both sides untyped.                                  *)
EvaluationFailed(c) ==
    \E side \in {With(c), Without(c)} :
        ~MagnitudeOrZero(Masks(side, c.required), c.required).ok

(* mutant: the sides of the difference swapped, so nothing is corrected.  *)
FoldedSwapped(c, base) ==
    LET gained == Uncovered(With(c)) - Uncovered(Without(c))
        score == base.score + residual.lambda * (IF gained > 0 THEN gained ELSE 0)
    IN  Decision(IF c.kind = "join" THEN score > policy.join_margin ELSE score <= 0, score)

(* fold: the act is derived again from the corrected score.                 *)
Folded(c, base) ==
    LET gained == Uncovered(Without(c)) - Uncovered(With(c))
        score == base.score + residual.lambda * (IF gained > 0 THEN gained ELSE 0)
    IN  Decision(IF c.kind = "join" THEN score > policy.join_margin ELSE score <= 0, score)

ResInit ==
    /\ MagInit
    /\ \E lambda \in Lambdas, priced \in Residuals :
          residual = [lambda |-> Clamped(lambda), priced |-> priced]

(* should_join and should_leave of the wrapper.  A participant without a    *)
(* role forwards the inner decision; a failed probe never asks the inner    *)
(* policy; otherwise the inner score is folded.                             *)
ResidualDecides ==
    /\ policy.kind = "policy" /\ answer = NoValue
    /\ \E c \in Calls, noise \in -Noise .. Noise, proof \in Certificates :
         /\ Reasonable(c)
         /\ LET d == Decided(c, noise, proof)
                forwarded == ~HasRoles(With(c)) \/ ~HasRoles(Without(c))
                refused == ~forwarded /\ EvaluationFailed(c)
            IN  /\ cache' = IF refused THEN cache ELSE d.entry
                /\ answer' = [call |-> c,
                              inner |-> IF refused THEN Decline ELSE d.decision,
                              how |-> IF forwarded THEN "forwarded"
                                      ELSE IF refused THEN "refused" ELSE "folded",
                              outer |-> IF refused THEN Decline
                                        ELSE IF forwarded THEN d.decision
                                        ELSE Folded(c, d.decision)]
    /\ UNCHANGED <<policy, residual>>

(* A bare clone of the inner policy shares its cache.                       *)
ResNext ==
    \/ ResidualDecides
    \/ (Decide \/ CalculateValue \/ Returned) /\ UNCHANGED residual
ResSpec == ResInit /\ [][ResNext]_resvars

-----------------------------------------------------------------------------
(* A member whose removal would leave some priced step without anyone.      *)
SoleCoverer(c) ==
    \E s \in DOMAIN residual.priced :
        /\ residual.priced[s] > 0
        /\ StepStaffed(With(c), s) /\ ~StepStaffed(Without(c), s)

(***************************************************************************)
(* The correction only ever keeps: with every role known, the wrapper      *)
(* joins whenever its inner policy does and leaves only when it does, it   *)
(* is its inner policy at lambda zero, a lambda above every magnitude      *)
(* difference admits and keeps a sole coverer, and the wrapper and the     *)
(* inner policy agree on what is declined (the four properties of the      *)
(* module's documentation, for roles within the modulation's range).       *)
(***************************************************************************)
ResidualOnlyKeeps ==
    answer # NoValue /\ policy.kind = "policy" /\ "outer" \in DOMAIN answer =>
        LET c == answer.call
        IN  /\ c.kind = "join" /\ answer.inner.act => answer.outer.act
            /\ c.kind = "leave" /\ answer.outer.act => answer.inner.act
            /\ residual.lambda = 0 => answer.outer = answer.inner
            /\ answer.how = "refused" => ~FreshDecision(c).act
            /\ answer.how = "folded" /\ SoleCoverer(c)
                 /\ residual.lambda > Distance(policy.join_margin) + Distance(answer.inner.score)
               => answer.outer.act = (c.kind = "join")
=============================================================================
