-------------------------- MODULE OutcomeFeedback ---------------------------
(***************************************************************************)
(* Task outcomes on their way back into the decisions: the outcome tap and *)
(* its forwarder (src/subsystems/outcome.rs), the FeedbackStore that       *)
(* counts them (src/algorithms/feedback.rs) and a join decision of         *)
(* ThresholdPolicy over a FeedbackCalculator (src/decision/mod.rs), which  *)
(* reads the store twice while outcomes keep coming in.                    *)
(*                                                                         *)
(* Sink 1 is the FeedbackStore, the others are closures that may panic.    *)
(* HISTORY_UNIT, FAILURE_UNIT and the weights are 1, the base value of a   *)
(* coalition is its size.                                                  *)
(***************************************************************************)
EXTENDS Integers, Sequences, FiniteSets, SequencesExt

CONSTANTS Agents,
          Coalition, Candidate,   \* the members and the candidate of a join
          Outcomes,               \* a set of [members, success]
          NSinks,                 \* sinks of the forwarder
          TapCap,                 \* capacity of the tap
          MaxOutcomes,            \* bound: outcomes emitted
          MaxSeeds                \* bound: seeded episodes

ASSUME AgentsOK ==
    /\ IsFiniteSet(Agents)
    /\ Coalition \subseteq Agents /\ Candidate \in Agents \ Coalition
ASSUME OutcomesOK == Outcomes \subseteq [members : Seq(Agents), success : BOOLEAN]
ASSUME OutcomeBounds ==
    /\ NSinks \in Nat \ {0} /\ TapCap \in Nat \ {0}
    /\ MaxOutcomes \in Nat /\ MaxSeeds \in Nat

VARIABLES
    emitted,               \* outcomes emitted
    tap, tapOpen,          \* the tap's channel
    cancelled,
    accepted,              \* history: what the tap took, in order
    fwd,                   \* the forwarder: [step, outcome, sink]
    called,                \* per sink: the outcomes it was called with
    records,               \* FeedbackStore: per agent [history, failures]
    seeded,                \* history: episodes added by add_history
    decision               \* a should_join or should_leave under way

channel == <<emitted, tap, tapOpen, accepted>>
forwarder == <<fwd, called>>
vars == <<channel, cancelled, forwarder, records, seeded, decision>>

Sinks == 1..NSinks
NoOutcome == [members |-> <<>>, success |-> TRUE]
NoDecision == [step |-> "none", first |-> 0, marginal |-> 0,
               candidate |-> 0, disturbed |-> FALSE]

Init ==
    /\ emitted = 0 /\ tap = <<>> /\ tapOpen = TRUE /\ accepted = <<>>
    /\ cancelled = FALSE
    /\ fwd = [step |-> "recv", outcome |-> NoOutcome, sink |-> 1]
    /\ called = [s \in Sinks |-> <<>>]
    /\ records = [a \in Agents |-> [history |-> 0, failures |-> 0]]
    /\ seeded = [a \in Agents |-> 0]
    /\ decision = NoDecision

Cancel ==
    /\ ~cancelled /\ cancelled' = TRUE
    /\ UNCHANGED <<channel, forwarder, records, seeded, decision>>

DropTap ==
    /\ tapOpen /\ tapOpen' = FALSE
    /\ UNCHANGED <<emitted, tap, accepted, cancelled, forwarder, records,
                   seeded, decision>>

(* try_send: a full tap, or one whose forwarder is gone, drops it. *)
emit_outcome(o) ==
    /\ tapOpen /\ emitted < MaxOutcomes
    /\ emitted' = emitted + 1
    /\ IF Len(tap) < TapCap /\ fwd.step # "stopped"
       THEN tap' = Append(tap, o) /\ accepted' = Append(accepted, o)
       ELSE UNCHANGED <<tap, accepted>>
    /\ UNCHANGED <<tapOpen, cancelled, forwarder, records, seeded, decision>>

-----------------------------------------------------------------------------
(* FeedbackStore *)

Occurrences(members, a) == Cardinality({i \in DOMAIN members : members[i] = a})

(* The scalar of an outcome, doubled, against failure_threshold 0.5. *)
OutcomeValue(o) == IF o.success THEN 2 ELSE 0
Threshold == 1

(* The write lock is held over all members; ids count per occurrence. *)
record_outcome(o) ==
    records' = [a \in Agents |->
        LET n == Occurrences(o.members, a)
        IN  [history  |-> records[a].history + n,
             failures |-> records[a].failures
                          + (IF OutcomeValue(o) < Threshold THEN n ELSE 0)]]

Disturb == decision' = [decision EXCEPT !.disturbed =
                           @ \/ decision.step \in {"joins", "leaves"}]

(* seed_feedback_history adds the episodes of one agent. *)
add_history(a) ==
    /\ SumFunctionOnSet(seeded, Agents) < MaxSeeds
    /\ records' = [records EXCEPT ![a].history = @ + 1]
    /\ seeded' = [seeded EXCEPT ![a] = @ + 1]
    /\ Disturb
    /\ UNCHANGED <<channel, cancelled, forwarder>>

-----------------------------------------------------------------------------
(* spawn_outcome_forwarder *)

Receive ==
    /\ fwd.step = "recv" /\ ~cancelled /\ tap # <<>>
    /\ fwd' = [step |-> "deliver", outcome |-> Head(tap), sink |-> 1]
    /\ tap' = Tail(tap)
    /\ UNCHANGED <<emitted, tapOpen, accepted, cancelled, called, records,
                   seeded, decision>>

(* mutant: the cancel does not end the forwarder. *)
Stop_deaf ==
    /\ fwd.step = "recv" /\ ~tapOpen /\ tap = <<>>
    /\ fwd' = [fwd EXCEPT !.step = "stopped"]
    /\ UNCHANGED <<channel, cancelled, called, records, seeded, decision>>

Stop ==
    /\ fwd.step = "recv" /\ (cancelled \/ (~tapOpen /\ tap = <<>>))
    /\ fwd' = [fwd EXCEPT !.step = "stopped"]
    /\ UNCHANGED <<channel, cancelled, called, records, seeded, decision>>

NextSink ==
    IF fwd.sink < NSinks THEN [fwd EXCEPT !.sink = @ + 1]
    ELSE [step |-> "recv", outcome |-> NoOutcome, sink |-> 1]

(* mutant: a panicking sink ends the delivery of the outcome. *)
AfterPanic_ends == [step |-> "recv", outcome |-> NoOutcome, sink |-> 1]

(* catch_unwind: the next sink gets the outcome all the same. *)
AfterPanic == NextSink

on_outcome ==
    /\ fwd.step = "deliver"
    /\ called' = [called EXCEPT ![fwd.sink] = Append(@, fwd.outcome)]
    /\ \/ fwd' = NextSink
       \/ fwd.sink # 1 /\ fwd' = AfterPanic
    /\ IF fwd.sink = 1 THEN record_outcome(fwd.outcome) /\ Disturb
       ELSE UNCHANGED <<records, decision>>
    /\ UNCHANGED <<channel, cancelled, seeded>>

-----------------------------------------------------------------------------
(* ThresholdPolicy's decisions over a FeedbackCalculator: should_join reads  *)
(* the value without the candidate first, should_leave the one with it.     *)

(* The sums are taken under one read lock. *)
feedback_total(members) ==
    SumFunctionOnSet([a \in Agents |-> records[a].history], members)
    - SumFunctionOnSet([a \in Agents |-> records[a].failures], members)

calculate_value(members) ==
    IF members = {} THEN 0 ELSE Cardinality(members) + feedback_total(members)

ShouldJoinWithout ==
    /\ decision.step = "none"
    /\ decision' = [NoDecision EXCEPT !.step = "joins",
                       !.first = calculate_value(Coalition)]
    /\ UNCHANGED <<channel, cancelled, forwarder, records, seeded>>

(* mutant: the second value leaves out the feedback. *)
ShouldJoinWith_base ==
    /\ decision.step = "joins"
    /\ decision' = [decision EXCEPT !.step = "done",
                       !.marginal = Cardinality(Coalition) + 1 - decision.first,
                       !.candidate = 1 + records[Candidate].history
                                       - records[Candidate].failures]
    /\ UNCHANGED <<channel, cancelled, forwarder, records, seeded>>

ShouldJoinWith ==
    /\ decision.step = "joins"
    /\ decision' = [decision EXCEPT !.step = "done",
                       !.marginal = calculate_value(Coalition \union {Candidate})
                                    - decision.first,
                       !.candidate = 1 + records[Candidate].history
                                       - records[Candidate].failures]
    /\ UNCHANGED <<channel, cancelled, forwarder, records, seeded>>

ShouldLeaveWith ==
    /\ decision.step = "none"
    /\ decision' = [NoDecision EXCEPT !.step = "leaves",
                       !.first = calculate_value(Coalition \union {Candidate})]
    /\ UNCHANGED <<channel, cancelled, forwarder, records, seeded>>

(* mutant: the marginal of staying is taken the wrong way round. *)
ShouldLeaveWithout_swapped ==
    /\ decision.step = "leaves"
    /\ decision' = [decision EXCEPT !.step = "done",
                       !.marginal = calculate_value(Coalition) - decision.first,
                       !.candidate = 1 + records[Candidate].history
                                       - records[Candidate].failures]
    /\ UNCHANGED <<channel, cancelled, forwarder, records, seeded>>

ShouldLeaveWithout ==
    /\ decision.step = "leaves"
    /\ decision' = [decision EXCEPT !.step = "done",
                       !.marginal = decision.first - calculate_value(Coalition),
                       !.candidate = 1 + records[Candidate].history
                                       - records[Candidate].failures]
    /\ UNCHANGED <<channel, cancelled, forwarder, records, seeded>>

-----------------------------------------------------------------------------
Forwarder == Receive \/ Stop \/ on_outcome

Next ==
    \/ Cancel \/ DropTap \/ Forwarder
    \/ \E o \in Outcomes : emit_outcome(o)
    \/ \E a \in Agents : add_history(a)
    \/ ShouldJoinWithout \/ ShouldJoinWith
    \/ ShouldLeaveWith \/ ShouldLeaveWithout

Spec == Init /\ [][Next]_vars

(* The scheduler polls the forwarder. *)
FairSpec == Spec /\ WF_vars(Forwarder)

-----------------------------------------------------------------------------
Failures(outcomes) == {i \in DOMAIN outcomes : ~outcomes[i].success}

Counted(outcomes, positions, a) ==
    SumFunctionOnSet([i \in DOMAIN outcomes |-> Occurrences(outcomes[i].members, a)],
                     positions)

CountersMatchCalls ==
    \A a \in Agents :
        /\ records[a].history = seeded[a] + Counted(called[1], DOMAIN called[1], a)
        /\ records[a].failures = Counted(called[1], Failures(called[1]), a)

(***************************************************************************)
(* Every sink gets the accepted outcomes in order and once each, in the    *)
(* order of the sinks; a sink that panics takes nothing from the others,   *)
(* and the store's counters are those of its calls and seeds, per          *)
(* occurrence of the agent, failure being exactly ~success.  "Lossless     *)
(* shutdown" (outcome.rs): once the tap was dropped, with no cancel, every *)
(* accepted outcome reached every sink.                                    *)
(***************************************************************************)
SinksAgree ==
    /\ \A s \in Sinks :
          /\ IsPrefix(called[s], accepted)
          /\ Len(called[1]) - Len(called[s]) =
                IF fwd.step = "deliver" /\ 1 < fwd.sink /\ fwd.sink <= s
                THEN 1 ELSE 0
    /\ CountersMatchCalls
    /\ fwd.step = "stopped" /\ ~cancelled =>
          \A s \in Sinks : called[s] = accepted

(***************************************************************************)
(* The marginal of a join, and of a stay, is the base's plus the           *)
(* candidate's own counters, as long as no counter changed between the two *)
(* reads of the store.                                                     *)
(***************************************************************************)
QuietMarginal ==
    decision.step = "done" /\ ~decision.disturbed =>
        decision.marginal = decision.candidate

(* The forwarder ends after a cancel, and after the tap was dropped. *)
ForwarderStops == (cancelled \/ ~tapOpen) ~> fwd.step = "stopped"
=============================================================================
