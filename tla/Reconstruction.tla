--------------------------- MODULE Reconstruction ---------------------------
(***************************************************************************)
(* What a trace alone says of a run (harness/recon.rs): the replay of its  *)
(* entries over the instance, with no policy, and the sums over the task   *)
(* ends by realised roster size; and what the harness promises of a run.   *)
(***************************************************************************)
EXTENDS WorkflowHarness

(* The entries a task expects, in order: a join for every arrival but the   *)
(* first, then a leave for every arrival that is a member by then.          *)
Slot(t, kind, a) == [task |-> t, kind |-> kind, agent |-> a]

Slots(t) ==
    LET arrival == Task(t).arrival
    IN  [i \in DOMAIN arrival |-> Slot(t, IF i = 1 THEN "first" ELSE "join", arrival[i])]
            \o [i \in DOMAIN arrival |-> Slot(t, "leave", arrival[i])]
            \o <<Slot(t, "end", None)>>

(* mutant: a leave is expected of every arrival, member or not. *)
Replayed_everyone(entries, acc, slot) ==
    LET leave   == slot.kind = "leave"
        entry   == entries[acc.next]
    IN  IF acc.error # "none" THEN acc
        ELSE IF slot.kind = "first" THEN [acc EXCEPT !.members = {slot.agent}]
        ELSE IF slot.kind = "end" THEN [acc EXCEPT !.ends = Append(@, TaskEnd(slot.task, acc.members))]
        ELSE IF acc.next > Len(entries) THEN [acc EXCEPT !.error = "ends_early"]
        ELSE IF entry.leave # leave THEN [acc EXCEPT !.error = "wrong_kind"]
        ELSE [acc EXCEPT !.next = @ + 1,
                         !.churn = @ + IF leave /\ entry.act THEN 1 ELSE 0,
                         !.members = IF ~entry.act THEN @
                                     ELSE IF leave THEN @ \ {slot.agent} ELSE @ \cup {slot.agent}]

Replayed(entries, acc, slot) ==
    LET leave   == slot.kind = "leave"
        expects == slot.kind = "join" \/ (leave /\ slot.agent \in acc.members)
        entry   == entries[acc.next]
    IN  IF acc.error # "none" THEN acc
        ELSE IF slot.kind = "first" THEN [acc EXCEPT !.members = {slot.agent}]
        ELSE IF slot.kind = "end" THEN [acc EXCEPT !.ends = Append(@, TaskEnd(slot.task, acc.members))]
        ELSE IF ~expects THEN acc
        ELSE IF acc.next > Len(entries) THEN [acc EXCEPT !.error = "ends_early"]
        ELSE IF entry.leave # leave THEN [acc EXCEPT !.error = "wrong_kind"]
        ELSE [acc EXCEPT !.next = @ + 1,
                         !.churn = @ + IF leave /\ entry.act THEN 1 ELSE 0,
                         !.members = IF ~entry.act THEN @
                                     ELSE IF leave THEN @ \ {slot.agent} ELSE @ \cup {slot.agent}]

Reconstruct(entries) ==
    LET recon == FoldLeft(LAMBDA acc, slot : Replayed(entries, acc, slot),
                          [next |-> 1, members |-> {}, ends |-> << >>, churn |-> 0, error |-> "none"],
                          FlattenSeq([t \in DOMAIN instance.tasks |-> Slots(t)]))
    IN  IF recon.error = "none" /\ recon.next <= Len(entries)
        THEN [recon EXCEPT !.error = "leftover"] ELSE recon

(* Row 0 is over every task, row r over the tasks of roster size r; a task  *)
(* whose roster is empty or larger than max_roster is in row 0 alone.       *)
InRow(end, r) == r = 0 \/ Cardinality(end.roster) = r

RosterRow(ends, r) ==
    LET mine == {t \in DOMAIN ends : InRow(ends[t], r)}
    IN  [tasks         |-> Cardinality(mine),
         successes     |-> Cardinality({t \in mine : Success(t, ends[t])}),
         final_members |-> MapThenSumSet(LAMBDA t : Cardinality(ends[t].members), mine),
         empty         |-> Cardinality({t \in mine : ends[t].members = {}}),
         off_demand    |-> MapThenSumSet(LAMBDA t : Cardinality(ends[t].off_demand), mine)]

RosterDecomposition(ends, max_roster) == [r \in 0 .. max_roster |-> RosterRow(ends, r)]

-----------------------------------------------------------------------------
(***************************************************************************)
(* A run and its trace tell the same story.  The replay of the trace ends  *)
(* every task as the run ended it, with the same churn; a trace cut short  *)
(* anywhere is refused as ending early and one with an entry too many as   *)
(* leftover, and an entry of the other kind is refused wherever it stands; *)
(* the roster rows add up to the row over every task.  This holds of a     *)
(* policy that answers freely, and so of every policy the harness runs.    *)
(***************************************************************************)
ReconstructionAgrees ==
    bench.phase = "done" /\ Workflow /\ conf.policy = "any" =>
        LET recon == Reconstruct(trace)
            rows  == RosterDecomposition(recon.ends, Roles)
            Flipped(i) == [trace EXCEPT ![i].leave = ~@]
        IN  /\ recon.error = "none"
            /\ recon.ends = results
            /\ recon.churn = bench.churn
            /\ \A i \in DOMAIN trace :
                  /\ Reconstruct(SubSeq(trace, 1, i - 1)).error = "ends_early"
                  /\ Reconstruct(Flipped(i)).error = "wrong_kind"
            /\ \A leave, act \in BOOLEAN :
                  Reconstruct(Append(trace, [leave |-> leave, act |-> act])).error = "leftover"
            /\ \A field \in DOMAIN rows[0] :
                  rows[0][field] = MapThenSumSet(LAMBDA r : rows[r][field], 1 .. Roles)

(***************************************************************************)
(* The prunes lose no coverage and the plain one keeps nobody it could do  *)
(* without: over the roles the policy knows, the final members cover every *)
(* step the pool covers; no member of the plain prune's coalition is       *)
(* redundant in it, though each was asked only once; and the identity      *)
(* prune keeps, for every step, a member whose record over the tasks so    *)
(* far is as good as anybody's who covers it.  The records are those of    *)
(* the tasks as they ended.                                                *)
(***************************************************************************)
History(a, ends) ==
    LET mine == {t \in DOMAIN ends : /\ a \in conf.known /\ a \in ends[t].members
                                     /\ \E s \in ends[t].steps : Covers(Caps, KnownRoles, a, s)}
    IN  <<Cardinality({t \in mine : a \in Performed(t, ends[t].members)}), Cardinality(mine)>>

PruneKeepsTheBest ==
    \A t \in DOMAIN results :
        LET end      == results[t]
            Holds(s) == {a \in PoolAgents : Covers(Caps, KnownRoles, a, s)}
            before   == [i \in 1 .. t - 1 |-> results[i]]
        IN  /\ conf.policy \in {"keep", "prune", "prune_id"} =>
                  \A s \in end.steps : Holds(s) # {} => Holds(s) \cap end.members # {}
            /\ conf.policy = "prune" =>
                  \A m \in end.members : \E s \in end.steps : Holds(s) \cap end.members = {m}
            /\ conf.policy = "prune_id" =>
                  /\ \A s \in end.steps : \A a \in Holds(s) :
                        \E m \in Holds(s) \cap end.members :
                            AtLeast(History(m, before), History(a, before))
                  /\ \A a \in PoolAgents : ref.records[a] = History(a, results)

(***************************************************************************)
(* The active-inference policies, over a whole task.  Unless a member's    *)
(* beliefs speak against its partners, the sweep loses no required bit the *)
(* joins brought; without beliefs it keeps nobody redundant, though each   *)
(* was asked once; if nobody has all the required bits of the first        *)
(* arrival, the task ends with every bit the pool can cover; and a refused *)
(* engine moves nobody (aif_policy.rs, "if removing it does not raise G it *)
(* is redundant and should leave").  Who has all the first arrival's bits  *)
(* gains nothing by joining and is refused, so the third part needs its    *)
(* condition.                                                              *)
(***************************************************************************)
Joined(t) ==
    LET arrival == Task(t).arrival
        Admit(in, a) ==
            IF AifActs(conf.policy, conf.aif, Caps, Required(t), a, in, FALSE) THEN in \cup {a} ELSE in
    IN  FoldLeft(Admit, {arrival[1]}, Tail(arrival))

AifKeepsCoverage ==
    \A t \in DOMAIN results :
        LET members  == results[t].members
            joined   == Joined(t)
            first    == Task(t).arrival[1]
            Brings(S) == UnionCaps(Caps, S) \cap Required(t)
            beliefs  == conf.policy = "aif" /\ conf.aif.belief_weight > 0
            agreed   == \A S \in SUBSET joined : \A a \in S : Alignment(a, S) >= Neutral
        IN  conf.policy \in {"aif", "aif_mm"} =>
              IF ~conf.aif.engine_ok THEN members = {first}
              ELSE /\ ~beliefs \/ agreed => Brings(members) = Brings(joined)
                   /\ ~beliefs =>
                         \A m \in members : Brings(members \ {m}) # Brings(members)
                   /\ /\ ~beliefs /\ conf.aif.join_margin = 0
                      /\ \A a \in PoolAgents \ {first} : ~(Brings({first}) \subseteq Brings({a}))
                      => Brings(members) = Brings(PoolAgents)

(* What a leave sweep of any pruning policy leaves behind.                  *)
SweepsKeepCoverage == PruneKeepsTheBest /\ AifKeepsCoverage

(***************************************************************************)
(* The group policy's ledger.  Every decision is counted once, as a read   *)
(* or as one of three declines, the one in flight excepted, and every      *)
(* deterministic read leaves an agreement sample; with role-matched masks  *)
(* at most one query of a leave can tell leaving from staying; every task  *)
(* was opened or rejected; and the learning gate is exact just when no     *)
(* model missed an update it was owed.                                     *)
(***************************************************************************)
GroupAccounts ==
    bench.phase \notin {"idle", "refused"} /\ conf.policy = "group" =>
        LET g      == group
            leaves == Cardinality({i \in DOMAIN trace : trace[i].leave}) + other.leaves
        IN  /\ g.decisions = g.reads + g.declines_upstream + g.declines_missing_role
                                + g.declines_no_demand + IF other.ask = None THEN 0 ELSE 1
            /\ g.decisions = Len(trace) + other.asked
            /\ g.agreement = IF g.config.sampled THEN 0 ELSE g.reads
            /\ g.routed_reads <= g.reads
            /\ g.config.matched => g.leave_queries - g.leave_queries_identical <= leaves
            /\ g.opened + g.begin_task_rejections = bench.task
            /\ bench.phase \in {"begin", "done"} => (SLearnExact(g) <=> ~bench.missed)

(***************************************************************************)
(* Every role's model learns from its own role's steps and from nothing    *)
(* else: its window holds the outcomes of the last REPLAY_CAP tasks it was *)
(* rostered on, in order, each bit a success just when that role's step on *)
(* the bit was covered (and performed, under the signal "both"), a bit of  *)
(* another role's or of an earlier task's demand never observed.           *)
(***************************************************************************)
ModelsSeeTheirSteps ==
    /\ bench.phase \in {"begin", "done"} /\ Workflow
    /\ conf.policy = "group" /\ conf.signal # "performance" /\ ~conf.group.shared
    => LET width    == conf.group.n_bits
           InRange(t) == \A s \in results[t].steps : s.role < conf.group.n_roles
           Mine(t, r) == {s \in results[t].steps : s.role = r /\ s.bit < width}
           Met(t)   == IF conf.signal = "both" THEN results[t].performed ELSE results[t].covered
           Seen(r)  == Picked([t \in DOMAIN results |-> t],
                              {t \in DOMAIN results : width = Bits /\ InRange(t) /\ Mine(t, r) # {}})
           Outcome(t, r) == [b \in Bit |-> IF Step(b, r) \notin Mine(t, r) THEN "no_obs"
                                           ELSE IF Step(b, r) \in Met(t) THEN "success" ELSE "failure"]
           Window(s) == SubSeq(s, Max({1, Len(s) - REPLAY_CAP + 1}), Len(s))
       IN  \A r \in DOMAIN group.model :
              LET window == Window(Seen(r))
              IN  group.model[r].replay = [i \in DOMAIN window |-> Outcome(window[i], r)]
=============================================================================
