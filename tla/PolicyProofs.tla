---------------------------- MODULE PolicyProofs ----------------------------
(***************************************************************************)
(* The decision policies: the persistent arm's caps, the magnitude         *)
(* policy's cache, the residual wrapper's corrections, the outcomes that   *)
(* feed the policies, the group policy's ledger and models on the bench,   *)
(* and the rewriting of workflows.                                         *)
(***************************************************************************)
EXTENDS Reconstruction, WorkflowRewrite, PersistentArm, ResidualPolicy, OutcomeFeedback,
        DataLemmas

-----------------------------------------------------------------------------
(***************************************************************************)
(* The persistent arm's eviction cap and rejoin lockout hold for any       *)
(* number of callers, agents, tasks and decisions.  The inductive          *)
(* invariant counts the leaves in flight together with the evictions of    *)
(* the task: a leave past the check still has its eviction to come, so the *)
(* two together are bounded when it passes, and they move in step.         *)
(***************************************************************************)

Config  == [eviction_cap : {None} \union Nat, rejoin_lockout_tasks : Nat]
Verdict == [leave : BOOLEAN, agent : ArmAgents, task : Nat, overlapped : BOOLEAN]
AskType == [step : {"idle", "query", "count"}, leave : BOOLEAN,
            agent : ArmAgents \union {None}, overlapped : BOOLEAN]

ArmTypes ==
    /\ arm \in [tasks_observed : Nat, evictions_this_task : Nat,
                evicted_at : [ArmAgents -> Nat \union {None}], asked : Nat, config : Config]
    /\ asks \in [ArmCallers -> AskType]
    /\ \A c \in ArmCallers : /\ asks[c].step # "idle" => asks[c].agent \in ArmAgents
                             /\ asks[c].step = "count" => asks[c].leave
    /\ verdicts \in Seq(Verdict)

cap == arm.config.eviction_cap
N   == Cardinality(ArmCallers)

(* The leaves past the cap's check. *)
InFlight == {c \in ArmCallers : asks[c].step # "idle" /\ asks[c].leave}

(* The counter is the task's evictions, and no verdict is of a later task. *)
CountInv ==
    /\ arm.evictions_this_task = Cardinality(EvictionsIn(arm.tasks_observed))
    /\ \A i \in 1..Len(verdicts) : verdicts[i].task <= arm.tasks_observed

CapInv ==
    cap # None =>
        /\ cap = 0 => InFlight = {} /\ arm.evictions_this_task = 0
        /\ cap # 0 => arm.evictions_this_task + Cardinality(InFlight) <= cap + N - 1
        /\ \A t \in 0..(arm.tasks_observed - 1) :
              Cardinality(EvictionsIn(t)) <= cap + (IF cap = 0 THEN 0 ELSE N - 1)

(* Verdict j is the last eviction of a among the first n. *)
LastOf(j, a, n) ==
    /\ j \in 1..n /\ verdicts[j].leave /\ verdicts[j].agent = a
    /\ \A k \in (j + 1)..n : ~(verdicts[k].leave /\ verdicts[k].agent = a)

(* evicted_at is the task of the last eviction, and a join that nothing    *)
(* overlapped since its check would still pass it.                         *)
LockInv ==
    /\ \A a \in ArmAgents, j \in 1..Len(verdicts) :
          LastOf(j, a, Len(verdicts)) => arm.evicted_at[a] = verdicts[j].task
    /\ \A c \in ArmCallers :
          asks[c].step = "query" /\ ~asks[c].leave /\ ~asks[c].overlapped
             => ~LockedOut(asks[c].agent)
    /\ \A i \in 1..Len(verdicts) :
          ~verdicts[i].leave /\ ~verdicts[i].overlapped =>
             \A j \in 1..(i - 1) : LastOf(j, verdicts[i].agent, i - 1) =>
                \/ verdicts[i].task <= verdicts[j].task
                \/ verdicts[i].task > verdicts[j].task + arm.config.rejoin_lockout_tasks

ArmInv == ArmTypes /\ CountInv /\ CapInv /\ LockInv

-----------------------------------------------------------------------------
(* The callers, and so the leaves in flight, are finitely many. *)
LEMMA CallersFinite ==
    ASSUME NEW S \in SUBSET ArmCallers
    PROVE  /\ N \in Nat /\ IsFiniteSet(S) /\ Cardinality(S) \in Nat /\ Cardinality(S) <= N
<1>1. N \in Nat
  BY CallersOK, FS_CardinalityType DEF N
<1>2. IsFiniteSet(S) /\ Cardinality(S) <= N
  BY CallersOK, FS_Subset DEF N
<1>3. Cardinality(S) \in Nat
  BY <1>2, FS_CardinalityType
<1> QED
  BY <1>1, <1>2, <1>3

(* So are the evictions of a task. *)
LEMMA EvictionsFinite ==
    ASSUME ArmTypes, NEW t
    PROVE  IsFiniteSet(EvictionsIn(t)) /\ Cardinality(EvictionsIn(t)) \in Nat
<1>1. Len(verdicts) \in Nat /\ DOMAIN verdicts = 1..Len(verdicts)
  BY DEF ArmTypes
<1>2. EvictionsIn(t) \in SUBSET (1..Len(verdicts))
  BY <1>1 DEF EvictionsIn
<1>3. IsFiniteSet(1..Len(verdicts))
  BY <1>1, FS_Interval
<1>4. IsFiniteSet(EvictionsIn(t))
  BY <1>2, <1>3, FS_Subset
<1> QED
  BY <1>4, FS_CardinalityType

(* What one more verdict changes. *)
LEMMA AppendVerdict ==
    ASSUME ArmTypes, NEW v \in Verdict, verdicts' = Append(verdicts, v)
    PROVE  /\ verdicts' \in Seq(Verdict) /\ Len(verdicts) \in Nat
           /\ Len(verdicts') = Len(verdicts) + 1
           /\ verdicts'[Len(verdicts) + 1] = v
           /\ \A i \in 1..Len(verdicts) : verdicts'[i] = verdicts[i]
           /\ \A t : EvictionsIn(t)' = IF v.leave /\ v.task = t
                                       THEN EvictionsIn(t) \union {Len(verdicts) + 1}
                                       ELSE EvictionsIn(t)
           /\ Len(verdicts) + 1 \notin 1..Len(verdicts)
<1>1. /\ verdicts' \in Seq(Verdict) /\ Len(verdicts) \in Nat
      /\ Len(verdicts') = Len(verdicts) + 1
      /\ verdicts'[Len(verdicts) + 1] = v
      /\ \A i \in 1..Len(verdicts) : verdicts'[i] = verdicts[i]
      /\ Len(verdicts) + 1 \notin 1..Len(verdicts)
      /\ DOMAIN verdicts = 1..Len(verdicts)
      /\ DOMAIN verdicts' = 1..(Len(verdicts) + 1)
  BY DEF ArmTypes
<1>2. 1..(Len(verdicts) + 1) = (1..Len(verdicts)) \union {Len(verdicts) + 1}
  BY <1>1
<1>3. ASSUME NEW t
      PROVE  EvictionsIn(t)' = IF v.leave /\ v.task = t
                               THEN EvictionsIn(t) \union {Len(verdicts) + 1}
                               ELSE EvictionsIn(t)
  <2>1. EvictionsIn(t)' = {i \in (1..Len(verdicts)) \union {Len(verdicts) + 1} :
                             verdicts'[i].leave /\ verdicts'[i].task = t}
    BY <1>1, <1>2 DEF EvictionsIn
  <2>2. EvictionsIn(t) = {i \in 1..Len(verdicts) : verdicts'[i].leave /\ verdicts'[i].task = t}
    BY <1>1 DEF EvictionsIn
  <2> QED
    BY <1>1, <2>1, <2>2
<1> QED
  BY <1>1, <1>3

(* An earlier verdict's last eviction stays what it was. *)
LEMMA LastKept ==
    ASSUME Len(verdicts) \in Nat, NEW n \in 0..Len(verdicts), NEW j, NEW a,
           \A i \in 1..Len(verdicts) : verdicts'[i] = verdicts[i]
    PROVE  LastOf(j, a, n)' <=> LastOf(j, a, n)
<1>1. \A k \in 1..n : verdicts'[k] = verdicts[k]
  OBVIOUS
<1>2. ASSUME j \in 1..n PROVE \A k \in (j + 1)..n : k \in 1..n
  BY <1>2
<1> QED
  BY <1>1, <1>2 DEF LastOf

(* The fields of the arm. *)
LEMMA ArmFields ==
    ASSUME ArmTypes
    PROVE  /\ arm.tasks_observed \in Nat /\ arm.evictions_this_task \in Nat
           /\ arm.evicted_at \in [ArmAgents -> Nat \union {None}] /\ arm.asked \in Nat
           /\ arm.config \in Config /\ cap \in {None} \union Nat
           /\ arm.config.rejoin_lockout_tasks \in Nat
BY DEF ArmTypes, Config, cap

(* A step that ends no task and adds no verdict keeps the counts. *)
LEMMA CountKept ==
    ASSUME CountInv, UNCHANGED verdicts, arm'.tasks_observed = arm.tasks_observed,
           arm'.evictions_this_task = arm.evictions_this_task
    PROVE  CountInv'
BY DEF CountInv, EvictionsIn

(* Fewer leaves in flight keep the cap. *)
LEMMA CapKept ==
    ASSUME ArmTypes, CapInv, InFlight' \subseteq InFlight, \A t : EvictionsIn(t)' = EvictionsIn(t),
           arm'.config = arm.config, arm'.tasks_observed = arm.tasks_observed,
           arm'.evictions_this_task = arm.evictions_this_task
    PROVE  CapInv'
<1>1. InFlight' \in SUBSET InFlight
  OBVIOUS
<1>2. /\ N \in Nat /\ IsFiniteSet(InFlight) /\ Cardinality(InFlight) \in Nat
      /\ arm.evictions_this_task \in Nat /\ cap \in {None} \union Nat
  <2>1. InFlight \in SUBSET ArmCallers
    BY DEF InFlight
  <2> QED
    BY <2>1, CallersFinite, ArmFields
<1>3. Cardinality(InFlight') <= Cardinality(InFlight) /\ IsFiniteSet(InFlight')
  BY <1>1, <1>2, FS_Subset
<1>4. Cardinality(InFlight') \in Nat
  BY <1>3, FS_CardinalityType
<1>5. cap' = cap /\ N' = N
  BY DEF cap, N
<1>6. cap # None /\ cap # 0
         => arm.evictions_this_task + Cardinality(InFlight') <= cap + N - 1
  BY <1>2, <1>3, <1>4 DEF CapInv
<1>7. cap = 0 => InFlight' = {} /\ arm.evictions_this_task = 0
  BY <1>1, <1>2, CallersOK DEF CapInv
<1>8. cap # None => \A t \in 0..(arm.tasks_observed - 1) :
              Cardinality(EvictionsIn(t)) <= cap + (IF cap = 0 THEN 0 ELSE N - 1)
  BY DEF CapInv
<1> QED
  BY <1>5, <1>6, <1>7, <1>8 DEF CapInv

(* A caller asks: a leave that passes the check is in flight. *)
LEMMA AskStep ==
    ASSUME ArmInv, NEW c \in ArmCallers, NEW a \in ArmAgents, NEW leave \in BOOLEAN,
           Ask(c, a, leave)
    PROVE  ArmInv'
<1>1. ArmTypes /\ CountInv /\ CapInv /\ LockInv
  BY DEF ArmInv
<1>2. PICK x : /\ asks' = [asks EXCEPT ![c] = x]
               /\ \/ x = NoAsk
                  \/ /\ x = [step |-> "query", leave |-> leave, agent |-> a,
                              overlapped |-> FALSE]
                     /\ ~(IF leave THEN CapExhausted ELSE LockedOut(a))
  BY DEF Ask
<1>3. /\ asks[c].step = "idle" /\ UNCHANGED verdicts
      /\ arm' = [arm EXCEPT !.asked = arm.asked + 1]
  BY DEF Ask
<1>4. /\ arm'.tasks_observed = arm.tasks_observed
      /\ arm'.evictions_this_task = arm.evictions_this_task
      /\ arm'.evicted_at = arm.evicted_at /\ arm'.config = arm.config
      /\ arm' \in [tasks_observed : Nat, evictions_this_task : Nat,
                evicted_at : [ArmAgents -> Nat \union {None}], asked : Nat, config : Config]
  BY <1>1, <1>3 DEF ArmTypes
<1>5. x \in AskType /\ (x.step # "idle" => x.agent \in ArmAgents) /\ x.step # "count"
  <2>1. CASE x = NoAsk
    BY <2>1 DEF AskType, NoAsk
  <2>2. CASE x = [step |-> "query", leave |-> leave, agent |-> a, overlapped |-> FALSE]
    BY <2>2 DEF AskType
  <2> QED
    BY <1>2, <2>1, <2>2
<1>6. /\ asks' \in [ArmCallers -> AskType] /\ asks'[c] = x
      /\ \A d \in ArmCallers \ {c} : asks'[d] = asks[d]
  BY <1>1, <1>2, <1>5 DEF ArmTypes
<1>7. ArmTypes'
  BY <1>1, <1>3, <1>4, <1>5, <1>6 DEF ArmTypes
<1>8. CountInv'
  BY <1>1, <1>3, <1>4, CountKept
<1>9. CapInv'
  <2>1. CASE x.step = "idle" \/ ~x.leave
    <3>1. InFlight' \subseteq InFlight
      BY <1>6, <2>1 DEF InFlight
    <3>2. \A t : EvictionsIn(t)' = EvictionsIn(t)
      BY <1>3 DEF EvictionsIn
    <3> QED
      BY <1>1, <1>4, <3>1, <3>2, CapKept
  <2>2. CASE x.step # "idle" /\ x.leave
    <3>1. ~CapExhausted
      BY <1>2, <2>2 DEF NoAsk
    <3>2. cap # None => arm.evictions_this_task < cap
      BY <1>1, <3>1, ArmFields DEF CapExhausted, cap
    <3>3. InFlight' \in SUBSET ArmCallers
      BY DEF InFlight
    <3>4. Cardinality(InFlight') \in Nat /\ Cardinality(InFlight') <= N /\ N \in Nat
      BY <3>3, CallersFinite
    <3>5. cap' = cap /\ N' = N /\ \A t : EvictionsIn(t)' = EvictionsIn(t)
      BY <1>3, <1>4 DEF cap, N, EvictionsIn
    <3>6. cap # None => cap # 0 /\ arm.evictions_this_task + Cardinality(InFlight') <= cap + N - 1
      BY <1>1, <3>2, <3>4, ArmFields
    <3>7. cap # None => \A t \in 0..(arm.tasks_observed - 1) :
              Cardinality(EvictionsIn(t)) <= cap + (IF cap = 0 THEN 0 ELSE N - 1)
      BY <1>1 DEF CapInv
    <3> QED
      BY <1>4, <3>5, <3>6, <3>7 DEF CapInv
  <2> QED
    BY <2>1, <2>2
<1>10. LockInv'
  <2>1. \A b : LockedOut(b)' <=> LockedOut(b)
    BY <1>4 DEF LockedOut
  <2>2. \A j, b, n : LastOf(j, b, n)' <=> LastOf(j, b, n)
    BY <1>3 DEF LastOf
  <2>3. ASSUME NEW d \in ArmCallers, asks'[d].step = "query", ~asks'[d].leave,
               ~asks'[d].overlapped
        PROVE  ~LockedOut(asks'[d].agent)
    <3>1. CASE d = c
      BY <1>2, <1>6, <2>3, <3>1 DEF NoAsk
    <3>2. CASE d # c
      BY <1>1, <1>6, <2>3, <3>2 DEF LockInv
    <3> QED
      BY <3>1, <3>2
  <2> QED
    BY <1>1, <1>3, <1>4, <2>1, <2>2, <2>3 DEF LockInv
<1> QED
  BY <1>7, <1>8, <1>9, <1>10 DEF ArmInv

(* The engine answers: a leave that acts stays in flight, a join that acts *)
(* is a verdict its check still stands for.                                *)
LEMMA QueryStep ==
    ASSUME ArmInv, NEW c \in ArmCallers, NEW required, NEW p1, Query(c, required, p1)
    PROVE  ArmInv'
<1>1. ArmTypes /\ CountInv /\ CapInv /\ LockInv
  BY DEF ArmInv
<1>2. PICK x : /\ asks' = [asks EXCEPT ![c] = x]
               /\ x = NoAsk \/ (asks[c].leave /\ x = [asks[c] EXCEPT !.step = "count"])
  BY DEF Query
<1>3. asks[c].step = "query" /\ UNCHANGED arm
  BY DEF Query
<1>4. \/ UNCHANGED verdicts
      \/ ~asks[c].leave /\ verdicts' = Append(verdicts,
             [leave |-> FALSE, agent |-> asks[c].agent, task |-> arm.tasks_observed,
              overlapped |-> asks[c].overlapped])
  BY DEF Query
<1>5. /\ x \in AskType /\ x.step # "query" /\ (x.step # "idle" => x.agent \in ArmAgents)
      /\ x.step = "count" => x.leave
  <2>1. CASE x = NoAsk
    BY <2>1 DEF AskType, NoAsk
  <2>2. CASE asks[c].leave /\ x = [asks[c] EXCEPT !.step = "count"]
    BY <1>1, <1>3, <2>2 DEF AskType, ArmTypes
  <2> QED
    BY <1>2, <2>1, <2>2
<1>6. /\ asks' \in [ArmCallers -> AskType] /\ asks'[c] = x
      /\ \A d \in ArmCallers \ {c} : asks'[d] = asks[d]
  BY <1>1, <1>2, <1>5 DEF ArmTypes
<1>7. InFlight' \subseteq InFlight
  <2>1. x.step # "idle" => asks[c].leave
    BY <1>2 DEF NoAsk
  <2> QED
    BY <1>3, <1>6, <2>1 DEF InFlight
<1>8. ASSUME NEW d \in ArmCallers, asks'[d].step = "query"
      PROVE  d # c /\ asks'[d] = asks[d]
  BY <1>5, <1>6, <1>8
<1>9. CASE UNCHANGED verdicts
  <2>1. ArmTypes'
    BY <1>1, <1>3, <1>5, <1>6, <1>9 DEF ArmTypes
  <2>2. CountInv'
    BY <1>1, <1>3, <1>9, CountKept
  <2>3. CapInv'
    <3>1. \A t : EvictionsIn(t)' = EvictionsIn(t)
      BY <1>9 DEF EvictionsIn
    <3> QED
      BY <1>1, <1>3, <1>7, <3>1, CapKept
  <2>4. LockInv'
    <3>1. \A b : LockedOut(b)' <=> LockedOut(b)
      BY <1>3 DEF LockedOut
    <3>2. \A j, b, n : LastOf(j, b, n)' <=> LastOf(j, b, n)
      BY <1>9 DEF LastOf
    <3> QED
      BY <1>1, <1>3, <1>8, <1>9, <3>1, <3>2 DEF LockInv
  <2> QED
    BY <2>1, <2>2, <2>3, <2>4 DEF ArmInv
<1>10. CASE ~asks[c].leave /\ verdicts' = Append(verdicts,
             [leave |-> FALSE, agent |-> asks[c].agent, task |-> arm.tasks_observed,
              overlapped |-> asks[c].overlapped])
  <2>1. PICK v : v = [leave |-> FALSE, agent |-> asks[c].agent, task |-> arm.tasks_observed,
                      overlapped |-> asks[c].overlapped]
    OBVIOUS
  <2>2. /\ v \in Verdict /\ ~v.leave /\ v.agent = asks[c].agent /\ v.agent \in ArmAgents
        /\ v.task = arm.tasks_observed /\ (~v.overlapped => ~asks[c].overlapped)
    <3>1. asks[c] \in AskType /\ asks[c].agent \in ArmAgents /\ arm.tasks_observed \in Nat
      BY <1>1, <1>3, ArmFields DEF ArmTypes
    <3>2. asks[c].overlapped \in BOOLEAN
      BY <3>1 DEF AskType
    <3> QED
      BY <2>1, <3>1, <3>2 DEF Verdict
  <2>3. /\ verdicts' \in Seq(Verdict) /\ Len(verdicts) \in Nat
        /\ Len(verdicts') = Len(verdicts) + 1 /\ verdicts'[Len(verdicts) + 1] = v
        /\ \A i \in 1..Len(verdicts) : verdicts'[i] = verdicts[i]
        /\ \A t : EvictionsIn(t)' = EvictionsIn(t)
    <3>1. verdicts' = Append(verdicts, v)
      BY <1>10, <2>1
    <3> QED
      BY <1>1, <2>2, <3>1, AppendVerdict
  <2>4. ArmTypes'
    BY <1>1, <1>3, <1>5, <1>6, <2>3 DEF ArmTypes
  <2>5. CountInv'
    <3>1. ASSUME NEW i \in 1..Len(verdicts') PROVE verdicts'[i].task <= arm.tasks_observed
      <4>1. CASE i \in 1..Len(verdicts)
        BY <1>1, <2>3, <4>1 DEF CountInv
      <4>2. CASE i = Len(verdicts) + 1
        BY <1>1, <2>2, <2>3, <4>2, ArmFields
      <4> QED
        BY <2>3, <4>1, <4>2
    <3> QED
      BY <1>1, <1>3, <2>3, <3>1 DEF CountInv
  <2>6. CapInv'
    BY <1>1, <1>3, <1>7, <2>3, CapKept
  <2>7. LockInv'
    <3>1. \A b : LockedOut(b)' <=> LockedOut(b)
      BY <1>3 DEF LockedOut
    <3>2. \A j, b : \A n \in 0..Len(verdicts) : LastOf(j, b, n)' <=> LastOf(j, b, n)
      BY <2>3, LastKept
    <3>3. ASSUME NEW b \in ArmAgents, NEW j \in 1..Len(verdicts'),
                 LastOf(j, b, Len(verdicts))'
          PROVE  arm.evicted_at[b] = verdicts'[j].task
      <4>1. j # Len(verdicts) + 1
        BY <2>2, <2>3, <3>3 DEF LastOf
      <4>2. j \in 1..Len(verdicts)
        BY <2>3, <4>1
      <4>3. LastOf(j, b, Len(verdicts))
        <5>1. \A k \in (j + 1)..Len(verdicts) :
                 k \in (j + 1)..Len(verdicts') /\ k \in 1..Len(verdicts)
          BY <2>3, <4>2
        <5> QED
          BY <2>3, <3>3, <4>2, <5>1 DEF LastOf
      <4> QED
        BY <1>1, <2>3, <4>2, <4>3 DEF LockInv
    <3>4. ASSUME NEW i \in 1..Len(verdicts'), ~verdicts'[i].leave, ~verdicts'[i].overlapped,
                 NEW j \in 1..(i - 1), LastOf(j, verdicts[i].agent, i - 1)'
          PROVE  \/ verdicts'[i].task <= verdicts'[j].task
                 \/ verdicts'[i].task > verdicts'[j].task + arm.config.rejoin_lockout_tasks
      <4>0. i - 1 \in 0..Len(verdicts) /\ j \in 1..Len(verdicts)
        BY <2>3
      <4>1. LastOf(j, verdicts'[i].agent, i - 1)
        BY <2>3, <3>4, <4>0 DEF LastOf
      <4>2. CASE i \in 1..Len(verdicts)
        BY <1>1, <2>3, <3>4, <4>0, <4>1, <4>2 DEF LockInv
      <4>3. CASE i = Len(verdicts) + 1
        <5>1. verdicts'[i] = v /\ i - 1 = Len(verdicts)
          BY <2>3, <4>3
        <5>2. ~LockedOut(v.agent)
          BY <1>1, <1>3, <1>10, <2>2, <3>4, <5>1 DEF LockInv
        <5>3. arm.evicted_at[v.agent] = verdicts[j].task
          BY <1>1, <2>2, <4>0, <4>1, <5>1 DEF LockInv
        <5>4. verdicts[j].task \in Nat /\ verdicts[j].task # None
          <6>1. verdicts[j] \in Verdict
            BY <1>1, <4>0 DEF ArmTypes
          <6> QED
            BY <6>1, CallersOK DEF Verdict
        <5> QED
          BY SMTT(30), <1>1, <2>2, <2>3, <4>0, <5>1, <5>2, <5>3, <5>4, ArmFields DEF LockedOut
      <4> QED
        BY <2>3, <4>2, <4>3
    <3> QED
      BY <1>1, <1>3, <1>8, <3>1, <3>3, <3>4 DEF LockInv
  <2> QED
    BY <2>4, <2>5, <2>6, <2>7 DEF ArmInv
<1> QED
  BY <1>4, <1>9, <1>10

(* A step that others may notice: their decisions in progress are          *)
(* overlapped, and nothing else of them changes.                           *)
LEMMA OverlapEffect ==
    ASSUME ArmTypes, NEW c, NEW d \in ArmCallers, d # c
    PROVE  /\ Overlap(c)[d] \in AskType
           /\ Overlap(c)[d].step = asks[d].step /\ Overlap(c)[d].leave = asks[d].leave
           /\ Overlap(c)[d].agent = asks[d].agent
           /\ asks[d].step # "idle" => Overlap(c)[d].overlapped
<1>1. asks[d] \in AskType
  BY DEF ArmTypes
<1>2. PICK o \in BOOLEAN : /\ o = (asks[d].overlapped \/ (d # c /\ asks[d].step # "idle"))
                          /\ Overlap(c)[d] = [asks[d] EXCEPT !.overlapped = o]
  BY DEF Overlap
<1>3. asks[d].step # "idle" => o
  BY <1>2
<1> QED
  BY <1>1, <1>2, <1>3 DEF AskType

(* An eviction is counted: it leaves the flight and enters the counter. *)
LEMMA CountStep ==
    ASSUME ArmInv, NEW c \in ArmCallers, CountEviction(c)
    PROVE  ArmInv'
<1>1. ArmTypes /\ CountInv /\ CapInv /\ LockInv
  BY DEF ArmInv
<1>2. PICK a, T, v :
         /\ a = asks[c].agent /\ T = arm.tasks_observed /\ asks[c].step = "count"
         /\ arm' = [arm EXCEPT !.evictions_this_task = arm.evictions_this_task + 1,
                               !.evicted_at = [arm.evicted_at EXCEPT ![a] = T]]
         /\ v = [leave |-> TRUE, agent |-> a, task |-> T, overlapped |-> asks[c].overlapped]
         /\ verdicts' = Append(verdicts, v)
         /\ asks' = [Overlap(c) EXCEPT ![c] = NoAsk]
  BY DEF CountEviction
<1>3. /\ a \in ArmAgents /\ T \in Nat /\ asks[c].leave /\ asks[c] \in AskType
  BY <1>1, <1>2, ArmFields DEF ArmTypes
<1>4. /\ arm'.tasks_observed = T /\ arm'.config = arm.config
      /\ arm'.evictions_this_task = arm.evictions_this_task + 1
      /\ arm'.evicted_at[a] = T
      /\ \A b \in ArmAgents \ {a} : arm'.evicted_at[b] = arm.evicted_at[b]
      /\ arm' \in [tasks_observed : Nat, evictions_this_task : Nat,
                evicted_at : [ArmAgents -> Nat \union {None}], asked : Nat, config : Config]
  <2>1. [arm.evicted_at EXCEPT ![a] = T] \in [ArmAgents -> Nat \union {None}]
    BY <1>1, <1>3, ArmFields
  <2>2. arm.evictions_this_task + 1 \in Nat
    BY <1>1, ArmFields
  <2> QED
    BY <1>1, <1>2, <1>3, <2>1, <2>2 DEF ArmTypes
<1>5. v \in Verdict /\ v.leave /\ v.agent = a /\ v.task = T
  <2>1. asks[c].overlapped \in BOOLEAN
    BY <1>3 DEF AskType
  <2> QED
    BY <1>2, <1>3, <2>1 DEF Verdict
<1>6. /\ verdicts' \in Seq(Verdict) /\ Len(verdicts) \in Nat
      /\ Len(verdicts') = Len(verdicts) + 1 /\ verdicts'[Len(verdicts) + 1] = v
      /\ \A i \in 1..Len(verdicts) : verdicts'[i] = verdicts[i]
      /\ EvictionsIn(T)' = EvictionsIn(T) \union {Len(verdicts) + 1}
      /\ \A t : t # T => EvictionsIn(t)' = EvictionsIn(t)
      /\ Len(verdicts) + 1 \notin 1..Len(verdicts)
  BY SMTT(30), <1>1, <1>2, <1>5, AppendVerdict
<1>7. /\ asks' \in [ArmCallers -> AskType] /\ asks'[c] = NoAsk
      /\ \A d \in ArmCallers \ {c} : asks'[d] = Overlap(c)[d]
  <2>1. NoAsk \in AskType
    BY DEF NoAsk, AskType
  <2>2. DOMAIN Overlap(c) = ArmCallers
    BY DEF Overlap
  <2>3. \A d \in ArmCallers \ {c} : Overlap(c)[d] \in AskType
    BY <1>1, OverlapEffect
  <2>4. /\ DOMAIN asks' = ArmCallers /\ asks'[c] = NoAsk
        /\ \A d \in ArmCallers \ {c} : asks'[d] = Overlap(c)[d]
    BY <1>2, <2>2
  <2>5. \A d \in ArmCallers : asks'[d] \in AskType
    BY <2>1, <2>3, <2>4
  <2>6. asks' = [d \in ArmCallers |-> asks'[d]]
    BY <1>2, <2>2, <2>4
  <2> QED
    BY <2>4, <2>5, <2>6
<1>8. ASSUME NEW d \in ArmCallers, asks'[d].step # "idle"
      PROVE  /\ d # c /\ asks'[d].step = asks[d].step /\ asks'[d].leave = asks[d].leave
             /\ asks'[d].agent = asks[d].agent /\ asks'[d].overlapped
  <2>1. d # c
    BY <1>7, <1>8 DEF NoAsk
  <2> QED
    BY <1>1, <1>7, <1>8, <2>1, OverlapEffect
<1>9. ArmTypes'
  BY <1>1, <1>4, <1>6, <1>7, <1>8 DEF ArmTypes
<1>10. CountInv'
  <2>1. Cardinality(EvictionsIn(T)') = Cardinality(EvictionsIn(T)) + 1
    <3>1. Len(verdicts) + 1 \notin EvictionsIn(T)
      BY <1>1, <1>6 DEF EvictionsIn, ArmTypes
    <3>2. IsFiniteSet(EvictionsIn(T))
      BY <1>1, EvictionsFinite
    <3> QED
      BY <1>6, <3>1, <3>2, FS_AddElement
  <2>2. ASSUME NEW i \in 1..Len(verdicts') PROVE verdicts'[i].task <= T
    <3>1. CASE i \in 1..Len(verdicts)
      BY <1>1, <1>2, <1>6, <3>1 DEF CountInv
    <3>2. CASE i = Len(verdicts) + 1
      BY <1>3, <1>5, <1>6, <3>2
    <3> QED
      BY <1>6, <3>1, <3>2
  <2>3. arm.evictions_this_task = Cardinality(EvictionsIn(T))
    BY <1>1, <1>2 DEF CountInv
  <2>4. EvictionsIn(arm.tasks_observed)' = EvictionsIn(T)'
    BY <1>4 DEF EvictionsIn
  <2> QED
    BY <1>4, <2>1, <2>2, <2>3, <2>4 DEF CountInv
<1>11. CapInv'
  <2>1. c \in InFlight
    BY <1>2, <1>3 DEF InFlight
  <2>2. InFlight' \subseteq InFlight \ {c}
    BY <1>7, <1>8 DEF InFlight
  <2>3. /\ InFlight \in SUBSET ArmCallers /\ N \in Nat /\ cap \in {None} \union Nat
        /\ arm.evictions_this_task \in Nat
    BY <1>1, CallersFinite, ArmFields DEF InFlight
  <2>4. IsFiniteSet(InFlight) /\ Cardinality(InFlight) \in Nat
    BY <2>3, CallersFinite
  <2>5. /\ IsFiniteSet(InFlight \ {c})
        /\ Cardinality(InFlight \ {c}) = Cardinality(InFlight) - 1
    BY <2>1, <2>4, FS_RemoveElement
  <2>6. Cardinality(InFlight') <= Cardinality(InFlight) - 1 /\ IsFiniteSet(InFlight')
    BY <2>2, <2>5, FS_Subset
  <2>7. Cardinality(InFlight') \in Nat
    BY <2>6, FS_CardinalityType
  <2>8. cap' = cap /\ N' = N
    BY <1>4 DEF cap, N
  <2>9. cap # 0
    BY <1>1, <2>1, CallersOK DEF CapInv
  <2>10. cap # None => (arm.evictions_this_task + 1) + Cardinality(InFlight') <= cap + N - 1
    BY <1>1, <2>3, <2>4, <2>6, <2>7, <2>9 DEF CapInv
  <2>11. cap # None => \A t \in 0..(T - 1) :
            Cardinality(EvictionsIn(t)') <= cap + (IF cap = 0 THEN 0 ELSE N - 1)
    <3>1. \A t \in 0..(T - 1) : t # T
      BY <1>3
    <3> QED
      BY <1>1, <1>2, <1>6, <3>1 DEF CapInv
  <2> QED
    BY <1>4, <2>8, <2>9, <2>10, <2>11 DEF CapInv
<1>12. LockInv'
  <2>1. ASSUME NEW b \in ArmAgents, NEW j \in 1..Len(verdicts'), LastOf(j, b, Len(verdicts))'
        PROVE  arm'.evicted_at[b] = verdicts'[j].task
    <3>1. CASE j = Len(verdicts) + 1
      BY <1>4, <1>5, <1>6, <2>1, <3>1 DEF LastOf
    <3>2. CASE j # Len(verdicts) + 1
      <4>1. j \in 1..Len(verdicts) /\ Len(verdicts) + 1 \in (j + 1)..Len(verdicts')
        BY <1>6, <3>2
      <4>2. b # a
        BY <1>5, <1>6, <2>1, <4>1 DEF LastOf
      <4>3. LastOf(j, b, Len(verdicts))
        <5>1. \A k \in (j + 1)..Len(verdicts) :
                 k \in (j + 1)..Len(verdicts') /\ k \in 1..Len(verdicts)
          BY <1>6, <4>1
        <5> QED
          BY <1>6, <2>1, <4>1, <5>1 DEF LastOf
      <4> QED
        BY <1>1, <1>4, <1>6, <4>1, <4>2, <4>3 DEF LockInv
    <3> QED
      BY <3>1, <3>2
  <2>2. \A d \in ArmCallers : ~(asks'[d].step = "query" /\ ~asks'[d].leave /\ ~asks'[d].overlapped)
    BY <1>8
  <2>3. ASSUME NEW i \in 1..Len(verdicts'), ~verdicts'[i].leave, ~verdicts'[i].overlapped,
               NEW j \in 1..(i - 1), LastOf(j, verdicts[i].agent, i - 1)'
        PROVE  \/ verdicts'[i].task <= verdicts'[j].task
               \/ verdicts'[i].task > verdicts'[j].task + arm.config.rejoin_lockout_tasks
    <3>1. i \in 1..Len(verdicts)
      BY <1>5, <1>6, <2>3
    <3>2. i - 1 \in 0..Len(verdicts) /\ j \in 1..Len(verdicts)
      BY <1>6, <3>1
    <3>3. LastOf(j, verdicts'[i].agent, i - 1)
      BY <1>6, <2>3, <3>2 DEF LastOf
    <3> QED
      BY <1>1, <1>6, <2>3, <3>1, <3>2, <3>3 DEF LockInv
  <2> QED
    BY <1>4, <2>1, <2>2, <2>3 DEF LockInv
<1> QED
  BY <1>9, <1>10, <1>11, <1>12 DEF ArmInv

(* The task ends: its count is settled, and nothing in progress is         *)
(* undisturbed.                                                            *)
LEMMA EndTaskStep == ArmInv /\ EndTask => ArmInv'
<1> SUFFICES ASSUME ArmInv, EndTask PROVE ArmInv'
  OBVIOUS
<1>1. ArmTypes /\ CountInv /\ CapInv /\ LockInv
  BY DEF ArmInv
<1>2. PICK T : /\ T = arm.tasks_observed /\ asks' = Overlap(None) /\ UNCHANGED verdicts
               /\ arm' = [arm EXCEPT !.tasks_observed = T + 1, !.evictions_this_task = 0]
  BY DEF EndTask
<1>3. T \in Nat /\ T + 1 \in Nat
  BY <1>1, <1>2, ArmFields
<1>4. /\ arm'.tasks_observed = T + 1 /\ arm'.evictions_this_task = 0
      /\ arm'.evicted_at = arm.evicted_at /\ arm'.config = arm.config
      /\ arm' \in [tasks_observed : Nat, evictions_this_task : Nat,
                evicted_at : [ArmAgents -> Nat \union {None}], asked : Nat, config : Config]
  BY <1>1, <1>2, <1>3 DEF ArmTypes
<1>5. ASSUME NEW d \in ArmCallers
      PROVE  /\ asks'[d] \in AskType /\ asks'[d].step = asks[d].step
             /\ asks'[d].leave = asks[d].leave /\ asks'[d].agent = asks[d].agent
             /\ asks[d].step # "idle" => asks'[d].overlapped
  <2>1. d # None
    BY CallersOK
  <2> QED
    BY <1>1, <1>2, <2>1, OverlapEffect
<1>6. asks' \in [ArmCallers -> AskType]
  <2>1. asks' = [d \in ArmCallers |-> asks'[d]]
    BY <1>2 DEF Overlap
  <2> QED
    BY <1>5, <2>1
<1>7. ArmTypes'
  BY <1>1, <1>2, <1>4, <1>5, <1>6 DEF ArmTypes
<1>8. \A t : EvictionsIn(t)' = EvictionsIn(t)
  BY <1>2 DEF EvictionsIn
<1>9. CountInv'
  <2>1. ASSUME NEW i \in 1..Len(verdicts)
        PROVE  verdicts[i].task \in Nat /\ verdicts[i].task <= T
    <3>1. verdicts[i] \in Verdict
      BY <1>1 DEF ArmTypes
    <3> QED
      BY <1>1, <1>2, <3>1 DEF CountInv, Verdict
  <2>2. EvictionsIn(T + 1) = {}
    <3>1. DOMAIN verdicts = 1..Len(verdicts)
      BY <1>1 DEF ArmTypes
    <3>2. \A i \in 1..Len(verdicts) : verdicts[i].task # T + 1
      BY <1>3, <2>1
    <3> QED
      BY <3>1, <3>2 DEF EvictionsIn
  <2>3. EvictionsIn(arm.tasks_observed)' = EvictionsIn(T + 1)
    BY <1>2, <1>4 DEF EvictionsIn
  <2>4. Cardinality(EvictionsIn(arm.tasks_observed)') = 0
    BY <2>2, <2>3, FS_EmptySet
  <2>5. \A i \in 1..Len(verdicts') : verdicts'[i].task <= T + 1
    BY <1>2, <1>3, <2>1
  <2> QED
    BY <1>4, <2>4, <2>5 DEF CountInv
<1>10. CapInv'
  <2>1. InFlight' = InFlight
    BY <1>5 DEF InFlight
  <2>2. InFlight \in SUBSET ArmCallers
    BY DEF InFlight
  <2>3. /\ N \in Nat /\ Cardinality(InFlight) \in Nat /\ Cardinality(InFlight) <= N
        /\ cap \in {None} \union Nat /\ arm.evictions_this_task \in Nat
    BY <1>1, <2>2, CallersFinite, ArmFields
  <2>4. cap' = cap /\ N' = N
    BY <1>4 DEF cap, N
  <2>5. cap # None /\ cap # 0 => 0 + Cardinality(InFlight') <= cap + N - 1
    BY <2>1, <2>3
  <2>6. cap = 0 => InFlight' = {}
    BY <1>1, <2>1, CallersOK DEF CapInv
  <2>7. ASSUME cap # None, NEW t \in 0..((T + 1) - 1)
        PROVE  Cardinality(EvictionsIn(t)') <= cap + (IF cap = 0 THEN 0 ELSE N - 1)
    <3>1. CASE t = T
      <4>1. Cardinality(EvictionsIn(T)) = arm.evictions_this_task
        BY <1>1, <1>2 DEF CountInv
      <4>2. arm.evictions_this_task <= cap + (IF cap = 0 THEN 0 ELSE N - 1)
        BY <1>1, <2>3, <2>7 DEF CapInv
      <4> QED
        BY <1>8, <3>1, <4>1, <4>2
    <3>2. CASE t # T
      <4>1. t \in 0..(T - 1)
        BY <1>3, <3>2
      <4> QED
        BY <1>1, <1>2, <1>8, <2>7, <4>1 DEF CapInv
    <3> QED
      BY <3>1, <3>2
  <2> QED
    BY <1>4, <2>4, <2>5, <2>6, <2>7 DEF CapInv
<1>11. LockInv'
  <2>1. \A j, b, n : LastOf(j, b, n)' <=> LastOf(j, b, n)
    BY <1>2 DEF LastOf
  <2>2. \A d \in ArmCallers : ~(asks'[d].step = "query" /\ ~asks'[d].leave /\ ~asks'[d].overlapped)
    BY <1>5
  <2> QED
    BY <1>1, <1>2, <1>4, <2>1, <2>2 DEF LockInv
<1> QED
  BY <1>7, <1>9, <1>10, <1>11 DEF ArmInv

(* Whatever its callers' steps fall between, the arm passes its eviction   *)
(* cap by at most one per further caller and a cap of zero never, and a    *)
(* join that nothing overlapped admits no agent evicted in one of the last *)
(* rejoin_lockout_tasks tasks (aif_persistent_policy.rs): for any number   *)
(* of callers, agents, tasks and decisions and any answers of the engine.  *)
THEOREM EvictionsAlwaysBounded == ArmSpec => []EvictionsAreBounded
<1>1. ArmInit => ArmInv
  <2> SUFFICES ASSUME ArmInit PROVE ArmInv
    OBVIOUS
  <2>1. PICK chosen \in ArmConfigs : arm = [tasks_observed |-> 0, evictions_this_task |-> 0,
                 evicted_at |-> [a \in ArmAgents |-> None], asked |-> 0, config |-> chosen]
    BY DEF ArmInit
  <2>2. chosen \in Config
    BY ArmConfigsOK DEF Config
  <2>3. /\ verdicts = <<>> /\ Len(verdicts) = 0 /\ DOMAIN verdicts = {}
        /\ asks = [c \in ArmCallers |-> NoAsk]
    BY DEF ArmInit
  <2>4. NoAsk \in AskType /\ NoAsk.step = "idle"
    BY DEF NoAsk, AskType
  <2>5. ArmTypes
    BY <2>1, <2>2, <2>3, <2>4 DEF ArmTypes
  <2>6. EvictionsIn(0) = {} /\ InFlight = {}
    BY <2>3, <2>4 DEF EvictionsIn, InFlight
  <2>7. Cardinality({}) = 0
    BY FS_EmptySet
  <2>8. CountInv
    <3>1. arm.tasks_observed = 0 /\ arm.evictions_this_task = 0
      BY <2>1
    <3>2. EvictionsIn(arm.tasks_observed) = {}
      BY <3>1, <2>6
    <3>3. Cardinality(EvictionsIn(arm.tasks_observed)) = 0
      BY <3>2, <2>7
    <3>4. 1..Len(verdicts) = {}
      BY <2>3
    <3> QED
      BY <3>1, <3>3, <3>4 DEF CountInv
  <2>9. CapInv
    <3>1. {} \in SUBSET ArmCallers
      OBVIOUS
    <3>2. N \in Nat
      BY <3>1, CallersFinite
    <3>3. cap \in {None} \union Nat
      BY <2>5, ArmFields
    <3> QED
      BY <2>1, <2>6, <2>7, <3>2, <3>3 DEF CapInv
  <2>10. LockInv
    BY <2>3, <2>4 DEF LockInv
  <2> QED
    BY <2>5, <2>8, <2>9, <2>10 DEF ArmInv
<1>2. ArmInv /\ [ArmNext]_armvars => ArmInv'
  <2> SUFFICES ASSUME ArmInv, [ArmNext]_armvars PROVE ArmInv'
    OBVIOUS
  <2>1. CASE UNCHANGED armvars
    BY <2>1 DEF armvars, ArmInv, ArmTypes, CountInv, CapInv, LockInv, LockedOut, LastOf,
                EvictionsIn, InFlight, cap, N
  <2>2. CASE ArmNext
    BY <2>2, AskStep, QueryStep, CountStep, EndTaskStep DEF ArmNext
  <2> QED
    BY <2>1, <2>2
<1>3. ArmInv => EvictionsAreBounded
  <2> SUFFICES ASSUME ArmInv PROVE EvictionsAreBounded
    OBVIOUS
  <2>1. ArmTypes /\ CountInv /\ CapInv /\ LockInv
    BY DEF ArmInv
  <2>2. InFlight \in SUBSET ArmCallers
    BY DEF InFlight
  <2>3. /\ N \in Nat /\ Cardinality(InFlight) \in Nat /\ arm.tasks_observed \in Nat
        /\ cap \in {None} \union Nat /\ arm.evictions_this_task \in Nat
    BY <2>1, <2>2, CallersFinite, ArmFields
  <2>4. ASSUME cap # None, NEW t \in 0..arm.tasks_observed
        PROVE  Cardinality(EvictionsIn(t)) <= cap + (IF cap = 0 THEN 0 ELSE N - 1)
    <3>1. CASE t = arm.tasks_observed
      BY <2>1, <2>3, <2>4, <3>1 DEF CountInv, CapInv
    <3>2. CASE t \in 0..(arm.tasks_observed - 1)
      BY <2>1, <2>4, <3>2 DEF CapInv
    <3> QED
      BY <2>3, <3>1, <3>2
  <2>5. ASSUME NEW i \in DOMAIN verdicts, ~verdicts[i].leave, ~verdicts[i].overlapped,
               NEW j \in LastEviction(i)
        PROVE  \/ verdicts[i].task <= verdicts[j].task
               \/ verdicts[i].task > verdicts[j].task + arm.config.rejoin_lockout_tasks
    <3>1. i \in 1..Len(verdicts)
      BY <2>1 DEF ArmTypes
    <3>2. j \in 1..(i - 1) /\ LastOf(j, verdicts[i].agent, i - 1)
      BY <2>5 DEF LastEviction, LastOf
    <3> QED
      BY <2>1, <2>5, <3>1, <3>2 DEF LockInv
  <2> QED
    BY <2>4, <2>5 DEF EvictionsAreBounded, cap, N
<1> QED
  BY <1>1, <1>2, <1>3, PTL DEF ArmSpec

-----------------------------------------------------------------------------
(***************************************************************************)
(* The magnitude policy: its snapshots.                                    *)
(***************************************************************************)
Relevant(A, required) == {a \in A : Staff[a].caps \cap required # {}}

(* relevant_masks looks at every relevant agent, once. *)
LEMMA RelevantFacts ==
    ASSUME NEW agents \in Seq(DOMAIN Staff), NEW required
    PROVE  /\ RelevantAgents(agents, required) \in Seq(DOMAIN Staff)
           /\ IsInjective(RelevantAgents(agents, required))
           /\ Range(RelevantAgents(agents, required))
                = Relevant(Range(agents), required)
<1> DEFINE First(i) == \A j \in 1..(i - 1) : agents[j] # agents[i]
           Rel(i) == Staff[agents[i]].caps \cap required # {}
           K == {i \in DOMAIN agents : Rel(i) /\ First(i)}
           p == Picked(agents, K)
<1>1. RelevantAgents(agents, required) = p
  BY DEF RelevantAgents
<1>2. DOMAIN agents = 1..Len(agents) /\ Len(agents) \in Nat
  OBVIOUS
<1>3. K \in SUBSET (1..Len(agents))
  BY <1>2
<1>4. ASSUME NEW i \in K, NEW j \in K, agents[i] = agents[j] PROVE i = j
  <2>1. i \in Nat /\ j \in Nat /\ i >= 1 /\ j >= 1 /\ First(i) /\ First(j)
    BY <1>2
  <2>2. i < j => i \in 1..(j - 1)
    BY <2>1
  <2>3. j < i => j \in 1..(i - 1)
    BY <2>1
  <2>4. ~(i < j) /\ ~(j < i)
    BY <1>4, <2>1, <2>2, <2>3
  <2> QED
    BY <2>1, <2>4
<1>5. ASSUME NEW i \in DOMAIN agents, Rel(i)
      PROVE  \E k \in K : agents[k] = agents[i]
  <2> DEFINE T == {k \in DOMAIN agents : agents[k] = agents[i]}
  <2>1. T \subseteq Nat /\ T # {}
    BY <1>2
  <2>2. PICK k \in T : \A y \in T : k <= y
    BY <2>1, LeastNat
  <2>3. First(k)
    <3> SUFFICES ASSUME NEW j \in 1..(k - 1), agents[j] = agents[k] PROVE FALSE
      OBVIOUS
    <3>1. k \in Nat /\ k <= Len(agents) /\ j \in Nat /\ 1 <= j /\ j <= k - 1
      BY <1>2, <2>2
    <3>2. j \in DOMAIN agents /\ ~(k <= j)
      BY <1>2, <3>1
    <3> QED
      BY <2>2, <3>2
  <2>4. Rel(k)
    BY <1>5, <2>2
  <2> QED
    BY <2>2, <2>3, <2>4
<1>6. {agents[i] : i \in K} = Relevant(Range(agents), required)
  <2>1. \A i \in K : agents[i] \in Relevant(Range(agents), required)
    BY DEF Relevant, Range
  <2>2. ASSUME NEW a \in Relevant(Range(agents), required)
        PROVE  \E i \in K : agents[i] = a
    <3>1. PICK i \in DOMAIN agents : agents[i] = a
      BY <2>2 DEF Relevant, Range
    <3>2. Rel(i)
      BY <2>2, <3>1 DEF Relevant
    <3> QED
      BY <1>5, <3>1, <3>2
  <2> QED
    BY <2>1, <2>2
<1> HIDE DEF K
<1>7. p \in Seq(DOMAIN Staff) /\ Range(p) = {agents[i] : i \in K}
  BY <1>3, PickedFacts
<1>8. IsInjective(p)
  BY <1>3, <1>4, PickedOnce DEF IsInjective
<1> QED
  BY <1>1, <1>6, <1>7, <1>8

(* relevant_masks: what the snapshot of an agent list holds. *)
LEMMA CapsOfFacts ==
    ASSUME NEW s \in Seq(DOMAIN Staff)
    PROVE  /\ CapsOf(s) \in MaskLists /\ Len(CapsOf(s)) = Len(s)
           /\ CapsOf(s) = <<>> <=> s = <<>>
           /\ \A a \in DOMAIN Staff :
                 CapsOf(Append(s, a)) = Append(CapsOf(s), Staff[a].caps)
<1>1. Len(s) \in Nat /\ DOMAIN s = 1..Len(s) /\ \A i \in 1..Len(s) : s[i] \in DOMAIN Staff
  OBVIOUS
<1>2. CapsOf(s) = [k \in 1..Len(s) |-> Staff[s[k]].caps]
  BY <1>1 DEF CapsOf
<1>3. CapsOf(s) \in Seq(MaskSet) /\ Len(CapsOf(s)) = Len(s)
  <2>1. CapsOf(s) \in [1..Len(s) -> MaskSet]
    BY <1>1, <1>2 DEF MaskSet
  <2> QED
    BY <1>1, <2>1
<1>4. CapsOf(s) = <<>> <=> s = <<>>
  BY <1>1, <1>3
<1>5. ASSUME NEW a \in DOMAIN Staff
      PROVE  CapsOf(Append(s, a)) = Append(CapsOf(s), Staff[a].caps)
  <2> DEFINE n == Len(s)
             t == Append(s, a)
             u == CapsOf(s)
             m == Staff[a].caps
             v == Append(u, m)
  <2>1. DOMAIN t = 1..(n + 1) /\ t[n + 1] = a /\ \A i \in 1..n : t[i] = s[i]
    BY <1>1
  <2>2. m \in MaskSet
    BY DEF MaskSet
  <2> HIDE DEF u, m
  <2>3. u \in Seq(MaskSet) /\ Len(u) = n
    BY <1>3 DEF u
  <2>4. /\ DOMAIN v = 1..(n + 1) /\ v[n + 1] = m
        /\ \A i \in 1..n : v[i] = u[i]
        /\ v = [i \in 1..(n + 1) |-> v[i]]
    <3> HIDE DEF MaskSet, v
    <3>1. /\ v \in Seq(MaskSet) /\ Len(v) = n + 1 /\ n \in Nat
          /\ DOMAIN v = 1..(n + 1) /\ v[n + 1] = m /\ \A i \in 1..n : v[i] = u[i]
      <4> HIDE DEF n
      <4>1. /\ Append(u, m) \in Seq(MaskSet) /\ Len(u) \in Nat
            /\ Len(Append(u, m)) = Len(u) + 1 /\ DOMAIN Append(u, m) = 1..(Len(u) + 1)
            /\ Append(u, m)[Len(u) + 1] = m
            /\ \A i \in 1..Len(u) : Append(u, m)[i] = u[i]
        BY <2>2, <2>3, AppendFacts
      <4> QED
        BY <2>3, <4>1 DEF v
    <3>2. v \in [1..(n + 1) -> MaskSet]
      BY <3>1
    <3> QED
      BY <3>1, <3>2
  <2>5. \A i \in 1..n : u[i] = Staff[s[i]].caps
    BY <1>2 DEF u
  <2>6. CapsOf(t) = [i \in 1..(n + 1) |-> Staff[t[i]].caps]
    BY <2>1 DEF CapsOf
  <2> HIDE DEF t, v
  <2>7. ASSUME NEW i \in 1..(n + 1) PROVE Staff[t[i]].caps = v[i]
    <3>1. i \in 1..n \/ i = n + 1
      BY <1>1
    <3> QED
      BY <2>1, <2>4, <2>5, <3>1 DEF m
  <2> QED
    BY <2>4, <2>6, <2>7 DEF t, v, u, m
<1> QED
  BY <1>3, <1>4, <1>5 DEF MaskLists

Sound(masks, required) ==
    /\ MagnitudeOf(masks, required) \in Measured
    /\ FastMagnitudeOf(masks, required) \in Measured
    /\ Near(FastMagnitudeOf(masks, required), MagnitudeOf(masks, required))

(* Two orders of the same agents have one magnitude, up to the rounding. *)
LEMMA SameMagnitude ==
    ASSUME NEW s \in Seq(DOMAIN Staff), NEW t \in Seq(DOMAIN Staff),
           IsInjective(s), IsInjective(t), Range(s) = Range(t), s # <<>>,
           NEW required \in Requirements
    PROVE  /\ Sound(CapsOf(s), required)
           /\ Near(MagnitudeOf(CapsOf(s), required), MagnitudeOf(CapsOf(t), required))
<1> DEFINE A == Range(s)
<1>1. s \in LineUps(A) /\ t \in LineUps(A) /\ A \subseteq DOMAIN Staff
  BY OnceFacts DEF LineUps
<1>2. A # {}
  <2>1. 1 \in DOMAIN s
    OBVIOUS
  <2> QED
    BY <2>1 DEF Range
<1>3. A \in (SUBSET DOMAIN Staff) \ {{}}
  BY <1>1, <1>2
<1> HIDE DEF A
<1> QED
  BY <1>1, <1>3, FreshValuesAgree DEF Sound

(* The two sides of a call differ by the agent it is about. *)
LEMMA CallFacts ==
    ASSUME NEW c \in Calls, Reasonable(c)
    PROVE  /\ c.required \in Requirements /\ c.agent \in DOMAIN Staff
           /\ With(c) \in Seq(DOMAIN Staff) /\ Without(c) \in Seq(DOMAIN Staff)
           /\ Range(With(c)) = Range(Without(c)) \cup {c.agent}
<1>1. /\ c.required \in Requirements /\ c.agent \in DOMAIN Staff
      /\ c.kind \in {"join", "leave"} /\ c.coalition \in Seq(DOMAIN Staff)
  BY CallersHoldStaff DEF Calls
<1> DEFINE s == c.coalition
           a == c.agent
<1>2. CASE c.kind = "join"
  <2>1. With(c) = Append(s, a) /\ Without(c) = s
    BY <1>2 DEF With, Without
  <2>2. Append(s, a) \in Seq(DOMAIN Staff) /\ Range(Append(s, a)) = Range(s) \cup {a}
    <3> HIDE DEF s, a
    <3> QED
      BY <1>1, AppendFacts DEF s, a
  <2> QED
    BY <1>1, <2>1, <2>2
<1>3. CASE c.kind = "leave"
  <2> DEFINE K == {i \in DOMAIN s : s[i] # a}
  <2>1. With(c) = s /\ Without(c) = Picked(s, K)
    BY <1>3 DEF With, Without
  <2>2. DOMAIN s = 1..Len(s) /\ K \in SUBSET (1..Len(s))
    BY <1>1
  <2>3. Picked(s, K) \in Seq(DOMAIN Staff) /\ Range(Picked(s, K)) = {s[i] : i \in K}
    <3> HIDE DEF s, K
    <3> QED
      BY <1>1, <2>2, PickedFacts DEF s
  <2>4. \E i \in DOMAIN s : s[i] = a
    <3>1. Contains(s, a)
      BY <1>3 DEF Reasonable
    <3> QED
      BY <2>2, <3>1 DEF Contains
  <2>5. Range(s) = {s[i] : i \in K} \cup {a}
    BY <2>4 DEF Range
  <2> QED
    BY <1>1, <2>1, <2>3, <2>5
<1> QED
  BY <1>1, <1>2, <1>3

(* An agent that does not count leaves the same snapshot on both sides. *)
LEMMA ExcludedSame ==
    ASSUME NEW c \in Calls, Reasonable(c),
           NEW w, w = RelevantAgents(With(c), c.required),
           NEW o, o = RelevantAgents(Without(c), c.required),
           Range(w) = Range(o)
    PROVE  w = o
<1> DEFINE s == c.coalition
           a == c.agent
           r == c.required
           n == Len(s)
           Rel(x) == Staff[x].caps \cap r # {}
           Kept(u) == {i \in DOMAIN u : Rel(u[i]) /\ \A j \in 1..(i - 1) : u[j] # u[i]}
<1>1. /\ a \in DOMAIN Staff /\ c.kind \in {"join", "leave"}
      /\ s \in Seq(DOMAIN Staff) /\ n \in Nat /\ DOMAIN s = 1..n
  <2>1. a \in DOMAIN Staff /\ c.kind \in {"join", "leave"} /\ s \in Seq(DOMAIN Staff)
    BY CallersHoldStaff DEF Calls
  <2> HIDE DEF s
  <2> QED
    BY <2>1
<1>2. w = Picked(With(c), Kept(With(c))) /\ o = Picked(Without(c), Kept(Without(c)))
  BY DEF RelevantAgents
<1>3. /\ Range(w) = {x \in Range(With(c)) : Rel(x)}
      /\ Range(o) = {x \in Range(Without(c)) : Rel(x)}
  BY CallFacts, RelevantFacts DEF Relevant
<1>4. Rel(a) => a \in Range(Without(c))
  BY CallFacts, <1>3
<1>5. CASE c.kind = "join"
  <2> DEFINE t == Append(s, a)
             K == Kept(s)
  <2>1. With(c) = t /\ Without(c) = s
    BY <1>5 DEF With, Without
  <2>2. /\ DOMAIN t = 1..(n + 1) /\ t[n + 1] = a /\ \A i \in 1..n : t[i] = s[i]
    <3> HIDE DEF s, a
    <3> QED
      BY <1>1, AppendFacts
  <2> HIDE DEF t, s, n
  <2>3. n + 1 \notin Kept(t)
    <3> SUFFICES ASSUME n + 1 \in Kept(t) PROVE FALSE
      OBVIOUS
    <3>1. Rel(a) /\ \A j \in 1..n : t[j] # a
      BY <1>1, <2>2
    <3>2. \E j \in 1..n : s[j] = a
      BY <1>1, <1>4, <2>1, <3>1 DEF Range
    <3> QED
      BY <2>2, <3>1, <3>2
  <2>4. ASSUME NEW i \in 1..n PROVE i \in Kept(t) <=> i \in K
    <3>1. \A j \in 1..(i - 1) : j \in 1..n
      BY <1>1
    <3>2. i \in DOMAIN t /\ i \in DOMAIN s
      BY <1>1, <2>2
    <3> QED
      BY <2>2, <3>1, <3>2
  <2>5. Kept(t) = K /\ K \in SUBSET (1..n) /\ K \in SUBSET (1..(n + 1))
    <3>1. \A i \in DOMAIN t : i \in 1..n \/ i = n + 1
      BY <1>1, <2>2
    <3>2. Kept(t) \subseteq DOMAIN t /\ K \subseteq 1..n /\ 1..n \subseteq 1..(n + 1)
      BY <1>1
    <3> HIDE DEF K, Kept
    <3> QED
      BY <2>2, <2>3, <2>4, <3>1, <3>2
  <2> DEFINE m == Cardinality(K)
             p == Picked(s, K)
             q == Picked(t, K)
  <2> HIDE DEF K
  <2>6. /\ p = [k \in 1..m |-> p[k]] /\ q = [k \in 1..m |-> q[k]]
        /\ \A i \in K : p[RankIn(K, i)] = s[i] /\ q[RankIn(K, i)] = t[i]
        /\ \A k \in 1..m : \E i \in K : RankIn(K, i) = k
    <3>1. /\ p = [k \in 1..m |-> p[k]]
          /\ \A i \in K : p[RankIn(K, i)] = s[i]
          /\ \A k \in 1..m : \E i \in K : RankIn(K, i) = k
      <4>1. n \in Nat /\ K \in SUBSET (1..n)
        BY <1>1, <2>5
      <4> QED
        BY <4>1, PickedAt
    <3>2. /\ q = [k \in 1..m |-> q[k]]
          /\ \A i \in K : q[RankIn(K, i)] = t[i]
      <4>1. n + 1 \in Nat /\ K \in SUBSET (1..(n + 1))
        BY <1>1, <2>5
      <4> QED
        BY <4>1, PickedAt
    <3> HIDE DEF p, q, m
    <3> QED
      BY <3>1, <3>2
  <2> HIDE DEF p, q
  <2>7. ASSUME NEW k \in 1..m PROVE p[k] = q[k]
    <3>1. PICK i \in K : RankIn(K, i) = k
      BY <2>6
    <3>2. i \in 1..n
      BY <2>5
    <3> QED
      BY <2>2, <2>6, <3>1, <3>2
  <2>8. p = q
    BY <2>6, <2>7
  <2> QED
    BY <1>2, <2>1, <2>5, <2>8 DEF p, q, K
<1>6. CASE c.kind = "leave"
  <2> DEFINE J == {i \in DOMAIN s : s[i] # a}
             u == Picked(s, J)
             K == Kept(s)
             m == Cardinality(J)
             rank(i) == RankIn(J, i)
  <2>1. With(c) = s /\ Without(c) = u
    BY <1>6 DEF With, Without
  <2>2. J \in SUBSET (1..n)
    BY <1>1
  <2> HIDE DEF s, n, a
  <2>3. /\ m \in Nat /\ u = [k \in 1..m |-> u[k]]
        /\ \A i \in J : rank(i) \in 1..m /\ u[rank(i)] = s[i]
        /\ \A k \in 1..m : \E i \in J : rank(i) = k
        /\ \A i, j \in J : rank(i) <= rank(j) <=> i <= j
    <3> HIDE DEF J
    <3>1. /\ m \in Nat /\ u = [k \in 1..m |-> u[k]]
          /\ \A i \in J : rank(i) \in 1..m /\ u[rank(i)] = s[i]
          /\ \A k \in 1..m : \E i \in J : rank(i) = k
      BY <1>1, <2>2, PickedAt
    <3>2. \A i, j \in J : rank(i) <= rank(j) <=> i <= j
      BY <1>1, <2>2, RankOrder
    <3> QED
      BY <3>1, <3>2
  <2>4. ~Rel(a)
    <3>1. Range(u) = {s[i] : i \in J}
      <4> HIDE DEF J, u
      <4> QED
        BY <1>1, <2>2, PickedFacts DEF n, u
    <3>2. a \notin Range(u)
      BY <3>1
    <3> QED
      BY <1>4, <2>1, <3>2
  <2>5. K \in SUBSET J
    BY <2>4
  <2> HIDE DEF u, m, rank
  <2>6. DOMAIN u = 1..m
    BY <2>3
  <2>7. ASSUME NEW i \in K PROVE rank(i) \in Kept(u)
    <3>1. i \in J /\ Rel(s[i]) /\ \A j \in 1..(i - 1) : s[j] # s[i]
      BY <2>5
    <3>2. rank(i) \in 1..m /\ u[rank(i)] = s[i]
      BY <2>3, <3>1
    <3>3. ASSUME NEW k \in 1..(rank(i) - 1) PROVE u[k] # u[rank(i)]
      <4>1. k \in 1..m /\ k < rank(i) /\ k \in Int /\ rank(i) \in Int
        BY <2>3, <3>2
      <4>2. PICK j \in J : rank(j) = k
        BY <2>3, <4>1
      <4>3. ~(i <= j) /\ u[k] = s[j]
        BY <2>3, <3>1, <4>1, <4>2
      <4>4. j \in 1..(i - 1)
        <5>1. i \in Nat /\ j \in Nat /\ 1 <= j
          BY <1>1, <2>2, <3>1
        <5> QED
          BY <4>3, <5>1
      <4> QED
        BY <3>1, <3>2, <4>3, <4>4
    <3> QED
      BY <2>6, <3>1, <3>2, <3>3
  <2>8. ASSUME NEW k \in Kept(u) PROVE \E i \in K : rank(i) = k
    <3>1. k \in 1..m /\ Rel(u[k]) /\ \A l \in 1..(k - 1) : u[l] # u[k]
      BY <2>6
    <3>2. PICK i \in J : rank(i) = k
      BY <2>3, <3>1
    <3>3. u[k] = s[i] /\ i \in 1..n /\ s[i] # a
      BY <2>2, <2>3, <3>2
    <3>4. ASSUME NEW j \in 1..(i - 1), s[j] = s[i] PROVE FALSE
      <4>1. i \in Nat /\ j \in Nat /\ j \in 1..n /\ ~(i <= j)
        BY <1>1, <3>3
      <4>2. j \in J
        BY <1>1, <3>3, <3>4, <4>1
      <4>3. rank(j) \in 1..m /\ u[rank(j)] = u[k] /\ ~(k <= rank(j))
        BY <2>3, <3>2, <3>3, <3>4, <4>1, <4>2
      <4>4. rank(j) \in 1..(k - 1)
        BY <2>3, <3>1, <4>3
      <4> QED
        BY <3>1, <4>3, <4>4
    <3>5. i \in K
      BY <1>1, <3>1, <3>3, <3>4
    <3> QED
      BY <3>2, <3>5
  <2>9. Kept(u) = {rank(i) : i \in K}
    <3> HIDE DEF Kept, K
    <3> QED
      BY <2>7, <2>8
  <2>10. Picked(u, {rank(i) : i \in K}) = Picked(s, K)
    <3> HIDE DEF K, J
    <3> QED
      BY <1>1, <2>2, <2>5, PickedTwice DEF u, rank, n
  <2> HIDE DEF Kept
  <2> QED
    BY <1>2, <2>1, <2>9, <2>10
<1> QED
  BY <1>1, <1>5, <1>6

(* The agent counts on its side when it is relevant and not there twice. *)
LEMMA SideFacts ==
    ASSUME NEW c \in Calls, Reasonable(c),
           NEW w, w = RelevantAgents(With(c), c.required),
           NEW o, o = RelevantAgents(Without(c), c.required)
    PROVE  /\ w \in Seq(DOMAIN Staff) /\ IsInjective(w)
           /\ o \in Seq(DOMAIN Staff) /\ IsInjective(o)
           /\ \/ w = o
              \/ /\ Len(w) = Len(o) + 1 /\ c.agent \notin Range(o)
                 /\ Range(w) = Range(o) \cup {c.agent}
<1>1. /\ c.required \in Requirements /\ c.agent \in DOMAIN Staff
      /\ With(c) \in Seq(DOMAIN Staff) /\ Without(c) \in Seq(DOMAIN Staff)
      /\ Range(With(c)) = Range(Without(c)) \cup {c.agent}
  BY CallFacts
<1> DEFINE a == c.agent
<1>2. /\ w \in Seq(DOMAIN Staff) /\ IsInjective(w)
      /\ Range(w) = Relevant(Range(With(c)), c.required)
      /\ o \in Seq(DOMAIN Staff) /\ IsInjective(o)
      /\ Range(o) = Relevant(Range(Without(c)), c.required)
  BY <1>1, RelevantFacts
<1>3. \/ Range(w) = Range(o)
      \/ a \notin Range(o) /\ Range(w) = Range(o) \cup {a}
  BY <1>1, <1>2 DEF Relevant
<1>4. Cardinality(Range(w)) = Len(w) /\ Cardinality(Range(o)) = Len(o)
  BY <1>2, OnceFacts
<1>5. CASE Range(w) = Range(o)
  BY <1>2, <1>5, ExcludedSame
<1>6. CASE a \notin Range(o) /\ Range(w) = Range(o) \cup {a}
  <2>1. /\ Append(o, a) \in Seq(DOMAIN Staff) /\ IsInjective(Append(o, a))
        /\ Range(Append(o, a)) = Range(o) \cup {a}
        /\ Len(Append(o, a)) = Len(o) + 1
    BY <1>1, <1>2, <1>6, AppendOnce
  <2> DEFINE t == Append(o, a)
  <2> HIDE DEF t
  <2>2. /\ t \in Seq(DOMAIN Staff) /\ IsInjective(t)
        /\ Range(t) = Range(w) /\ Len(t) = Len(o) + 1
    BY <1>6, <2>1 DEF t
  <2>3. Cardinality(Range(t)) = Len(t)
    BY <2>2, OnceFacts
  <2> QED
    BY <1>2, <1>4, <1>6, <2>2, <2>3
<1> QED
  BY <1>3, <1>5, <1>6

(* What the members joined by the candidate are worth is what the snapshot *)
(* with the agent is worth, up to the rounding.                            *)
LEMMA SideValues ==
    ASSUME NEW c \in Calls, Reasonable(c),
           NEW with, with = Masks(With(c), c.required),
           NEW without, without = Masks(Without(c), c.required)
    PROVE  /\ with \in MaskLists /\ without \in MaskLists
           /\ with # <<>> => Sound(with, c.required)
           /\ without # <<>> => Sound(without, c.required)
           /\ Len(with) = Len(without) => with = without
           /\ Len(with) # Len(without) =>
                 LET joined == Append(without, Staff[c.agent].caps)
                 IN  /\ with # <<>> /\ MagnitudeOf(joined, c.required) \in Measured
                     /\ Near(MagnitudeOf(joined, c.required), MagnitudeOf(with, c.required))
<1> DEFINE w == RelevantAgents(With(c), c.required)
           o == RelevantAgents(Without(c), c.required)
           a == c.agent
           r == c.required
           joined == Append(without, Staff[a].caps)
<1>1. /\ w \in Seq(DOMAIN Staff) /\ IsInjective(w)
      /\ o \in Seq(DOMAIN Staff) /\ IsInjective(o)
      /\ \/ w = o
         \/ /\ Len(w) = Len(o) + 1 /\ a \notin Range(o)
            /\ Range(w) = Range(o) \cup {a}
  BY SideFacts
<1>2. with = CapsOf(w) /\ without = CapsOf(o)
  BY DEF Masks
<1>3. r \in Requirements /\ a \in DOMAIN Staff
  BY CallFacts
<1> HIDE DEF w, o, a, r, joined
<1>4. /\ with \in MaskLists /\ without \in MaskLists
      /\ Len(with) = Len(w) /\ Len(without) = Len(o)
      /\ (with = <<>> <=> w = <<>>) /\ (without = <<>> <=> o = <<>>)
      /\ CapsOf(Append(o, a)) = joined
  BY <1>1, <1>2, <1>3, CapsOfFacts DEF joined
<1>5. with # <<>> => Sound(with, r)
  BY <1>1, <1>2, <1>3, <1>4, SameMagnitude
<1>6. without # <<>> => Sound(without, r)
  BY <1>1, <1>2, <1>3, <1>4, SameMagnitude
<1>7. ASSUME Len(with) = Len(without) PROVE with = without
  <2>1. Len(o) \in Nat
    BY <1>1
  <2> QED
    BY <1>1, <1>2, <1>4, <1>7, <2>1
<1>8. ASSUME Len(with) # Len(without)
      PROVE  /\ with # <<>> /\ MagnitudeOf(joined, r) \in Measured
             /\ Near(MagnitudeOf(joined, r), MagnitudeOf(with, r))
  <2>1. Len(w) = Len(o) + 1 /\ a \notin Range(o) /\ Range(w) = Range(o) \cup {a}
    BY <1>1, <1>4, <1>8
  <2>2. w # <<>>
    BY <1>1, <2>1
  <2> DEFINE t == Append(o, a)
  <2>3. t \in Seq(DOMAIN Staff) /\ IsInjective(t) /\ Range(t) = Range(w) /\ t # <<>>
    <3>1. t \in Seq(DOMAIN Staff) /\ IsInjective(t) /\ Range(t) = Range(w)
      BY <1>1, <1>3, <2>1, AppendOnce
    <3>2. t # <<>>
      BY <1>1
    <3> QED
      BY <3>1, <3>2
  <2>4. CapsOf(t) = joined
    BY <1>4
  <2> HIDE DEF t
  <2>5. Sound(CapsOf(t), r) /\ Near(MagnitudeOf(CapsOf(t), r), MagnitudeOf(CapsOf(w), r))
    BY <1>1, <1>3, <2>3, SameMagnitude
  <2> QED
    BY <1>2, <1>4, <2>2, <2>4, <2>5 DEF Sound
<1> QED
  BY <1>4, <1>5, <1>6, <1>7, <1>8 DEF r, a, joined

-----------------------------------------------------------------------------
(***************************************************************************)
(* The magnitude policy: its cache.                                        *)
(***************************************************************************)
Registry(candidates) ==
    /\ candidates \in MaskLists /\ IsInjective(candidates)
    /\ Len(candidates) <= REGISTRY_CAP

EntryOK(e) ==
    /\ e \in CacheEntries /\ e # NoValue
    /\ Registry(e.candidates)
    /\ e.evaluator.required = e.required
    /\ e.evaluator.pool = e.members \o e.candidates
    /\ MagnitudeOf(e.members, e.required) = Value(e.evaluator.base)

(* An entry answers for these members exactly when they can be measured. *)
Answers(e, required, members) ==
    IF MagnitudeOf(members, required).ok
    THEN EntryOK(e) /\ e.required = required /\ e.members = members
    ELSE e = NoValue

(* cache_entry: a new entry answers for the members it was built for. *)
LEMMA EntryFacts ==
    ASSUME NEW required \in Requirements, NEW members \in MaskLists,
           MagnitudeOf(members, required) \in Measured,
           NEW candidates, Registry(candidates),
           NEW e, e = Entry(required, members, candidates)
    PROVE  /\ Answers(e, required, members)
           /\ MagnitudeOf(members, required).ok => e.candidates = candidates
<1> DEFINE m == MagnitudeOf(members, required)
           v == [required |-> required, pool |-> members \o candidates, base |-> m.v]
           built == BuildEvaluator(required, members, candidates)
<1>1. m.ok \in BOOLEAN /\ m.v \in Int /\ m = [ok |-> m.ok, v |-> m.v]
  <2> HIDE DEF m
  <2>1. m \in [ok : BOOLEAN, v : Int]
    BY DEF m, Measured
  <2> QED
    BY <2>1
<1>2. CASE m.ok
  <2>1. built = v
    BY <1>2 DEF BuildEvaluator
  <2>2. v \in Evaluators
    <3>1. members \o candidates \in MaskLists
      BY DEF MaskLists, Registry
    <3> HIDE DEF m
    <3> QED
      BY <1>1, <3>1 DEF Evaluators
  <2>3. v # NoValue
    BY <2>2, NoValueIsNoValue
  <2> HIDE DEF built
  <2>4. e = [required |-> required, members |-> members,
             candidates |-> candidates, evaluator |-> v]
    <3>1. e = IF built = NoValue THEN NoValue
              ELSE [required |-> required, members |-> members,
                    candidates |-> candidates, evaluator |-> built]
      BY DEF Entry, built
    <3> HIDE DEF v
    <3> QED
      BY <2>1, <2>3, <3>1
  <2>5. v.required = required /\ v.pool = members \o candidates /\ v.base = m.v
    OBVIOUS
  <2> HIDE DEF v, m
  <2>6. /\ e.required = required /\ e.members = members
        /\ e.candidates = candidates /\ e.evaluator = v
    BY <2>4
  <2>7. e \in CacheEntries
    BY <2>2, <2>4 DEF CacheEntries, Registry
  <2>8. e # NoValue
    BY <2>7, NoValueIsNoValue
  <2>9. m = Value(m.v)
    BY <1>1, <1>2 DEF Value
  <2> QED
    BY <1>2, <2>5, <2>6, <2>7, <2>8, <2>9 DEF Answers, EntryOK, m
<1>3. CASE ~m.ok
  <2>1. built = NoValue
    BY <1>3 DEF BuildEvaluator
  <2>2. e = NoValue
    BY <2>1 DEF Entry
  <2> QED
    BY <1>3, <2>2 DEF Answers
<1> QED
  BY <1>2, <1>3

CacheOK == cache # NoValue => EntryOK(cache)

(* What a rebuild takes along leaves room for one more. *)
LEMMA TakenFacts ==
    ASSUME CacheOK
    PROVE  Registry(TakeRegistry) /\ Len(TakeRegistry) + 1 <= REGISTRY_CAP
<1>1. CASE cache = NoValue \/ Len(cache.candidates) >= REGISTRY_CAP
  <2>1. TakeRegistry = <<>>
    BY <1>1 DEF TakeRegistry
  <2> QED
    BY <2>1, MagnitudeAssumption DEF Registry, IsInjective, MaskLists
<1>2. CASE ~(cache = NoValue \/ Len(cache.candidates) >= REGISTRY_CAP)
  <2>1. TakeRegistry = cache.candidates
    BY <1>2 DEF TakeRegistry
  <2>2. Registry(cache.candidates)
    BY <1>2 DEF CacheOK, EntryOK
  <2>3. Len(cache.candidates) \in Nat
    BY <2>2 DEF Registry, MaskLists
  <2> QED
    BY <1>2, <2>1, <2>2, <2>3, MagnitudeAssumption
<1> QED
  BY <1>1, <1>2

(* ensure_cached_candidate: registering a mask keeps the entry sound. *)
LEMMA RegisteredFacts ==
    ASSUME NEW candidates, Registry(candidates),
           NEW caps \in MaskSet, ~Contains(candidates, caps),
           Len(candidates) + 1 <= REGISTRY_CAP
    PROVE  /\ Registry(Append(candidates, caps))
           /\ Contains(Append(candidates, caps), caps)
<1>1. candidates \in Seq(MaskSet) /\ IsInjective(candidates)
  BY DEF Registry, MaskLists
<1>2. caps \notin Range(candidates)
  <2>1. DOMAIN candidates = 1..Len(candidates)
    BY <1>1
  <2> QED
    BY <2>1 DEF Range, Contains
<1> HIDE DEF MaskSet
<1>3. /\ Append(candidates, caps) \in Seq(MaskSet)
      /\ IsInjective(Append(candidates, caps))
      /\ Len(Append(candidates, caps)) = Len(candidates) + 1
      /\ Len(candidates) \in Nat
      /\ Append(candidates, caps)[Len(candidates) + 1] = caps
  BY <1>1, <1>2, AppendOnce, AppendFacts
<1> DEFINE t == Append(candidates, caps)
<1> HIDE DEF t
<1>4. t \in Seq(MaskSet) /\ IsInjective(t) /\ Len(t) <= REGISTRY_CAP
      /\ \E i \in 1..Len(t) : t[i] = caps
  <2>1. /\ t \in Seq(MaskSet) /\ IsInjective(t) /\ Len(t) = Len(candidates) + 1
        /\ Len(candidates) \in Nat /\ t[Len(candidates) + 1] = caps
    BY <1>3 DEF t
  <2>2. Len(candidates) + 1 \in 1..Len(t)
    BY <2>1
  <2> QED
    BY <2>1, <2>2
<1> QED
  BY <1>4 DEF t, Registry, MaskLists, Contains

(* cached_base: what the cache holds after the base is asked for. *)
LEMMA BaseFacts ==
    ASSUME CacheOK,
           NEW required \in Requirements, NEW members \in MaskLists,
           MagnitudeOf(members, required) \in Measured
    PROVE  Answers(CachedBase(required, members), required, members)
<1>1. CASE Hit(required, members)
  <2>1. /\ EntryOK(cache) /\ cache.required = required /\ cache.members = members
    BY <1>1 DEF CacheOK, Hit
  <2>2. MagnitudeOf(members, required).ok
    BY <2>1 DEF EntryOK, Value
  <2> QED
    BY <1>1, <2>1, <2>2 DEF CachedBase, Answers
<1>2. CASE ~Hit(required, members)
  BY <1>2, TakenFacts, EntryFacts DEF CachedBase
<1> QED
  BY <1>1, <1>2

(* ensure_cached_candidate: what the cache holds afterwards. *)
LEMMA CandidateFacts ==
    ASSUME CacheOK,
           NEW required \in Requirements, NEW members \in MaskLists,
           MagnitudeOf(members, required) \in Measured,
           NEW caps \in MaskSet,
           NEW e, e = EnsureCachedCandidate(required, members, caps)
    PROVE  /\ Answers(e, required, members)
           /\ MagnitudeOf(members, required).ok => Contains(e.candidates, caps)
<1>1. Registry(TakeRegistry) /\ Len(TakeRegistry) + 1 <= REGISTRY_CAP
  BY TakenFacts
<1>2. CASE ~Hit(required, members)
  <2> DEFINE list == Register(TakeRegistry, caps)
  <2>1. e = Entry(required, members, list)
    BY <1>2 DEF EnsureCachedCandidate
  <2>2. Registry(list) /\ Contains(list, caps)
    <3>1. CASE Contains(TakeRegistry, caps)
      BY <1>1, <3>1 DEF Register
    <3>2. CASE ~Contains(TakeRegistry, caps)
      BY <1>1, <3>2, RegisteredFacts DEF Register
    <3> QED
      BY <3>1, <3>2
  <2> HIDE DEF list
  <2> QED
    BY <2>1, <2>2, EntryFacts
<1>3. CASE Hit(required, members)
  <2>1. EntryOK(cache) /\ cache.required = required /\ cache.members = members
    BY <1>3 DEF CacheOK, Hit
  <2>2. MagnitudeOf(members, required).ok
    BY <2>1 DEF EntryOK, Value
  <2>3. CASE Contains(cache.candidates, caps)
    <3>1. e = cache
      BY <1>3, <2>3 DEF EnsureCachedCandidate
    <3> QED
      BY <2>1, <2>2, <2>3, <3>1 DEF Answers
  <2>4. CASE ~Contains(cache.candidates, caps)
    <3> DEFINE list == Append(TakeRegistry, caps)
    <3>1. e = Entry(required, members, list)
      BY <1>3, <2>1, <2>4 DEF EnsureCachedCandidate
    <3>2. ~Contains(TakeRegistry, caps)
      BY <2>4 DEF TakeRegistry, Contains
    <3>3. Registry(list) /\ Contains(list, caps)
      BY <1>1, <3>2, RegisteredFacts
    <3> HIDE DEF list
    <3> QED
      BY <3>1, <3>3, EntryFacts
  <2> QED
    BY <2>3, <2>4
<1> QED
  BY <1>2, <1>3

(* The candidate's slot holds the candidate's mask, the slots before the   *)
(* candidates hold the members.                                            *)
LEMMA SlotFacts ==
    ASSUME NEW e, EntryOK(e), NEW caps, Contains(e.candidates, caps)
    PROVE  ValueWith(e, PoolSlot(e, caps))
             = MagnitudeOf(Append(e.members, caps), e.required)
<1> DEFINE s == e.members
           t == e.candidates
           i == CHOOSE k \in DOMAIN t : t[k] = caps
           pool == s \o t
<1>1. s \in MaskLists /\ t \in MaskLists
  BY DEF EntryOK, CacheEntries
<1>2. i \in DOMAIN t /\ t[i] = caps
  <2>1. DOMAIN t = 1..Len(t)
    BY <1>1 DEF MaskLists
  <2>2. \E k \in DOMAIN t : t[k] = caps
    BY <2>1 DEF Contains
  <2> QED
    BY <2>2
<1>3. e.evaluator.pool = pool /\ e.evaluator.required = e.required
      /\ PoolSlot(e, caps) = Len(s) + i
  BY DEF EntryOK, PoolSlot
<1> HIDE DEF s, t, i
<1>4. pool[Len(s) + i] = caps
  BY <1>1, <1>2 DEF MaskLists
<1>5. SubSeq(pool, 1, Len(s)) = s
  BY <1>1 DEF MaskLists
<1>6. ValueWith(e, PoolSlot(e, caps))
        = MagnitudeOf(Append(SubSeq(pool, 1, Len(s)), pool[Len(s) + i]), e.required)
  BY <1>3 DEF ValueWith, s
<1> HIDE DEF pool
<1> QED
  BY <1>4, <1>5, <1>6 DEF s

-----------------------------------------------------------------------------
(***************************************************************************)
(* The magnitude policy: a dispatch.                                       *)
(***************************************************************************)
(* A decision read off a margin, which a decline is not. *)
Genuine(kind, reached) ==
    /\ reached.score \in Int
    /\ reached = Decision(IF kind = "join" THEN reached.score > policy.join_margin
                          ELSE reached.score <= 0, reached.score)

(* from_values: a decline, or a margin's decision. *)
LEMMA FromValuesFacts ==
    ASSUME policy.join_margin \in Int, NEW kind,
           NEW with \in Measured, NEW without \in Measured
    PROVE  /\ FromValues(kind, with, without).score \in Int
           /\ ~with.ok \/ ~without.ok => FromValues(kind, with, without) = Decline
           /\ with.ok /\ without.ok =>
                FromValues(kind, with, without)
                  = Decision(IF kind = "join" THEN with.v - without.v > policy.join_margin
                             ELSE with.v - without.v <= 0, with.v - without.v)
           /\ with.ok /\ without.ok => Genuine(kind, FromValues(kind, with, without))
<1>1. with.v \in Int /\ without.v \in Int
  BY DEF Measured
<1>2. CASE ~with.ok \/ ~without.ok
  BY <1>2 DEF FromValues, Decline, Decision
<1>3. CASE with.ok /\ without.ok
  <2> DEFINE delta == with.v - without.v
  <2>1. FromValues(kind, with, without)
          = Decision(IF kind = "join" THEN delta > policy.join_margin ELSE delta <= 0, delta)
    BY <1>3 DEF FromValues
  <2>2. delta \in Int
    BY <1>1
  <2> HIDE DEF delta
  <2>3. Genuine(kind, FromValues(kind, with, without))
    BY <2>1, <2>2 DEF Genuine, Decision
  <2> QED
    BY <1>3, <2>1, <2>2, <2>3 DEF delta, Decision
<1> QED
  BY <1>2, <1>3

(* An equal decision agrees. *)
LEMMA SameAgrees ==
    ASSUME NEW kind, NEW d, d.score \in Int
    PROVE  Agrees(kind, d, d)
<1>1. Noise \in Nat /\ Roundoff \in Nat /\ Distance(d.score - d.score) = 0
  BY MagnitudeAssumption DEF Distance
<1> QED
  BY <1>1 DEF Agrees

(* On the fast route a margin that rounding moved agrees: where its act is *)
(* another, the frozen margin is roundoff away from the threshold.         *)
LEMMA RoundedAgrees ==
    ASSUME NEW kind \in {"join", "leave"}, policy.join_margin \in Int, policy.fast,
           NEW w \in Measured, NEW o \in Measured,
           NEW fw \in Measured, NEW fo \in Measured,
           w.ok = fw.ok, o.ok = fo.ok,
           w.ok /\ o.ok => Distance((w.v - o.v) - (fw.v - fo.v)) <= 2 * Roundoff
    PROVE  Agrees(kind, FromValues(kind, w, o), FromValues(kind, fw, fo))
<1> DEFINE m == policy.join_margin
           thr == ThresholdOf(kind)
           x == w.v - o.v
           y == fw.v - fo.v
           off == 2 * Roundoff
           Clears(n) == IF kind = "join" THEN n > m ELSE n <= 0
<1>1. Noise \in Nat /\ off \in Nat
  BY MagnitudeAssumption
<1>2. x \in Int /\ y \in Int
  BY DEF Measured
<1>3. CASE ~w.ok \/ ~o.ok
  <2>1. FromValues(kind, w, o) = Decline /\ FromValues(kind, fw, fo) = Decline
    BY <1>3 DEF FromValues
  <2> QED
    BY <2>1, SameAgrees DEF Decline, Decision
<1>4. CASE w.ok /\ o.ok
  <2>1. /\ FromValues(kind, w, o) = Decision(Clears(x), x)
        /\ FromValues(kind, fw, fo) = Decision(Clears(y), y)
        /\ Distance(x - y) <= off
    BY <1>4 DEF FromValues
  <2>2. thr \in Int /\ (kind = "join" => thr = m) /\ (kind = "leave" => thr = 0)
    BY DEF ThresholdOf
  <2> HIDE DEF x, y, off, m, thr
  <2>3. (x > thr <=> y > thr) \/ Distance(y - thr) <= off
    BY <1>1, <1>2, <2>1, <2>2 DEF Distance
  <2>4. x <= thr <=> ~(x > thr)
    BY <1>2, <2>2
  <2>5. y <= thr <=> ~(y > thr)
    BY <1>2, <2>2
  <2>6. Clears(x) = Clears(y) \/ Distance(y - thr) <= off
    <3>1. CASE kind = "join"
      BY <2>2, <2>3, <3>1
    <3>2. CASE kind = "leave"
      BY <2>2, <2>3, <2>4, <2>5, <3>2
    <3> QED
      BY <3>1, <3>2
  <2>7. Distance(x - y) <= Noise + off
    BY <1>1, <1>2, <2>1 DEF Distance
  <2> QED
    BY <2>1, <2>6, <2>7 DEF Agrees, Decision, off, thr
<1> QED
  BY <1>3, <1>4

(* Outside the knife edge an error within the noise and the rounding moves *)
(* no decision.                                                            *)
LEMMA OutsideTheEdge ==
    ASSUME NEW kind \in {"join", "leave"}, policy.join_margin \in Int,
           NEW u \in Int, NEW w \in Int, NEW b \in Int,
           Distance(u - w) <= Noise + Roundoff,
           ~IsKnifeEdge(u, b, ThresholdOf(kind))
    PROVE  Agrees(kind, FromValues(kind, Value(u), Value(b)),
                        FromValues(kind, Value(w), Value(b)))
<1> DEFINE m == policy.join_margin
           thr == ThresholdOf(kind)
           x == u - b
           y == w - b
           off == IF policy.fast THEN 2 * Roundoff ELSE Roundoff
<1>1. /\ Noise \in Nat /\ Roundoff \in Nat /\ Band \in Nat
      /\ Noise + Roundoff <= Band
  BY MagnitudeAssumption
<1>2. x \in Int /\ y \in Int /\ x - y = u - w
  OBVIOUS
<1>3. thr \in Int /\ (kind = "join" => thr = m) /\ (kind = "leave" => thr = 0)
  BY DEF ThresholdOf
<1>4. FromValues(kind, Value(u), Value(b))
        = Decision(IF kind = "join" THEN x > m ELSE x <= 0, x)
  BY DEF FromValues, Value
<1>5. FromValues(kind, Value(w), Value(b))
        = Decision(IF kind = "join" THEN y > m ELSE y <= 0, y)
  BY DEF FromValues, Value
<1> HIDE DEF thr
<1>6. ~(Distance(x - thr) <= Band)
  BY DEF IsKnifeEdge, thr
<1>7. Distance(x - y) <= Noise + Roundoff
  BY <1>2
<1> HIDE DEF x, y, m
<1>8. (x > thr <=> y > thr) /\ (x <= thr <=> y <= thr)
  BY <1>1, <1>2, <1>3, <1>6, <1>7 DEF Distance
<1>9. Distance(x - y) <= Noise + off
  <2>1. Roundoff <= off /\ off \in Nat
    BY <1>1
  <2>2. Distance(x - y) \in Int
    BY <1>2 DEF Distance
  <2> HIDE DEF off
  <2> QED
    BY <1>1, <1>7, <2>1, <2>2
<1>10. (IF kind = "join" THEN x > m ELSE x <= 0) <=> (IF kind = "join" THEN y > m ELSE y <= 0)
  BY <1>3, <1>8
<1>11. (IF kind = "join" THEN x > m ELSE x <= 0) = (IF kind = "join" THEN y > m ELSE y <= 0)
  BY <1>10
<1> QED
  BY <1>4, <1>5, <1>9, <1>11 DEF Agrees, Decision

(* The route of the policy's own evaluations against the generic one. *)
LEMMA RouteFacts ==
    ASSUME NEW c \in Calls, Reasonable(c), NEW agents \in {With(c), Without(c)},
           NEW masks, masks = Masks(agents, c.required),
           NEW m, m = MagnitudeOrZero(masks, c.required),
           NEW f, f = RouteOrZero(masks, c.required)
    PROVE  /\ m \in Measured /\ f \in Measured /\ Near(f, m)
           /\ ~policy.fast => f = m
<1>1. masks # <<>> => Sound(masks, c.required)
  BY SideValues
<1>2. ~policy.fast => f = m
  BY DEF MagnitudeOrZero, RouteOrZero, RouteMagnitude
<1>3. CASE masks = <<>>
  <2>1. m = Value(0) /\ f = Value(0)
    BY <1>3 DEF MagnitudeOrZero, RouteOrZero
  <2>2. Value(0) \in Measured /\ Near(Value(0), Value(0))
    BY MagnitudeAssumption DEF Value, Measured, Near, Distance
  <2> QED
    BY <1>2, <2>1, <2>2
<1>4. CASE masks # <<>>
  <2>1. /\ m = MagnitudeOf(masks, c.required) /\ m \in Measured
        /\ policy.fast => f = FastMagnitudeOf(masks, c.required)
        /\ FastMagnitudeOf(masks, c.required) \in Measured
        /\ Near(FastMagnitudeOf(masks, c.required), m)
    BY <1>1, <1>4 DEF Sound, MagnitudeOrZero, RouteOrZero, RouteMagnitude
  <2>2. Near(m, m)
    <3>1. m.v \in Int /\ Distance(m.v - m.v) <= Roundoff
      BY <2>1, MagnitudeAssumption DEF Measured, Distance
    <3> QED
      BY <3>1 DEF Near
  <2> QED
    BY <1>2, <2>1, <2>2
<1> QED
  BY <1>3, <1>4

(* Two fresh evaluations by the policy's route agree with two generic ones. *)
LEMMA FreshAgrees ==
    ASSUME policy.join_margin \in Int, NEW c \in Calls, Reasonable(c)
    PROVE  /\ Agrees(c.kind, FreshDecision(c), FrozenDecision(c))
           /\ EvaluationFailed(c) => FreshDecision(c) = Decline /\ FrozenDecision(c) = Decline
           /\ ~EvaluationFailed(c) => Genuine(c.kind, FreshDecision(c))
<1> DEFINE with == Masks(With(c), c.required)
           without == Masks(Without(c), c.required)
           mw == MagnitudeOrZero(with, c.required)
           mo == MagnitudeOrZero(without, c.required)
           fw == RouteOrZero(with, c.required)
           fo == RouteOrZero(without, c.required)
<1>1. /\ mw \in Measured /\ fw \in Measured /\ Near(fw, mw)
      /\ ~policy.fast => fw = mw
  BY RouteFacts
<1>2. /\ mo \in Measured /\ fo \in Measured /\ Near(fo, mo)
      /\ ~policy.fast => fo = mo
  BY RouteFacts
<1>3. /\ FrozenDecision(c) = FromValues(c.kind, mw, mo)
      /\ FreshDecision(c) = FromValues(c.kind, fw, fo)
  BY DEF FrozenDecision, FreshDecision
<1>4. EvaluationFailed(c) <=> ~mw.ok \/ ~mo.ok
  BY DEF EvaluationFailed
<1>5. c.kind \in {"join", "leave"}
  BY DEF Calls
<1> HIDE DEF mw, mo, fw, fo
<1>6. fw.ok = mw.ok /\ fo.ok = mo.ok
  BY <1>1, <1>2 DEF Near
<1>7. Agrees(c.kind, FreshDecision(c), FrozenDecision(c))
  <2>1. CASE policy.fast
    <3>1. fw.ok /\ fo.ok => Distance((fw.v - fo.v) - (mw.v - mo.v)) <= 2 * Roundoff
      <4> SUFFICES ASSUME fw.ok, fo.ok
                   PROVE  Distance((fw.v - fo.v) - (mw.v - mo.v)) <= 2 * Roundoff
        OBVIOUS
      <4>1. fw.v \in Int /\ fo.v \in Int /\ mw.v \in Int /\ mo.v \in Int
        BY <1>1, <1>2 DEF Measured
      <4>2. Distance(fw.v - mw.v) <= Roundoff /\ Distance(fo.v - mo.v) <= Roundoff
        BY <1>1, <1>2 DEF Near
      <4> QED
        BY <4>1, <4>2, MagnitudeAssumption DEF Distance
    <3> QED
      BY <1>1, <1>2, <1>3, <1>5, <1>6, <2>1, <3>1, RoundedAgrees
  <2>2. CASE ~policy.fast
    BY <1>1, <1>2, <1>3, <2>2, FromValuesFacts, SameAgrees
  <2> QED
    BY <2>1, <2>2
<1>8. EvaluationFailed(c) => FreshDecision(c) = Decline /\ FrozenDecision(c) = Decline
  BY <1>3, <1>4, <1>6 DEF FromValues
<1>9. ~EvaluationFailed(c) => Genuine(c.kind, FreshDecision(c))
  BY <1>1, <1>2, <1>3, <1>4, <1>6, FromValuesFacts
<1> QED
  BY <1>7, <1>8, <1>9

(* A certified margin, a margin taken afresh at the knife edge and one     *)
(* that no knife edge stops agree with the frozen one.                     *)
LEMMA SettledAgrees ==
    ASSUME NEW c \in Calls, policy.join_margin \in Int,
           NEW noise \in -Noise .. Noise, NEW proof \in BOOLEAN,
           NEW u \in Measured, NEW w \in Measured, NEW f \in Measured, NEW b \in Int,
           Near(u, w), Near(f, w), ~policy.fast => f = w,
           f = RouteMagnitude(Masks(With(c), c.required), c.required),
           NEW noisy, noisy = (IF u.ok THEN Value(u.v + noise) ELSE u),
           proof => policy.fast /\ Distance(u.v - b) <= Roundoff,
           NEW d, d = FromValues(c.kind, Settled(c, noisy, b, proof), Value(b))
    PROVE  /\ Agrees(c.kind, d, FromValues(c.kind, w, Value(b)))
           /\ w.ok => Genuine(c.kind, d)
<1>1. c.kind \in {"join", "leave"} /\ Noise \in Nat /\ Roundoff \in Nat
  BY MagnitudeAssumption DEF Calls
<1>2. /\ u.v \in Int /\ w.v \in Int /\ f.v \in Int
      /\ u.ok = w.ok /\ f.ok = w.ok /\ w = [ok |-> w.ok, v |-> w.v]
  BY DEF Measured, Near
<1>3. Value(b) \in Measured /\ Value(b).ok /\ Value(b).v = b
  BY DEF Measured, Value
<1>4. CASE ~w.ok
  <2>1. Settled(c, noisy, b, proof) = u
    BY <1>2, <1>4 DEF Settled
  <2>2. d = Decline /\ FromValues(c.kind, w, Value(b)) = Decline
    BY <1>2, <1>4, <2>1 DEF FromValues
  <2>3. Decline.score \in Int
    BY DEF Decline, Decision
  <2>4. Agrees(c.kind, Decline, Decline)
    BY <2>3, SameAgrees
  <2> QED
    BY <1>4, <2>2, <2>4
<1>5. CASE w.ok
  <2>1. /\ noisy = Value(u.v + noise) /\ noisy.ok /\ noisy.v = u.v + noise
        /\ w = Value(w.v) /\ noise \in Int /\ Distance(noise) <= Noise
        /\ Distance(u.v - w.v) <= Roundoff /\ Distance(f.v - w.v) <= Roundoff
    BY <1>1, <1>2, <1>5 DEF Value, Near, Distance
  <2>2. CASE proof
    <3>1. d = FromValues(c.kind, Value(b), Value(b)) /\ policy.fast
      BY <2>1, <2>2 DEF Settled
    <3>2. Distance((b - b) - (w.v - b)) <= 2 * Roundoff
      <4>1. Distance(u.v - b) <= Roundoff
        BY <2>2
      <4> QED
        BY <1>1, <1>2, <2>1, <4>1 DEF Distance
    <3>3. Agrees(c.kind, d, FromValues(c.kind, w, Value(b)))
      <4> DEFINE k == c.kind
                 base == Value(b)
      <4>1. /\ k \in {"join", "leave"} /\ base \in Measured /\ w \in Measured
            /\ base.ok = w.ok /\ base.ok = base.ok
            /\ Distance((base.v - base.v) - (w.v - base.v)) <= 2 * Roundoff
        BY <1>1, <1>3, <1>5, <3>2
      <4> HIDE DEF base, k
      <4>2. Agrees(k, FromValues(k, base, base), FromValues(k, w, base))
        BY <3>1, <4>1, RoundedAgrees
      <4> QED
        BY <3>1, <4>2 DEF base, k
    <3> QED
      BY <1>3, <3>1, <3>3, FromValuesFacts
  <2>3. CASE ~proof /\ IsKnifeEdge(noisy.v, b, ThresholdOf(c.kind))
    <3>1. d = FromValues(c.kind, f, Value(b)) /\ f.ok
      BY <1>2, <1>5, <2>1, <2>3 DEF Settled
    <3>2. Genuine(c.kind, d) /\ d.score \in Int
      BY <1>3, <3>1, FromValuesFacts
    <3>3. CASE policy.fast
      <4> DEFINE k == c.kind
                 base == Value(b)
      <4>1. Distance((f.v - b) - (w.v - b)) <= 2 * Roundoff
        BY <1>1, <1>2, <2>1 DEF Distance
      <4>2. /\ k \in {"join", "leave"} /\ base \in Measured
            /\ f.ok = w.ok /\ base.ok = base.ok
            /\ Distance((f.v - base.v) - (w.v - base.v)) <= 2 * Roundoff
        BY <1>1, <1>2, <1>3, <4>1
      <4> HIDE DEF base, k
      <4>3. Agrees(k, FromValues(k, f, base), FromValues(k, w, base))
        BY <3>3, <4>2, RoundedAgrees
      <4> QED
        BY <3>1, <3>2, <4>3 DEF base, k
    <3>4. CASE ~policy.fast
      BY <3>1, <3>2, <3>4, SameAgrees
    <3> QED
      BY <3>3, <3>4
  <2>4. CASE ~proof /\ ~IsKnifeEdge(noisy.v, b, ThresholdOf(c.kind))
    <3> DEFINE x == u.v + noise
    <3>1. d = FromValues(c.kind, Value(x), Value(b))
      BY <2>1, <2>4 DEF Settled
    <3>2. ~IsKnifeEdge(x, b, ThresholdOf(c.kind))
      BY <2>1, <2>4
    <3>3. x \in Int /\ Distance(x - w.v) <= Noise + Roundoff
      BY <1>1, <1>2, <2>1 DEF Distance
    <3> HIDE DEF x
    <3>4. Value(x) \in Measured /\ Value(x).ok
      BY <3>3 DEF Value, Measured
    <3>5. Genuine(c.kind, d)
      BY <1>3, <3>1, <3>4, FromValuesFacts
    <3>6. Agrees(c.kind, d, FromValues(c.kind, Value(w.v), Value(b)))
      BY <1>1, <1>2, <3>1, <3>2, <3>3, OutsideTheEdge
    <3> QED
      BY <2>1, <3>5, <3>6
  <2> QED
    BY <2>2, <2>3, <2>4
<1> QED
  BY <1>4, <1>5

(* The entry a dispatch leaves, and its decision against a fresh one. *)
LEMMA DispatchedAgrees ==
    ASSUME CacheOK, policy.join_margin \in Int,
           NEW c \in Calls, Reasonable(c),
           NEW noise \in -Noise .. Noise, NEW proof \in Certificates,
           NEW d, d = Dispatched(c, noise, proof)
    PROVE  /\ d.entry = NoValue \/ EntryOK(d.entry)
           /\ Agrees(c.kind, d.decision, FrozenDecision(c))
           /\ ~EvaluationFailed(c) => Genuine(c.kind, d.decision)
<1> DEFINE r == c.required
           caps == Staff[c.agent].caps
           with == Masks(With(c), r)
           without == Masks(Without(c), r)
           W == MagnitudeOf(with, r)
           O == MagnitudeOf(without, r)
           F == RouteMagnitude(with, r)
           U == MagnitudeOf(Append(without, caps), r)
           base == CachedBase(r, without)
           entry == EnsureCachedCandidate(r, without, caps)
           fresh == ValueWith(entry, PoolSlot(entry, caps))
           noisy == IF fresh.ok THEN Value(fresh.v + noise) ELSE fresh
           certain == proof /\ Distance(fresh.v - entry.evaluator.base) <= Roundoff
           mw == MagnitudeOrZero(with, r)
           mo == MagnitudeOrZero(without, r)
<1>1. /\ with \in MaskLists /\ without \in MaskLists
      /\ with # <<>> => Sound(with, r)
      /\ without # <<>> => Sound(without, r)
      /\ Len(with) = Len(without) => with = without
      /\ Len(with) # Len(without) => with # <<>> /\ U \in Measured /\ Near(U, W)
  BY SideValues
<1>2. r \in Requirements /\ caps \in MaskSet
  BY CallFacts DEF MaskSet
<1>3. FrozenDecision(c) = FromValues(c.kind, mw, mo)
  BY DEF FrozenDecision
<1>4. mw \in Measured /\ mo \in Measured
  BY RouteFacts
<1>8. EvaluationFailed(c) <=> ~mw.ok \/ ~mo.ok
  BY DEF EvaluationFailed
<1>9. proof \in BOOLEAN /\ (proof => policy.fast)
  BY DEF Certificates
<1>10. mw.ok /\ mo.ok => Genuine(c.kind, FrozenDecision(c))
  <2> HIDE DEF mw, mo
  <2> QED
    BY <1>3, <1>4, FromValuesFacts
<1>5. CASE without = <<>>
  <2>1. d.entry = cache /\ d.decision = FreshDecision(c)
    BY <1>5 DEF Dispatched
  <2> QED
    BY <2>1, FreshAgrees DEF CacheOK
<1>6. CASE without # <<>> /\ Len(with) = Len(without)
  <2>1. /\ d.entry = base
        /\ d.decision = IF base = NoValue THEN Decline
                        ELSE FromValues(c.kind, Value(base.evaluator.base),
                                        Value(base.evaluator.base))
    BY <1>6 DEF Dispatched
  <2>2. with = without
    BY <1>1, <1>6
  <2>3. O \in Measured /\ mw = O /\ mo = O
    BY <1>1, <1>6, <2>2 DEF MagnitudeOrZero, Sound
  <2>4. Answers(base, r, without)
    BY <1>1, <1>2, <1>6, <2>3, BaseFacts
  <2> HIDE DEF r, with, without, O, base, mw, mo
  <2>5. CASE O.ok
    <3>1. EntryOK(base) /\ base.required = r /\ base.members = without
      BY <2>4, <2>5 DEF Answers, O
    <3>2. base # NoValue /\ O = Value(base.evaluator.base)
      BY <3>1 DEF EntryOK, O
    <3>3. d.decision = FrozenDecision(c)
      BY <1>3, <2>1, <2>3, <3>2
    <3>4. FrozenDecision(c).score \in Int
      BY <1>3, <1>4, FromValuesFacts
    <3> QED
      BY <1>8, <1>10, <2>1, <3>1, <3>3, <3>4, SameAgrees
  <2>6. CASE ~O.ok
    <3>1. base = NoValue
      BY <2>4, <2>6 DEF Answers, O
    <3>2. FrozenDecision(c) = Decline
      BY <1>3, <2>3, <2>6 DEF FromValues
    <3>3. d.entry = NoValue /\ d.decision = Decline /\ Decline.score \in Int
      BY <2>1, <3>1 DEF Decline, Decision
    <3> QED
      BY <1>8, <2>3, <2>6, <3>2, <3>3, SameAgrees
  <2> QED
    BY <2>5, <2>6
<1>7. CASE without # <<>> /\ Len(with) # Len(without)
  <2>1. /\ d.entry = entry
        /\ d.decision = IF entry = NoValue THEN Decline
                        ELSE FromValues(c.kind,
                               Settled(c, noisy, entry.evaluator.base, certain),
                               Value(entry.evaluator.base))
    BY <1>7 DEF Dispatched
  <2>2. /\ W \in Measured /\ O \in Measured /\ U \in Measured
        /\ mw = W /\ mo = O /\ Near(U, W) /\ F = RouteOrZero(with, r)
    BY <1>1, <1>7 DEF MagnitudeOrZero, RouteOrZero, Sound
  <2>3. F \in Measured /\ Near(F, W) /\ (~policy.fast => F = W)
    <3>1. /\ RouteOrZero(with, r) \in Measured /\ Near(RouteOrZero(with, r), mw)
          /\ ~policy.fast => RouteOrZero(with, r) = mw
      BY RouteFacts
    <3> HIDE DEF mw, W, F, r, with
    <3> QED
      BY <2>2, <3>1
  <2>4. Answers(entry, r, without) /\ (O.ok => Contains(entry.candidates, caps))
    <3> HIDE DEF with, caps, r
    <3> QED
      BY <1>1, <1>2, <1>7, <2>2, CandidateFacts
  <2> HIDE DEF r, without, W, O, F, U, base, entry, caps, mw, mo
  <2>5. CASE O.ok
    <3>1. EntryOK(entry) /\ entry.required = r /\ entry.members = without
          /\ Contains(entry.candidates, caps)
      BY <2>4, <2>5 DEF Answers, O
    <3> DEFINE b == entry.evaluator.base
    <3>2. entry # NoValue /\ O = Value(b) /\ b \in Int
      BY <3>1, <2>2 DEF EntryOK, O, CacheEntries, Evaluators
    <3>3. fresh = U
      BY <3>1, SlotFacts DEF U
    <3> HIDE DEF b, fresh
    <3>4. noisy = (IF U.ok THEN Value(U.v + noise) ELSE U)
      BY <3>3
    <3>5. certain \in BOOLEAN /\ (certain => policy.fast /\ Distance(U.v - b) <= Roundoff)
      BY <1>9, <3>3 DEF b
    <3> HIDE DEF noisy, certain
    <3>6. /\ Agrees(c.kind, d.decision, FromValues(c.kind, W, Value(b)))
          /\ W.ok => Genuine(c.kind, d.decision)
      <4>1. d.decision = FromValues(c.kind, Settled(c, noisy, b, certain), Value(b))
        BY <2>1, <3>2 DEF b
      <4>2. F = RouteMagnitude(Masks(With(c), c.required), c.required)
        BY DEF F, r
      <4> QED
        BY <2>2, <2>3, <3>2, <3>4, <3>5, <4>1, <4>2, SettledAgrees
    <3> QED
      BY <1>3, <1>8, <2>1, <2>2, <3>1, <3>2, <3>6
  <2>6. CASE ~O.ok
    <3>1. entry = NoValue
      BY <2>4, <2>6 DEF Answers, O
    <3>2. FrozenDecision(c) = Decline
      BY <1>3, <2>2, <2>6 DEF FromValues
    <3>3. d.entry = NoValue /\ d.decision = Decline /\ Decline.score \in Int
      BY <2>1, <3>1 DEF Decline, Decision
    <3> QED
      BY <1>8, <2>2, <2>6, <3>2, <3>3, SameAgrees
  <2> QED
    BY <2>5, <2>6
<1> QED
  BY <1>5, <1>6, <1>7

-----------------------------------------------------------------------------
(***************************************************************************)
(* The magnitude policy: every step.                                       *)
(***************************************************************************)
AnswerFresh ==
    answer # NoValue /\ ~policy.typed =>
        IF policy.kind = "policy"
        THEN Agrees(answer.call.kind, answer.inner, FrozenDecision(answer.call))
        ELSE LET fresh == MagnitudeOrZero(Masks(answer.agents, answer.required),
                                          answer.required)
             IN  answer.value = IF fresh.ok THEN fresh.v ELSE NoValue

MagInv == policy \in MagConfigs /\ CacheOK /\ AnswerFresh

(* The invariant is at least the property. *)
LEMMA MagInvGives == MagInv => MagnitudeDecidesFresh
<1> SUFFICES ASSUME MagInv PROVE MagnitudeDecidesFresh
  OBVIOUS
<1>1. answer # NoValue /\ ~policy.typed /\ policy.kind = "policy" =>
         Agrees(answer.call.kind, answer.inner, FrozenDecision(answer.call))
  BY DEF MagInv, AnswerFresh
<1>2. answer # NoValue /\ ~policy.typed /\ policy.kind # "policy" =>
         LET fresh == MagnitudeOrZero(Masks(answer.agents, answer.required),
                                      answer.required)
         IN  answer.value = IF fresh.ok THEN fresh.v ELSE NoValue
  BY DEF MagInv, AnswerFresh
<1>3. cache # NoValue =>
         /\ Len(cache.candidates) <= REGISTRY_CAP
         /\ IsInjective(cache.candidates)
         /\ cache.evaluator.required = cache.required
         /\ cache.evaluator.pool = cache.members \o cache.candidates
  BY DEF MagInv, CacheOK, EntryOK, Registry
<1> QED
  BY <1>1, <1>2, <1>3 DEF MagnitudeDecidesFresh

(* The typed arm evaluates what the probe evaluates. *)
LEMMA TypedSideFacts ==
    ASSUME NEW agents \in Seq(DOMAIN Staff), NEW required \in Requirements,
           HasRoles(agents),
           MagnitudeOrZero(Masks(agents, required), required).ok
    PROVE  /\ Typeable(agents, required)
           /\ TypedOrZero(TypedSide(agents, required), required) \in Measured
           /\ TypedOrZero(TypedSide(agents, required), required).ok
<1> DEFINE s == RelevantAgents(agents, required)
           side == [k \in DOMAIN s |-> Staff[s[k]]]
<1>1. s \in Seq(DOMAIN Staff) /\ IsInjective(s)
      /\ Range(s) = Relevant(Range(agents), required)
  BY RelevantFacts
<1>2. Typeable(agents, required)
  <2>1. ToSet(s) = Range(s) /\ ToSet(agents) = Range(agents)
    BY DEF ToSet, Range
  <2>2. ToSet(s) \subseteq ToSet(agents)
    BY <1>1, <2>1 DEF Relevant
  <2> QED
    BY <2>2 DEF Typeable, HasRoles
<1>3. TypedSide(agents, required) = side /\ Masks(agents, required) = CapsOf(s)
  BY DEF TypedSide, Masks
<1> HIDE DEF s
<1>4. CASE s = <<>>
  <2>1. side = <<>>
    BY <1>4
  <2> QED
    BY <1>2, <1>3, <2>1 DEF TypedOrZero, Value, Measured
<1>5. CASE s # <<>>
  <2>1. side # <<>>
    <3>1. 1 \in DOMAIN s
      BY <1>1, <1>5
    <3> QED
      BY <3>1
  <2>2. MagnitudeOf(CapsOf(s), required).ok
    <3>1. CapsOf(s) # <<>>
      BY <1>1, <1>5, CapsOfFacts
    <3> QED
      BY <1>3, <3>1 DEF MagnitudeOrZero
  <2>3. TypedMagnitude(side, required) \in Measured /\ TypedMagnitude(side, required).ok
    <3> DEFINE A == Range(s)
    <3>1. s \in LineUps(A) /\ A \subseteq DOMAIN Staff
      BY <1>1, OnceFacts DEF LineUps
    <3>2. A # {}
      <4>1. 1 \in DOMAIN s
        BY <1>1, <1>5
      <4> QED
        BY <4>1 DEF Range
    <3>3. A \in (SUBSET DOMAIN Staff) \ {{}}
      BY <3>1, <3>2
    <3> HIDE DEF A
    <3> QED
      BY <2>2, <3>1, <3>3, ProbeSeesFailures DEF Measured
  <2> QED
    BY <1>2, <1>3, <2>1, <2>3 DEF TypedOrZero
<1> QED
  BY <1>4, <1>5

(* A typed decision is a decline or reads off a margin. *)
LEMMA TypedGenuine ==
    ASSUME policy.join_margin \in Int, NEW c \in Calls, Reasonable(c),
           ~EvaluationFailed(c), HasRoles(With(c)), HasRoles(Without(c))
    PROVE  Genuine(c.kind, TypedDecision(c))
<1>1. /\ c.required \in Requirements
      /\ With(c) \in Seq(DOMAIN Staff) /\ Without(c) \in Seq(DOMAIN Staff)
  BY CallFacts
<1> DEFINE with == TypedOrZero(TypedSide(With(c), c.required), c.required)
           without == TypedOrZero(TypedSide(Without(c), c.required), c.required)
<1>2. /\ Typeable(With(c), c.required) /\ with \in Measured /\ with.ok
      /\ Typeable(Without(c), c.required) /\ without \in Measured /\ without.ok
  BY <1>1, TypedSideFacts DEF EvaluationFailed
<1>3. TypedDecision(c) = FromValues(c.kind, with, without)
  BY <1>2 DEF TypedDecision
<1> HIDE DEF with, without
<1> QED
  BY <1>2, <1>3, FromValuesFacts

(* decide: every path of a dispatch, cached or not. *)
LEMMA DecidedAgrees ==
    ASSUME MagInv, NEW c \in Calls, Reasonable(c),
           NEW noise \in -Noise .. Noise, NEW proof \in Certificates,
           NEW d, d = Decided(c, noise, proof)
    PROVE  /\ d.entry = NoValue \/ EntryOK(d.entry)
           /\ ~policy.typed => Agrees(c.kind, d.decision, FrozenDecision(c))
           /\ ~EvaluationFailed(c)
                /\ (policy.typed => HasRoles(With(c)) /\ HasRoles(Without(c)))
              => Genuine(c.kind, d.decision)
<1>1. policy.join_margin \in Int /\ CacheOK
  BY CallersHoldStaff DEF MagInv
<1>2. CASE policy.typed
  <2>1. d.entry = cache /\ d.decision = TypedDecision(c)
    BY <1>2 DEF Decided
  <2> QED
    BY <1>1, <1>2, <2>1, TypedGenuine DEF CacheOK
<1>3. CASE ~policy.typed /\ c.kind = "leave" /\ policy.leave_variant = "Fresh"
  <2>1. d.entry = cache /\ d.decision = FreshDecision(c)
    BY <1>3 DEF Decided
  <2> QED
    BY <1>1, <2>1, FreshAgrees DEF CacheOK
<1>4. CASE ~policy.typed /\ ~(c.kind = "leave" /\ policy.leave_variant = "Fresh")
  <2>1. d = Dispatched(c, noise, proof)
    BY <1>4 DEF Decided
  <2> QED
    BY <1>1, <2>1, DispatchedAgrees
<1> QED
  BY <1>2, <1>3, <1>4

(* should_join and should_leave keep the invariant. *)
LEMMA DecideStep ==
    ASSUME MagInv, Decide
    PROVE  MagInv'
<1>1. PICK c \in Calls, noise \in -Noise .. Noise, proof \in Certificates :
         /\ Reasonable(c)
         /\ cache' = Decided(c, noise, proof).entry
         /\ answer' = [call |-> c, inner |-> Decided(c, noise, proof).decision]
  BY DEF Decide
<1>2. policy' = policy /\ policy.kind = "policy"
  BY DEF Decide
<1> DEFINE d == Decided(c, noise, proof)
<1>3. /\ d.entry = NoValue \/ EntryOK(d.entry)
      /\ ~policy.typed => Agrees(c.kind, d.decision, FrozenDecision(c))
  BY <1>1, <1>2, DecidedAgrees
<1> HIDE DEF d
<1>4. CacheOK'
  <2>1. cache' = d.entry
    BY <1>1 DEF d
  <2> QED
    BY <1>3, <2>1 DEF CacheOK
<1>5. AnswerFresh'
  <2>1. answer'.call = c /\ answer'.inner = d.decision
    BY <1>1 DEF d
  <2>2. FrozenDecision(answer.call)' = FrozenDecision(c)
    BY <1>2, <2>1 DEF FrozenDecision, FromValues, MagnitudeOrZero
  <2>3. ~policy'.typed =>
           Agrees(answer.call.kind, answer.inner, FrozenDecision(answer.call))'
    BY <1>2, <1>3, <2>1, <2>2 DEF Agrees, ThresholdOf
  <2> QED
    BY <1>2, <2>3 DEF AnswerFresh
<1> QED
  BY <1>2, <1>4, <1>5 DEF MagInv

(* calculate_value keeps the invariant. *)
LEMMA CalculateStep ==
    ASSUME MagInv, CalculateValue
    PROVE  MagInv'
<1>1. PICK agents \in Coalitions, required \in Requirements :
         LET masks == Masks(agents, required)
             entry == CachedBase(required, masks)
             typed == TypedOrZero(TypedSide(agents, required), required)
             cached == ~policy.typed /\ masks # <<>>
         IN  /\ cache' = IF cached THEN entry ELSE cache
             /\ answer' = [agents |-> agents, required |-> required,
                           value |-> IF cached THEN IF entry = NoValue THEN NoValue
                                                    ELSE entry.evaluator.base
                                     ELSE IF ~policy.typed THEN 0
                                     ELSE IF Typeable(agents, required) /\ typed.ok
                                          THEN typed.v ELSE NoValue]
  BY DEF CalculateValue
<1> DEFINE masks == Masks(agents, required)
           entry == CachedBase(required, masks)
           cached == ~policy.typed /\ masks # <<>>
           M == MagnitudeOf(masks, required)
           fresh == MagnitudeOrZero(masks, required)
<1>2. policy' = policy /\ policy.kind # "policy" /\ CacheOK
  BY DEF CalculateValue, MagInv
<1>3. /\ cache' = IF cached THEN entry ELSE cache
      /\ answer'.agents = agents /\ answer'.required = required
      /\ cached => answer'.value = IF entry = NoValue THEN NoValue
                                   ELSE entry.evaluator.base
      /\ ~cached /\ ~policy.typed => answer'.value = 0
  BY <1>1
<1>4. masks \in MaskLists /\ (masks # <<>> => M \in Measured)
  <2> DEFINE s == RelevantAgents(agents, required)
  <2>1. s \in Seq(DOMAIN Staff) /\ IsInjective(s)
    BY CallersHoldStaff, RelevantFacts
  <2>2. masks = CapsOf(s)
    BY DEF Masks
  <2> HIDE DEF s, masks
  <2>3. masks \in MaskLists /\ (masks = <<>> <=> s = <<>>)
    BY <2>1, <2>2, CapsOfFacts
  <2> QED
    BY <2>1, <2>2, <2>3, SameMagnitude DEF Sound
<1>5. CASE cached
  <2>1. Answers(entry, required, masks)
    BY <1>2, <1>4, <1>5, BaseFacts
  <2>2. fresh = M
    BY <1>5 DEF MagnitudeOrZero
  <2>3. /\ entry = NoValue \/ EntryOK(entry)
        /\ (IF entry = NoValue THEN NoValue ELSE entry.evaluator.base)
             = (IF fresh.ok THEN fresh.v ELSE NoValue)
    <3> HIDE DEF fresh, masks, entry
    <3>1. CASE M.ok
      <4>1. EntryOK(entry) /\ entry.required = required /\ entry.members = masks
        BY <2>1, <3>1 DEF Answers
      <4>2. entry # NoValue /\ M = Value(entry.evaluator.base)
        BY <4>1 DEF EntryOK
      <4> QED
        BY <2>2, <3>1, <4>1, <4>2 DEF Value
    <3>2. CASE ~M.ok
      BY <2>1, <2>2, <3>2 DEF Answers
    <3> QED
      BY <3>1, <3>2
  <2> HIDE DEF fresh, masks, entry
  <2>4. CacheOK'
    BY <1>3, <1>5, <2>3 DEF CacheOK
  <2>5. AnswerFresh'
    <3>1. answer'.value = IF fresh.ok THEN fresh.v ELSE NoValue
      BY <1>3, <1>5, <2>3
    <3> QED
      BY <1>2, <1>3, <3>1 DEF AnswerFresh, fresh, masks
  <2> QED
    BY <1>2, <2>4, <2>5 DEF MagInv
<1>6. CASE ~cached
  <2>1. CacheOK'
    BY <1>2, <1>3, <1>6 DEF CacheOK
  <2>2. AnswerFresh'
    <3>1. ~policy.typed => fresh.ok /\ fresh.v = 0
      BY <1>6 DEF MagnitudeOrZero, Value
    <3>2. ~policy.typed => answer'.value = IF fresh.ok THEN fresh.v ELSE NoValue
      BY <1>3, <1>6, <3>1
    <3> HIDE DEF fresh, masks
    <3> QED
      BY <1>2, <1>3, <3>2 DEF AnswerFresh, fresh, masks
  <2> QED
    BY <1>2, <2>1, <2>2 DEF MagInv
<1> QED
  BY <1>5, <1>6

(* Every step of the policy keeps the invariant. *)
LEMMA MagNextStep ==
    ASSUME MagInv, [MagNext]_magvars
    PROVE  MagInv'
<1>1. CASE Decide
  BY <1>1, DecideStep
<1>2. CASE CalculateValue
  BY <1>2, CalculateStep
<1>3. CASE Returned
  BY <1>3 DEF Returned, MagInv, CacheOK, AnswerFresh
<1>4. CASE UNCHANGED magvars
  <2>1. policy' = policy /\ cache' = cache /\ answer' = answer
    BY <1>4 DEF magvars
  <2>2. FrozenDecision(answer.call)' = FrozenDecision(answer.call)
    BY <2>1 DEF FrozenDecision, FromValues, MagnitudeOrZero
  <2> QED
    BY <2>1, <2>2 DEF MagInv, CacheOK, AnswerFresh, Agrees, ThresholdOf
<1> QED
  BY <1>1, <1>2, <1>3, <1>4 DEF MagNext

(* The cache is sound and the answers are fresh in every state. *)
LEMMA MagInvHolds == MagSpec => []MagInv
<1>1. MagInit => MagInv
  BY DEF MagInit, MagInv, CacheOK, AnswerFresh
<1>2. MagInv /\ [MagNext]_magvars => MagInv'
  BY MagNextStep
<1> QED
  BY <1>1, <1>2, PTL DEF MagSpec

(* The default magnitude policy acts as two fresh evaluations would,       *)
(* whatever its cache went through and in whatever order the members are   *)
(* listed; the EQ3 arm acts otherwise only where the frozen margin is      *)
(* float noise away from its threshold.  For every staffing, requirement,  *)
(* registry cap, noise, rounding and sequence of calls.                    *)
THEOREM DecisionsAreFresh == MagSpec => []MagnitudeDecidesFresh
<1>1. MagInv => MagnitudeDecidesFresh
  BY MagInvGives
<1> QED
  BY <1>1, MagInvHolds, PTL

-----------------------------------------------------------------------------
(***************************************************************************)
(* The residual wrapper: what an agent's steps are worth.                  *)
(***************************************************************************)
LEMMA GainFacts ==
    ASSUME residual.priced \in Residuals, NEW c \in Calls, Reasonable(c),
           NEW gained, gained = Uncovered(Without(c)) - Uncovered(With(c))
    PROVE  gained \in Nat /\ (SoleCoverer(c) => gained >= 1)
<1> DEFINE p == residual.priced
           W == With(c)
           O == Without(c)
           Open(agents) == {s \in DOMAIN p : ~StepStaffed(agents, s)}
           Sum(S) == SumFunctionOnSet(p, S)
<1>1. IsFiniteSet(DOMAIN p) /\ \A s \in DOMAIN p : p[s] \in Nat
  BY PricesAreCounts
<1>2. ToSet(O) \subseteq ToSet(W)
  <2>1. ToSet(W) = Range(W) /\ ToSet(O) = Range(O)
    BY DEF ToSet, Range
  <2> QED
    BY <2>1, CallFacts
<1>3. Open(W) \subseteq Open(O)
  BY <1>2 DEF StepStaffed
<1>4. Uncovered(W) = Sum(Open(W)) /\ Uncovered(O) = Sum(Open(O))
  BY DEF Uncovered
<1>5. IsFiniteSet(Open(O)) /\ \A s \in Open(O) : p[s] \in Nat
  BY <1>1, FS_Subset
<1> HIDE DEF Open
<1>6. Sum(Open(W)) <= Sum(Open(O))
  BY <1>3, <1>5, SumGrows
<1>7. Sum(Open(W)) \in Int /\ Sum(Open(O)) \in Int
  <2>1. IsFiniteSet(Open(W)) /\ \A s \in Open(W) : p[s] \in Nat
    BY <1>3, <1>5, FS_Subset
  <2> QED
    BY <1>5, <2>1, SumInt
<1>8. ASSUME SoleCoverer(c) PROVE Sum(Open(O)) >= 1 + Sum(Open(W))
  <2>1. PICK s \in DOMAIN p : p[s] > 0 /\ StepStaffed(W, s) /\ ~StepStaffed(O, s)
    BY <1>8 DEF SoleCoverer
  <2>2. s \in Open(O) /\ s \notin Open(W)
    BY <2>1 DEF Open
  <2> DEFINE R == Open(O) \ {s}
  <2>3. Sum(Open(O)) = p[s] + Sum(R)
    BY <1>5, <2>2, SumTakesOut
  <2>4. /\ IsFiniteSet(R) /\ \A x \in R : p[x] \in Nat
        /\ Open(W) \in SUBSET R
    BY <1>3, <1>5, <2>2, FS_Subset
  <2>5. Sum(Open(W)) <= Sum(R) /\ Sum(R) \in Int
    BY <2>4, SumGrows, SumInt
  <2>6. p[s] \in Nat
    BY <1>1
  <2> HIDE DEF Sum, R
  <2> QED
    BY <1>7, <2>1, <2>3, <2>5, <2>6
<1> HIDE DEF Sum
<1> QED
  BY <1>4, <1>6, <1>7, <1>8

(* A correction by a clamped lambda is never negative. *)
LEMMA CorrectionFacts ==
    ASSUME NEW l \in Nat, NEW g \in Nat
    PROVE  /\ l * g \in Nat
           /\ l = 0 => l * g = 0
           /\ g >= 1 => l * g >= l
OBVIOUS

(* Folding moves a genuine decision towards keeping, and far enough when   *)
(* the coefficient is above its score.                                     *)
LEMMA FoldFacts ==
    ASSUME policy.join_margin \in Int, residual.lambda \in Nat,
           residual.priced \in Residuals, NEW c \in Calls, Reasonable(c),
           NEW base, Genuine(c.kind, base),
           NEW outer, outer = Folded(c, base)
    PROVE  /\ c.kind = "join" /\ base.act => outer.act
           /\ c.kind = "leave" /\ outer.act => base.act
           /\ residual.lambda = 0 => outer = base
           /\ SoleCoverer(c)
                /\ residual.lambda > Distance(policy.join_margin) + Distance(base.score)
              => outer.act = (c.kind = "join")
<1> DEFINE gained == Uncovered(Without(c)) - Uncovered(With(c))
           l == residual.lambda
           m == policy.join_margin
           x == base.score
           corr == l * (IF gained > 0 THEN gained ELSE 0)
           y == x + corr
           Clears(n) == IF c.kind = "join" THEN n > m ELSE n <= 0
<1>1. outer = Decision(Clears(y), y)
  BY DEF Folded
<1>2. gained \in Nat /\ (SoleCoverer(c) => gained >= 1)
  BY GainFacts
<1>3. x \in Int /\ base = Decision(Clears(x), x) /\ l \in Nat /\ m \in Int
      /\ base.act = Clears(x)
  BY DEF Genuine, Decision
<1>4. c.kind \in {"join", "leave"}
  BY DEF Calls
<1> HIDE DEF gained, l
<1>5. corr = l * gained
  BY <1>2, <1>3
<1>6. corr \in Nat /\ (l = 0 => corr = 0) /\ (SoleCoverer(c) => corr >= l)
  BY <1>2, <1>3, <1>5, CorrectionFacts
<1> HIDE DEF corr
<1>7. y = x + corr /\ y \in Int
  BY <1>3, <1>6
<1>8. outer.act = Clears(y) /\ outer.score = y
  BY <1>1 DEF Decision
<1> HIDE DEF x, m
<1>9. l = 0 => y = x
  BY <1>3, <1>6, <1>7
<1> HIDE DEF y
<1>10. ASSUME c.kind = "join", base.act PROVE outer.act
  <2>1. x > m
    BY <1>3, <1>10
  <2>2. y > m
    BY <1>3, <1>6, <1>7, <2>1
  <2> QED
    BY <1>8, <1>10, <2>2
<1>11. ASSUME c.kind = "leave", outer.act PROVE base.act
  <2>1. y <= 0
    BY <1>8, <1>11
  <2>2. x <= 0
    BY <1>3, <1>6, <1>7, <2>1
  <2> QED
    BY <1>3, <1>11, <2>2
<1>12. l = 0 => outer = base
  BY <1>1, <1>3, <1>9 DEF x
<1>13. ASSUME SoleCoverer(c), l > Distance(m) + Distance(x)
       PROVE  outer.act = (c.kind = "join")
  <2>1. corr >= l
    BY <1>6, <1>13
  <2>2. y > m /\ y > 0
    BY <1>3, <1>6, <1>7, <1>13, <2>1 DEF Distance
  <2>3. CASE c.kind = "join"
    BY <1>8, <2>2, <2>3
  <2>4. CASE c.kind = "leave"
    <3>1. ~(y <= 0)
      BY <1>7, <2>2
    <3> QED
      BY <1>8, <2>4, <3>1
  <2> QED
    BY <1>4, <2>3, <2>4
<1> QED
  BY <1>10, <1>11, <1>12, <1>13 DEF l, m, x

-----------------------------------------------------------------------------
(***************************************************************************)
(* The residual wrapper: every step.                                       *)
(***************************************************************************)
ResidualTyped ==
    residual.lambda \in Nat /\ residual.priced \in Residuals

ResInv == MagInv /\ ResidualTyped /\ ResidualOnlyKeeps

(* The wrapper's dispatch keeps its invariant. *)
LEMMA ResidualStep ==
    ASSUME ResInv, ResidualDecides
    PROVE  ResInv'
<1>1. PICK c \in Calls, noise \in -Noise .. Noise, proof \in Certificates :
         /\ Reasonable(c)
         /\ LET d == Decided(c, noise, proof)
                forwarded == ~HasRoles(With(c)) \/ ~HasRoles(Without(c))
                refused == ~forwarded /\ EvaluationFailed(c)
            IN  /\ cache' = IF refused THEN cache ELSE d.entry
                /\ answer' = [call |-> c,
                              inner |-> IF refused THEN Decline ELSE d.decision,
                              how |-> IF forwarded THEN "forwarded"
                                      ELSE IF refused THEN "refused" ELSE "folded",
                              outer |-> IF refused THEN Decline
                                        ELSE IF forwarded THEN d.decision
                                        ELSE Folded(c, d.decision)]
  BY DEF ResidualDecides
<1>2. policy' = policy /\ residual' = residual /\ policy.kind = "policy"
      /\ policy.join_margin \in Int
  BY CallersHoldStaff DEF ResidualDecides, ResInv, MagInv
<1> DEFINE d == Decided(c, noise, proof)
           forwarded == ~HasRoles(With(c)) \/ ~HasRoles(Without(c))
           refused == ~forwarded /\ EvaluationFailed(c)
           inner == IF refused THEN Decline ELSE d.decision
           outer == IF refused THEN Decline
                    ELSE IF forwarded THEN d.decision ELSE Folded(c, d.decision)
           how == IF forwarded THEN "forwarded" ELSE IF refused THEN "refused" ELSE "folded"
<1>3. /\ d.entry = NoValue \/ EntryOK(d.entry)
      /\ ~policy.typed => Agrees(c.kind, d.decision, FrozenDecision(c))
      /\ ~EvaluationFailed(c) /\ ~forwarded => Genuine(c.kind, d.decision)
  BY <1>1, <1>2, DecidedAgrees DEF ResInv
<1>4. EvaluationFailed(c) => FreshDecision(c) = Decline /\ FrozenDecision(c) = Decline
  BY <1>1, <1>2, FreshAgrees
<1> HIDE DEF d
<1>5. cache' = (IF refused THEN cache ELSE d.entry)
  BY <1>1 DEF d
<1>6. /\ answer'.call = c /\ answer'.inner = inner
      /\ answer'.outer = outer /\ answer'.how = how
  BY <1>1 DEF d
<1>7. /\ FreshDecision(answer.call)' = FreshDecision(c)
      /\ FrozenDecision(answer.call)' = FrozenDecision(c)
  BY <1>2, <1>6 DEF FreshDecision, FrozenDecision, FromValues, MagnitudeOrZero,
                    RouteOrZero, RouteMagnitude
<1>8. MagInv'
  <2>1. CacheOK'
    BY <1>3, <1>5 DEF CacheOK, ResInv, MagInv
  <2>2. ~policy.typed => Agrees(c.kind, inner, FrozenDecision(c))
    <3>1. Agrees(c.kind, Decline, Decline)
      BY SameAgrees DEF Decline, Decision
    <3> QED
      BY <1>3, <1>4, <3>1
  <2> HIDE DEF inner
  <2>3. AnswerFresh'
    BY <1>2, <1>6, <1>7, <2>2 DEF AnswerFresh, Agrees, ThresholdOf
  <2> QED
    BY <1>2, <2>1, <2>3 DEF ResInv, MagInv
<1>9. ResidualTyped'
  BY <1>2 DEF ResInv, ResidualTyped
<1>10. /\ c.kind = "join" /\ inner.act => outer.act
       /\ c.kind = "leave" /\ outer.act => inner.act
       /\ residual.lambda = 0 => outer = inner
       /\ how = "refused" => ~FreshDecision(c).act
       /\ how = "folded" /\ SoleCoverer(c)
            /\ residual.lambda > Distance(policy.join_margin) + Distance(inner.score)
          => outer.act = (c.kind = "join")
  <2>1. CASE forwarded
    BY <2>1
  <2>2. CASE refused
    BY <1>4, <2>2 DEF Decline, Decision
  <2>3. CASE ~forwarded /\ ~refused
    <3>1. /\ inner = d.decision /\ outer = Folded(c, inner) /\ how = "folded"
          /\ Genuine(c.kind, inner)
      BY <1>3, <2>3
    <3> HIDE DEF inner, outer, how
    <3> QED
      BY <1>1, <1>2, <3>1, FoldFacts DEF ResInv, ResidualTyped
  <2> QED
    BY <2>1, <2>2, <2>3
<1>11. ResidualOnlyKeeps'
  <2>1. SoleCoverer(answer.call)' = SoleCoverer(c)
    BY <1>2, <1>6 DEF SoleCoverer
  <2> HIDE DEF inner, outer, how
  <2> QED
    BY <1>2, <1>6, <1>7, <1>10, <2>1 DEF ResidualOnlyKeeps
<1> QED
  BY <1>8, <1>9, <1>11 DEF ResInv

(* Every step of the wrapped policy keeps its invariant. *)
LEMMA ResNextStep ==
    ASSUME ResInv, [ResNext]_resvars
    PROVE  ResInv'
<1>1. MagInv /\ [MagNext]_magvars => MagInv'
  BY MagNextStep
<1>2. CASE ResidualDecides
  BY <1>2, ResidualStep
<1>3. CASE Decide /\ UNCHANGED residual
  <2>1. MagInv'
    BY <1>1, <1>3 DEF MagNext, ResInv
  <2>2. ~("outer" \in DOMAIN answer')
    BY <1>3 DEF Decide
  <2> QED
    BY <1>3, <2>1, <2>2 DEF ResInv, ResidualTyped, ResidualOnlyKeeps
<1>4. CASE CalculateValue /\ UNCHANGED residual
  <2>1. MagInv'
    BY <1>1, <1>4 DEF MagNext, ResInv
  <2>2. policy'.kind # "policy"
    BY <1>4 DEF CalculateValue
  <2> QED
    BY <1>4, <2>1, <2>2 DEF ResInv, ResidualTyped, ResidualOnlyKeeps
<1>5. CASE Returned /\ UNCHANGED residual
  <2>1. MagInv'
    BY <1>1, <1>5 DEF MagNext, ResInv
  <2> QED
    BY <1>5, <2>1 DEF Returned, ResInv, ResidualTyped, ResidualOnlyKeeps
<1>6. CASE UNCHANGED resvars
  <2>1. UNCHANGED magvars /\ residual' = residual
    BY <1>6 DEF resvars
  <2>2. MagInv'
    BY <1>1, <2>1 DEF ResInv
  <2>3. policy' = policy /\ answer' = answer
    BY <2>1 DEF magvars
  <2>4. FreshDecision(answer.call)' = FreshDecision(answer.call)
    BY <2>3 DEF FreshDecision, FromValues, RouteOrZero, RouteMagnitude
  <2>5. SoleCoverer(answer.call)' = SoleCoverer(answer.call)
    BY <2>1, <2>3 DEF SoleCoverer
  <2>6. ResidualOnlyKeeps'
    BY <2>1, <2>3, <2>4, <2>5 DEF ResInv, ResidualOnlyKeeps
  <2> QED
    BY <2>1, <2>2, <2>6 DEF ResInv, ResidualTyped
<1> QED
  BY <1>2, <1>3, <1>4, <1>5, <1>6 DEF ResNext

(* The wrapper's invariant holds in every state. *)
LEMMA ResInvHolds == ResSpec => []ResInv
<1>1. ResInit => ResInv
  BY DEF ResInit, MagInit, ResInv, MagInv, CacheOK, AnswerFresh, ResidualTyped,
         ResidualOnlyKeeps, Clamped
<1>2. ResInv /\ [ResNext]_resvars => ResInv'
  BY ResNextStep
<1> QED
  BY <1>1, <1>2, PTL DEF ResSpec

(* The residual wrapper leaves the inner policy's decisions in the same    *)
(* agreement with fresh ones, and the cache sound.                         *)
THEOREM WrappedDecisionsAreFresh == ResSpec => []MagnitudeDecidesFresh
<1>1. ResInv => MagnitudeDecidesFresh
  BY MagInvGives DEF ResInv
<1> QED
  BY <1>1, ResInvHolds, PTL

(* The residual correction only ever keeps: it adds to a join's margin and *)
(* to a leave's, by at least lambda times the price of a step that the     *)
(* agent covers alone, and a refused evaluation answers as the code says.  *)
THEOREM CorrectionOnlyKeeps == ResSpec => []ResidualOnlyKeeps
<1>1. ResInv => ResidualOnlyKeeps
  BY DEF ResInv
<1> QED
  BY <1>1, ResInvHolds, PTL

-----------------------------------------------------------------------------
(***************************************************************************)
(* Outcomes: types and the store's counters.                               *)
(***************************************************************************)
Episodes == [members : Seq(Agents), success : BOOLEAN]
OutcomeList == Seq(Episodes)
ReadSteps == {"none", "joins", "leaves", "done"}

StoreTypeOK ==
    /\ records \in [Agents -> [history : Nat, failures : Nat]]
    /\ seeded \in [Agents -> Nat]
ReadTypeOK ==
    decision \in [step : ReadSteps, first : Int, marginal : Int, candidate : Int,
                  disturbed : BOOLEAN]
ForwarderTypeOK ==
    /\ tap \in OutcomeList /\ accepted \in OutcomeList
    /\ called \in [Sinks -> OutcomeList]
    /\ fwd \in [step : {"recv", "deliver", "stopped"}, outcome : Episodes, sink : Sinks]

(* calculate_value: the candidate's part comes on top of the members'. *)
LEMMA MarginalFacts ==
    ASSUME StoreTypeOK
    PROVE  /\ calculate_value(Coalition) \in Int
           /\ calculate_value(Coalition \union {Candidate}) \in Int
           /\ calculate_value(Coalition \union {Candidate}) - calculate_value(Coalition)
                = 1 + records[Candidate].history - records[Candidate].failures
<1> DEFINE h == [a \in Agents |-> records[a].history]
           f == [a \in Agents |-> records[a].failures]
           S == Coalition
           c == Candidate
           T == S \union {c}
           Sum(g, R) == SumFunctionOnSet(g, R)
<1>1. /\ IsFiniteSet(T) /\ IsFiniteSet(S) /\ c \in T /\ T \ {c} = S /\ c \notin S
      /\ T \subseteq Agents /\ S \subseteq Agents /\ T # {}
  BY AgentsOK, FS_Subset
<1>2. /\ \A a \in T : h[a] \in Int /\ f[a] \in Int
      /\ \A a \in S : h[a] \in Int /\ f[a] \in Int
      /\ h[c] = records[c].history /\ f[c] = records[c].failures
      /\ h[c] \in Int /\ f[c] \in Int
  BY <1>1 DEF StoreTypeOK
<1>3. /\ feedback_total(T) = Sum(h, T) - Sum(f, T)
      /\ feedback_total(S) = Sum(h, S) - Sum(f, S)
  BY DEF feedback_total
<1> HIDE DEF h, f, S, c
<1>4. Sum(h, T) = h[c] + Sum(h, S) /\ Sum(f, T) = f[c] + Sum(f, S)
  BY <1>1, <1>2, SumTakesOut
<1>5. Sum(h, S) \in Int /\ Sum(f, S) \in Int
  BY <1>1, <1>2, SumInt
<1>6. S = {} => Sum(h, S) = 0 /\ Sum(f, S) = 0
  BY <1>1, SumUnfolds
<1>7. Cardinality(T) = Cardinality(S) + 1 /\ Cardinality(S) \in Nat
      /\ (S = {} => Cardinality(S) = 0)
  BY <1>1, FS_AddElement, FS_CardinalityType, FS_EmptySet
<1> DEFINE hs == Sum(h, S)
           fs == Sum(f, S)
           ht == Sum(h, T)
           ft == Sum(f, T)
           n == Cardinality(S)
<1>8. calculate_value(T) = n + 1 + (ht - ft)
  BY <1>1, <1>3, <1>7 DEF calculate_value
<1>9. calculate_value(S) = (IF S = {} THEN 0 ELSE n + (hs - fs))
  BY <1>3 DEF calculate_value
<1>10. /\ hs \in Int /\ fs \in Int /\ n \in Nat /\ ht = h[c] + hs /\ ft = f[c] + fs
       /\ (S = {} => hs = 0 /\ fs = 0 /\ n = 0)
  BY <1>4, <1>5, <1>6, <1>7
<1> HIDE DEF hs, fs, ht, ft, n, T
<1>11. calculate_value(S) = n + (hs - fs)
  BY <1>9, <1>10
<1>12. calculate_value(T) - calculate_value(S) = 1 + h[c] - f[c]
       /\ calculate_value(T) \in Int /\ calculate_value(S) \in Int
  BY <1>2, <1>8, <1>10, <1>11
<1> QED
  BY <1>2, <1>12 DEF T, S, c

(* Occurrences and what is counted of them. *)
LEMMA OccurrenceFacts ==
    ASSUME NEW members \in Seq(Agents), NEW a
    PROVE  Occurrences(members, a) \in Nat
<1> DEFINE K == {i \in DOMAIN members : members[i] = a}
<1>1. K \in SUBSET (1..Len(members)) /\ Len(members) \in Nat
  OBVIOUS
<1>2. IsFiniteSet(K)
  BY <1>1, FS_Interval, FS_Subset
<1> HIDE DEF K
<1>3. Cardinality(K) \in Nat
  BY <1>2, FS_CardinalityType
<1> QED
  BY <1>3 DEF Occurrences, K

(* One more outcome counts once for each seat an agent has in it. *)
LEMMA CountedFacts ==
    ASSUME NEW s \in OutcomeList, NEW o \in Episodes,
           NEW a, NEW K \in SUBSET (DOMAIN s)
    PROVE  /\ Counted(Append(s, o), K, a) = Counted(s, K, a)
           /\ Counted(Append(s, o), K \cup {Len(s) + 1}, a)
                = Counted(s, K, a) + Occurrences(o.members, a)
           /\ Counted(s, K, a) \in Int
<1> DEFINE O == Episodes
           t == Append(s, o)
           n == Len(s)
           f == [i \in DOMAIN s |-> Occurrences(s[i].members, a)]
           g == [i \in DOMAIN t |-> Occurrences(t[i].members, a)]
           R == K \cup {n + 1}
<1>1. s \in Seq(O) /\ o \in O
  BY DEF OutcomeList
<1> HIDE DEF O
<1>2. /\ n \in Nat /\ DOMAIN s = 1..n /\ DOMAIN t = 1..(n + 1)
      /\ \A i \in 1..n : t[i] = s[i] /\ s[i] \in O
      /\ t[n + 1] = o /\ \A i \in 1..(n + 1) : t[i] \in O
  <2>1. t \in Seq(O) /\ DOMAIN t = 1..(n + 1) /\ t[n + 1] = o
        /\ n \in Nat /\ DOMAIN s = 1..n /\ \A i \in 1..n : t[i] = s[i]
    BY <1>1, AppendFacts
  <2> HIDE DEF t
  <2> QED
    BY <1>1, <2>1
<1>3. \A x \in O : Occurrences(x.members, a) \in Nat
  BY OccurrenceFacts DEF O, Episodes
<1>4. Counted(s, K, a) = SumFunctionOnSet(f, K)
      /\ Counted(t, K, a) = SumFunctionOnSet(g, K)
      /\ Counted(t, R, a) = SumFunctionOnSet(g, R)
  BY DEF Counted
<1> HIDE DEF t
<1>5. /\ \A i \in K : f[i] = g[i] /\ f[i] \in Int /\ g[i] \in Int
      /\ g[n + 1] = Occurrences(o.members, a) /\ g[n + 1] \in Int
  <2>1. ASSUME NEW i \in K PROVE f[i] = g[i] /\ f[i] \in Int /\ g[i] \in Int
    <3>1. i \in DOMAIN s /\ i \in DOMAIN t /\ t[i] = s[i] /\ s[i] \in O
      BY <1>2
    <3>2. f[i] = Occurrences(s[i].members, a) /\ g[i] = Occurrences(t[i].members, a)
      BY <3>1
    <3>3. Occurrences(s[i].members, a) \in Nat
      BY <1>3, <3>1
    <3> HIDE DEF f, g
    <3> QED
      BY <3>1, <3>2, <3>3
  <2>2. n + 1 \in DOMAIN t
    BY <1>2
  <2>3. g[n + 1] = Occurrences(t[n + 1].members, a)
    BY <2>2
  <2> HIDE DEF f, g
  <2>4. g[n + 1] = Occurrences(o.members, a) /\ g[n + 1] \in Int
    BY <1>1, <1>2, <1>3, <2>3
  <2> QED
    BY <2>1, <2>4
<1>6. IsFiniteSet(K) /\ IsFiniteSet(R) /\ n + 1 \in R /\ R \ {n + 1} = K
  <2>1. IsFiniteSet(1..n) /\ K \in SUBSET (1..n) /\ n + 1 \notin K
    <3>1. n \in Nat /\ K \in SUBSET (1..n)
      BY <1>2
    <3> HIDE DEF n
    <3>2. IsFiniteSet(1..n)
      BY <3>1, FS_Interval
    <3>3. n + 1 \notin K
      BY <3>1
    <3> QED
      BY <3>1, <3>2, <3>3
  <2>2. IsFiniteSet(K)
    BY <2>1, FS_Subset
  <2> QED
    BY <2>1, <2>2, FS_AddElement
<1> HIDE DEF f, g
<1>7. SumFunctionOnSet(f, K) = SumFunctionOnSet(g, K) /\ SumFunctionOnSet(f, K) \in Int
  BY <1>5, <1>6, SumSame, SumInt
<1>8. SumFunctionOnSet(g, R) = g[n + 1] + SumFunctionOnSet(g, K)
  <2>1. \A i \in R : g[i] \in Int
    BY <1>5
  <2> QED
    BY <1>6, <2>1, SumTakesOut
<1>9. SumFunctionOnSet(g, R) = SumFunctionOnSet(f, K) + Occurrences(o.members, a)
  BY <1>5, <1>7, <1>8
<1> QED
  BY <1>4, <1>7, <1>9 DEF t

-----------------------------------------------------------------------------
(***************************************************************************)
(* Outcomes: the forwarder.  A sink is one outcome behind the tap while it *)
(* has not been given the one that is being delivered.                     *)
(***************************************************************************)
Behind(s) == IF fwd.step = "deliver" /\ fwd.sink <= s THEN 1 ELSE 0

Handed ==
    /\ \A s \in Sinks :
          /\ Len(accepted) = Len(called[s]) + Behind(s) + Len(tap)
          /\ \A i \in 1..Len(called[s]) : called[s][i] = accepted[i]
    /\ \A j \in 1..Len(tap) : tap[j] = accepted[Len(accepted) - Len(tap) + j]
    /\ fwd.step = "deliver" => fwd.outcome = accepted[Len(accepted) - Len(tap)]
    /\ fwd.step = "stopped" /\ ~cancelled => tap = <<>>

HandInv == ForwarderTypeOK /\ Handed

(* emit_outcome: what the tap accepts is owed to every sink. *)
LEMMA EmitStep ==
    ASSUME HandInv, NEW o \in Outcomes, emit_outcome(o)
    PROVE  HandInv'
<1>1. UNCHANGED <<fwd, called, cancelled>> /\ o \in Episodes
  BY OutcomesOK DEF emit_outcome, forwarder, Episodes
<1>2. CASE tap' = tap /\ accepted' = accepted
  BY <1>1, <1>2 DEF HandInv, ForwarderTypeOK, Handed, Behind
<1>3. CASE tap' = Append(tap, o) /\ accepted' = Append(accepted, o) /\ fwd.step # "stopped"
  <2> DEFINE n == Len(accepted)
             m == Len(tap)
  <2>1. /\ tap' \in Seq(Episodes) /\ m \in Nat /\ Len(tap') = m + 1
        /\ \A j \in 1..m : tap'[j] = tap[j]
        /\ tap'[m + 1] = o
    BY <1>1, <1>3, AppendFacts DEF HandInv, ForwarderTypeOK, OutcomeList
  <2>2. /\ accepted' \in Seq(Episodes) /\ n \in Nat /\ Len(accepted') = n + 1
        /\ \A j \in 1..n : accepted'[j] = accepted[j]
        /\ accepted'[n + 1] = o
    BY <1>1, <1>3, AppendFacts DEF HandInv, ForwarderTypeOK, OutcomeList
  <2>3. \A s \in Sinks : n = Len(called[s]) + Behind(s) + m /\ Len(called[s]) \in Nat
                          /\ Behind(s) \in {0, 1}
    BY DEF HandInv, ForwarderTypeOK, Handed, Behind, OutcomeList
  <2>4. m <= n /\ (fwd.step = "deliver" => m < n)
    <3>1. fwd.sink \in Sinks
      BY DEF HandInv, ForwarderTypeOK
    <3>2. fwd.step = "deliver" => Behind(fwd.sink) = 1
      BY <3>1 DEF Behind, Sinks
    <3> DEFINE k == Len(called[fwd.sink])
               b == Behind(fwd.sink)
    <3>3. n = k + b + m /\ k \in Nat /\ b \in {0, 1} /\ m \in Nat /\ n \in Nat
      BY <2>1, <2>2, <2>3, <3>1
    <3>4. fwd.step = "deliver" => b = 1
      BY <3>2
    <3> HIDE DEF n, m, k, b
    <3> QED
      BY <3>3, <3>4
  <2>5. ForwarderTypeOK'
    BY <1>1, <2>1, <2>2 DEF HandInv, ForwarderTypeOK, OutcomeList
  <2>6. \A s \in Sinks : Behind(s)' = Behind(s)
    BY <1>1 DEF Behind
  <2>7. ASSUME NEW s \in Sinks
        PROVE  /\ Len(accepted') = Len(called[s]) + Behind(s) + Len(tap')
               /\ \A i \in 1..Len(called[s]) : called[s][i] = accepted'[i]
    <3>1. Len(called[s]) <= n /\ Len(called[s]) \in Nat
      BY <2>1, <2>2, <2>3
    <3>2. \A i \in 1..Len(called[s]) : called[s][i] = accepted[i] /\ i \in 1..n
      BY <2>2, <3>1 DEF HandInv, Handed
    <3>3. Len(accepted') = Len(called[s]) + Behind(s) + Len(tap')
      BY <2>1, <2>2, <2>3
    <3> QED
      BY <2>2, <3>2, <3>3
  <2>8. ASSUME NEW j \in 1..Len(tap')
        PROVE  tap'[j] = accepted'[Len(accepted') - Len(tap') + j]
    <3>1. Len(accepted') - Len(tap') + j = n - m + j
      BY <2>1, <2>2
    <3>2. CASE j \in 1..m
      <4>1. n - m + j \in 1..n
        BY <2>1, <2>2, <2>4, <3>2
      <4>2. tap[j] = accepted[n - m + j]
        BY <3>2 DEF HandInv, Handed
      <4> QED
        BY <2>1, <2>2, <3>1, <3>2, <4>1, <4>2
    <3>3. CASE j = m + 1
      <4>1. n - m + j = n + 1
        BY <2>1, <2>2, <3>3
      <4> QED
        BY <2>1, <2>2, <3>1, <3>3, <4>1
    <3> QED
      BY <2>1, <3>2, <3>3
  <2>9. fwd.step = "deliver" => fwd.outcome = accepted'[Len(accepted') - Len(tap')]
    <3>1. Len(accepted') - Len(tap') = n - m
      BY <2>1, <2>2
    <3>2. fwd.step = "deliver" => n - m \in 1..n /\ fwd.outcome = accepted[n - m]
      BY <2>1, <2>2, <2>4 DEF HandInv, Handed
    <3> QED
      BY <2>2, <3>1, <3>2
  <2>10. Handed'
    BY <1>1, <1>3, <2>6, <2>7, <2>8, <2>9 DEF Handed
  <2> QED
    BY <2>5, <2>10 DEF HandInv
<1> QED
  BY <1>2, <1>3 DEF emit_outcome

(* The forwarder takes an outcome: it is owed to the same sinks. *)
LEMMA ReceiveStep ==
    ASSUME HandInv, Receive
    PROVE  HandInv'
<1> DEFINE n == Len(accepted)
           m == Len(tap)
<1>1. /\ fwd.step = "recv" /\ tap # <<>>
      /\ fwd' = [step |-> "deliver", outcome |-> Head(tap), sink |-> 1]
      /\ tap' = Tail(tap)
      /\ accepted' = accepted /\ called' = called /\ cancelled' = cancelled
  BY DEF Receive
<1>2. /\ tap' \in Seq(Episodes) /\ Head(tap) \in Episodes /\ m \in Nat \ {0}
      /\ Len(tap') = m - 1 /\ Head(tap) = tap[1]
      /\ \A j \in 1..(m - 1) : tap'[j] = tap[j + 1]
  BY <1>1 DEF HandInv, ForwarderTypeOK, OutcomeList
<1>3. n \in Nat
  BY DEF HandInv, ForwarderTypeOK, OutcomeList
<1>4. 1 \in Sinks
  BY OutcomeBounds DEF Sinks
<1>5. ForwarderTypeOK'
  <2>1. fwd' \in [step : {"recv", "deliver", "stopped"}, outcome : Episodes, sink : Sinks]
    BY <1>1, <1>2, <1>4
  <2> QED
    BY <1>1, <1>2, <2>1 DEF HandInv, ForwarderTypeOK, OutcomeList
<1>6. \A s \in Sinks : Behind(s) = 0 /\ Behind(s)' = 1
  BY <1>1 DEF Behind, Sinks
<1>7. ASSUME NEW s \in Sinks
      PROVE  /\ n = Len(called[s]) + 1 + Len(tap')
             /\ \A i \in 1..Len(called[s]) : called[s][i] = accepted[i]
  <2>1. n = Len(called[s]) + 0 + m /\ Len(called[s]) \in Nat
    BY <1>6 DEF HandInv, Handed, ForwarderTypeOK, OutcomeList
  <2>2. \A i \in 1..Len(called[s]) : called[s][i] = accepted[i]
    BY DEF HandInv, Handed
  <2> QED
    BY <1>2, <1>3, <2>1, <2>2
<1>8. ASSUME NEW j \in 1..Len(tap')
      PROVE  tap'[j] = accepted[n - Len(tap') + j]
  <2>1. j \in 1..(m - 1) /\ j + 1 \in 1..m /\ n - Len(tap') + j = n - m + (j + 1)
    BY <1>2, <1>3
  <2>2. tap[j + 1] = accepted[n - m + (j + 1)]
    BY <2>1 DEF HandInv, Handed
  <2> QED
    BY <1>2, <2>1, <2>2
<1>9. fwd'.outcome = accepted[n - Len(tap')]
  <2>1. n - Len(tap') = n - m + 1 /\ 1 \in 1..m
    BY <1>2, <1>3
  <2>2. tap[1] = accepted[n - m + 1]
    BY <2>1 DEF HandInv, Handed
  <2> QED
    BY <1>1, <1>2, <2>1, <2>2
<1>10. Handed'
  BY <1>1, <1>6, <1>7, <1>8, <1>9 DEF Handed
<1> QED
  BY <1>5, <1>10 DEF HandInv

(* on_outcome hands the outcome to one sink, which owes it no more. *)
LEMMA DeliverStep ==
    ASSUME HandInv, on_outcome
    PROVE  HandInv'
<1> DEFINE n == Len(accepted)
           m == Len(tap)
           k == fwd.sink
           o == fwd.outcome
<1>1. /\ fwd.step = "deliver" /\ k \in Sinks /\ o \in Episodes
      /\ called' = [called EXCEPT ![k] = Append(@, o)]
      /\ fwd' = NextSink
      /\ UNCHANGED <<tap, accepted, cancelled>>
  BY DEF on_outcome, AfterPanic, channel, HandInv, ForwarderTypeOK
<1>2. /\ n \in Nat /\ m \in Nat /\ called \in [Sinks -> OutcomeList]
      /\ \A s \in Sinks : Len(called[s]) \in Nat /\ called[s] \in Seq(Episodes)
  BY DEF HandInv, ForwarderTypeOK, OutcomeList
<1>3. /\ \A s \in Sinks : n = Len(called[s]) + (IF k <= s THEN 1 ELSE 0) + m
      /\ \A s \in Sinks : \A i \in 1..Len(called[s]) : called[s][i] = accepted[i]
      /\ \A j \in 1..m : tap[j] = accepted[n - m + j]
      /\ o = accepted[n - m]
  BY <1>1 DEF HandInv, Handed, Behind
<1>4. /\ k \in Nat /\ 1 <= k /\ k <= NSinks /\ NSinks \in Nat
      /\ \A s \in Sinks : s \in Nat /\ 1 <= s /\ s <= NSinks
  BY <1>1, OutcomeBounds DEF Sinks
<1>5. \/ k < NSinks /\ fwd' = [fwd EXCEPT !.sink = k + 1]
      \/ k = NSinks /\ fwd' = [step |-> "recv", outcome |-> NoOutcome, sink |-> 1]
  BY <1>1, <1>4 DEF NextSink
<1>6. /\ fwd' \in [step : {"recv", "deliver", "stopped"}, outcome : Episodes, sink : Sinks]
      /\ fwd'.step \in {"recv", "deliver"}
      /\ fwd'.step = "deliver" => fwd'.outcome = o
      /\ \A s \in Sinks : Behind(s)' = IF k < s THEN 1 ELSE 0
  <2>1. fwd \in [step : {"recv", "deliver", "stopped"}, outcome : Episodes, sink : Sinks]
    BY DEF HandInv, ForwarderTypeOK
  <2>2. CASE k < NSinks /\ fwd' = [fwd EXCEPT !.sink = k + 1]
    <3>1. k + 1 \in Sinks
      BY <1>4, <2>2 DEF Sinks
    <3> DEFINE l == k + 1
    <3> HIDE DEF l
    <3>2. fwd' = [fwd EXCEPT !.sink = l] /\ l \in Sinks
      BY <2>2, <3>1 DEF l
    <3>3. /\ fwd' \in [step : {"recv", "deliver", "stopped"}, outcome : Episodes, sink : Sinks]
          /\ fwd'.step = "deliver" /\ fwd'.outcome = o /\ fwd'.sink = l
      BY <1>1, <2>1, <3>2
    <3>4. \A s \in Sinks : (l <= s) <=> (k < s)
      BY <1>4 DEF l
    <3> QED
      BY <3>3, <3>4 DEF Behind
  <2>3. CASE k = NSinks /\ fwd' = [step |-> "recv", outcome |-> NoOutcome, sink |-> 1]
    <3>1. 1 \in Sinks /\ NoOutcome \in Episodes
      BY OutcomeBounds DEF Sinks, NoOutcome, Episodes
    <3>2. \A s \in Sinks : ~(k < s)
      BY <1>4, <2>3
    <3>3. fwd'.step = "recv"
      BY <2>3
    <3>4. \A s \in Sinks : Behind(s)' = 0
      BY <3>3 DEF Behind
    <3>5. fwd' \in [step : {"recv", "deliver", "stopped"}, outcome : Episodes, sink : Sinks]
      BY <2>3, <3>1
    <3> QED
      BY <3>2, <3>3, <3>4, <3>5
  <2> QED
    BY <1>5, <2>2, <2>3
<1> DEFINE c == Append(called[k], o)
<1>7. /\ c \in Seq(Episodes) /\ Len(c) = Len(called[k]) + 1
      /\ \A i \in 1..Len(called[k]) : c[i] = called[k][i]
      /\ c[Len(called[k]) + 1] = o
  BY <1>1, <1>2, AppendFacts
<1> HIDE DEF c, n, m, k, o
<1>8. called' = [called EXCEPT ![k] = c]
  BY <1>1 DEF c
<1>9. /\ called' \in [Sinks -> OutcomeList] /\ called'[k] = c
      /\ \A s \in Sinks \ {k} : called'[s] = called[s]
  BY <1>1, <1>2, <1>7, <1>8 DEF OutcomeList
<1>10. ForwarderTypeOK'
  BY <1>1, <1>6, <1>9 DEF HandInv, ForwarderTypeOK
<1>11. ASSUME NEW s \in Sinks
       PROVE  /\ n = Len(called'[s]) + Behind(s)' + m
              /\ \A i \in 1..Len(called'[s]) : called'[s][i] = accepted[i]
  <2>1. CASE s = k
    <3>1. n = Len(called[k]) + 1 + m
      <4>1. n = Len(called[k]) + (IF k <= k THEN 1 ELSE 0) + m
        BY <1>1, <1>3
      <4> QED
        BY <1>4, <4>1
    <3>2. Behind(s)' = 0
      BY <1>4, <1>6, <2>1
    <3>3. Len(called[k]) + 1 = n - m
      BY <1>1, <1>2, <3>1
    <3>4. c[n - m] = accepted[n - m]
      BY <1>3, <1>7, <3>3
    <3>5. ASSUME NEW i \in 1..Len(c) PROVE c[i] = accepted[i]
      <4>1. i \in 1..Len(called[k]) \/ i = n - m
        BY <1>1, <1>2, <1>7, <3>3
      <4> QED
        BY <1>1, <1>3, <1>7, <3>4, <4>1
    <3>6. n = Len(c) + 0 + m
      BY <1>1, <1>2, <1>7, <3>1
    <3> QED
      BY <1>9, <2>1, <3>2, <3>5, <3>6
  <2>2. CASE s # k
    <3>1. called'[s] = called[s]
      BY <1>9, <2>2
    <3>2. Behind(s)' = IF k <= s THEN 1 ELSE 0
      BY <1>4, <1>6, <2>2
    <3> QED
      BY <1>3, <3>1, <3>2
  <2> QED
    BY <2>1, <2>2
<1>12. /\ \A j \in 1..Len(tap') : tap'[j] = accepted'[Len(accepted') - Len(tap') + j]
       /\ fwd'.step = "deliver" => fwd'.outcome = accepted'[Len(accepted') - Len(tap')]
       /\ fwd'.step # "stopped"
  BY <1>1, <1>3, <1>6 DEF n, m
<1>13. ASSUME NEW s \in Sinks
       PROVE  /\ Len(accepted') = Len(called'[s]) + Behind(s)' + Len(tap')
              /\ \A i \in 1..Len(called'[s]) : called'[s][i] = accepted'[i]
  BY <1>1, <1>11 DEF n, m
<1> HIDE DEF n, m, k, o
<1>14. Handed'
  BY <1>12, <1>13 DEF Handed
<1> QED
  BY <1>10, <1>14 DEF HandInv

(* Every step keeps what the sinks were handed, in order. *)
LEMMA HandStep ==
    ASSUME HandInv, [Next]_vars
    PROVE  HandInv'
<1>1. ASSUME UNCHANGED <<tap, accepted, called, fwd>>, cancelled => cancelled'
      PROVE  HandInv'
  BY <1>1 DEF HandInv, ForwarderTypeOK, Handed, Behind
<1>2. CASE Cancel
  BY <1>1, <1>2 DEF Cancel, channel, forwarder
<1>3. CASE DropTap
  BY <1>1, <1>3 DEF DropTap, forwarder
<1>4. CASE Receive
  BY <1>4, ReceiveStep
<1>5. CASE Stop
  <2>1. /\ fwd.step = "recv" /\ (cancelled \/ tap = <<>>)
        /\ fwd' = [fwd EXCEPT !.step = "stopped"]
        /\ UNCHANGED <<tap, accepted, called, cancelled>>
    BY <1>5 DEF Stop, channel
  <2>2. /\ fwd' \in [step : {"recv", "deliver", "stopped"}, outcome : Episodes, sink : Sinks]
        /\ fwd'.step = "stopped"
    BY <2>1 DEF HandInv, ForwarderTypeOK
  <2>3. \A s \in Sinks : Behind(s)' = Behind(s)
    BY <2>1, <2>2 DEF Behind
  <2>4. ForwarderTypeOK'
    BY <2>1, <2>2 DEF HandInv, ForwarderTypeOK
  <2>5. Handed'
    BY <2>1, <2>2, <2>3 DEF HandInv, Handed
  <2> QED
    BY <2>4, <2>5 DEF HandInv
<1>6. CASE on_outcome
  BY <1>6, DeliverStep
<1>7. CASE \E o \in Outcomes : emit_outcome(o)
  BY <1>7, EmitStep
<1>8. CASE \E a \in Agents : add_history(a)
  BY <1>1, <1>8 DEF add_history, channel, forwarder
<1>9. CASE ShouldJoinWithout \/ ShouldJoinWith \/ ShouldLeaveWith \/ ShouldLeaveWithout
  BY <1>1, <1>9 DEF ShouldJoinWithout, ShouldJoinWith, ShouldLeaveWith, ShouldLeaveWithout,
                    channel, forwarder
<1>10. CASE UNCHANGED vars
  BY <1>1, <1>10 DEF vars, channel, forwarder
<1> QED
  BY <1>2, <1>3, <1>4, <1>5, <1>6, <1>7, <1>8, <1>9, <1>10 DEF Next, Forwarder

-----------------------------------------------------------------------------
(***************************************************************************)
(* Outcomes: the store.                                                    *)
(***************************************************************************)
StoreInv == StoreTypeOK /\ CountersMatchCalls

(* record_outcome counts the outcome handed to the store. *)
LEMMA RecordStep ==
    ASSUME HandInv, StoreInv, on_outcome
    PROVE  StoreInv'
<1> DEFINE s == called[1]
           o == fwd.outcome
           n == Len(s)
<1>1. fwd \in [step : {"recv", "deliver", "stopped"}, outcome : Episodes, sink : Sinks]
      /\ s \in OutcomeList /\ o \in Episodes /\ 1 \in Sinks
      /\ called \in [Sinks -> OutcomeList] /\ seeded' = seeded
  BY OutcomeBounds DEF HandInv, ForwarderTypeOK, on_outcome, Sinks
<1>2. CASE fwd.sink # 1
  <2>1. records' = records /\ called'[1] = s
    BY <1>1, <1>2 DEF on_outcome
  <2> QED
    BY <1>1, <2>1 DEF StoreInv, StoreTypeOK, CountersMatchCalls, Counted, Failures
<1>3. CASE fwd.sink = 1
  <2>1. record_outcome(o) /\ called'[1] = Append(s, o)
    BY <1>1, <1>3 DEF on_outcome
  <2> DEFINE t == Append(s, o)
             occ(a) == Occurrences(o.members, a)
             bad == OutcomeValue(o) < Threshold
  <2>2. /\ n \in Nat /\ DOMAIN s = 1..n /\ DOMAIN t = 1..(n + 1)
        /\ \A i \in 1..n : t[i] = s[i]
        /\ t[n + 1] = o
    BY <1>1, AppendFacts DEF OutcomeList
  <2>3. bad <=> ~o.success
    BY <1>1 DEF OutcomeValue, Threshold, Episodes
  <2>4. DOMAIN t = DOMAIN s \cup {n + 1}
    BY <2>2
  <2>5. Failures(t) = (IF bad THEN Failures(s) \cup {n + 1} ELSE Failures(s))
    <3> HIDE DEF t, s, o, bad
    <3>1. \A i \in 1..(n + 1) : i \in 1..n \/ i = n + 1
      BY <2>2
    <3>2. ~(n + 1 \in 1..n)
      BY <2>2
    <3>3. Failures(t) \subseteq Failures(s) \cup {n + 1}
      BY <2>2, <3>1 DEF Failures
    <3>4. Failures(s) \subseteq Failures(t)
      BY <2>2, <2>4 DEF Failures
    <3>5. n + 1 \in Failures(t) <=> bad
      BY <2>2, <2>3, <2>4 DEF Failures
    <3>6. n + 1 \notin Failures(s)
      BY <2>2, <3>2 DEF Failures
    <3> QED
      BY <3>3, <3>4, <3>5, <3>6
  <2>6. ASSUME NEW a \in Agents
        PROVE  /\ records'[a].history \in Nat /\ records'[a].failures \in Nat
               /\ records'[a].history = seeded[a] + Counted(t, DOMAIN t, a)
               /\ records'[a].failures = Counted(t, Failures(t), a)
               /\ records'[a] \in [history : Nat, failures : Nat]
    <3>1. records'[a] = [history  |-> records[a].history + occ(a),
                         failures |-> records[a].failures + (IF bad THEN occ(a) ELSE 0)]
      BY <2>1 DEF record_outcome
    <3>2. occ(a) \in Nat
      BY <1>1, OccurrenceFacts DEF Episodes
    <3>3. /\ records[a].history = seeded[a] + Counted(s, DOMAIN s, a)
          /\ records[a].failures = Counted(s, Failures(s), a)
          /\ records[a].history \in Nat /\ records[a].failures \in Nat /\ seeded[a] \in Nat
      BY DEF StoreInv, StoreTypeOK, CountersMatchCalls
    <3>4. /\ Counted(t, DOMAIN t, a) = Counted(s, DOMAIN s, a) + occ(a)
          /\ Counted(s, DOMAIN s, a) \in Int
      BY <1>1, <2>4, CountedFacts
    <3>5. /\ Counted(t, Failures(t), a)
               = Counted(s, Failures(s), a) + (IF bad THEN occ(a) ELSE 0)
          /\ Counted(s, Failures(s), a) \in Int
      <4>1. Failures(s) \in SUBSET (DOMAIN s)
        BY DEF Failures
      <4>2. /\ Counted(t, Failures(s), a) = Counted(s, Failures(s), a)
            /\ Counted(t, Failures(s) \cup {n + 1}, a) = Counted(s, Failures(s), a) + occ(a)
            /\ Counted(s, Failures(s), a) \in Int
        BY <1>1, <4>1, CountedFacts
      <4> HIDE DEF t, s, occ, bad, n
      <4> QED
        BY <2>5, <3>2, <4>2
    <3> HIDE DEF t, s, occ, bad
    <3> QED
      BY <3>1, <3>2, <3>3, <3>4, <3>5
  <2>7. StoreTypeOK'
    <3>1. records' = [a \in Agents |-> records'[a]]
      BY <2>1 DEF record_outcome
    <3> HIDE DEF t
    <3>2. records' \in [Agents -> [history : Nat, failures : Nat]]
      BY <2>6, <3>1
    <3> QED
      BY <1>1, <3>2 DEF StoreInv, StoreTypeOK
  <2>8. CountersMatchCalls'
    <3> HIDE DEF t
    <3>1. called'[1] = t
      BY <2>1 DEF t
    <3> QED
      BY <1>1, <2>6, <3>1 DEF CountersMatchCalls, Counted, Failures
  <2> QED
    BY <2>7, <2>8 DEF StoreInv
<1> QED
  BY <1>2, <1>3

(* Every step keeps the counters what the calls make them. *)
LEMMA StoreStep ==
    ASSUME HandInv, StoreInv, [Next]_vars
    PROVE  StoreInv'
<1>1. ASSUME UNCHANGED <<called, records, seeded>>
      PROVE  StoreInv'
  BY <1>1 DEF StoreInv, StoreTypeOK, CountersMatchCalls, Counted, Failures
<1>2. CASE Cancel \/ DropTap \/ Receive \/ Stop
  BY <1>1, <1>2 DEF Cancel, DropTap, Receive, Stop, forwarder
<1>3. CASE on_outcome
  BY <1>3, RecordStep
<1>4. CASE \E o \in Outcomes : emit_outcome(o)
  BY <1>1, <1>4 DEF emit_outcome, forwarder
<1>5. ASSUME NEW a \in Agents, add_history(a) PROVE StoreInv'
  <2>1. /\ records' = [records EXCEPT ![a].history = records[a].history + 1]
        /\ seeded' = [seeded EXCEPT ![a] = seeded[a] + 1]
        /\ called' = called
    BY <1>5 DEF add_history, forwarder
  <2>2. /\ records \in [Agents -> [history : Nat, failures : Nat]]
        /\ seeded \in [Agents -> Nat]
    BY DEF StoreInv, StoreTypeOK
  <2> DEFINE h == records[a].history + 1
             g == seeded[a] + 1
  <2>3. h \in Nat /\ g \in Nat
    BY <2>2
  <2> HIDE DEF h, g
  <2>4. records' = [records EXCEPT ![a].history = h] /\ seeded' = [seeded EXCEPT ![a] = g]
    BY <2>1 DEF h, g
  <2>5. /\ records' \in [Agents -> [history : Nat, failures : Nat]]
        /\ seeded' \in [Agents -> Nat]
        /\ records'[a].history = h /\ seeded'[a] = g
        /\ \A b \in Agents : records'[b].failures = records[b].failures
        /\ \A b \in Agents \ {a} : records'[b].history = records[b].history
                                   /\ seeded'[b] = seeded[b]
    BY <2>2, <2>3, <2>4
  <2>6. ASSUME NEW b \in Agents
        PROVE  records'[b].history = seeded'[b] + Counted(called[1], DOMAIN called[1], b)
    <3>1. records[b].history = seeded[b] + Counted(called[1], DOMAIN called[1], b)
          /\ records[b].history \in Nat /\ seeded[b] \in Nat
      BY <2>2 DEF StoreInv, CountersMatchCalls
    <3>2. Counted(called[1], DOMAIN called[1], b) \in Int
      <4>1. called[1] \in OutcomeList
        BY OutcomeBounds DEF HandInv, ForwarderTypeOK, Sinks
      <4>2. NoOutcome \in Episodes
        BY DEF NoOutcome, Episodes
      <4> QED
        BY <4>1, <4>2, CountedFacts
    <3>3. CASE b = a
      BY <2>5, <3>1, <3>2, <3>3 DEF h, g
    <3>4. CASE b # a
      BY <2>5, <3>1, <3>4
    <3> QED
      BY <3>3, <3>4
  <2>7. CountersMatchCalls'
    BY <2>1, <2>5, <2>6 DEF StoreInv, CountersMatchCalls, Counted, Failures
  <2> QED
    BY <2>5, <2>7 DEF StoreInv, StoreTypeOK
<1>6. CASE ShouldJoinWithout \/ ShouldJoinWith \/ ShouldLeaveWith \/ ShouldLeaveWithout
  BY <1>1, <1>6 DEF ShouldJoinWithout, ShouldJoinWith, ShouldLeaveWith, ShouldLeaveWithout,
                    forwarder
<1>7. CASE UNCHANGED vars
  BY <1>1, <1>7 DEF vars, forwarder
<1> QED
  BY <1>2, <1>3, <1>4, <1>5, <1>6, <1>7 DEF Next, Forwarder

-----------------------------------------------------------------------------
(***************************************************************************)
(* Outcomes: a decision's two reads.                                       *)
(***************************************************************************)
Both == Coalition \union {Candidate}

QuietInv ==
    /\ ReadTypeOK
    /\ ~decision.disturbed =>
          /\ decision.step = "joins" => decision.first = calculate_value(Coalition)
          /\ decision.step = "leaves" => decision.first = calculate_value(Both)
    /\ QuietMarginal

(* Every step of a decision keeps what its reads add up to. *)
LEMMA QuietStep ==
    ASSUME StoreInv, QuietInv, [Next]_vars
    PROVE  QuietInv'
<1> DEFINE out == calculate_value(Coalition)
           in == calculate_value(Both)
           own == 1 + records[Candidate].history - records[Candidate].failures
<1>1. /\ out \in Int /\ in \in Int /\ own \in Int /\ in - out = own
      /\ decision \in [step : ReadSteps, first : Int, marginal : Int, candidate : Int,
                       disturbed : BOOLEAN]
  <2>1. records[Candidate].history \in Nat /\ records[Candidate].failures \in Nat
    BY AgentsOK DEF StoreInv, StoreTypeOK
  <2> QED
    BY <2>1, MarginalFacts DEF StoreInv, Both, QuietInv, ReadTypeOK
<1>2. ASSUME UNCHANGED <<records, decision>> PROVE QuietInv'
  <2>1. out' = out /\ in' = in
    BY <1>2 DEF calculate_value, feedback_total
  <2> QED
    BY <1>2, <2>1 DEF QuietInv, ReadTypeOK, QuietMarginal
<1>3. ASSUME Disturb PROVE QuietInv'
  <2> DEFINE b == decision.disturbed \/ decision.step \in {"joins", "leaves"}
  <2>1. decision' = [decision EXCEPT !.disturbed = b] /\ b \in BOOLEAN
    BY <1>1, <1>3 DEF Disturb
  <2> HIDE DEF b
  <2>2. /\ decision' \in [step : ReadSteps, first : Int, marginal : Int, candidate : Int,
                          disturbed : BOOLEAN]
        /\ decision'.step = decision.step /\ decision'.disturbed = b
        /\ decision'.marginal = decision.marginal /\ decision'.candidate = decision.candidate
    BY <1>1, <2>1
  <2>3. ~b => ~decision.disturbed /\ decision.step # "joins" /\ decision.step # "leaves"
    BY DEF b
  <2> QED
    BY <2>2, <2>3 DEF QuietInv, ReadTypeOK, QuietMarginal
<1> HIDE DEF out, in, own
<1>4. ASSUME NEW v \in Int, NEW step \in {"joins", "leaves"}, UNCHANGED records,
             decision' = [NoDecision EXCEPT !.step = step, !.first = v],
             v = IF step = "joins" THEN out ELSE in
      PROVE  QuietInv'
  <2>1. decision' = [step |-> step, first |-> v, marginal |-> 0,
                     candidate |-> 0, disturbed |-> FALSE]
    BY <1>4 DEF NoDecision
  <2>2. out' = out /\ in' = in
    BY <1>4 DEF out, in, calculate_value, feedback_total
  <2>3. ReadTypeOK'
    BY <2>1, <1>4 DEF ReadTypeOK, ReadSteps
  <2>4. decision'.step = step /\ decision'.first = v
    BY <2>1
  <2> QED
    BY <1>4, <2>2, <2>3, <2>4 DEF QuietInv, QuietMarginal, out, in
<1>5. ASSUME NEW v \in Int,
             decision' = [decision EXCEPT !.step = "done", !.marginal = v, !.candidate = own],
             ~decision.disturbed => v = own
      PROVE  QuietInv'
  <2>1. /\ decision' \in [step : ReadSteps, first : Int, marginal : Int, candidate : Int,
                          disturbed : BOOLEAN]
        /\ decision'.step = "done" /\ decision'.disturbed = decision.disturbed
        /\ decision'.marginal = v /\ decision'.candidate = own
    <3>1. "done" \in ReadSteps
      BY DEF ReadSteps
    <3> HIDE DEF ReadSteps
    <3> QED
      BY <1>1, <1>5, <3>1
  <2> QED
    BY <1>5, <2>1 DEF QuietInv, ReadTypeOK, QuietMarginal
<1>6. ~decision.disturbed =>
         /\ decision.step = "joins" => decision.first = out
         /\ decision.step = "leaves" => decision.first = in
  BY DEF QuietInv, out, in
<1>7. CASE Cancel \/ DropTap \/ Receive \/ Stop
  BY <1>2, <1>7 DEF Cancel, DropTap, Receive, Stop
<1>8. CASE on_outcome
  BY <1>2, <1>3, <1>8 DEF on_outcome
<1>9. CASE \E o \in Outcomes : emit_outcome(o)
  BY <1>2, <1>9 DEF emit_outcome
<1>10. CASE \E a \in Agents : add_history(a)
  BY <1>3, <1>10 DEF add_history
<1>11. CASE ShouldJoinWithout
  BY <1>1, <1>4, <1>11 DEF ShouldJoinWithout, out
<1>12. CASE ShouldLeaveWith
  BY <1>1, <1>4, <1>12 DEF ShouldLeaveWith, in, Both
<1>13. CASE ShouldJoinWith
  <2> DEFINE v == in - decision.first
  <2>1. v \in Int /\ (~decision.disturbed => v = own)
    BY <1>1, <1>6, <1>13 DEF ShouldJoinWith
  <2>2. decision' = [decision EXCEPT !.step = "done", !.marginal = v, !.candidate = own]
    BY <1>13 DEF ShouldJoinWith, in, own, Both
  <2> QED
    BY <1>5, <2>1, <2>2
<1>14. CASE ShouldLeaveWithout
  <2> DEFINE v == decision.first - out
  <2>1. v \in Int /\ (~decision.disturbed => v = own)
    BY <1>1, <1>6, <1>14 DEF ShouldLeaveWithout
  <2>2. decision' = [decision EXCEPT !.step = "done", !.marginal = v, !.candidate = own]
    BY <1>14 DEF ShouldLeaveWithout, out, own
  <2> QED
    BY <1>5, <2>1, <2>2
<1>15. CASE UNCHANGED vars
  BY <1>2, <1>15 DEF vars
<1> QED
  BY <1>7, <1>8, <1>9, <1>10, <1>11, <1>12, <1>13, <1>14, <1>15 DEF Next, Forwarder

-----------------------------------------------------------------------------
FeedbackInv == HandInv /\ StoreInv /\ QuietInv

(* Nothing is owed, counted or read at the start. *)
LEMMA FeedbackInitially == Init => FeedbackInv
<1> SUFFICES ASSUME Init PROVE FeedbackInv
  OBVIOUS
<1>1. /\ fwd = [step |-> "recv", outcome |-> NoOutcome, sink |-> 1]
      /\ tap = <<>> /\ accepted = <<>> /\ called = [s \in Sinks |-> <<>>]
      /\ 1 \in Sinks /\ NoOutcome \in Episodes
  BY OutcomeBounds DEF Init, Sinks, NoOutcome, Episodes
<1>2. HandInv
  <2>1. ForwarderTypeOK
    BY <1>1 DEF ForwarderTypeOK, OutcomeList
  <2>2. \A s \in Sinks : Behind(s) = 0
    BY <1>1 DEF Behind
  <2>3. fwd.step = "recv"
    BY <1>1
  <2> QED
    BY <1>1, <2>1, <2>2, <2>3 DEF HandInv, Handed
<1>3. StoreInv
  <2>1. called[1] = <<>>
    BY <1>1
  <2>2. DOMAIN <<>> = {} /\ Failures(<<>>) = {}
    BY DEF Failures
  <2>3. \A a \in Agents : Counted(<<>>, {}, a) = 0
    BY FS_EmptySet, SumUnfolds DEF Counted
  <2>4. \A a \in Agents : /\ records[a].history = 0 /\ records[a].failures = 0
                           /\ seeded[a] = 0
    BY DEF Init
  <2>5. StoreTypeOK
    BY DEF Init, StoreTypeOK
  <2>6. CountersMatchCalls
    <3> SUFFICES ASSUME NEW a \in Agents
                 PROVE  /\ records[a].history = seeded[a] + Counted(called[1], DOMAIN called[1], a)
                        /\ records[a].failures = Counted(called[1], Failures(called[1]), a)
      BY DEF CountersMatchCalls
    <3>1. Counted(called[1], DOMAIN called[1], a) = 0
      BY <2>1, <2>2, <2>3
    <3>2. Counted(called[1], Failures(called[1]), a) = 0
      BY <2>1, <2>2, <2>3
    <3> QED
      BY <2>4, <3>1, <3>2
  <2> QED
    BY <2>5, <2>6 DEF StoreInv
<1>4. QuietInv
  BY DEF Init, QuietInv, ReadTypeOK, QuietMarginal, NoDecision, ReadSteps
<1> QED
  BY <1>2, <1>3, <1>4 DEF FeedbackInv

(* The three invariants hold together in every state. *)
LEMMA FeedbackInvHolds == Spec => []FeedbackInv
<1>1. Init => FeedbackInv
  BY FeedbackInitially
<1>2. FeedbackInv /\ [Next]_vars => FeedbackInv'
  BY HandStep, StoreStep, QuietStep DEF FeedbackInv
<1> QED
  BY <1>1, <1>2, PTL DEF Spec

(* What was handed on and what is in flight are what the property asks. *)
LEMMA HandedGives ==
    ASSUME FeedbackInv
    PROVE  SinksAgree
<1> DEFINE n == Len(accepted)
<1>1. /\ called \in [Sinks -> OutcomeList] /\ n \in Nat /\ Len(tap) \in Nat
      /\ accepted \in Seq(Episodes) /\ 1 \in Sinks
      /\ \A s \in Sinks : Len(called[s]) \in Nat /\ called[s] \in Seq(Episodes)
      /\ fwd.sink \in Nat /\ \A s \in Sinks : s \in Nat /\ 1 <= s
      /\ 1 <= fwd.sink
  BY OutcomeBounds DEF FeedbackInv, HandInv, ForwarderTypeOK, OutcomeList, Sinks
<1>2. /\ \A s \in Sinks : n = Len(called[s]) + Behind(s) + Len(tap)
      /\ \A s \in Sinks : \A i \in 1..Len(called[s]) : called[s][i] = accepted[i]
      /\ fwd.step = "stopped" /\ ~cancelled => tap = <<>>
  BY DEF FeedbackInv, HandInv, Handed
<1>3. \A s \in Sinks : Behind(s) \in {0, 1}
  BY DEF Behind
<1>4. ASSUME NEW s \in Sinks PROVE IsPrefix(called[s], accepted)
  <2>1. Len(called[s]) <= n
    <3>1. n = Len(called[s]) + Behind(s) + Len(tap) /\ Behind(s) \in {0, 1}
          /\ Len(called[s]) \in Nat
      BY <1>1, <1>2, <1>3
    <3> QED
      BY <1>1, <3>1
  <2> DEFINE u == called[s]
             k == Len(u)
  <2>2. u \in Seq(Episodes) /\ k \in Nat /\ k <= n /\ \A i \in 1..k : u[i] = accepted[i]
    BY <1>1, <1>2, <2>1
  <2> HIDE DEF u
  <2>3. SubSeq(u, 1, k) = [i \in 1..k |-> u[i]] /\ SubSeq(accepted, 1, k) = [i \in 1..k |-> accepted[i]]
    BY <1>1, <2>2
  <2>4. SubSeq(u, 1, Len(u)) = SubSeq(accepted, 1, Len(u))
    BY <2>2, <2>3
  <2> QED
    BY <2>2, <2>4 DEF IsPrefix, u
<1>5. ASSUME NEW s \in Sinks
      PROVE  Len(called[1]) - Len(called[s]) =
                IF fwd.step = "deliver" /\ 1 < fwd.sink /\ fwd.sink <= s
                THEN 1 ELSE 0
  <2>1. n = Len(called[1]) + Behind(1) + Len(tap) /\ n = Len(called[s]) + Behind(s) + Len(tap)
    BY <1>1, <1>2
  <2>2. Len(called[1]) - Len(called[s]) = Behind(s) - Behind(1)
    <3>1. Behind(1) \in {0, 1} /\ Behind(s) \in {0, 1}
          /\ Len(called[1]) \in Nat /\ Len(called[s]) \in Nat
      BY <1>1, <1>3
    <3> QED
      BY <1>1, <2>1, <3>1
  <2>3. CASE fwd.step = "deliver"
    BY <1>1, <2>2, <2>3 DEF Behind
  <2>4. CASE fwd.step # "deliver"
    BY <2>2, <2>4 DEF Behind
  <2> QED
    BY <2>3, <2>4
<1>6. ASSUME fwd.step = "stopped", ~cancelled, NEW s \in Sinks
      PROVE  called[s] = accepted
  <2>1. Behind(s) = 0 /\ Len(tap) = 0
    BY <1>2, <1>6 DEF Behind
  <2>2. n = Len(called[s])
    BY <1>1, <1>2, <2>1
  <2> QED
    BY SMTT(30), <1>1, <1>2, <2>2
<1>7. CountersMatchCalls
  BY DEF FeedbackInv, StoreInv
<1> QED
  BY <1>4, <1>5, <1>6, <1>7 DEF SinksAgree

(* The forwarder hands every outcome to every sink once and in order, and  *)
(* the store counts each exactly as its calls say, for any agents, sinks,  *)
(* panics and cancellation.                                                *)
THEOREM OutcomesReachEverySink == Spec => []SinksAgree
<1>1. FeedbackInv => SinksAgree
  BY HandedGives
<1> QED
  BY <1>1, FeedbackInvHolds, PTL

(* A decision that no outcome or seeding disturbs between its two reads    *)
(* weighs the candidate's own feedback and nothing else.                   *)
THEOREM QuietMarginalsAreTheCandidates == Spec => []QuietMarginal
<1>1. FeedbackInv => QuietMarginal
  BY DEF FeedbackInv, QuietInv
<1> QED
  BY <1>1, FeedbackInvHolds, PTL

-----------------------------------------------------------------------------
(***************************************************************************)
(* The group policy: what each operation does to its counters.             *)
(***************************************************************************)
Counters == {"tasks_observed", "opened", "decisions", "reads", "agreement",
             "routed_reads", "declines_upstream", "declines_missing_role",
             "declines_no_demand", "leave_queries", "leave_queries_identical",
             "begin_task_rejections"}
GroupFields == Counters \cup {"config", "task", "model", "updates", "expected",
                              "empty_role_slots", "outcome_updates_unapplied"}

RosterOK(task, gconf) ==
    /\ task.open \in BOOLEAN
    /\ task.roster \subseteq 0 .. gconf.n_roles - 1
    /\ task.open => task.roster # {}

GroupTyped(g, gconf) ==
    /\ DOMAIN g = GroupFields /\ g = [f \in GroupFields |-> g[f]]
    /\ g.config = gconf
    /\ \A f \in Counters : g[f] \in Nat
    /\ g.updates \in [Models(gconf) -> Nat] /\ g.expected \in [Models(gconf) -> Nat]
    /\ RosterOK(g.task, gconf)

Ended(g) == g.reads + g.declines_upstream + g.declines_missing_role + g.declines_no_demand
Telling(g) == g.leave_queries - g.leave_queries_identical
ReadsOK(g) ==
    /\ g.agreement = IF g.config.sampled THEN 0 ELSE g.reads
    /\ g.routed_reads <= g.reads

SameLearning(g, h) ==
    /\ h.task = g.task /\ h.updates = g.updates /\ h.expected = g.expected
    /\ h.tasks_observed = g.tasks_observed /\ h.opened = g.opened
    /\ h.begin_task_rejections = g.begin_task_rejections
    /\ h.model = g.model
SameDecisions(g, h) ==
    /\ h.decisions = g.decisions /\ h.reads = g.reads /\ h.agreement = g.agreement
    /\ h.routed_reads = g.routed_reads /\ h.declines_upstream = g.declines_upstream
    /\ h.declines_missing_role = g.declines_missing_role
    /\ h.declines_no_demand = g.declines_no_demand
    /\ h.leave_queries = g.leave_queries
    /\ h.leave_queries_identical = g.leave_queries_identical

(* With role-matched masks all but the agent's own role's query repeat.     *)
GoodAsk(ask, gconf) ==
    /\ ask \in Asks /\ IsFiniteSet(ask.queries) /\ IsFiniteSet(ask.identical)
    /\ gconf.matched => \E r : ask.queries \ {r} \subseteq ask.identical

(* coverage_masks: a role that is not the agent's own sees no difference.   *)
LEMMA AskFacts ==
    ASSUME NEW gconf, gconf.n_roles \in Nat, NEW g, GroupTyped(g, gconf),
           NEW roles, NEW caps, NEW agent, NEW coalition, NEW leave \in BOOLEAN
    PROVE  LET ask == AskOf(g, roles, caps, agent, coalition, leave)
           IN  GoodAsk(ask, gconf) /\ (~leave => ask.queries = {})
<1> DEFINE ask == AskOf(g, roles, caps, agent, coalition, leave)
           R == g.task.roster
           Q == LeaveQueries(g.task, leave)
           I == Identical(g, g.task, roles, caps, agent, coalition, leave)
<1>1. R \subseteq Nat /\ IsFiniteSet(R)
  <2>1. R \subseteq 0 .. gconf.n_roles - 1
    BY DEF GroupTyped, RosterOK
  <2>2. IsFiniteSet(0 .. gconf.n_roles - 1)
    BY FS_Interval
  <2> QED
    BY <2>1, <2>2, FS_Subset
<1>2. Q \subseteq R /\ I \subseteq Q /\ (~leave => Q = {})
  BY DEF LeaveQueries, Identical
<1>3. IsFiniteSet(Q) /\ IsFiniteSet(I)
  BY <1>1, <1>2, FS_Subset
<1>4. Routed(g, g.task, roles[agent]) \in BOOLEAN
  BY DEF Routed
<1>5. ask \in Asks /\ ask.queries = Q /\ ask.identical = I
  BY <1>1, <1>2, <1>4 DEF AskOf, Asks
<1>6. ASSUME gconf.matched PROVE Q \ {roles[agent]} \subseteq I
  <2> SUFFICES ASSUME NEW r \in Q, r # roles[agent] PROVE r \in I
    OBVIOUS
  <2>1. leave
    BY <1>2
  <2> DEFINE masks == CoverageMasks(g, roles, caps, r, agent, coalition, leave)
  <2>2. g.config.matched
    BY <1>6 DEF GroupTyped
  <2>3. masks[1] = masks[2]
    BY <2>1, <2>2 DEF CoverageMasks
  <2> QED
    BY <2>3 DEF Identical
<1> QED
  BY <1>2, <1>3, <1>5, <1>6 DEF GoodAsk

(* A change of counters only. *)
LEMMA CountersMove ==
    ASSUME NEW gconf, NEW g, GroupTyped(g, gconf), NEW S \in SUBSET Counters,
           NEW h, DOMAIN h = GroupFields, h = [f \in GroupFields |-> h[f]],
           \A f \in GroupFields \ S : h[f] = g[f], \A f \in S : h[f] \in Nat
    PROVE  GroupTyped(h, gconf)
<1>1. \A f \in Counters : h[f] \in Nat
  BY DEF GroupTyped, GroupFields
<1>2. /\ "config" \in GroupFields \ S /\ "updates" \in GroupFields \ S
      /\ "expected" \in GroupFields \ S /\ "task" \in GroupFields \ S
  BY DEF GroupFields, Counters
<1>3. h.config = g.config /\ h.updates = g.updates /\ h.expected = g.expected /\ h.task = g.task
  BY <1>2
<1> QED
  BY <1>1, <1>3 DEF GroupTyped

(* decide, first part: the decision is counted, and a decline with it.      *)
LEMMA StartsFacts ==
    ASSUME NEW gconf, NEW g, GroupTyped(g, gconf), NEW roles, NEW participants,
           NEW h, h = DecideStarts(g, roles, participants)
    PROVE  /\ GroupTyped(h, gconf) /\ SameLearning(g, h)
           /\ h.decisions = g.decisions + 1
           /\ Ended(h) = Ended(g) + IF DecideAsks(g, roles, participants) THEN 0 ELSE 1
           /\ Telling(h) = Telling(g)
           /\ ReadsOK(g) => ReadsOK(h)
<1>1. \/ h = [g EXCEPT !.decisions = @ + 1, !.declines_no_demand = @ + 1]
            /\ ~DecideAsks(g, roles, participants)
      \/ h = [g EXCEPT !.decisions = @ + 1, !.declines_missing_role = @ + 1]
            /\ ~DecideAsks(g, roles, participants)
      \/ h = [g EXCEPT !.decisions = @ + 1] /\ DecideAsks(g, roles, participants)
  BY DEF DecideStarts, DecideAsks
<1>2. DOMAIN g = GroupFields /\ \A f \in Counters : g[f] \in Nat
  BY DEF GroupTyped
<1> DEFINE S == {"decisions", "declines_no_demand", "declines_missing_role"}
<1>3. /\ DOMAIN h = GroupFields /\ h = [f \in GroupFields |-> h[f]]
      /\ \A f \in GroupFields \ S : h[f] = g[f]
      /\ h.decisions = g.decisions + 1
      /\ \/ /\ h.declines_no_demand = g.declines_no_demand + 1
            /\ h.declines_missing_role = g.declines_missing_role
            /\ ~DecideAsks(g, roles, participants)
         \/ /\ h.declines_no_demand = g.declines_no_demand
            /\ h.declines_missing_role = g.declines_missing_role + 1
            /\ ~DecideAsks(g, roles, participants)
         \/ /\ h.declines_no_demand = g.declines_no_demand
            /\ h.declines_missing_role = g.declines_missing_role
            /\ DecideAsks(g, roles, participants)
  <2>1. /\ "decisions" \in GroupFields /\ "declines_no_demand" \in GroupFields
        /\ "declines_missing_role" \in GroupFields
    BY DEF GroupFields, Counters
  <2> QED
    BY <1>1, <1>2, <2>1
<1>4. /\ g.decisions \in Nat /\ g.declines_no_demand \in Nat /\ g.declines_missing_role \in Nat
      /\ g.reads \in Nat /\ g.declines_upstream \in Nat
  BY <1>2 DEF Counters
<1>5. GroupTyped(h, gconf)
  <2>1. S \in SUBSET Counters
    BY DEF Counters
  <2>2. \A f \in S : h[f] \in Nat
    BY <1>3, <1>4
  <2> HIDE DEF S
  <2> QED
    BY <1>3, <2>1, <2>2, CountersMove
<1>6. /\ SameLearning(g, h) /\ h.config = g.config
      /\ h.reads = g.reads /\ h.agreement = g.agreement /\ h.routed_reads = g.routed_reads
      /\ h.declines_upstream = g.declines_upstream
      /\ h.leave_queries = g.leave_queries
      /\ h.leave_queries_identical = g.leave_queries_identical
  BY <1>3 DEF SameLearning, GroupFields, Counters
<1> QED
  BY <1>3, <1>4, <1>5, <1>6 DEF Ended, Telling, ReadsOK

(* decide, second part: a decision ends in one way, and at most one query   *)
(* of a leave can tell leaving from staying.                                *)
LEMMA EndsFacts ==
    ASSUME NEW gconf, NEW g, GroupTyped(g, gconf), ReadsOK(g),
           NEW ask, GoodAsk(ask, gconf), NEW ok \in BOOLEAN, NEW last,
           NEW h, h = DecideEnds(g, ask, ok, last)
    PROVE  /\ GroupTyped(h, gconf) /\ SameLearning(g, h)
           /\ h.decisions = g.decisions
           /\ Ended(h) = Ended(g) + 1
           /\ ReadsOK(h)
           /\ gconf.matched =>
                Telling(h) <= Telling(g) + IF ask.queries = {} THEN 0 ELSE 1
<1> DEFINE Q == {r \in ask.queries : r <= last}
           I == {r \in ask.identical : r <= last}
           q == Cardinality(Q)
           i == Cardinality(I)
<1>1. IsFiniteSet(Q) /\ IsFiniteSet(I) /\ q \in Nat /\ i \in Nat
  BY FS_Subset, FS_CardinalityType DEF GoodAsk
<1>2. gconf.matched => q <= i + IF ask.queries = {} THEN 0 ELSE 1
  <2>1. ask.queries = {} => q = 0
    BY FS_EmptySet
  <2>2. ASSUME gconf.matched PROVE q <= i + 1
    <3>1. PICK r : ask.queries \ {r} \subseteq ask.identical
      BY <2>2 DEF GoodAsk
    <3>2. Q \subseteq I \cup {r}
      BY <3>1
    <3>3. IsFiniteSet(I \cup {r}) /\ Cardinality(I \cup {r}) <= i + 1
      <4> HIDE DEF I
      <4>1. Cardinality(I \cup {r}) = i \/ Cardinality(I \cup {r}) = i + 1
        BY <1>1, FS_AddElement
      <4>2. IsFiniteSet(I \cup {r})
        BY <1>1, FS_AddElement
      <4> HIDE DEF i
      <4> QED
        BY <1>1, <4>1, <4>2
    <3>4. q <= Cardinality(I \cup {r})
      BY <3>2, <3>3, FS_Subset
    <3>5. Cardinality(I \cup {r}) \in Nat
      BY <3>3, FS_CardinalityType
    <3> HIDE DEF q, i, Q, I
    <3> QED
      BY <1>1, <3>3, <3>4, <3>5
  <2> HIDE DEF q, i
  <2> QED
    BY <1>1, <2>1, <2>2
<1>3. DOMAIN g = GroupFields /\ \A f \in Counters : g[f] \in Nat
  BY DEF GroupTyped
<1> DEFINE c == [g EXCEPT !.leave_queries = @ + q, !.leave_queries_identical = @ + i]
           S == {"leave_queries", "leave_queries_identical", "declines_upstream", "reads",
                 "agreement", "routed_reads"}
<1>4. h = IF ~ok THEN [c EXCEPT !.declines_upstream = @ + 1]
          ELSE [c EXCEPT !.reads = @ + 1,
                         !.agreement = @ + IF g.config.sampled THEN 0 ELSE 1,
                         !.routed_reads = @ + IF ask.routed THEN 1 ELSE 0]
  BY DEF DecideEnds
<1> HIDE DEF q, i, Q, I
<1>5. /\ DOMAIN h = GroupFields /\ h = [f \in GroupFields |-> h[f]]
      /\ \A f \in GroupFields \ S : h[f] = g[f]
      /\ h.leave_queries = g.leave_queries + q
      /\ h.leave_queries_identical = g.leave_queries_identical + i
      /\ \/ /\ h.declines_upstream = g.declines_upstream + 1
            /\ h.reads = g.reads /\ h.agreement = g.agreement /\ h.routed_reads = g.routed_reads
         \/ /\ h.declines_upstream = g.declines_upstream
            /\ h.reads = g.reads + 1
            /\ h.agreement = g.agreement + IF g.config.sampled THEN 0 ELSE 1
            /\ h.routed_reads = g.routed_reads + IF ask.routed THEN 1 ELSE 0
  <2>1. S \subseteq GroupFields
    BY DEF GroupFields, Counters
  <2>2. /\ DOMAIN c = GroupFields /\ \A f \in GroupFields \ S : c[f] = g[f]
        /\ c.leave_queries = g.leave_queries + q
        /\ c.leave_queries_identical = g.leave_queries_identical + i
        /\ c.declines_upstream = g.declines_upstream /\ c.reads = g.reads
        /\ c.agreement = g.agreement /\ c.routed_reads = g.routed_reads
    BY <1>3, <2>1
  <2> HIDE DEF c
  <2>3. CASE ~ok
    <3>1. h = [c EXCEPT !.declines_upstream = @ + 1]
      BY <1>4, <2>3
    <3>2. /\ DOMAIN h = GroupFields /\ h = [f \in GroupFields |-> h[f]]
          /\ \A f \in GroupFields \ {"declines_upstream"} : h[f] = c[f]
          /\ h.declines_upstream = c.declines_upstream + 1
      BY <2>1, <2>2, <3>1
    <3>3. {"leave_queries", "leave_queries_identical", "reads", "agreement", "routed_reads"}
            \subseteq GroupFields \ {"declines_upstream"}
      BY <2>1
    <3> QED
      BY <2>2, <3>2, <3>3
  <2>4. CASE ok
    <3>1. h = [c EXCEPT !.reads = @ + 1,
                        !.agreement = @ + IF g.config.sampled THEN 0 ELSE 1,
                        !.routed_reads = @ + IF ask.routed THEN 1 ELSE 0]
      BY <1>4, <2>4
    <3>2. /\ DOMAIN h = GroupFields /\ h = [f \in GroupFields |-> h[f]]
          /\ \A f \in GroupFields \ {"reads", "agreement", "routed_reads"} : h[f] = c[f]
          /\ h.reads = c.reads + 1
          /\ h.agreement = c.agreement + IF g.config.sampled THEN 0 ELSE 1
          /\ h.routed_reads = c.routed_reads + IF ask.routed THEN 1 ELSE 0
      BY <2>1, <2>2, <3>1
    <3>3. {"leave_queries", "leave_queries_identical", "declines_upstream"}
            \subseteq GroupFields \ {"reads", "agreement", "routed_reads"}
      BY <2>1
    <3> QED
      BY <2>2, <3>2, <3>3
  <2> QED
    BY <2>3, <2>4
<1>6. /\ g.decisions \in Nat /\ g.declines_no_demand \in Nat /\ g.declines_missing_role \in Nat
      /\ g.reads \in Nat /\ g.declines_upstream \in Nat /\ g.agreement \in Nat
      /\ g.routed_reads \in Nat
      /\ g.leave_queries \in Nat /\ g.leave_queries_identical \in Nat
  BY <1>3 DEF Counters
<1>7. GroupTyped(h, gconf)
  <2>1. S \in SUBSET Counters
    BY DEF Counters
  <2>2. \A f \in S : h[f] \in Nat
    BY <1>1, <1>5, <1>6
  <2> HIDE DEF S
  <2> QED
    BY <1>5, <2>1, <2>2, CountersMove
<1>8. /\ SameLearning(g, h) /\ h.config = g.config
      /\ h.decisions = g.decisions
      /\ h.declines_no_demand = g.declines_no_demand
      /\ h.declines_missing_role = g.declines_missing_role
  BY <1>5 DEF SameLearning, GroupFields, Counters
<1>9. ReadsOK(h)
  BY <1>5, <1>6, <1>8 DEF ReadsOK
<1>10. Ended(h) = Ended(g) + 1
  BY <1>5, <1>6, <1>8 DEF Ended
<1>11. gconf.matched => Telling(h) <= Telling(g) + IF ask.queries = {} THEN 0 ELSE 1
  BY <1>1, <1>2, <1>5, <1>6 DEF Telling
<1> QED
  BY <1>7, <1>8, <1>9, <1>10, <1>11

(* begin_task: a task opens and its models are owed an update, or it is     *)
(* rejected and none is in force.                                           *)
LEMMA BeginFacts ==
    ASSUME NEW gconf, gconf.n_roles \in Nat, NEW g, GroupTyped(g, gconf), NEW steps,
           NEW h, h = BeginTask(g, steps)
    PROVE  /\ GroupTyped(h, gconf) /\ SameDecisions(g, h)
           /\ h.updates = g.updates /\ h.tasks_observed = g.tasks_observed
           /\ h.opened + h.begin_task_rejections = g.opened + g.begin_task_rejections + 1
           /\ h.opened = g.opened + IF h.task.open THEN 1 ELSE 0
           /\ \A m \in Models(gconf) :
                h.expected[m] = g.expected[m]
                    + IF h.task.open /\ m \in Expects(h, h.task.roster) THEN 1 ELSE 0
<1> DEFINE required == DemandOf(g, steps)
           roster   == Roster(required)
           S == {"task", "begin_task_rejections", "opened", "empty_role_slots", "expected"}
           T == [open |-> TRUE, required |-> required, roster |-> roster]
           E == [m \in Models(gconf) |-> g.expected[m] + IF m \in Expects(g, roster) THEN 1 ELSE 0]
<1>1. /\ DOMAIN g = GroupFields /\ g.config = gconf
      /\ g.expected \in [Models(gconf) -> Nat] /\ g.updates \in [Models(gconf) -> Nat]
      /\ g.opened \in Nat /\ g.begin_task_rejections \in Nat
      /\ \A f \in Counters : g[f] \in Nat
  BY DEF GroupTyped, Counters
<1>2. roster \subseteq 0 .. gconf.n_roles - 1
  BY <1>1 DEF DemandOf, Roster
<1>3. \/ /\ h = [g EXCEPT !.task = NoTask, !.begin_task_rejections = @ + 1]
      \/ /\ roster # {}
         /\ h = [g EXCEPT !.task = T, !.opened = @ + 1,
                          !.empty_role_slots = @ + g.config.n_roles - Cardinality(roster),
                          !.expected = [m \in DOMAIN @ |->
                                           @[m] + IF m \in Expects(g, roster) THEN 1 ELSE 0]]
  BY DEF BeginTask
<1>4. /\ DOMAIN h = GroupFields /\ h = [f \in GroupFields |-> h[f]]
      /\ \A f \in GroupFields \ S : h[f] = g[f]
      /\ \/ /\ h.task = NoTask /\ h.begin_task_rejections = g.begin_task_rejections + 1
            /\ h.opened = g.opened /\ h.expected = g.expected
         \/ /\ roster # {} /\ h.task = T
            /\ h.begin_task_rejections = g.begin_task_rejections
            /\ h.opened = g.opened + 1 /\ h.expected = E
  <2>1. S \subseteq GroupFields
    BY DEF GroupFields, Counters
  <2>2. [m \in DOMAIN g.expected |->
            g.expected[m] + IF m \in Expects(g, roster) THEN 1 ELSE 0] = E
    BY <1>1
  <2> HIDE DEF E, T, required, roster
  <2> QED
    BY <1>1, <1>3, <2>1, <2>2
<1>5. SameDecisions(g, h) /\ h.config = gconf /\ h.updates = g.updates
      /\ h.tasks_observed = g.tasks_observed
  BY <1>1, <1>4 DEF SameDecisions, GroupFields, Counters
<1>6. \A f \in Counters : h[f] \in Nat
  <2> SUFFICES ASSUME NEW f \in Counters PROVE h[f] \in Nat
    OBVIOUS
  <2>1. CASE f \in {"opened", "begin_task_rejections"}
    BY <1>1, <1>4, <2>1
  <2>2. CASE f \notin {"opened", "begin_task_rejections"}
    <3>1. f \in GroupFields \ S
      BY <2>2 DEF GroupFields, Counters
    <3> QED
      BY <1>1, <1>4, <3>1
  <2> QED
    BY <2>1, <2>2
<1>7. E \in [Models(gconf) -> Nat]
  BY <1>1
<1>8. NoTask.open = FALSE /\ NoTask.roster = {} /\ T.open = TRUE /\ T.roster = roster
  BY DEF NoTask
<1>9. Expects(g, roster) = Expects(h, roster)
  BY <1>1, <1>5 DEF Expects
<1> HIDE DEF E, T, roster
<1>10. RosterOK(h.task, gconf)
  BY <1>2, <1>4, <1>8 DEF RosterOK
<1>11. h.expected \in [Models(gconf) -> Nat]
  BY <1>1, <1>4, <1>7
<1>12. GroupTyped(h, gconf)
  BY <1>1, <1>4, <1>5, <1>6, <1>10, <1>11 DEF GroupTyped
<1>13. /\ h.opened + h.begin_task_rejections = g.opened + g.begin_task_rejections + 1
       /\ h.opened = g.opened + IF h.task.open THEN 1 ELSE 0
  BY <1>1, <1>4, <1>8
<1>14. ASSUME NEW m \in Models(gconf)
       PROVE h.expected[m] = g.expected[m]
                    + IF h.task.open /\ m \in Expects(h, h.task.roster) THEN 1 ELSE 0
  <2>1. CASE h.task = NoTask /\ h.expected = g.expected
    BY <1>1, <1>8, <2>1
  <2>2. CASE h.task = T /\ h.expected = E
    BY <1>1, <1>8, <1>9, <2>2 DEF E
  <2> QED
    BY <1>4, <2>1, <2>2
<1> QED
  BY <1>5, <1>12, <1>13, <1>14

(* observe_outcome: the models that accept are updated, if the signal has   *)
(* their width and a task is in force.                                      *)
LEMMA ObserveFacts ==
    ASSUME NEW gconf, NEW g, GroupTyped(g, gconf), NEW per_bit, NEW accepts,
           NEW h, h = ObserveGroup(g, per_bit, accepts)
    PROVE  /\ GroupTyped(h, gconf) /\ SameDecisions(g, h)
           /\ h.task = g.task /\ h.expected = g.expected /\ h.opened = g.opened
           /\ h.begin_task_rejections = g.begin_task_rejections
           /\ LET sees == ObservesWidth(gconf.n_bits, per_bit) /\ g.task.open
              IN  /\ h.tasks_observed = g.tasks_observed + IF sees THEN 1 ELSE 0
                  /\ \A m \in Models(gconf) :
                        h.updates[m] = g.updates[m]
                            + IF sees /\ m \in Expects(g, g.task.roster) \cap accepts THEN 1 ELSE 0
<1> DEFINE models == Expects(g, g.task.roster)
           sees == ObservesWidth(gconf.n_bits, per_bit) /\ g.task.open
           S == {"model", "updates", "tasks_observed", "outcome_updates_unapplied"}
           U == [m \in Models(gconf) |-> g.updates[m] + IF m \in models \cap accepts THEN 1 ELSE 0]
<1>1. /\ DOMAIN g = GroupFields /\ g.config = gconf /\ RosterOK(g.task, gconf)
      /\ g.expected \in [Models(gconf) -> Nat] /\ g.updates \in [Models(gconf) -> Nat]
      /\ g.tasks_observed \in Nat
      /\ \A f \in Counters : g[f] \in Nat
  BY DEF GroupTyped, Counters
<1>2. h = IF ~sees
          THEN [g EXCEPT !.outcome_updates_unapplied = @ + 1]
          ELSE [g EXCEPT
                !.model = [m \in DOMAIN @ |-> IF m \in models
                              THEN ObserveOutcome(@[m], ObservedBy(g, m), per_bit) ELSE @[m]],
                !.updates = [m \in DOMAIN @ |-> @[m] + IF m \in models \cap accepts THEN 1 ELSE 0],
                !.tasks_observed = @ + 1,
                !.outcome_updates_unapplied = @ + IF models \cap accepts = {} THEN 1 ELSE 0]
  BY <1>1 DEF ObserveGroup
<1>3. /\ DOMAIN h = GroupFields /\ h = [f \in GroupFields |-> h[f]]
      /\ \A f \in GroupFields \ S : h[f] = g[f]
      /\ ~sees => h.tasks_observed = g.tasks_observed /\ h.updates = g.updates
      /\ sees => h.tasks_observed = g.tasks_observed + 1 /\ h.updates = U
  <2>1. S \subseteq GroupFields
    BY DEF GroupFields, Counters
  <2>2. [m \in DOMAIN g.updates |->
            g.updates[m] + IF m \in models \cap accepts THEN 1 ELSE 0] = U
    BY <1>1
  <2> DEFINE M == [m \in DOMAIN g.model |-> IF m \in models
                      THEN ObserveOutcome(g.model[m], ObservedBy(g, m), per_bit) ELSE g.model[m]]
             u == g.outcome_updates_unapplied + IF models \cap accepts = {} THEN 1 ELSE 0
  <2>3. sees => h = [g EXCEPT !.model = M, !.updates = U,
                              !.tasks_observed = g.tasks_observed + 1,
                              !.outcome_updates_unapplied = u]
    BY <1>2, <2>2, Zenon
  <2>4. ~sees => h = [g EXCEPT !.outcome_updates_unapplied = @ + 1]
    BY <1>2
  <2> HIDE DEF U, M, u, models, sees
  <2>5. CASE sees
    BY <1>1, <2>1, <2>3, <2>5
  <2>6. CASE ~sees
    BY <1>1, <2>1, <2>4, <2>6
  <2> QED
    BY <2>5, <2>6
<1>4. /\ SameDecisions(g, h) /\ h.config = gconf /\ h.task = g.task
      /\ h.expected = g.expected /\ h.opened = g.opened
      /\ h.begin_task_rejections = g.begin_task_rejections
  BY <1>1, <1>3 DEF SameDecisions, GroupFields, Counters
<1>5. U \in [Models(gconf) -> Nat]
  BY <1>1
<1> HIDE DEF sees, models, U
<1>6. \A f \in Counters : h[f] \in Nat
  <2> SUFFICES ASSUME NEW f \in Counters PROVE h[f] \in Nat
    OBVIOUS
  <2>1. CASE f = "tasks_observed"
    BY <1>1, <1>3, <2>1
  <2>2. CASE f # "tasks_observed"
    <3>1. f \in GroupFields \ S
      BY <2>2 DEF GroupFields, Counters
    <3> QED
      BY <1>1, <1>3, <3>1
  <2> QED
    BY <2>1, <2>2
<1>7. h.updates \in [Models(gconf) -> Nat]
  BY <1>1, <1>3, <1>5
<1>8. GroupTyped(h, gconf)
  BY <1>1, <1>3, <1>4, <1>6, <1>7 DEF GroupTyped
<1>9. h.tasks_observed = g.tasks_observed + IF sees THEN 1 ELSE 0
  BY <1>1, <1>3
<1>10. ASSUME NEW m \in Models(gconf)
       PROVE h.updates[m] = g.updates[m]
                 + IF sees /\ m \in models \cap accepts THEN 1 ELSE 0
  BY <1>1, <1>3 DEF U
<1> QED
  BY <1>4, <1>8, <1>9, <1>10 DEF sees, models

-----------------------------------------------------------------------------
(***************************************************************************)
(* The group policy: the learning gate.  due says that the task in force   *)
(* has yet to be observed; missed that some model went without an update.  *)
(***************************************************************************)
DueTo(g, due, m) == IF due /\ g.task.open /\ m \in Expects(g, g.task.roster) THEN 1 ELSE 0
DueTask(g, due) == IF due /\ g.task.open THEN 1 ELSE 0

LearnOK(g, due, missed) ==
    /\ g.tasks_observed + DueTask(g, due) <= g.opened
    /\ \A m \in Models(g.config) : g.updates[m] + DueTo(g, due, m) <= g.expected[m]
    /\ missed <=> \/ g.tasks_observed + DueTask(g, due) # g.opened
                  \/ \E m \in Models(g.config) : g.updates[m] + DueTo(g, due, m) # g.expected[m]

(* Without a task to observe it is the gate that a run must pass. *)
LEMMA LearnGives ==
    ASSUME NEW gconf, NEW g, GroupTyped(g, gconf), NEW missed \in BOOLEAN,
           LearnOK(g, FALSE, missed)
    PROVE  SLearnExact(g) <=> ~missed
<1>1. /\ DOMAIN g.updates = Models(gconf) /\ g.config = gconf
      /\ g.tasks_observed \in Nat
      /\ \A m \in Models(gconf) : g.updates[m] \in Nat
  BY DEF GroupTyped, Counters
<1>2. /\ g.tasks_observed + DueTask(g, FALSE) = g.tasks_observed
      /\ \A m \in Models(gconf) : g.updates[m] + DueTo(g, FALSE, m) = g.updates[m]
  BY <1>1 DEF DueTask, DueTo
<1>3. missed <=> \/ g.tasks_observed # g.opened
                 \/ \E m \in Models(gconf) : g.updates[m] # g.expected[m]
  <2>1. missed <=> \/ g.tasks_observed + DueTask(g, FALSE) # g.opened
                   \/ \E m \in Models(gconf) : g.updates[m] + DueTo(g, FALSE, m) # g.expected[m]
    BY <1>1 DEF LearnOK
  <2> QED
    BY <1>2, <2>1
<1> QED
  BY <1>1, <1>3 DEF SLearnExact

(* A decision teaches nobody anything. *)
LEMMA LearnSame ==
    ASSUME NEW g, NEW h, SameLearning(g, h), h.config = g.config, NEW due, NEW missed,
           LearnOK(g, due, missed)
    PROVE  LearnOK(h, due, missed)
<1>1. \A m : DueTo(h, due, m) = DueTo(g, due, m)
  BY DEF SameLearning, DueTo, Expects
<1>2. DueTask(h, due) = DueTask(g, due)
  BY DEF SameLearning, DueTask
<1> QED
  BY <1>1, <1>2 DEF SameLearning, LearnOK

(* begin_task: what becomes due was added to what is expected. *)
LEMMA LearnBegins ==
    ASSUME NEW gconf, gconf.n_roles \in Nat, NEW g, GroupTyped(g, gconf), NEW steps,
           NEW missed \in BOOLEAN, LearnOK(g, FALSE, missed),
           NEW h, h = BeginTask(g, steps)
    PROVE  LearnOK(h, TRUE, missed)
<1>1. /\ h.updates = g.updates /\ h.tasks_observed = g.tasks_observed
      /\ h.opened = g.opened + DueTask(h, TRUE)
      /\ \A m \in Models(gconf) : h.expected[m] = g.expected[m] + DueTo(h, TRUE, m)
      /\ GroupTyped(h, gconf)
  BY BeginFacts DEF DueTask, DueTo
<1>2. /\ g.config = gconf /\ h.config = gconf
      /\ g.tasks_observed \in Nat /\ g.opened \in Nat
      /\ \A m \in Models(gconf) : g.updates[m] \in Nat /\ g.expected[m] \in Nat
  BY <1>1 DEF GroupTyped, Counters
<1>3. /\ g.tasks_observed + DueTask(g, FALSE) = g.tasks_observed
      /\ \A m \in Models(gconf) : g.updates[m] + DueTo(g, FALSE, m) = g.updates[m]
      /\ DueTask(h, TRUE) \in Nat /\ \A m \in Models(gconf) : DueTo(h, TRUE, m) \in Nat
  BY <1>2 DEF DueTask, DueTo
<1>4. /\ g.tasks_observed <= g.opened
      /\ \A m \in Models(gconf) : g.updates[m] <= g.expected[m]
      /\ missed <=> \/ g.tasks_observed # g.opened
                    \/ \E m \in Models(gconf) : g.updates[m] # g.expected[m]
  <2>1. /\ g.tasks_observed + DueTask(g, FALSE) <= g.opened
        /\ \A m \in Models(gconf) : g.updates[m] + DueTo(g, FALSE, m) <= g.expected[m]
        /\ missed <=> \/ g.tasks_observed + DueTask(g, FALSE) # g.opened
                      \/ \E m \in Models(gconf) : g.updates[m] + DueTo(g, FALSE, m) # g.expected[m]
    BY <1>2 DEF LearnOK
  <2> QED
    BY <1>3, <2>1
<1>5. /\ h.tasks_observed + DueTask(h, TRUE) <= h.opened
      /\ h.tasks_observed + DueTask(h, TRUE) # h.opened <=> g.tasks_observed # g.opened
  <2> DEFINE n == g.tasks_observed
             o == g.opened
             d == DueTask(h, TRUE)
  <2>1. /\ n \in Nat /\ o \in Nat /\ d \in Nat /\ n <= o
        /\ h.tasks_observed = n /\ h.opened = o + d
    BY <1>1, <1>2, <1>3, <1>4
  <2> HIDE DEF n, o, d
  <2>2. n + d <= o + d /\ (n + d # o + d <=> n # o)
    BY <2>1
  <2> QED
    BY <2>1, <2>2 DEF n, o, d
<1>6. ASSUME NEW m \in Models(gconf)
      PROVE  /\ h.updates[m] + DueTo(h, TRUE, m) <= h.expected[m]
             /\ h.updates[m] + DueTo(h, TRUE, m) # h.expected[m] <=> g.updates[m] # g.expected[m]
  <2> DEFINE n == g.updates[m]
             o == g.expected[m]
             d == DueTo(h, TRUE, m)
  <2>1. /\ n \in Nat /\ o \in Nat /\ d \in Nat /\ n <= o
        /\ h.updates[m] = n /\ h.expected[m] = o + d
    BY <1>1, <1>2, <1>3, <1>4
  <2> HIDE DEF n, o, d
  <2>2. n + d <= o + d /\ (n + d # o + d <=> n # o)
    BY <2>1
  <2> QED
    BY <2>1, <2>2 DEF n, o, d
<1> QED
  BY <1>2, <1>4, <1>5, <1>6 DEF LearnOK

(* What was due and not seen stays missing for good. *)
LEMMA SeenOrMissed ==
    ASSUME NEW n \in Nat, NEW e \in Nat, NEW d \in {0, 1}, NEW s \in {0, 1},
           s <= d, n + d <= e
    PROVE  /\ n + s <= e
           /\ n + d # e => n + s # e
           /\ s # d => n + s # e
           /\ s = d => (n + s # e <=> n + d # e)
OBVIOUS

(* An update that is due is missed: no signal of its width, or refused. *)
Misses(g, gconf, per_bit, accepts) ==
    /\ g.task.open
    /\ \/ ~ObservesWidth(gconf.n_bits, per_bit)
       \/ ~(Expects(g, g.task.roster) \subseteq accepts)

(* observe_outcome: what was due is observed, or missed. *)
LEMMA LearnObserves ==
    ASSUME NEW gconf, NEW g, GroupTyped(g, gconf), NEW per_bit, NEW accepts,
           NEW missed \in BOOLEAN, LearnOK(g, TRUE, missed),
           NEW h, h = ObserveGroup(g, per_bit, accepts)
    PROVE  LearnOK(h, FALSE, missed \/ Misses(g, gconf, per_bit, accepts))
<1> DEFINE models == Expects(g, g.task.roster)
           sees == ObservesWidth(gconf.n_bits, per_bit) /\ g.task.open
           miss == Misses(g, gconf, per_bit, accepts)
           saw(m) == IF sees /\ m \in models \cap accepts THEN 1 ELSE 0
<1>1. /\ h.task = g.task /\ h.expected = g.expected /\ h.opened = g.opened
      /\ h.tasks_observed = g.tasks_observed + IF sees THEN 1 ELSE 0
      /\ \A m \in Models(gconf) : h.updates[m] = g.updates[m] + saw(m)
      /\ GroupTyped(h, gconf)
  BY ObserveFacts
<1>2. /\ g.config = gconf /\ h.config = gconf /\ g.task.open \in BOOLEAN
      /\ g.tasks_observed \in Nat /\ g.opened \in Nat
      /\ \A m \in Models(gconf) : g.updates[m] \in Nat /\ g.expected[m] \in Nat
  BY <1>1 DEF GroupTyped, Counters, RosterOK
<1>3. DueTask(h, FALSE) = 0 /\ \A m : DueTo(h, FALSE, m) = 0
  BY DEF DueTask, DueTo
<1>4. /\ DueTask(g, TRUE) = IF g.task.open THEN 1 ELSE 0
      /\ \A m : DueTo(g, TRUE, m) = IF g.task.open /\ m \in models THEN 1 ELSE 0
  BY DEF DueTask, DueTo
<1>5. models \subseteq Models(gconf)
  <2>1. \A r \in g.task.roster : r \in 0 .. gconf.n_roles - 1
    BY DEF GroupTyped, RosterOK
  <2> QED
    BY <1>2, <2>1 DEF Expects, Models
<1>6. /\ g.tasks_observed + DueTask(g, TRUE) <= g.opened
      /\ \A m \in Models(gconf) : g.updates[m] + DueTo(g, TRUE, m) <= g.expected[m]
      /\ missed <=> \/ g.tasks_observed + DueTask(g, TRUE) # g.opened
                    \/ \E m \in Models(gconf) : g.updates[m] + DueTo(g, TRUE, m) # g.expected[m]
  BY <1>2 DEF LearnOK
<1>7. miss <=> g.task.open /\ (~sees \/ ~(models \subseteq accepts))
  BY <1>2 DEF Misses
<1> HIDE DEF miss, sees, models
<1>8. sees => g.task.open
  BY DEF sees
<1>9. /\ h.tasks_observed <= h.opened
      /\ g.tasks_observed + DueTask(g, TRUE) # g.opened => h.tasks_observed # h.opened
      /\ g.task.open /\ ~sees => h.tasks_observed # h.opened
      /\ (g.task.open => sees) =>
            (h.tasks_observed # h.opened <=> g.tasks_observed + DueTask(g, TRUE) # g.opened)
  <2> DEFINE d == DueTask(g, TRUE)
             k == IF sees THEN 1 ELSE 0
  <2>1. /\ d \in {0, 1} /\ k \in {0, 1} /\ k <= d
        /\ g.task.open /\ ~sees => k # d
        /\ (g.task.open => sees) => k = d
    <3>1. d = IF g.task.open THEN 1 ELSE 0
      BY <1>4
    <3> HIDE DEF d
    <3> QED
      BY <1>2, <1>8, <3>1
  <2>2. h.tasks_observed = g.tasks_observed + k /\ h.opened = g.opened
    BY <1>1
  <2>3. g.tasks_observed + d <= g.opened
    BY <1>6
  <2> HIDE DEF d, k
  <2>4. /\ g.tasks_observed + k <= g.opened
        /\ g.tasks_observed + d # g.opened => g.tasks_observed + k # g.opened
        /\ k # d => g.tasks_observed + k # g.opened
        /\ k = d => (g.tasks_observed + k # g.opened <=> g.tasks_observed + d # g.opened)
    BY <1>2, <2>1, <2>3, SeenOrMissed
  <2> QED
    BY <2>1, <2>2, <2>4 DEF d
<1>10. ASSUME NEW m \in Models(gconf)
       PROVE  /\ h.updates[m] <= h.expected[m]
              /\ g.updates[m] + DueTo(g, TRUE, m) # g.expected[m] => h.updates[m] # h.expected[m]
              /\ g.task.open /\ m \in models /\ m \notin accepts => h.updates[m] # h.expected[m]
              /\ (g.task.open => sees) /\ (g.task.open => models \subseteq accepts) =>
                   (h.updates[m] # h.expected[m]
                      <=> g.updates[m] + DueTo(g, TRUE, m) # g.expected[m])
  <2> DEFINE d == DueTo(g, TRUE, m)
             k == saw(m)
  <2>1. /\ d \in {0, 1} /\ k \in {0, 1} /\ k <= d
        /\ g.task.open /\ m \in models /\ m \notin accepts => k # d
        /\ (g.task.open => sees) /\ (g.task.open => models \subseteq accepts) => k = d
    <3>1. d = IF g.task.open /\ m \in models THEN 1 ELSE 0
      BY <1>4
    <3> HIDE DEF d
    <3> QED
      BY <1>2, <1>8, <3>1
  <2>2. h.updates[m] = g.updates[m] + k /\ h.expected[m] = g.expected[m]
    BY <1>1
  <2>3. /\ g.updates[m] + d <= g.expected[m]
        /\ g.updates[m] \in Nat /\ g.expected[m] \in Nat
    BY <1>2, <1>6
  <2> HIDE DEF d, k
  <2>4. /\ g.updates[m] + k <= g.expected[m]
        /\ g.updates[m] + d # g.expected[m] => g.updates[m] + k # g.expected[m]
        /\ k # d => g.updates[m] + k # g.expected[m]
        /\ k = d => (g.updates[m] + k # g.expected[m] <=> g.updates[m] + d # g.expected[m])
    BY <2>1, <2>3, SeenOrMissed
  <2> QED
    BY <2>1, <2>2, <2>4 DEF d
<1> DEFINE gate == \/ h.tasks_observed # h.opened
                   \/ \E m \in Models(gconf) : h.updates[m] # h.expected[m]
<1>11. missed \/ miss <=> gate
  <2>1. missed => gate
    BY <1>6, <1>9, <1>10
  <2>2. miss => gate
    BY <1>5, <1>7, <1>9, <1>10
  <2>3. ASSUME ~miss, gate PROVE missed
    <3>1. (g.task.open => sees) /\ (g.task.open => models \subseteq accepts)
      BY <1>7, <2>3
    <3> QED
      BY <1>6, <1>9, <1>10, <2>3, <3>1
  <2> QED
    BY <2>1, <2>2, <2>3
<1>12. /\ h.tasks_observed + DueTask(h, FALSE) = h.tasks_observed
       /\ \A m \in Models(gconf) : h.updates[m] + DueTo(h, FALSE, m) = h.updates[m]
  <2>1. h.tasks_observed \in Nat /\ \A m \in Models(gconf) : h.updates[m] \in Nat
    BY <1>1 DEF GroupTyped, Counters
  <2> QED
    BY <2>1 DEF DueTask, DueTo
<1>13. /\ h.tasks_observed + DueTask(h, FALSE) <= h.opened
       /\ \A m \in Models(h.config) : h.updates[m] + DueTo(h, FALSE, m) <= h.expected[m]
       /\ missed \/ miss <=>
            \/ h.tasks_observed + DueTask(h, FALSE) # h.opened
            \/ \E m \in Models(h.config) : h.updates[m] + DueTo(h, FALSE, m) # h.expected[m]
  BY <1>2, <1>9, <1>10, <1>11, <1>12
<1> QED
  BY <1>13 DEF LearnOK, miss

-----------------------------------------------------------------------------
(***************************************************************************)
(* The bench under the group policy.                                       *)
(***************************************************************************)
BenchFields == {"phase", "attempts", "task", "pos", "members", "churn", "missed"}
Entries == [leave : BOOLEAN, act : BOOLEAN]

BenchShape ==
    /\ instance = [config |-> instance.config, tasks |-> instance.tasks, rows |-> instance.rows]
    /\ DOMAIN bench = BenchFields /\ bench = [f \in BenchFields |-> bench[f]]
    /\ bench.task \in Nat /\ bench.missed \in BOOLEAN
    /\ trace \in Seq(Entries)
    /\ other = [ask |-> other.ask, leaves |-> other.leaves, asked |-> other.asked]
    /\ other.leaves \in Nat /\ other.asked \in Nat
    /\ bench.phase = "idle" =>
          trace = << >> /\ other = Idling /\ bench.task = 0 /\ bench.missed = FALSE
    /\ bench.phase # "idle" => conf \in BenchConfigs

Grouping == bench.phase \notin {"idle", "refused"} /\ conf.policy = "group"
Due == bench.phase \in {"join", "leave"}
Pending == IF other.ask = None THEN 0 ELSE 1
PendingTells == IF other.ask = None \/ other.ask.queries = {} THEN 0 ELSE 1
LeaveEntries(t) == Cardinality({i \in DOMAIN t : t[i].leave})

Ledger ==
    /\ GroupTyped(group, conf.group)
    /\ other.ask # None => GoodAsk(other.ask, conf.group)
    /\ group.decisions = Ended(group) + Pending
    /\ group.decisions = Len(trace) + other.asked
    /\ ReadsOK(group)
    /\ conf.group.matched =>
          Telling(group) + PendingTells <= LeaveEntries(trace) + other.leaves
    /\ group.opened + group.begin_task_rejections = bench.task
    /\ LearnOK(group, Due, bench.missed)

LedgerInv == BenchShape /\ (Grouping => Ledger)

(* One more entry in the trace. *)
LEMMA EntryCounts ==
    ASSUME NEW t \in Seq(Entries), NEW e \in Entries
    PROVE  /\ LeaveEntries(t) \in Nat
           /\ LeaveEntries(Append(t, e)) = LeaveEntries(t) + IF e.leave THEN 1 ELSE 0
<1> DEFINE L == {i \in DOMAIN t : t[i].leave}
           u == Append(t, e)
           n == Len(t)
<1>1. /\ n \in Nat /\ DOMAIN t = 1..n /\ DOMAIN u = 1..(n + 1)
      /\ \A i \in 1..n : u[i] = t[i]
      /\ u[n + 1] = e
  BY AppendFacts
<1>2. IsFiniteSet(L) /\ Cardinality(L) \in Nat
  <2>1. n \in Nat /\ L \in SUBSET (1..n)
    BY <1>1
  <2>2. IsFiniteSet(1..n)
    <3> HIDE DEF L, u, n
    <3> QED
      BY <2>1, FS_Interval
  <2> QED
    BY <2>1, <2>2, FS_Subset, FS_CardinalityType
<1> HIDE DEF u, n
<1>3. {i \in DOMAIN u : u[i].leave} = IF e.leave THEN L \cup {n + 1} ELSE L
  <2>1. DOMAIN u = (1..n) \cup {n + 1}
    BY <1>1
  <2> QED
    BY <1>1, <2>1
<1>4. n + 1 \notin L
  BY <1>1
<1> HIDE DEF L
<1>5. Cardinality(L \cup {n + 1}) = Cardinality(L) + 1
  BY <1>2, <1>4, FS_AddElement
<1>6. LeaveEntries(t) = Cardinality(L)
  BY DEF LeaveEntries, L
<1>7. LeaveEntries(u) = Cardinality(IF e.leave THEN L \cup {n + 1} ELSE L)
  BY <1>3 DEF LeaveEntries
<1>8. e.leave => LeaveEntries(u) = Cardinality(L) + 1
  BY <1>5, <1>7
<1>9. ~e.leave => LeaveEntries(u) = Cardinality(L)
  BY <1>7
<1> QED
  BY <1>2, <1>6, <1>8, <1>9 DEF u

(* The invariant is at least the property. *)
LEMMA LedgerGives == LedgerInv => GroupAccounts
<1> SUFFICES ASSUME LedgerInv, Grouping PROVE GroupAccounts
  BY DEF GroupAccounts, Grouping
<1>1. Ledger /\ BenchShape /\ group.config = conf.group
  BY DEF LedgerInv, Ledger, GroupTyped
<1>2. /\ group.decisions = Ended(group) + IF other.ask = None THEN 0 ELSE 1
      /\ group.decisions = Len(trace) + other.asked
      /\ ReadsOK(group)
      /\ group.opened + group.begin_task_rejections = bench.task
  BY <1>1 DEF Ledger, Pending
<1>3. group.config.matched =>
        group.leave_queries - group.leave_queries_identical
          <= Cardinality({i \in DOMAIN trace : trace[i].leave}) + other.leaves
  <2>1. group.leave_queries \in Nat /\ group.leave_queries_identical \in Nat
    BY <1>1 DEF Ledger, GroupTyped, Counters
  <2> DEFINE n == Cardinality({i \in DOMAIN trace : trace[i].leave})
  <2>2. [leave |-> TRUE, act |-> TRUE] \in Entries
    BY DEF Entries
  <2>3. n \in Nat /\ other.leaves \in Nat
    BY <1>1, <2>2, EntryCounts DEF BenchShape, LeaveEntries
  <2>4. conf.group.matched => Telling(group) + PendingTells <= n + other.leaves
    BY <1>1 DEF Ledger, LeaveEntries
  <2>5. PendingTells \in {0, 1}
    BY DEF PendingTells
  <2> HIDE DEF n
  <2> QED
    BY <1>1, <2>1, <2>3, <2>4, <2>5 DEF Telling, n
<1>4. bench.phase \in {"begin", "done"} => (SLearnExact(group) <=> ~bench.missed)
  <2> SUFFICES ASSUME bench.phase \in {"begin", "done"}
               PROVE  SLearnExact(group) <=> ~bench.missed
    OBVIOUS
  <2>1. Due = FALSE
    BY DEF Due
  <2>2. LearnOK(group, FALSE, bench.missed)
    BY <1>1, <2>1 DEF Ledger
  <2>3. GroupTyped(group, conf.group) /\ bench.missed \in BOOLEAN
    BY <1>1 DEF Ledger, BenchShape
  <2> QED
    BY <2>2, <2>3, LearnGives
<1> QED
  BY <1>2, <1>3, <1>4 DEF GroupAccounts, Ended, ReadsOK

(* The group policy answers the bench: one decision, ended.                 *)
LEMMA GroupDecidesFacts ==
    ASSUME NEW gconf, gconf.n_roles \in Nat, GroupTyped(group, gconf), ReadsOK(group),
           NEW leave \in BOOLEAN, NEW a, NEW coalition, NEW act,
           GroupDecides(leave, a, coalition, act)
    PROVE  /\ GroupTyped(group', gconf) /\ ReadsOK(group')
           /\ SameLearning(group, group')
           /\ group'.decisions = group.decisions + 1
           /\ Ended(group') = Ended(group) + 1
           /\ gconf.matched => Telling(group') <= Telling(group) + IF leave THEN 1 ELSE 0
<1> DEFINE begun == DecideStarts(group, KnownRoles, coalition \cup {a})
           asks_ == DecideAsks(group, KnownRoles, coalition \cup {a})
           ask == AskOf(group, KnownRoles, Caps, a, coalition, leave)
<1>1. /\ GroupTyped(begun, gconf) /\ SameLearning(group, begun)
      /\ begun.decisions = group.decisions + 1
      /\ Ended(begun) = Ended(group) + IF asks_ THEN 0 ELSE 1
      /\ Telling(begun) = Telling(group)
      /\ ReadsOK(begun)
  BY StartsFacts
<1>2. GoodAsk(ask, gconf) /\ (~leave => ask.queries = {})
  BY AskFacts
<1>3. \/ ~asks_ /\ group' = begun
      \/ asks_ /\ \E ok \in BOOLEAN, last \in ask.roster : group' = DecideEnds(begun, ask, ok, last)
  BY DEF GroupDecides
<1>4. /\ \A f \in Counters : group[f] \in Nat
      /\ \A f \in Counters : begun[f] \in Nat
  BY <1>1 DEF GroupTyped
<1>5. /\ Ended(group) \in Nat /\ Telling(group) \in Int
      /\ Ended(begun) \in Nat /\ Telling(begun) \in Int
  <2>1. /\ "reads" \in Counters /\ "declines_upstream" \in Counters
        /\ "declines_missing_role" \in Counters /\ "declines_no_demand" \in Counters
        /\ "leave_queries" \in Counters /\ "leave_queries_identical" \in Counters
    BY DEF Counters
  <2> HIDE DEF begun
  <2> QED
    BY <1>4, <2>1 DEF Ended, Telling
<1> HIDE DEF begun, ask, asks_
<1>6. CASE ~asks_ /\ group' = begun
  BY <1>1, <1>5, <1>6
<1>7. CASE asks_ /\ \E ok \in BOOLEAN, last \in ask.roster : group' = DecideEnds(begun, ask, ok, last)
  <2>1. PICK ok \in BOOLEAN, last \in ask.roster : group' = DecideEnds(begun, ask, ok, last)
    BY <1>7
  <2>2. /\ GroupTyped(group', gconf) /\ SameLearning(begun, group')
        /\ group'.decisions = begun.decisions
        /\ Ended(group') = Ended(begun) + 1
        /\ ReadsOK(group')
        /\ gconf.matched =>
             Telling(group') <= Telling(begun) + IF ask.queries = {} THEN 0 ELSE 1
    BY <1>1, <1>2, <2>1, EndsFacts
  <2>3. SameLearning(group, group')
    BY <1>1, <2>2 DEF SameLearning
  <2>4. Telling(group') \in Int
    <3>1. \A f \in Counters : group'[f] \in Nat
      BY <2>2 DEF GroupTyped
    <3> QED
      BY <3>1 DEF Telling, Counters
  <2>5. Ended(group') = Ended(group) + 1
    BY <1>1, <1>5, <1>7, <2>2
  <2> QED
    BY <1>1, <1>2, <1>5, <2>2, <2>3, <2>4, <2>5
<1> QED
  BY <1>3, <1>6, <1>7

(* What an action leaves of the instance keeps its shape. *)
LEMMA ShapeStart ==
    ASSUME BenchShape, NEW config \in BenchConfigs, Start(config)
    PROVE  BenchShape' /\ bench.phase = "idle" /\ conf' = config
<1>1. /\ bench.phase = "idle"
      /\ instance' = [instance EXCEPT !.config = config]
      /\ \E p : bench' = [bench EXCEPT !.phase = p]
      /\ bench'.phase \in {"refused", "draw"}
      /\ UNCHANGED <<trace, other>>
  <2>1. DOMAIN bench = BenchFields /\ "phase" \in BenchFields
    BY DEF BenchShape, BenchFields
  <2> QED
    BY <2>1 DEF Start
<1>2. PICK p : bench' = [bench EXCEPT !.phase = p]
  BY <1>1
<1>3. instance'.config = config /\ conf' = config
      /\ instance' = [config |-> instance'.config, tasks |-> instance'.tasks, rows |-> instance'.rows]
  <2>1. instance = [config |-> instance.config, tasks |-> instance.tasks, rows |-> instance.rows]
    BY DEF BenchShape
  <2>2. instance' = [config |-> config, tasks |-> instance.tasks, rows |-> instance.rows]
    BY <1>1, <2>1
  <2> QED
    BY <2>2 DEF conf
<1>4. /\ DOMAIN bench' = BenchFields /\ bench' = [f \in BenchFields |-> bench'[f]]
      /\ bench'.task = bench.task /\ bench'.missed = bench.missed
  <2>1. DOMAIN bench = BenchFields /\ {"task", "missed", "phase"} \subseteq BenchFields
    BY DEF BenchShape, BenchFields
  <2> QED
    BY <1>2, <2>1
<1>5. conf' \in BenchConfigs
  BY <1>3
<1> QED
  BY <1>1, <1>3, <1>4, <1>5 DEF BenchShape

(* A step of the bench that starts nothing. *)
LEMMA ShapeKept ==
    ASSUME BenchShape, bench.phase # "idle",
           instance' = [config |-> conf, tasks |-> instance'.tasks, rows |-> instance'.rows],
           DOMAIN bench' = BenchFields, bench' = [f \in BenchFields |-> bench'[f]],
           bench'.phase # "idle", bench'.task \in Nat, bench'.missed \in BOOLEAN,
           trace' \in Seq(Entries),
           other' = [ask |-> other'.ask, leaves |-> other'.leaves, asked |-> other'.asked],
           other'.leaves \in Nat, other'.asked \in Nat
    PROVE  BenchShape' /\ conf' = conf
<1>1. instance'.config = conf
  OBVIOUS
<1>2. conf' = conf
  BY <1>1 DEF conf
<1>3. conf' \in BenchConfigs
  BY <1>2 DEF BenchShape
<1>4. instance' = [config |-> instance'.config, tasks |-> instance'.tasks, rows |-> instance'.rows]
  BY <1>1
<1> QED
  BY <1>2, <1>3, <1>4 DEF BenchShape

Generates == DrawTask \/ DrawShapes \/ DrawPerformance \/ JoinsEnd

(* Generating an instance and turning to the sweep touch neither the policy *)
(* nor the second thread.                                                   *)
LEMMA GenerateFacts ==
    ASSUME BenchShape, Generates
    PROVE  /\ BenchShape' /\ conf' = conf /\ Due' = Due
           /\ bench.phase \notin {"idle", "refused"}
           /\ bench'.task = bench.task /\ bench'.missed = bench.missed
           /\ UNCHANGED <<trace, other, group>>
<1> DEFINE Phases == {"draw", "shape", "begin", "infeasible"}
           Same == {"task", "missed"}
<1>1. /\ instance = [config |-> conf, tasks |-> instance.tasks, rows |-> instance.rows]
      /\ DOMAIN bench = BenchFields /\ bench = [f \in BenchFields |-> bench[f]]
      /\ bench.task \in Nat /\ bench.missed \in BOOLEAN
      /\ trace \in Seq(Entries)
      /\ other = [ask |-> other.ask, leaves |-> other.leaves, asked |-> other.asked]
      /\ other.leaves \in Nat /\ other.asked \in Nat
  BY DEF BenchShape, conf
<1>2. /\ UNCHANGED <<trace, other, group>>
      /\ DOMAIN bench' = BenchFields /\ bench' = [f \in BenchFields |-> bench'[f]]
      /\ bench'.task = bench.task /\ bench'.missed = bench.missed
      /\ instance' = [config |-> conf, tasks |-> instance'.tasks, rows |-> instance'.rows]
      /\ \/ bench.phase \in Phases /\ bench'.phase \in Phases
         \/ bench.phase = "join" /\ bench'.phase = "leave"
  <2>0. {"phase", "attempts", "task", "pos", "missed"} \subseteq BenchFields
    BY DEF BenchFields
  <2>1. CASE DrawTask
    <3>1. PICK drawn, keep, n :
             /\ instance' = IF keep THEN [instance EXCEPT !.tasks = Append(@, drawn)] ELSE instance
             /\ bench' = IF keep
                       THEN [bench EXCEPT !.attempts = 0,
                               !.phase = IF n < NTasks THEN "draw"
                                         ELSE IF Workflow THEN "shape" ELSE "begin"]
                       ELSE IF bench.attempts + 1 >= RedrawCap
                            THEN [bench EXCEPT !.phase = "infeasible"]
                            ELSE [bench EXCEPT !.attempts = @ + 1]
      BY <2>1 DEF DrawTask
    <3>2. bench.phase = "draw" /\ UNCHANGED <<trace, other, group>>
      BY <2>1 DEF DrawTask
    <3>3. \/ \E p \in Phases : bench' = [bench EXCEPT !.attempts = 0, !.phase = p]
          \/ bench' = [bench EXCEPT !.phase = "infeasible"]
          \/ bench' = [bench EXCEPT !.attempts = @ + 1]
      BY <3>1
    <3>4. /\ DOMAIN bench' = BenchFields /\ bench' = [f \in BenchFields |-> bench'[f]]
          /\ bench'.task = bench.task /\ bench'.missed = bench.missed
          /\ bench'.phase \in Phases
      <4>1. ASSUME NEW p \in Phases, bench' = [bench EXCEPT !.attempts = 0, !.phase = p]
            PROVE  /\ DOMAIN bench' = BenchFields /\ bench' = [f \in BenchFields |-> bench'[f]]
                   /\ bench'.task = bench.task /\ bench'.missed = bench.missed
                   /\ bench'.phase \in Phases
        BY <1>1, <2>0, <4>1
      <4>2. CASE bench' = [bench EXCEPT !.phase = "infeasible"]
        BY <1>1, <2>0, <4>2
      <4>3. CASE bench' = [bench EXCEPT !.attempts = @ + 1]
        BY <1>1, <2>0, <3>2, <4>3
      <4> QED
        BY <3>3, <4>1, <4>2, <4>3
    <3>5. instance' = [config |-> conf, tasks |-> instance'.tasks, rows |-> instance'.rows]
      <4>1. CASE instance' = [instance EXCEPT !.tasks = Append(@, drawn)]
        <5>1. PICK ts : instance' = [instance EXCEPT !.tasks = ts]
          BY <4>1
        <5>2. instance' = [config |-> conf, tasks |-> ts, rows |-> instance.rows]
          BY <1>1, <5>1
        <5> QED
          BY <5>2
      <4>2. CASE instance' = instance
        BY <1>1, <4>2
      <4> QED
        BY <3>1, <4>1, <4>2
    <3> QED
      BY <3>2, <3>4, <3>5
  <2>2. CASE DrawShapes
    <3>1. bench.phase = "shape" /\ UNCHANGED <<bench, trace, other, group>>
      BY <2>2 DEF DrawShapes
    <3>2. PICK t, w : instance' = [instance EXCEPT !.tasks[t].written = w]
      BY <2>2 DEF DrawShapes
    <3>3. PICK ts : instance' = [instance EXCEPT !.tasks = ts]
      BY <3>2
    <3>4. instance' = [config |-> conf, tasks |-> ts, rows |-> instance.rows]
      BY <1>1, <3>3
    <3>5. instance' = [config |-> conf, tasks |-> instance'.tasks, rows |-> instance'.rows]
      BY <3>4
    <3> QED
      BY <1>1, <3>1, <3>5
  <2>3. CASE DrawPerformance
    <3>1. bench.phase = "shape" /\ bench' = [bench EXCEPT !.phase = "begin"]
          /\ UNCHANGED <<trace, other, group>>
      BY <2>3 DEF DrawPerformance
    <3>2. PICK rows : instance' = [instance EXCEPT !.rows = rows]
      BY <2>3 DEF DrawPerformance
    <3>3. instance' = [config |-> conf, tasks |-> instance.tasks, rows |-> rows]
      BY <1>1, <3>2
    <3>4. instance' = [config |-> conf, tasks |-> instance'.tasks, rows |-> instance'.rows]
      BY <3>3
    <3> QED
      BY <1>1, <2>0, <3>1, <3>4
  <2>4. CASE JoinsEnd
    <3>1. bench.phase = "join" /\ bench' = [bench EXCEPT !.phase = "leave", !.pos = 1]
          /\ UNCHANGED <<instance, trace, other, group>>
      BY <2>4 DEF JoinsEnd
    <3> QED
      BY <1>1, <2>0, <3>1
  <2> QED
    BY <2>1, <2>2, <2>3, <2>4 DEF Generates
<1>3. bench.phase # "idle" /\ bench'.phase # "idle" /\ bench.phase # "refused"
  BY <1>2
<1>4. Due' = Due
  BY <1>2 DEF Due
<1>5. BenchShape' /\ conf' = conf
  BY <1>1, <1>2, <1>3, ShapeKept
<1> QED
  BY <1>2, <1>3, <1>4, <1>5

(* new: a policy that has done nothing. *)
LEMMA NewGroupFacts ==
    ASSUME NEW gconf
    PROVE  LET g == NewGroup(gconf)
           IN  /\ GroupTyped(g, gconf) /\ ReadsOK(g) /\ LearnOK(g, FALSE, FALSE)
               /\ g.decisions = 0 /\ Ended(g) = 0 /\ Telling(g) = 0
               /\ g.opened = 0 /\ g.begin_task_rejections = 0
<1> DEFINE g == NewGroup(gconf)
           Z == [m \in Models(gconf) |-> 0]
<1>1. /\ DOMAIN g = GroupFields /\ g = [f \in GroupFields |-> g[f]]
      /\ g.config = gconf /\ g.task = NoTask
      /\ g.updates = Z /\ g.expected = Z
      /\ \A f \in Counters : g[f] = 0
  BY DEF NewGroup, GroupFields, Counters
<1>2. /\ g.decisions = 0 /\ g.reads = 0 /\ g.agreement = 0 /\ g.routed_reads = 0
      /\ g.declines_upstream = 0 /\ g.declines_missing_role = 0 /\ g.declines_no_demand = 0
      /\ g.leave_queries = 0 /\ g.leave_queries_identical = 0
      /\ g.opened = 0 /\ g.begin_task_rejections = 0 /\ g.tasks_observed = 0
  BY <1>1 DEF Counters
<1> HIDE DEF g
<1>3. RosterOK(g.task, gconf)
  <2>1. NoTask.open = FALSE /\ NoTask.roster = {}
    BY DEF NoTask
  <2> QED
    BY <1>1, <2>1 DEF RosterOK
<1>4. Z \in [Models(gconf) -> Nat]
  OBVIOUS
<1>5. GroupTyped(g, gconf)
  BY <1>1, <1>3, <1>4 DEF GroupTyped
<1>6. \A m \in Models(gconf) : g.updates[m] = 0 /\ g.expected[m] = 0
  BY <1>1
<1>7. LearnOK(g, FALSE, FALSE)
  <2> DEFINE d == DueTask(g, FALSE)
             e(m) == DueTo(g, FALSE, m)
  <2>1. d = 0 /\ \A m \in Models(gconf) : e(m) = 0
    BY DEF DueTask, DueTo
  <2> HIDE DEF d, e, Z
  <2>2. g.tasks_observed + d = 0 /\ g.opened = 0
    BY <1>2, <2>1
  <2>3. \A m \in Models(g.config) : g.updates[m] + e(m) = 0 /\ g.expected[m] = 0
    BY <1>1, <1>6, <2>1
  <2>4. /\ g.tasks_observed + d <= g.opened
        /\ \A m \in Models(g.config) : g.updates[m] + e(m) <= g.expected[m]
        /\ ~(\/ g.tasks_observed + d # g.opened
             \/ \E m \in Models(g.config) : g.updates[m] + e(m) # g.expected[m])
    BY <2>2, <2>3
  <2> QED
    BY <2>4 DEF LearnOK, d, e
<1>8. ReadsOK(g) /\ Ended(g) = 0 /\ Telling(g) = 0
  BY <1>2 DEF ReadsOK, Ended, Telling
<1> QED
  BY <1>2, <1>5, <1>7, <1>8 DEF g

(* Every configuration has a role. *)
LEMMA RolesOK ==
    ASSUME BenchShape, Grouping
    PROVE  conf.group.n_roles \in Nat
BY GroupConfigsOK DEF BenchShape, Grouping

(* The group policy's constructor. *)
LEMMA StartStep ==
    ASSUME BenchShape, NEW config \in BenchConfigs, Start(config)
    PROVE  LedgerInv'
<1>1. BenchShape' /\ bench.phase = "idle" /\ conf' = config
  BY ShapeStart
<1>2. ASSUME Grouping' PROVE Ledger'
  <2> DEFINE refused == \/ NeedsPerformance(config.signal) /\ ~config.perf
                        \/ config.policy = "group" /\ ~Accepted(config.group)
  <2>1. /\ bench' = [bench EXCEPT !.phase = IF refused THEN "refused" ELSE "draw"]
        /\ group' = IF config.policy = "group" /\ ~refused THEN NewGroup(config.group) ELSE group
        /\ UNCHANGED <<trace, other>>
    BY DEF Start
  <2>2. /\ trace = << >> /\ other = Idling /\ bench.task = 0 /\ bench.missed = FALSE
        /\ DOMAIN bench = BenchFields
    BY <1>1 DEF BenchShape
  <2>3. config.policy = "group" /\ bench'.phase \notin {"idle", "refused"}
    BY <1>1, <1>2 DEF Grouping
  <2> HIDE DEF refused
  <2>4. ~refused /\ bench'.phase = "draw" /\ bench'.task = 0 /\ bench'.missed = FALSE
    BY <2>1, <2>2, <2>3 DEF BenchFields
  <2>5. group' = NewGroup(config.group)
    BY <2>1, <2>3, <2>4
  <2>6. /\ GroupTyped(group', conf'.group) /\ ReadsOK(group')
        /\ LearnOK(group', FALSE, FALSE)
        /\ group'.decisions = 0 /\ Ended(group') = 0 /\ Telling(group') = 0
        /\ group'.opened = 0 /\ group'.begin_task_rejections = 0
    BY <1>1, <2>5, NewGroupFacts
  <2>7. /\ trace' = << >> /\ other'.ask = None /\ other'.leaves = 0 /\ other'.asked = 0
    BY <2>1, <2>2 DEF Idling
  <2>8. Pending' = 0 /\ PendingTells' = 0
    BY <2>7 DEF Pending, PendingTells
  <2>9. LeaveEntries(trace') \in Nat
    <3>1. trace' \in Seq(Entries) /\ [leave |-> TRUE, act |-> TRUE] \in Entries
      BY <1>1 DEF BenchShape, Entries
    <3> QED
      BY <3>1, EntryCounts
  <2>10. Due' = FALSE
    BY <2>4 DEF Due
  <2>11. LearnOK(group', Due', bench'.missed)
    BY <2>4, <2>6, <2>10
  <2>12. Len(trace') = 0
    BY <2>7
  <2> HIDE DEF Pending, PendingTells
  <2> QED
    BY <2>4, <2>6, <2>7, <2>8, <2>9, <2>11, <2>12 DEF Ledger
<1> QED
  BY <1>1, <1>2 DEF LedgerInv

(* Steps that touch no part of the ledger. *)
LEMMA GenerateStep ==
    ASSUME LedgerInv, Generates
    PROVE  LedgerInv'
<1>1. /\ BenchShape' /\ conf' = conf /\ Due' = Due
      /\ bench.phase \notin {"idle", "refused"}
      /\ bench'.task = bench.task /\ bench'.missed = bench.missed
      /\ UNCHANGED <<trace, other, group>>
  BY GenerateFacts DEF LedgerInv
<1>2. ASSUME Grouping' PROVE Ledger'
  <2>1. Ledger
    BY <1>1, <1>2 DEF LedgerInv, Grouping
  <2>2. Pending' = Pending /\ PendingTells' = PendingTells
    BY <1>1 DEF Pending, PendingTells
  <2> QED
    BY <1>1, <2>1, <2>2 DEF Ledger
<1> QED
  BY <1>1, <1>2 DEF LedgerInv

(* begin_task, as the bench calls it. *)
LEMMA BeginStep ==
    ASSUME LedgerInv, BeginTasks
    PROVE  LedgerInv'
<1> DEFINE t == bench.task + 1
<1>1. /\ bench.phase = "begin" /\ UNCHANGED <<instance, trace, other>>
      /\ bench' = [bench EXCEPT !.task = t, !.phase = "join", !.pos = 2,
                                !.members = <<Task(t).arrival[1]>>]
      /\ group' = IF conf.policy = "group" THEN BeginTask(group, Steps(t)) ELSE group
  BY DEF BeginTasks
<1>2. /\ instance = [config |-> conf, tasks |-> instance.tasks, rows |-> instance.rows]
      /\ DOMAIN bench = BenchFields /\ bench.task \in Nat /\ bench.missed \in BOOLEAN
      /\ trace \in Seq(Entries)
      /\ other = [ask |-> other.ask, leaves |-> other.leaves, asked |-> other.asked]
      /\ other.leaves \in Nat /\ other.asked \in Nat
      /\ BenchShape
  BY DEF LedgerInv, BenchShape, conf
<1>3. /\ DOMAIN bench' = BenchFields /\ bench' = [f \in BenchFields |-> bench'[f]]
      /\ bench'.task = t /\ bench'.missed = bench.missed /\ bench'.phase = "join"
  BY <1>1, <1>2 DEF BenchFields
<1>4. BenchShape' /\ conf' = conf
  BY <1>1, <1>2, <1>3, ShapeKept
<1>5. ASSUME Grouping' PROVE Ledger'
  <2>1. Grouping /\ Ledger /\ conf.policy = "group"
    BY <1>1, <1>4, <1>5 DEF LedgerInv, Grouping
  <2>2. conf.group.n_roles \in Nat
    BY <1>2, <2>1, RolesOK
  <2>3. Due = FALSE /\ Due' = TRUE
    BY <1>1, <1>3 DEF Due
  <2>4. LearnOK(group, FALSE, bench.missed) /\ GroupTyped(group, conf.group)
    BY <2>1, <2>3 DEF Ledger
  <2> DEFINE S == Steps(t)
  <2>5. group' = BeginTask(group, S)
    BY <1>1, <2>1
  <2> HIDE DEF S
  <2>6. /\ GroupTyped(group', conf.group) /\ SameDecisions(group, group')
        /\ group'.opened + group'.begin_task_rejections
             = group.opened + group.begin_task_rejections + 1
    BY <2>2, <2>4, <2>5, BeginFacts
  <2>7. LearnOK(group', TRUE, bench.missed)
    BY <1>2, <2>2, <2>4, <2>5, LearnBegins
  <2>8. group'.config = group.config
    BY <2>4, <2>6 DEF GroupTyped
  <2>9. /\ Ended(group') = Ended(group) /\ Telling(group') = Telling(group)
        /\ ReadsOK(group) => ReadsOK(group')
        /\ group'.decisions = group.decisions
    BY <2>6, <2>8 DEF SameDecisions, Ended, Telling, ReadsOK
  <2>10. Pending' = Pending /\ PendingTells' = PendingTells
    BY <1>1 DEF Pending, PendingTells
  <2>11. group'.opened + group'.begin_task_rejections = bench'.task
    BY <1>3, <2>1, <2>6 DEF Ledger
  <2>12. LearnOK(group', Due', bench'.missed)
    BY <1>3, <2>3, <2>7
  <2> QED
    BY <1>1, <1>4, <2>1, <2>6, <2>9, <2>10, <2>11, <2>12 DEF Ledger
<1> QED
  BY <1>4, <1>5 DEF LedgerInv

(* A decision of the bench's own thread ends before anything else happens;  *)
(* one of the other thread may be under way.                                *)
LEMMA BenchDecidesStep ==
    ASSUME LedgerInv, bench.phase \in {"join", "leave"}, UNCHANGED <<instance, other>>,
           NEW leave \in BOOLEAN, NEW a, NEW act \in BOOLEAN, Decides(leave, a, Present, act),
           DOMAIN bench' = BenchFields, bench' = [f \in BenchFields |-> bench'[f]],
           bench'.phase = bench.phase, bench'.task = bench.task, bench'.missed = bench.missed
    PROVE  LedgerInv'
<1> DEFINE e == [leave |-> leave, act |-> act]
<1>1. e \in Entries /\ e.leave = leave /\ trace' = Append(trace, e)
  BY DEF Decides, Entries
<1>2. /\ instance = [config |-> conf, tasks |-> instance.tasks, rows |-> instance.rows]
      /\ bench.task \in Nat /\ bench.missed \in BOOLEAN
      /\ trace \in Seq(Entries)
      /\ other = [ask |-> other.ask, leaves |-> other.leaves, asked |-> other.asked]
      /\ other.leaves \in Nat /\ other.asked \in Nat
      /\ BenchShape
  BY DEF LedgerInv, BenchShape, conf
<1> HIDE DEF e
<1>3. /\ trace' \in Seq(Entries) /\ Len(trace') = Len(trace) + 1 /\ Len(trace) \in Nat
      /\ LeaveEntries(trace) \in Nat
      /\ LeaveEntries(trace') = LeaveEntries(trace) + IF leave THEN 1 ELSE 0
  BY <1>1, <1>2, EntryCounts
<1>4. BenchShape' /\ conf' = conf
  BY <1>2, <1>3, ShapeKept
<1>5. ASSUME Grouping' PROVE Ledger'
  <2>1. Grouping /\ Ledger /\ conf.policy = "group"
    BY <1>4, <1>5 DEF LedgerInv, Grouping
  <2>2. conf.group.n_roles \in Nat
    BY <1>2, <2>1, RolesOK
  <2>3. GroupDecides(leave, a, Present, act)
    BY <2>1 DEF Decides, RefDecides, AifDecides, AnyDecides
  <2> DEFINE gconf == conf.group
             S == Present
  <2>4. GroupTyped(group, gconf) /\ ReadsOK(group)
    BY <2>1 DEF Ledger
  <2> HIDE DEF gconf, S
  <2>5. /\ GroupTyped(group', gconf) /\ ReadsOK(group')
        /\ SameLearning(group, group')
        /\ group'.decisions = group.decisions + 1
        /\ Ended(group') = Ended(group) + 1
        /\ gconf.matched => Telling(group') <= Telling(group) + IF leave THEN 1 ELSE 0
    BY <2>2, <2>3, <2>4, GroupDecidesFacts DEF gconf, S
  <2>6. group'.config = group.config
    BY <2>4, <2>5 DEF GroupTyped
  <2>7. Due' = Due /\ Pending' = Pending /\ PendingTells' = PendingTells
    BY DEF Due, Pending, PendingTells
  <2>8. LearnOK(group', Due', bench'.missed)
    <3>1. LearnOK(group, Due, bench.missed)
      BY <2>1 DEF Ledger
    <3> DEFINE d == Due
               m == bench.missed
    <3> HIDE DEF d, m
    <3>2. LearnOK(group', d, m)
      BY <2>5, <2>6, <3>1, LearnSame DEF d, m
    <3> QED
      BY <2>7, <3>2 DEF d, m
  <2>9. /\ Telling(group) \in Int /\ Telling(group') \in Int
        /\ Ended(group) \in Nat /\ group.decisions \in Nat
    <3>1. \A f \in Counters : group[f] \in Nat /\ group'[f] \in Nat
      BY <2>4, <2>5 DEF GroupTyped
    <3> QED
      BY <3>1 DEF Telling, Ended, Counters
  <2>10. Pending \in {0, 1} /\ PendingTells \in {0, 1}
    BY DEF Pending, PendingTells
  <2>11. gconf.matched =>
           Telling(group') + PendingTells <= LeaveEntries(trace') + other.leaves
    <3>1. gconf.matched => Telling(group) + PendingTells <= LeaveEntries(trace) + other.leaves
      BY <2>1 DEF Ledger, gconf
    <3> QED
      BY SMTT(30), <1>2, <1>3, <2>5, <2>9, <2>10, <3>1
  <2>12. /\ group.decisions = Ended(group) + Pending
         /\ group.decisions = Len(trace) + other.asked
         /\ group.opened + group.begin_task_rejections = bench.task
         /\ other.ask # None => GoodAsk(other.ask, gconf)
    BY <2>1 DEF Ledger, gconf
  <2>13. /\ group'.decisions = Ended(group') + Pending
         /\ group'.decisions = Len(trace') + other.asked
    BY SMTT(30), <1>2, <1>3, <2>5, <2>9, <2>10, <2>12
  <2>14. group'.opened + group'.begin_task_rejections = bench'.task
    BY <2>5, <2>12 DEF SameLearning
  <2> QED
    BY <1>4, <2>5, <2>7, <2>8, <2>11, <2>12, <2>13, <2>14 DEF Ledger, gconf
<1> QED
  BY <1>4, <1>5 DEF LedgerInv

(* join and leave, as the bench asks for them. *)
LEMMA AskingStep ==
    ASSUME LedgerInv, JoinNext \/ LeaveNext
    PROVE  LedgerInv'
<1> DEFINE b == Arrival[bench.pos]
<1>1. BenchShape /\ DOMAIN bench = BenchFields /\ bench = [f \in BenchFields |-> bench[f]]
  BY DEF LedgerInv, BenchShape
<1>2. {"phase", "task", "pos", "members", "churn", "missed"} \subseteq BenchFields
  BY DEF BenchFields
<1>3. CASE JoinNext
  <2> DEFINE a == b
  <2>1. PICK act \in BOOLEAN :
           /\ Decides(FALSE, a, Present, act)
           /\ bench' = [bench EXCEPT !.pos = @ + 1,
                                     !.members = IF act THEN Append(@, a) ELSE @]
    BY <1>3 DEF JoinNext
  <2>2. bench.phase = "join" /\ UNCHANGED <<instance, other>>
    BY <1>3 DEF JoinNext
  <2> HIDE DEF a
  <2>3. \E p, ms : bench' = [bench EXCEPT !.pos = p, !.members = ms]
    BY <2>1
  <2>4. /\ DOMAIN bench' = BenchFields /\ bench' = [f \in BenchFields |-> bench'[f]]
        /\ bench'.phase = bench.phase /\ bench'.task = bench.task /\ bench'.missed = bench.missed
    BY <1>1, <1>2, <2>3
  <2> QED
    BY <2>1, <2>2, <2>4, BenchDecidesStep
<1>4. CASE LeaveNext /\ b \in Present
  <2> DEFINE a == b
  <2>1. PICK act \in BOOLEAN :
           /\ Decides(TRUE, a, Present, act)
           /\ bench' = [bench EXCEPT !.pos = @ + 1, !.churn = @ + IF act THEN 1 ELSE 0,
                           !.members = IF act THEN SelectSeq(@, LAMBDA m : m # a) ELSE @]
    BY <1>4 DEF LeaveNext
  <2>2. bench.phase = "leave" /\ UNCHANGED <<instance, other>>
    BY <1>4 DEF LeaveNext
  <2> HIDE DEF a
  <2>3. \E p, ch, ms : bench' = [bench EXCEPT !.pos = p, !.churn = ch, !.members = ms]
    BY <2>1
  <2>4. /\ DOMAIN bench' = BenchFields /\ bench' = [f \in BenchFields |-> bench'[f]]
        /\ bench'.phase = bench.phase /\ bench'.task = bench.task /\ bench'.missed = bench.missed
    BY <1>1, <1>2, <2>3
  <2> QED
    BY <2>1, <2>2, <2>4, BenchDecidesStep
<1>5. CASE LeaveNext /\ b \notin Present
  <2>1. /\ bench.phase = "leave" /\ bench' = [bench EXCEPT !.pos = @ + 1]
        /\ UNCHANGED <<instance, trace, other, group>>
    BY <1>5 DEF LeaveNext
  <2>2. /\ DOMAIN bench' = BenchFields /\ bench' = [f \in BenchFields |-> bench'[f]]
        /\ bench'.phase = bench.phase /\ bench'.task = bench.task /\ bench'.missed = bench.missed
    BY <1>1, <1>2, <2>1
  <2>3. BenchShape' /\ conf' = conf
    BY <1>1, <2>1, <2>2 DEF BenchShape, conf
  <2>4. ASSUME Grouping' PROVE Ledger'
    <3>1. Ledger
      BY <2>2, <2>3, <2>4 DEF LedgerInv, Grouping
    <3>2. Due' = Due /\ Pending' = Pending /\ PendingTells' = PendingTells
      BY <2>1, <2>2 DEF Due, Pending, PendingTells
    <3> QED
      BY <2>1, <2>2, <2>3, <3>1, <3>2 DEF Ledger
  <2> QED
    BY <2>3, <2>4 DEF LedgerInv
<1> QED
  BY <1>3, <1>4, <1>5

(* observe_outcome, as the bench shows it. *)
LEMMA ScoreStep ==
    ASSUME LedgerInv, ScoreTask
    PROVE  LedgerInv'
<1> DEFINE per_bit == Signal(bench.task, TaskEnd(bench.task, Present))
<1>1. PICK accepts :
        /\ group' = IF conf.policy = "group" THEN ObserveGroup(group, per_bit, accepts) ELSE group
        /\ bench' = [bench EXCEPT !.phase = IF bench.task < NTasks THEN "begin" ELSE "done",
               !.missed = @ \/ /\ conf.policy = "group" /\ group.task.open
                               /\ \/ ~ObservesWidth(conf.group.n_bits, per_bit)
                                  \/ ~(Expects(group, group.task.roster) \subseteq accepts)]
  BY DEF ScoreTask
<1>2. bench.phase = "leave" /\ UNCHANGED <<instance, trace, other>>
  BY DEF ScoreTask
<1> HIDE DEF per_bit
<1> DEFINE miss == conf.policy = "group" /\ Misses(group, conf.group, per_bit, accepts)
<1>3. /\ BenchShape /\ DOMAIN bench = BenchFields /\ bench = [f \in BenchFields |-> bench[f]]
      /\ bench.task \in Nat /\ bench.missed \in BOOLEAN
      /\ {"phase", "task", "missed"} \subseteq BenchFields
  BY DEF LedgerInv, BenchShape, BenchFields
<1>4. /\ DOMAIN bench' = BenchFields /\ bench' = [f \in BenchFields |-> bench'[f]]
      /\ bench'.phase \in {"begin", "done"} /\ bench'.task = bench.task
      /\ bench'.missed \in BOOLEAN /\ (bench'.missed <=> bench.missed \/ miss)
  <2>1. \E p \in {"begin", "done"}, q \in BOOLEAN :
           bench' = [bench EXCEPT !.phase = p, !.missed = q] /\ (q <=> bench.missed \/ miss)
    <3> DEFINE p == IF bench.task < NTasks THEN "begin" ELSE "done"
               q == bench.missed \/ /\ conf.policy = "group" /\ group.task.open
                                    /\ \/ ~ObservesWidth(conf.group.n_bits, per_bit)
                                       \/ ~(Expects(group, group.task.roster) \subseteq accepts)
    <3>1. p \in {"begin", "done"} /\ q \in BOOLEAN
      OBVIOUS
    <3>2. q <=> bench.missed \/ miss
      BY DEF Misses
    <3>3. bench' = [bench EXCEPT !.phase = p, !.missed = q]
      BY <1>1
    <3> HIDE DEF p, q, miss
    <3> QED
      BY <3>1, <3>2, <3>3
  <2> HIDE DEF miss
  <2> QED
    BY <1>3, <2>1
<1>5. BenchShape' /\ conf' = conf
  BY <1>2, <1>3, <1>4 DEF BenchShape, conf
<1>6. ASSUME Grouping' PROVE Ledger'
  <2>1. Grouping /\ Ledger /\ conf.policy = "group"
    BY <1>2, <1>5, <1>6 DEF LedgerInv, Grouping
  <2> DEFINE gconf == conf.group
  <2>2. Due = TRUE /\ Due' = FALSE
    BY <1>2, <1>4 DEF Due
  <2>3. LearnOK(group, TRUE, bench.missed) /\ GroupTyped(group, gconf)
    BY <2>1, <2>2 DEF Ledger
  <2>4. group' = ObserveGroup(group, per_bit, accepts)
    BY <1>1, <2>1
  <2> HIDE DEF gconf
  <2>5. /\ GroupTyped(group', gconf) /\ SameDecisions(group, group')
        /\ group'.opened = group.opened
        /\ group'.begin_task_rejections = group.begin_task_rejections
    BY <2>3, <2>4, ObserveFacts
  <2>6. LearnOK(group', FALSE, bench.missed \/ Misses(group, gconf, per_bit, accepts))
    BY <1>3, <2>3, <2>4, LearnObserves
  <2>7. LearnOK(group', Due', bench'.missed)
    <3>1. (bench.missed \/ Misses(group, gconf, per_bit, accepts)) \in BOOLEAN
      BY DEF Misses
    <3>2. bench'.missed = (bench.missed \/ Misses(group, gconf, per_bit, accepts))
      BY <1>4, <2>1, <3>1 DEF gconf
    <3> QED
      BY <2>2, <2>6, <3>2
  <2>8. group'.config = group.config
    BY <2>3, <2>5 DEF GroupTyped
  <2>9. /\ Ended(group') = Ended(group) /\ Telling(group') = Telling(group)
        /\ ReadsOK(group) => ReadsOK(group')
        /\ group'.decisions = group.decisions
    BY <2>5, <2>8 DEF SameDecisions, Ended, Telling, ReadsOK
  <2>10. Pending' = Pending /\ PendingTells' = PendingTells
    BY <1>2 DEF Pending, PendingTells
  <2> QED
    BY <1>2, <1>4, <1>5, <2>1, <2>5, <2>7, <2>9, <2>10 DEF Ledger, gconf
<1> QED
  BY <1>5, <1>6 DEF LedgerInv

(* The other thread touches the second thread's fields and the policy.      *)
LEMMA OtherShape ==
    ASSUME BenchShape, bench.phase # "idle", UNCHANGED <<instance, bench, trace>>,
           other' = [ask |-> other'.ask, leaves |-> other'.leaves, asked |-> other'.asked],
           other'.leaves \in Nat, other'.asked \in Nat
    PROVE  BenchShape' /\ conf' = conf /\ Due' = Due
<1>1. /\ instance' = [config |-> conf, tasks |-> instance'.tasks, rows |-> instance'.rows]
      /\ DOMAIN bench' = BenchFields /\ bench' = [f \in BenchFields |-> bench'[f]]
      /\ bench'.phase # "idle" /\ bench'.task \in Nat /\ bench'.missed \in BOOLEAN
      /\ trace' \in Seq(Entries)
  BY DEF BenchShape, conf
<1>2. BenchShape' /\ conf' = conf
  BY <1>1, ShapeKept
<1> QED
  BY <1>2 DEF Due

(* The other thread's decision, first part: counted, and in flight if it    *)
(* has a question to ask.                                                   *)
LEMMA OtherStartsStep ==
    ASSUME LedgerInv, OtherStarts
    PROVE  LedgerInv'
<1>1. /\ Running /\ other.ask = None /\ UNCHANGED <<instance, bench, trace>>
  BY DEF OtherStarts
<1>2. /\ Grouping /\ Ledger /\ BenchShape
      /\ bench.phase # "idle"
  BY <1>1 DEF Running, Grouping, LedgerInv
<1>3. PICK a \in PoolAgents, leave \in BOOLEAN, coalition \in SUBSET PoolAgents :
        /\ group' = DecideStarts(group, KnownRoles, PoolAgents)
        /\ other' = [ask |-> IF DecideAsks(group, KnownRoles, PoolAgents)
                             THEN AskOf(group, KnownRoles, Caps, a, coalition, leave) ELSE None,
                     leaves |-> other.leaves + IF leave THEN 1 ELSE 0,
                     asked |-> other.asked + 1]
  BY DEF OtherStarts
<1>4. conf.group.n_roles \in Nat
  BY <1>2, RolesOK
<1> DEFINE ask == AskOf(group, KnownRoles, Caps, a, coalition, leave)
           asks_ == DecideAsks(group, KnownRoles, PoolAgents)
           gconf == conf.group
<1>5. GroupTyped(group, gconf) /\ ReadsOK(group)
  BY <1>2 DEF Ledger
<1>6. /\ GroupTyped(group', gconf) /\ SameLearning(group, group')
      /\ group'.decisions = group.decisions + 1
      /\ Ended(group') = Ended(group) + IF asks_ THEN 0 ELSE 1
      /\ Telling(group') = Telling(group)
      /\ ReadsOK(group')
  BY <1>3, <1>5, StartsFacts
<1>7. GoodAsk(ask, gconf) /\ (~leave => ask.queries = {})
  BY <1>4, <1>5, AskFacts
<1>8. ask # None
  BY <1>7, NoneIsNoAsk DEF GoodAsk
<1> HIDE DEF ask, asks_, gconf
<1>9. /\ other'.ask = (IF asks_ THEN ask ELSE None)
      /\ other'.leaves = other.leaves + IF leave THEN 1 ELSE 0
      /\ other'.asked = other.asked + 1
      /\ other' = [ask |-> other'.ask, leaves |-> other'.leaves, asked |-> other'.asked]
  BY <1>3 DEF ask, asks_
<1>10. other.leaves \in Nat /\ other.asked \in Nat /\ trace \in Seq(Entries)
  BY <1>2 DEF BenchShape
<1>11. BenchShape' /\ conf' = conf /\ Due' = Due
  BY <1>1, <1>2, <1>9, <1>10, OtherShape
<1>12. /\ Pending = 0 /\ PendingTells = 0
       /\ Pending' = IF asks_ THEN 1 ELSE 0
       /\ PendingTells' \in {0, 1} /\ (~leave => PendingTells' = 0)
  BY <1>1, <1>7, <1>8, <1>9 DEF Pending, PendingTells
<1>13. other'.ask # None => GoodAsk(other'.ask, gconf)
  BY <1>7, <1>9
<1>14. /\ Telling(group) \in Int /\ Ended(group) \in Nat /\ group.decisions \in Nat
       /\ LeaveEntries(trace) \in Nat /\ Len(trace) \in Nat
  <2>1. \A f \in Counters : group[f] \in Nat
    BY <1>5 DEF GroupTyped
  <2>2. Telling(group) \in Int /\ Ended(group) \in Nat /\ group.decisions \in Nat
    BY <2>1 DEF Telling, Ended, Counters
  <2>3. [leave |-> TRUE, act |-> TRUE] \in Entries
    BY DEF Entries
  <2> QED
    BY <1>10, <2>2, <2>3, EntryCounts
<1>15. /\ group.decisions = Ended(group) + Pending
       /\ group.decisions = Len(trace) + other.asked
       /\ gconf.matched => Telling(group) + PendingTells <= LeaveEntries(trace) + other.leaves
       /\ group.opened + group.begin_task_rejections = bench.task
       /\ LearnOK(group, Due, bench.missed)
  BY <1>2 DEF Ledger, gconf
<1>16. /\ group'.decisions = Ended(group') + Pending'
       /\ group'.decisions = Len(trace) + other'.asked
       /\ gconf.matched => Telling(group') + PendingTells' <= LeaveEntries(trace) + other'.leaves
  BY <1>6, <1>9, <1>10, <1>12, <1>14, <1>15
<1>17. LearnOK(group', Due', bench'.missed)
  <2> DEFINE d == Due
             m == bench.missed
  <2>1. LearnOK(group, d, m) /\ group'.config = group.config
    BY <1>5, <1>6, <1>15 DEF GroupTyped
  <2> HIDE DEF d, m
  <2>2. LearnOK(group', d, m)
    BY <1>6, <2>1, LearnSame
  <2> QED
    BY <1>1, <1>11, <2>2 DEF d, m
<1>18. group'.opened + group'.begin_task_rejections = bench'.task
  BY <1>1, <1>6, <1>15 DEF SameLearning
<1>19. Ledger'
  BY <1>1, <1>6, <1>11, <1>13, <1>16, <1>17, <1>18 DEF Ledger, gconf
<1> QED
  BY <1>11, <1>19 DEF LedgerInv

(* The other thread's decision, second part: it ends. *)
LEMMA OtherEndsStep ==
    ASSUME LedgerInv, NEW ok \in BOOLEAN, OtherEnds(ok)
    PROVE  LedgerInv'
<1> DEFINE ask == other.ask
           last == Max(other.ask.roster)
           gconf == conf.group
<1>1. /\ Running /\ ask # None /\ UNCHANGED <<instance, bench, trace>>
      /\ group' = DecideEnds(group, ask, ok, last)
      /\ other' = [other EXCEPT !.ask = None]
  BY DEF OtherEnds
<1>2. Grouping /\ Ledger /\ BenchShape /\ bench.phase # "idle"
  BY <1>1 DEF Running, Grouping, LedgerInv
<1>3. GroupTyped(group, gconf) /\ ReadsOK(group) /\ GoodAsk(ask, gconf)
  BY <1>1, <1>2 DEF Ledger
<1> HIDE DEF last, gconf
<1>4. /\ GroupTyped(group', gconf) /\ SameLearning(group, group')
      /\ group'.decisions = group.decisions
      /\ Ended(group') = Ended(group) + 1
      /\ ReadsOK(group')
      /\ gconf.matched => Telling(group') <= Telling(group) + IF ask.queries = {} THEN 0 ELSE 1
  BY <1>1, <1>3, EndsFacts
<1>5. /\ other = [ask |-> other.ask, leaves |-> other.leaves, asked |-> other.asked]
      /\ other.leaves \in Nat /\ other.asked \in Nat /\ trace \in Seq(Entries)
  BY <1>2 DEF BenchShape
<1>6. /\ other'.ask = None /\ other'.leaves = other.leaves /\ other'.asked = other.asked
      /\ other' = [ask |-> other'.ask, leaves |-> other'.leaves, asked |-> other'.asked]
  <2>1. other' = [ask |-> None, leaves |-> other.leaves, asked |-> other.asked]
    BY <1>1, <1>5
  <2> QED
    BY <2>1
<1>7. BenchShape' /\ conf' = conf /\ Due' = Due
  BY <1>1, <1>2, <1>5, <1>6, OtherShape
<1>8. /\ Pending = 1 /\ PendingTells = (IF ask.queries = {} THEN 0 ELSE 1)
      /\ Pending' = 0 /\ PendingTells' = 0
  BY <1>1, <1>6 DEF Pending, PendingTells
<1>9. /\ Telling(group) \in Int /\ Telling(group') \in Int
      /\ Ended(group) \in Nat /\ group.decisions \in Nat
      /\ LeaveEntries(trace) \in Nat
  <2>1. \A f \in Counters : group[f] \in Nat /\ group'[f] \in Nat
    BY <1>3, <1>4 DEF GroupTyped
  <2>2. /\ Telling(group) \in Int /\ Telling(group') \in Int
        /\ Ended(group) \in Nat /\ group.decisions \in Nat
    BY <2>1 DEF Telling, Ended, Counters
  <2>3. [leave |-> TRUE, act |-> TRUE] \in Entries
    BY DEF Entries
  <2> QED
    BY <1>5, <2>2, <2>3, EntryCounts
<1>10. /\ group.decisions = Ended(group) + Pending
       /\ group.decisions = Len(trace) + other.asked
       /\ gconf.matched => Telling(group) + PendingTells <= LeaveEntries(trace) + other.leaves
       /\ group.opened + group.begin_task_rejections = bench.task
       /\ LearnOK(group, Due, bench.missed)
  BY <1>2 DEF Ledger, gconf
<1>11. /\ group'.decisions = Ended(group') + Pending'
       /\ group'.decisions = Len(trace) + other'.asked
       /\ gconf.matched => Telling(group') + PendingTells' <= LeaveEntries(trace) + other'.leaves
  <2> HIDE DEF ask
  <2> QED
    BY <1>4, <1>5, <1>6, <1>8, <1>9, <1>10
<1>12. LearnOK(group', Due', bench'.missed)
  <2> DEFINE d == Due
             m == bench.missed
  <2>1. LearnOK(group, d, m) /\ group'.config = group.config
    BY <1>3, <1>4, <1>10 DEF GroupTyped
  <2> HIDE DEF d, m
  <2>2. LearnOK(group', d, m)
    BY <1>4, <2>1, LearnSame
  <2> QED
    BY <1>1, <1>7, <2>2 DEF d, m
<1>13. group'.opened + group'.begin_task_rejections = bench'.task
  BY <1>1, <1>4, <1>10 DEF SameLearning
<1>14. Ledger'
  BY <1>1, <1>4, <1>6, <1>7, <1>11, <1>12, <1>13 DEF Ledger, gconf
<1> QED
  BY <1>7, <1>14 DEF LedgerInv

-----------------------------------------------------------------------------
(* An idle bench owes nobody anything. *)
LEMMA LedgerInitial == BenchInit => LedgerInv
<1> SUFFICES ASSUME BenchInit PROVE LedgerInv
  OBVIOUS
<1>1. bench.phase = "idle"
  BY DEF BenchInit, NoBench
<1>2. BenchShape
  BY DEF BenchInit, BenchShape, NoBench, BenchFields, Idling, Entries
<1> QED
  BY <1>1, <1>2 DEF LedgerInv, Grouping

(* Every step of the bench and of the other thread keeps the ledger.        *)
LEMMA LedgerNextStep == LedgerInv /\ [BenchNext]_benchvars => LedgerInv'
<1> SUFFICES ASSUME LedgerInv, [BenchNext]_benchvars PROVE LedgerInv'
  OBVIOUS
<1>1. ASSUME NEW config \in BenchConfigs, Start(config) PROVE LedgerInv'
  BY <1>1, StartStep DEF LedgerInv
<1>2. CASE Generates
  BY <1>2, GenerateStep
<1>3. CASE BeginTasks
  BY <1>3, BeginStep
<1>4. CASE JoinNext \/ LeaveNext
  BY <1>4, AskingStep
<1>5. CASE ScoreTask
  BY <1>5, ScoreStep
<1>6. CASE OtherStarts
  BY <1>6, OtherStartsStep
<1>7. ASSUME NEW ok \in BOOLEAN, OtherEnds(ok) PROVE LedgerInv'
  BY <1>7, OtherEndsStep
<1>8. CASE UNCHANGED benchvars
  <2>1. UNCHANGED <<instance, bench, trace, other, group>>
    BY <1>8 DEF benchvars
  <2> QED
    BY <2>1 DEF LedgerInv, BenchShape, Grouping, Ledger, Due, Pending, PendingTells, conf
<1> QED
  BY <1>1, <1>2, <1>3, <1>4, <1>5, <1>6, <1>7, <1>8 DEF BenchNext, Generates

(* The ledger is kept in every state. *)
LEMMA LedgerInvHolds == BenchSpec => []LedgerInv
<1> QED
  BY LedgerInitial, LedgerNextStep, PTL DEF BenchSpec

(***************************************************************************)
(* The group policy's ledger (group_policy.rs: decide, leave, begin_task   *)
(* and observe_outcome), on the bench and with a second thread asking.     *)
(* Every decision the policy counts ends once, as a read or as one of      *)
(* three declines, the one the second thread has in flight excepted, and   *)
(* is an entry of the trace or a question of that thread; every            *)
(* deterministic read leaves its agreement sample; with role-matched masks *)
(* at most one query of a leave can tell leaving from staying; every task  *)
(* was opened or rejected; and the learning gate is exact just when no     *)
(* model missed an update it was owed.  For any pool, roles, bits, tasks,  *)
(* policy configurations and number of questions.                          *)
(***************************************************************************)
THEOREM GroupAlwaysAccounts == BenchSpec => []GroupAccounts
<1> QED
  BY LedgerInvHolds, LedgerGives, PTL

-----------------------------------------------------------------------------
(***************************************************************************)
(* What the group policy's models learn.  First the lists they are made    *)
(* of: positions picked from a growing list, and its newest elements.      *)
(***************************************************************************)
(* One more number, picked or not. *)
LEMMA PickedGrows ==
    ASSUME NEW n \in Nat, NEW K \in SUBSET (1..(n + 1))
    PROVE  LET old == Picked([t \in 1..n |-> t], K \ {n + 1})
           IN  /\ old \in Seq(1..n)
               /\ Picked([t \in 1..(n + 1) |-> t], K)
                     = IF n + 1 \in K THEN Append(old, n + 1) ELSE old
<1> DEFINE J == K \ {n + 1}
           ids == [t \in 1..n |-> t]
           more == [t \in 1..(n + 1) |-> t]
           old == Picked(ids, J)
           new == Picked(more, K)
           c == Cardinality(J)
<1>0. n + 1 \in Nat /\ J \subseteq 1..n /\ ids \in Seq(1..n) /\ Len(ids) = n
  OBVIOUS
<1>1. old \in Seq(1..n)
  <2> HIDE DEF J, ids
  <2> QED
    BY <1>0, PickedFacts
<1>2. /\ c \in Nat /\ old = [k \in 1..c |-> old[k]]
      /\ \A i \in J : RankIn(J, i) \in 1..c /\ old[RankIn(J, i)] = ids[i]
      /\ \A k \in 1..c : \E i \in J : RankIn(J, i) = k
  <2>1. J \in SUBSET (1..n)
    BY <1>0
  <2> HIDE DEF J, ids
  <2>2. /\ c \in Nat /\ old = [k \in 1..c |-> old[k]]
        /\ \A i \in J : RankIn(J, i) \in 1..c /\ old[RankIn(J, i)] = ids[i]
    BY <2>1, PickedAt
  <2>3. \A k \in 1..c : \E i \in J : RankIn(J, i) = k
    BY <2>1, PickedAt
  <2> QED
    BY <2>2, <2>3
<1>3. /\ Cardinality(K) \in Nat /\ new = [k \in 1..Cardinality(K) |-> new[k]]
      /\ \A i \in K : RankIn(K, i) \in 1..Cardinality(K) /\ new[RankIn(K, i)] = more[i]
  <2> HIDE DEF more
  <2> QED
    BY <1>0, PickedAt
<1>4. \A i \in J : RankIn(K, i) = RankIn(J, i) /\ ids[i] = i /\ more[i] = i
  <2> SUFFICES ASSUME NEW i \in J PROVE RankIn(K, i) = RankIn(J, i) /\ ids[i] = i /\ more[i] = i
    OBVIOUS
  <2>1. i \in 1..n
    BY <1>0
  <2>2. {j \in K : j <= i} = {j \in J : j <= i}
    BY <2>1
  <2> QED
    BY <2>1, <2>2 DEF RankIn
<1>5. \A k \in 1..c : new[k] = old[k]
  <2> SUFFICES ASSUME NEW k \in 1..c PROVE new[k] = old[k]
    OBVIOUS
  <2>1. PICK i \in J : RankIn(J, i) = k
    BY <1>2
  <2>2. i \in K /\ RankIn(K, i) = k
    BY <1>4, <2>1
  <2>3. old[RankIn(J, i)] = ids[i] /\ new[RankIn(K, i)] = more[i] /\ ids[i] = i /\ more[i] = i
    BY <1>2, <1>3, <1>4, <2>1, <2>2
  <2> HIDE DEF J, ids, more, old, new, c
  <2> QED
    BY <2>1, <2>2, <2>3
<1>6. IsFiniteSet(J)
  <2>1. IsFiniteSet(1..n)
    BY FS_Interval
  <2> QED
    BY <1>0, <2>1, FS_Subset
<1>7. CASE n + 1 \in K
  <2>1. K = J \cup {n + 1}
    BY <1>7
  <2>2. Cardinality(K) = c + 1
    <3>1. n + 1 \notin J
      OBVIOUS
    <3> HIDE DEF J
    <3>2. Cardinality(J \cup {n + 1}) = Cardinality(J) + 1
      BY <1>6, <3>1, FS_AddElement
    <3> QED
      BY <2>1, <3>2
  <2>3. RankIn(K, n + 1) = c + 1
    <3>1. \A j \in K : j <= n + 1
      OBVIOUS
    <3>2. {j \in K : j <= n + 1} = K
      BY <3>1
    <3> QED
      BY <2>2, <3>2 DEF RankIn
  <2>4. new[c + 1] = n + 1
    <3>1. more[n + 1] = n + 1
      BY <1>0
    <3> HIDE DEF more, new, c
    <3> QED
      BY <1>3, <1>7, <2>3, <3>1
  <2> HIDE DEF J, ids, more, old, new, c
  <2>5. /\ DOMAIN old = 1..c /\ Len(old) = c
        /\ DOMAIN Append(old, n + 1) = 1..(c + 1)
        /\ Append(old, n + 1) = [k \in 1..(c + 1) |-> Append(old, n + 1)[k]]
        /\ \A k \in 1..c : Append(old, n + 1)[k] = old[k]
        /\ Append(old, n + 1)[c + 1] = n + 1
    <3>1. DOMAIN old = 1..c /\ Len(old) = c
      BY <1>1, <1>2
    <3> QED
      BY <1>1, <1>2, <3>1
  <2>6. \A k \in 1..(c + 1) : new[k] = Append(old, n + 1)[k]
    <3>1. \A k \in 1..(c + 1) : k \in 1..c \/ k = c + 1
      BY <1>2
    <3> QED
      BY <1>5, <2>4, <2>5, <3>1
  <2>7. new = Append(old, n + 1)
    BY <1>3, <2>2, <2>5, <2>6
  <2> QED
    BY <1>1, <1>7, <2>7 DEF J, ids, more, old, new
<1>8. CASE n + 1 \notin K
  <2>1. K = J
    BY <1>8
  <2> HIDE DEF J, ids, more, old, new
  <2>2. new = old
    BY <1>2, <1>3, <1>5, <2>1
  <2> QED
    BY <1>1, <1>8, <2>2 DEF J, ids, more, old, new
<1> QED
  BY <1>7, <1>8

(* The last REPLAY_CAP elements of a list. *)
Newest(s) == SubSeq(s, Max({1, Len(s) - REPLAY_CAP + 1}), Len(s))

(* There are REPLAY_CAP of them, or all there are. *)
LEMMA NewestIs ==
    ASSUME NEW S, NEW s \in Seq(S)
    PROVE  LET n == Len(s)
               l == IF n <= REPLAY_CAP THEN n ELSE REPLAY_CAP
               w == Newest(s)
           IN  /\ w \in Seq(S) /\ Len(w) = l /\ DOMAIN w = 1..l /\ l \in Nat
               /\ \A k \in 1..l : n - l + k \in DOMAIN s /\ w[k] = s[n - l + k]
<1> DEFINE n == Len(s)
           m == n - REPLAY_CAP + 1
           lo == IF m >= 1 THEN m ELSE 1
           l == IF n <= REPLAY_CAP THEN n ELSE REPLAY_CAP
           w == Newest(s)
<1>1. n \in Nat /\ REPLAY_CAP \in Nat \ {0} /\ m \in Int /\ DOMAIN s = 1..n
  BY ArmBounds
<1>2. Max({1, m}) = lo
  <2>1. lo \in {1, m} /\ \A x \in {1, m} : lo >= x
    BY <1>1
  <2>2. \A y \in {1, m} : (\A x \in {1, m} : y >= x) => y = lo
    BY <1>1
  <2> HIDE DEF m, lo
  <2> QED
    BY <2>1, <2>2 DEF Max
<1>3. w = SubSeq(s, lo, n)
  BY <1>2 DEF Newest
<1>4. lo \in Nat /\ lo >= 1 /\ lo = n - l + 1 /\ l \in Nat /\ l <= n
  <2> DEFINE e == Len(s)
  <2>1. e \in Nat
    BY <1>1
  <2> HIDE DEF e
  <2>2. CASE e <= REPLAY_CAP
    BY <1>1, <2>1, <2>2 DEF e
  <2>3. CASE ~(e <= REPLAY_CAP)
    BY <1>1, <2>1, <2>3 DEF e
  <2> QED
    BY <2>2, <2>3
<1> HIDE DEF l, lo, w
<1>5. /\ w \in Seq(S) /\ Len(w) = l
      /\ \A k \in 1..l : w[k] = s[n - l + k]
  BY <1>1, <1>3, <1>4
<1>6. DOMAIN w = 1..l /\ \A k \in 1..l : n - l + k \in DOMAIN s
  BY <1>1, <1>4, <1>5
<1> QED
  BY <1>4, <1>5, <1>6 DEF l, w

(* One more element pushes the oldest out of a full window. *)
LEMMA NewestGrows ==
    ASSUME NEW S, NEW s \in Seq(S), NEW x \in S
    PROVE  LET w == Newest(s)
           IN  /\ Len(w) = REPLAY_CAP => w # <<>>
               /\ Newest(Append(s, x))
                    = Append(IF Len(w) = REPLAY_CAP THEN Tail(w) ELSE w, x)
<1> DEFINE n == Len(s)
           l == IF n <= REPLAY_CAP THEN n ELSE REPLAY_CAP
           k == IF n + 1 <= REPLAY_CAP THEN n + 1 ELSE REPLAY_CAP
           w == Newest(s)
           t == Append(s, x)
           v == Newest(t)
           u == IF Len(w) = REPLAY_CAP THEN Tail(w) ELSE w
<1>1. n \in Nat /\ REPLAY_CAP \in Nat \ {0}
  BY ArmBounds
<1>2. /\ t \in Seq(S) /\ Len(t) = n + 1 /\ t[n + 1] = x
      /\ \A i \in 1..n : t[i] = s[i]
  BY <1>1
<1>3. /\ w \in Seq(S) /\ Len(w) = l /\ DOMAIN w = 1..l /\ l \in Nat
      /\ \A i \in 1..l : n - l + i \in DOMAIN s /\ w[i] = s[n - l + i]
  BY NewestIs
<1>4. /\ v \in Seq(S) /\ Len(v) = k /\ DOMAIN v = 1..k /\ k \in Nat
      /\ \A i \in 1..k : v[i] = t[n + 1 - k + i]
  <2> DEFINE q == IF Len(t) <= REPLAY_CAP THEN Len(t) ELSE REPLAY_CAP
  <2>1. /\ v \in Seq(S) /\ Len(v) = q /\ DOMAIN v = 1..q /\ q \in Nat
        /\ \A i \in 1..q : v[i] = t[Len(t) - q + i]
    <3> HIDE DEF t
    <3> QED
      BY <1>2, NewestIs
  <2>2. q = k /\ Len(t) = n + 1
    BY <1>2
  <2> HIDE DEF t, v, q, k
  <2> QED
    BY <2>1, <2>2
<1> HIDE DEF t, v, w
<1>5. Len(w) = REPLAY_CAP => w # <<>>
  BY <1>1
<1>6. /\ u \in Seq(S) /\ Len(u) = k - 1 /\ k >= 1 /\ DOMAIN u = 1..(k - 1)
      /\ \A i \in 1..(k - 1) : u[i] = s[n + 1 - k + i] /\ n + 1 - k + i \in 1..n
  <2>1. CASE l = REPLAY_CAP
    <3>1. w # <<>> /\ u = Tail(w) /\ k = l
      BY <1>1, <1>3, <2>1
    <3>2. /\ Tail(w) \in Seq(S) /\ DOMAIN Tail(w) = 1..(l - 1) /\ Len(Tail(w)) = l - 1
          /\ \A i \in 1..(l - 1) : Tail(w)[i] = w[i + 1]
      BY <1>3, <3>1, TailFacts
    <3>3. \A i \in 1..(l - 1) : i + 1 \in 1..l /\ n - l + (i + 1) = n + 1 - l + i
      BY <1>1, <1>3
    <3>4. \A i \in 1..(l - 1) : w[i + 1] = s[n - l + (i + 1)] /\ n - l + (i + 1) \in 1..n
      BY <1>3, <3>3
    <3> HIDE DEF l, k, u, n
    <3>5. \A i \in 1..(l - 1) : u[i] = s[n + 1 - l + i] /\ n + 1 - l + i \in 1..n
      BY <3>1, <3>2, <3>3, <3>4
    <3>6. l >= 1
      BY <1>1, <2>1
    <3> QED
      BY <3>1, <3>2, <3>5, <3>6
  <2>2. CASE l # REPLAY_CAP
    <3>1. u = w /\ k = n + 1 /\ l = n
      BY <1>1, <1>3, <2>2
    <3> HIDE DEF l, k, u
    <3> QED
      BY <1>1, <1>3, <3>1
  <2> QED
    BY <2>1, <2>2
<1> HIDE DEF u
<1>7. k \in Nat /\ n + 1 - k + k = n + 1
  BY <1>1
<1> HIDE DEF k, l
<1>8. \A i \in 1..(k - 1) : v[i] = u[i]
  <2> SUFFICES ASSUME NEW i \in 1..(k - 1) PROVE v[i] = u[i]
    OBVIOUS
  <2>1. i \in 1..k
    BY <1>7
  <2> QED
    BY <1>2, <1>4, <1>6, <2>1
<1>9. v[k] = x
  BY <1>2, <1>4, <1>6, <1>7
<1>10. v = Append(u, x)
  <2>1. /\ DOMAIN Append(u, x) = 1..k /\ Append(u, x)[k] = x
        /\ \A i \in 1..(k - 1) : Append(u, x)[i] = u[i]
        /\ Append(u, x) \in Seq(S)
    BY <1>6, <1>7
  <2>2. \A i \in 1..k : v[i] = Append(u, x)[i]
    <3>1. \A i \in 1..k : i \in 1..(k - 1) \/ i = k
      BY <1>7
    <3> QED
      BY <1>8, <1>9, <2>1, <3>1
  <2>3. v = [i \in 1..k |-> v[i]]
    <3>1. v = [i \in 1..Len(v) |-> v[i]]
      BY <1>4
    <3> QED
      BY <1>4, <3>1
  <2>4. Append(u, x) = [i \in 1..k |-> Append(u, x)[i]]
    <3> DEFINE z == Append(u, x)
    <3>1. z \in Seq(S) /\ DOMAIN z = 1..k
      BY <2>1
    <3> HIDE DEF z
    <3>2. z = [i \in DOMAIN z |-> z[i]]
      BY <3>1
    <3> QED
      BY <3>1, <3>2 DEF z
  <2> QED
    BY <2>2, <2>3, <2>4
<1> QED
  BY <1>5, <1>10 DEF t, v, w, u

(* A list of numbers mapped through a function, as it grows and shrinks. *)
LEMMA MappedGrows ==
    ASSUME NEW D, NEW F, NEW w \in Seq(D), NEW x \in D
    PROVE  LET Of(s) == [i \in DOMAIN s |-> F[s[i]]]
           IN  /\ Len(Of(w)) = Len(w)
               /\ Of(Append(w, x)) = Append(Of(w), F[x])
               /\ w # <<>> => Of(Tail(w)) = Tail(Of(w))
<1> DEFINE n == Len(w)
           R == {F[d] : d \in D}
           Of(s) == [i \in DOMAIN s |-> F[s[i]]]
<1>1. /\ n \in Nat /\ DOMAIN w = 1..n /\ \A i \in 1..n : w[i] \in D
  OBVIOUS
<1>2. /\ Of(w) \in Seq(R) /\ Len(Of(w)) = n /\ DOMAIN Of(w) = 1..n
      /\ \A i \in 1..n : Of(w)[i] = F[w[i]]
  BY <1>1
<1>3. Of(Append(w, x)) = Append(Of(w), F[x])
  <2> DEFINE a == Append(w, x)
             b == Append(Of(w), F[x])
  <2>1. /\ DOMAIN a = 1..(n + 1) /\ a[n + 1] = x
        /\ \A i \in 1..n : a[i] = w[i]
    BY <1>1, AppendFacts
  <2>2. /\ b \in Seq(R) /\ DOMAIN b = 1..(n + 1) /\ b[n + 1] = F[x]
        /\ \A i \in 1..n : b[i] = Of(w)[i]
    <3>1. F[x] \in R
      OBVIOUS
    <3> HIDE DEF Of, R
    <3> QED
      BY <1>2, <3>1, AppendFacts
  <2>3. b = [i \in 1..(n + 1) |-> b[i]]
    <3> HIDE DEF b
    <3>1. b = [i \in DOMAIN b |-> b[i]]
      BY <2>2
    <3> QED
      BY <2>2, <3>1
  <2>4. \A i \in 1..(n + 1) : F[a[i]] = b[i]
    <3>1. \A i \in 1..(n + 1) : i \in 1..n \/ i = n + 1
      BY <1>1
    <3> HIDE DEF a, b, Of
    <3> QED
      BY <1>2, <2>1, <2>2, <3>1
  <2>5. Of(a) = [i \in 1..(n + 1) |-> F[a[i]]]
    BY <2>1
  <2> HIDE DEF a, b, n
  <2> QED
    BY <2>3, <2>4, <2>5 DEF a, b
<1>4. ASSUME w # <<>> PROVE Of(Tail(w)) = Tail(Of(w))
  <2> DEFINE a == Tail(w)
             b == Tail(Of(w))
  <2>1. /\ DOMAIN a = 1..(n - 1) /\ \A i \in 1..(n - 1) : a[i] = w[i + 1] /\ i + 1 \in 1..n
    BY <1>1, <1>4, TailFacts
  <2>2. /\ b \in Seq(R) /\ DOMAIN b = 1..(n - 1)
        /\ \A i \in 1..(n - 1) : b[i] = Of(w)[i + 1]
    <3>1. Of(w) # <<>>
      BY <1>1, <1>2, <1>4
    <3> HIDE DEF Of, R
    <3> QED
      BY <1>2, <3>1, TailFacts
  <2>3. b = [i \in 1..(n - 1) |-> b[i]]
    <3> HIDE DEF b
    <3>1. b = [i \in DOMAIN b |-> b[i]]
      BY <2>2
    <3> QED
      BY <2>2, <3>1
  <2>4. \A i \in 1..(n - 1) : F[a[i]] = b[i]
    <3> HIDE DEF a, b, Of
    <3> QED
      BY <1>2, <2>1, <2>2
  <2>5. Of(a) = [i \in 1..(n - 1) |-> F[a[i]]]
    BY <2>1
  <2> HIDE DEF a, b, n
  <2> QED
    BY <2>3, <2>4, <2>5 DEF a, b
<1> QED
  BY <1>2, <1>3, <1>4

-----------------------------------------------------------------------------
(***************************************************************************)
(* What a role's model is to remember of the tasks that ended.  c is the   *)
(* configuration, rs the ends of the tasks.                                *)
(***************************************************************************)
KnowsRoles(c, end) == \A s \in end.steps : s.role < c.group.n_roles
MineOf(c, end, r) == {s \in end.steps : s.role = r /\ s.bit < c.group.n_bits}
MetOf(c, end) == IF c.signal = "both" THEN end.performed ELSE end.covered
IsSeen(c, end, r) == c.group.n_bits = Bits /\ KnowsRoles(c, end) /\ MineOf(c, end, r) # {}
OutcomeOf(c, end, r) ==
    [b \in Bit |-> IF Step(b, r) \notin MineOf(c, end, r) THEN "no_obs"
                   ELSE IF Step(b, r) \in MetOf(c, end) THEN "success" ELSE "failure"]
SeenBy(c, rs, r) ==
    Picked([t \in DOMAIN rs |-> t], {t \in DOMAIN rs : IsSeen(c, rs[t], r)})
Remembered(c, rs, r) ==
    LET window == Newest(SeenBy(c, rs, r))
    IN  [i \in DOMAIN window |-> OutcomeOf(c, rs[window[i]], r)]

(* One more task. *)
LEMMA RememberedGrows ==
    ASSUME NEW c, NEW S, NEW rs \in Seq(S), NEW end \in S, NEW r
    PROVE  LET old == Remembered(c, rs, r)
           IN  Remembered(c, Append(rs, end), r)
                 = IF IsSeen(c, end, r)
                   THEN Append(IF Len(old) = REPLAY_CAP THEN Tail(old) ELSE old,
                               OutcomeOf(c, end, r))
                   ELSE old
<1> DEFINE n == Len(rs)
           ts == Append(rs, end)
           F == [t \in 1..(n + 1) |-> OutcomeOf(c, ts[t], r)]
           K == {t \in 1..(n + 1) : IsSeen(c, ts[t], r)}
           s == Picked([t \in 1..n |-> t], K \ {n + 1})
           w == Newest(s)
           D == 1..(n + 1)
           Of(q) == [i \in DOMAIN q |-> F[q[i]]]
<1>1. /\ n \in Nat /\ DOMAIN rs = 1..n /\ DOMAIN ts = 1..(n + 1)
      /\ ts[n + 1] = end /\ \A t \in 1..n : ts[t] = rs[t]
  BY AppendFacts
<1> HIDE DEF ts
<1>2. K \in SUBSET (1..(n + 1)) /\ (n + 1 \in K <=> IsSeen(c, end, r))
  BY <1>1
<1>3. {t \in DOMAIN rs : IsSeen(c, rs[t], r)} = K \ {n + 1}
  BY <1>1
<1>4. SeenBy(c, rs, r) = s
  BY <1>1, <1>3 DEF SeenBy
<1>5. SeenBy(c, ts, r) = Picked([t \in 1..(n + 1) |-> t], K)
  BY <1>1 DEF SeenBy
<1> HIDE DEF K
<1>6. /\ s \in Seq(1..n)
      /\ Picked([t \in 1..(n + 1) |-> t], K)
           = IF n + 1 \in K THEN Append(s, n + 1) ELSE s
  BY <1>1, <1>2, PickedGrows
<1> HIDE DEF s
<1>7. s \in Seq(D) /\ n + 1 \in D
  BY <1>1, <1>6
<1>8. w \in Seq(1..n)
  BY <1>6, NewestIs
<1>9. /\ Len(w) = REPLAY_CAP => w # <<>>
      /\ Newest(Append(s, n + 1)) = Append(IF Len(w) = REPLAY_CAP THEN Tail(w) ELSE w, n + 1)
  <2> HIDE DEF D
  <2> QED
    BY <1>7, NewestGrows
<1> HIDE DEF w
<1>10. Remembered(c, rs, r) = Of(w)
  <2>1. \A i \in DOMAIN w : w[i] \in 1..n
    BY <1>8
  <2>2. \A i \in DOMAIN w : OutcomeOf(c, rs[w[i]], r) = F[w[i]]
    <3> SUFFICES ASSUME NEW i \in DOMAIN w PROVE OutcomeOf(c, rs[w[i]], r) = F[w[i]]
      OBVIOUS
    <3>1. w[i] \in 1..n /\ w[i] \in 1..(n + 1)
      BY <1>1, <2>1
    <3>2. F[w[i]] = OutcomeOf(c, ts[w[i]], r)
      BY <3>1
    <3>3. ts[w[i]] = rs[w[i]]
      BY <1>1, <3>1
    <3> QED
      BY <3>2, <3>3
  <2>3. Remembered(c, rs, r) = [i \in DOMAIN w |-> OutcomeOf(c, rs[w[i]], r)]
    BY <1>4 DEF Remembered, w
  <2> HIDE DEF F
  <2> QED
    BY <2>2, <2>3
<1>11. ASSUME NEW q \in Seq(D), Newest(SeenBy(c, ts, r)) = q
       PROVE  Remembered(c, ts, r) = Of(q)
  <2>1. \A i \in DOMAIN q : q[i] \in 1..(n + 1)
    BY <1>11
  <2>2. \A i \in DOMAIN q : OutcomeOf(c, ts[q[i]], r) = F[q[i]]
    BY <2>1
  <2>3. Remembered(c, ts, r) = [i \in DOMAIN q |-> OutcomeOf(c, ts[q[i]], r)]
    BY <1>11 DEF Remembered
  <2> HIDE DEF F
  <2> QED
    BY <2>2, <2>3
<1>12. F[n + 1] = OutcomeOf(c, end, r)
  BY <1>1
<1>13. w \in Seq(D)
  BY <1>1, <1>8
<1> HIDE DEF F, D
<1>14. CASE n + 1 \notin K
  <2>1. Newest(SeenBy(c, ts, r)) = w
    BY <1>5, <1>6, <1>14 DEF w
  <2>2. Remembered(c, ts, r) = Of(w)
    BY <1>11, <1>13, <2>1
  <2> QED
    BY <1>2, <1>10, <1>14, <2>2 DEF ts
<1>15. CASE n + 1 \in K
  <2> DEFINE v == IF Len(w) = REPLAY_CAP THEN Tail(w) ELSE w
  <2>1. v \in Seq(D)
    BY <1>9, <1>13, TailFacts
  <2>2. Of(v) = IF Len(Of(w)) = REPLAY_CAP THEN Tail(Of(w)) ELSE Of(w)
    <3>1. Len(Of(w)) = Len(w) /\ (w # <<>> => Of(Tail(w)) = Tail(Of(w)))
      BY <1>7, <1>13, MappedGrows
    <3> HIDE DEF Of
    <3> QED
      BY <1>9, <3>1
  <2>3. Newest(SeenBy(c, ts, r)) = Append(v, n + 1)
    BY <1>5, <1>6, <1>9, <1>15
  <2> HIDE DEF v
  <2>4. Append(v, n + 1) \in Seq(D)
    BY <1>7, <2>1
  <2>5. Remembered(c, ts, r) = Of(Append(v, n + 1))
    BY <1>11, <2>3, <2>4
  <2>6. Of(Append(v, n + 1)) = Append(Of(v), F[n + 1])
    BY <1>7, <2>1, MappedGrows
  <2> HIDE DEF Of
  <2> QED
    BY <1>2, <1>10, <1>12, <1>15, <2>2, <2>5, <2>6 DEF ts
<1> QED
  BY <1>14, <1>15

(* A drawn workflow asks of each bit one role at most: the tag's.           *)
LEMMA DrawnSteps ==
    ASSUME NEW tags, NEW w \in DrawShape(TaggedSteps(tags)), NEW s \in Distinct(w)
    PROVE  s \in StepSet /\ s.bit \in DOMAIN tags /\ s.role = tags[s.bit]
<1> DEFINE steps == TaggedSteps(tags)
           r == s.role
           leg == w[r]
           bits == LegBits(steps, r)
           cells == {i \in DOMAIN leg : leg[i].bit = s.bit}
<1>1. s \in StepSet /\ Multiplicity(w, s) > 0 /\ s.bit \in Bit /\ r \in RoleIds
  BY DEF Distinct, StepSet
<1>2. cells # {}
  <2>1. SUFFICES ASSUME cells = {} PROVE FALSE
    OBVIOUS
  <2>2. {i \in cells : leg[i].wide} = {}
    BY <2>1
  <2>3. Multiplicity(w, s) = Cardinality({}) + Cardinality({})
    BY <2>1, <2>2 DEF Multiplicity
  <2> QED
    BY <1>1, <2>3, FS_EmptySet
<1>3. PICK fanout : w = [q \in RoleIds |-> [i \in DOMAIN LegBits(steps, q) |->
                             Cell(LegBits(steps, q)[i], <<q, i>> \in fanout)]]
  BY DEF DrawShape
<1>4. leg = [i \in DOMAIN bits |-> Cell(bits[i], <<r, i>> \in fanout)]
  BY <1>1, <1>3
<1>5. PICK i \in DOMAIN bits : bits[i] = s.bit
  BY <1>2, <1>4 DEF Cell
<1>6. Range(bits) = {j - 1 : j \in {k \in 1 .. Bits : Step(k - 1, r) \in steps}}
  <2> DEFINE K == {k \in 1 .. Bits : Step(k - 1, r) \in steps}
             ids == [k \in 1 .. Bits |-> k - 1]
  <2>1. ids \in Seq(Nat) /\ Len(ids) = Bits /\ \A k \in 1 .. Bits : ids[k] = k - 1
    BY ShapeAssumption
  <2>2. K \in SUBSET (1 .. Len(ids))
    BY <2>1
  <2> HIDE DEF ids
  <2>3. Range(Picked(ids, K)) = {ids[k] : k \in K}
    <3> HIDE DEF K
    <3> QED
      BY <2>1, <2>2, PickedFacts
  <2>4. bits = Picked(ids, K)
    BY DEF LegBits, ids
  <2>5. {ids[k] : k \in K} = {k - 1 : k \in K}
    BY <2>1
  <2> QED
    BY <2>3, <2>4, <2>5
<1>7. Step(s.bit, r) \in steps
  <2>1. s.bit \in Range(bits)
    BY <1>5 DEF Range
  <2> QED
    BY <1>6, <2>1
<1>8. PICK b \in DOMAIN tags : Step(s.bit, r) = Step(b, tags[b])
  BY <1>7 DEF TaggedSteps
<1>9. s.bit = b /\ r = tags[b]
  BY <1>8 DEF Step
<1> QED
  BY <1>1, <1>9

(* begin_task: the task in force. *)
TaskFor(g, steps) ==
    LET required == DemandOf(g, steps)
        roster   == Roster(required)
    IN  IF (\E s \in steps : s.role >= g.config.n_roles) \/ roster = {} THEN NoTask
        ELSE [open |-> TRUE, required |-> required, roster |-> roster]

(* begin_task teaches no model anything. *)
LEMMA BeginsTask ==
    ASSUME NEW gconf, NEW g, GroupTyped(g, gconf), NEW steps, NEW h, h = BeginTask(g, steps)
    PROVE  h.model = g.model /\ h.task = TaskFor(g, steps)
<1> DEFINE required == DemandOf(g, steps)
           roster   == Roster(required)
           T == [open |-> TRUE, required |-> required, roster |-> roster]
           refused == (\E s \in steps : s.role >= g.config.n_roles) \/ roster = {}
<1>1. DOMAIN g = GroupFields /\ {"task", "model"} \subseteq GroupFields
  BY DEF GroupTyped, GroupFields
<1>2. h = IF refused
          THEN [g EXCEPT !.task = NoTask, !.begin_task_rejections = @ + 1]
          ELSE [g EXCEPT !.task = T, !.opened = @ + 1,
                         !.empty_role_slots = @ + g.config.n_roles - Cardinality(roster),
                         !.expected = [m \in DOMAIN @ |->
                                          @[m] + IF m \in Expects(g, roster) THEN 1 ELSE 0]]
  BY DEF BeginTask
<1>3. TaskFor(g, steps) = IF refused THEN NoTask ELSE T
  BY DEF TaskFor
<1> HIDE DEF refused, T, roster
<1>4. CASE refused
  BY <1>1, <1>2, <1>3, <1>4
<1>5. CASE ~refused
  <2>1. PICK o, e, x : h = [g EXCEPT !.task = T, !.opened = o, !.empty_role_slots = e,
                                     !.expected = x]
    BY <1>2, <1>5
  <2> QED
    BY <1>1, <1>3, <1>5, <2>1
<1> QED
  BY <1>4, <1>5

(* observe_outcome: what the models remember. *)
LEMMA ObservesModels ==
    ASSUME NEW gconf, NEW g, GroupTyped(g, gconf), NEW per_bit, NEW accepts,
           NEW h, h = ObserveGroup(g, per_bit, accepts)
    PROVE  LET sees == ObservesWidth(gconf.n_bits, per_bit) /\ g.task.open
           IN  h.model = IF ~sees THEN g.model
                         ELSE [m \in DOMAIN g.model |->
                                 IF m \in Expects(g, g.task.roster)
                                 THEN ObserveOutcome(g.model[m], ObservedBy(g, m), per_bit)
                                 ELSE g.model[m]]
<1> DEFINE models == Expects(g, g.task.roster)
           sees == ObservesWidth(gconf.n_bits, per_bit) /\ g.task.open
           M == [m \in DOMAIN g.model |-> IF m \in models
                    THEN ObserveOutcome(g.model[m], ObservedBy(g, m), per_bit) ELSE g.model[m]]
<1>1. DOMAIN g = GroupFields /\ "model" \in GroupFields /\ g.config = gconf
  BY DEF GroupTyped, GroupFields
<1>2. h = IF ~sees
          THEN [g EXCEPT !.outcome_updates_unapplied = @ + 1]
          ELSE [g EXCEPT
                !.model = [m \in DOMAIN @ |-> IF m \in models
                              THEN ObserveOutcome(@[m], ObservedBy(g, m), per_bit) ELSE @[m]],
                !.updates = [m \in DOMAIN @ |-> @[m] + IF m \in models \cap accepts THEN 1 ELSE 0],
                !.tasks_observed = @ + 1,
                !.outcome_updates_unapplied = @ + IF models \cap accepts = {} THEN 1 ELSE 0]
  BY <1>1 DEF ObserveGroup
<1>3. CASE ~sees
  BY <1>1, <1>2, <1>3
<1>4. CASE sees
  <2> DEFINE u == [m \in DOMAIN g.updates |->
                     g.updates[m] + IF m \in models \cap accepts THEN 1 ELSE 0]
             o == g.tasks_observed + 1
             x == g.outcome_updates_unapplied + IF models \cap accepts = {} THEN 1 ELSE 0
  <2>1. h = [g EXCEPT !.model = M, !.updates = u, !.tasks_observed = o,
                      !.outcome_updates_unapplied = x]
    BY <1>2, <1>4, Zenon
  <2> HIDE DEF M, u, o, x, sees
  <2> QED
    BY <1>1, <1>4, <2>1 DEF M, sees
<1> QED
  BY <1>3, <1>4

(* The bits a task's signal says were met. *)
MetBits(c, end) == {s.bit : s \in MetOf(c, end)}

(* The signal of a workflow's end has the width of the universe and says   *)
(* of each bit whether some step on it was met.                            *)
LEMMA SignalFacts ==
    ASSUME Workflow, conf.signal \in Signals, conf.signal # "performance", NEW t, NEW end,
           NEW per_bit, per_bit = Signal(t, end)
    PROVE  /\ DOMAIN per_bit = Bit
           /\ \A b \in Bit : per_bit[b] <=> b \in MetBits(conf, end)
           /\ \A width : ObservesWidth(width, per_bit) <=> width = Bits
<1>1. per_bit = [b \in Bit |-> IF conf.signal = "both" THEN \E s \in end.performed : s.bit = b
                              ELSE \E s \in end.covered : s.bit = b]
  <2>1. CASE conf.signal = "both"
    BY <2>1 DEF Signal
  <2>2. CASE conf.signal = "role_coverage"
    BY <2>2 DEF Signal
  <2> QED
    BY <2>1, <2>2 DEF Signals
<1>2. DOMAIN per_bit = Bit
  BY <1>1
<1>3. \A b \in Bit : per_bit[b] <=> b \in MetBits(conf, end)
  <2>1. CASE conf.signal = "both"
    BY <1>1, <2>1 DEF MetOf, MetBits
  <2>2. CASE conf.signal # "both"
    BY <1>1, <2>2 DEF MetOf, MetBits
  <2> QED
    BY <2>1, <2>2
<1>4. Cardinality(Bit) = Bits
  <2>1. Bits \in Nat /\ Bits >= 1
    BY ShapeAssumption
  <2>2. Cardinality(0 .. Bits - 1) = (Bits - 1) - 0 + 1
    BY <2>1, FS_Interval
  <2> QED
    BY <2>1, <2>2 DEF Bit
<1>5. \A width : ObservesWidth(width, per_bit) <=> width = Bits
  BY <1>2, <1>4 DEF ObservesWidth
<1> QED
  BY <1>2, <1>3, <1>5

(* What was met is of the task's steps, and each bit has one role there.   *)
LEMMA EndFacts ==
    ASSUME NEW t, Workflow, Task(t).written \in DrawShape(TaggedSteps(Task(t).tags)),
           NEW members, NEW end, end = TaskEnd(t, members)
    PROVE  /\ end.steps = Steps(t) /\ MetOf(conf, end) \subseteq end.steps
           /\ \A s \in end.steps : s \in StepSet /\ s.role = Task(t).tags[s.bit]
<1>1. end.steps = Steps(t) /\ end.covered \subseteq Steps(t) /\ end.performed \subseteq Steps(t)
  BY DEF TaskEnd
<1>2. Steps(t) = Distinct(Task(t).written)
  BY DEF Steps
<1>3. \A s \in Steps(t) : s \in StepSet /\ s.role = Task(t).tags[s.bit]
  BY <1>2, DrawnSteps
<1> QED
  BY <1>1, <1>3 DEF MetOf

(* A role's own requirement keeps the other roles' bits out of what its    *)
(* model observes.                                                         *)
LEMMA OutcomeIs ==
    ASSUME NEW end, NEW tags, NEW r \in Nat, NEW per_bit, NEW required,
           MetOf(conf, end) \subseteq end.steps,
           \A s \in end.steps : s \in StepSet /\ s.role = tags[s.bit],
           DOMAIN per_bit = Bit,
           \A b \in Bit : per_bit[b] <=> b \in MetBits(conf, end),
           required = {s.bit : s \in MineOf(conf, end, r)}
    PROVE  Observation(required, per_bit) = OutcomeOf(conf, end, r)
<1>1. Observation(required, per_bit) =
          [b \in Bit |-> IF b \notin required THEN "no_obs"
                         ELSE IF per_bit[b] THEN "success" ELSE "failure"]
  BY DEF Observation
<1>2. ASSUME NEW b \in Bit
      PROVE  /\ b \in required <=> Step(b, r) \in MineOf(conf, end, r)
             /\ Step(b, r) \in MineOf(conf, end, r) =>
                   (per_bit[b] <=> Step(b, r) \in MetOf(conf, end))
  <2>1. Step(b, r).bit = b /\ Step(b, r).role = r
    BY DEF Step
  <2>2. \A s \in StepSet : s.bit = b /\ s.role = r => s = Step(b, r)
    BY DEF StepSet, Step
  <2>3. b \in required => Step(b, r) \in MineOf(conf, end, r)
    BY <2>2 DEF MineOf
  <2>4. Step(b, r) \in MineOf(conf, end, r) => b \in required
    BY <2>1
  <2>5. ASSUME Step(b, r) \in MineOf(conf, end, r)
        PROVE  per_bit[b] <=> Step(b, r) \in MetOf(conf, end)
    <3>1. tags[b] = r
      BY <2>1, <2>5 DEF MineOf
    <3>2. ASSUME NEW s \in MetOf(conf, end), s.bit = b PROVE Step(b, r) \in MetOf(conf, end)
      BY <2>2, <3>1, <3>2
    <3> QED
      BY <2>1, <3>2 DEF MetBits
  <2> QED
    BY <2>3, <2>4, <2>5
<1> QED
  BY <1>1, <1>2 DEF OutcomeOf

(* begin_task rosters the roles that have a step of a bit the models know,  *)
(* unless a role is out of range.                                          *)
LEMMA RosterFacts ==
    ASSUME NEW g, NEW end, g.config = conf.group, ~conf.group.shared,
           conf.group.n_roles \in Nat, \A s \in end.steps : s \in StepSet,
           g.task = TaskFor(g, end.steps), NEW r \in Models(conf.group)
    PROVE  /\ g.task.open /\ r \in Expects(g, g.task.roster)
                 <=> KnowsRoles(conf, end) /\ MineOf(conf, end, r) # {}
           /\ g.task.open /\ r \in Expects(g, g.task.roster) =>
                 ObservedBy(g, r) = {s.bit : s \in MineOf(conf, end, r)}
<1> DEFINE required == DemandOf(g, end.steps)
           roster == Roster(required)
           n == conf.group.n_roles
           Mine(q) == MineOf(conf, end, q)
           refused == (\E s \in end.steps : s.role >= n) \/ roster = {}
<1>1. /\ Models(conf.group) = 0 .. n - 1 /\ r \in 0 .. n - 1
      /\ \A q : ModelOf(conf.group, q) = q
  BY DEF Models, ModelOf
<1>2. required = [q \in 0 .. n - 1 |-> {s.bit : s \in Mine(q)}]
  BY DEF DemandOf, MineOf
<1> HIDE DEF required, Mine
<1>3. \A q \in 0 .. n - 1 : required[q] # {} <=> Mine(q) # {}
  <2> SUFFICES ASSUME NEW q \in 0 .. n - 1 PROVE required[q] # {} <=> Mine(q) # {}
    OBVIOUS
  <2>1. required[q] = {s.bit : s \in Mine(q)}
    BY <1>2
  <2> QED
    BY <2>1, Zenon
<1>4. roster = {q \in 0 .. n - 1 : Mine(q) # {}}
  BY <1>2, <1>3 DEF Roster
<1>5. KnowsRoles(conf, end) <=> ~(\E s \in end.steps : s.role >= n)
  <2>1. \A s \in end.steps : s.role \in Int /\ n \in Int
    BY ShapeAssumption DEF StepSet, RoleIds
  <2> QED
    BY <2>1 DEF KnowsRoles
<1>6. g.task = IF refused THEN NoTask ELSE [open |-> TRUE, required |-> required, roster |-> roster]
  BY DEF TaskFor, required
<1> HIDE DEF roster, n
<1>7. g.task.open <=> ~refused
  BY <1>6 DEF NoTask
<1>8. ~refused => g.task.roster = roster /\ g.task.required = required
  BY <1>6
<1>9. ASSUME ~refused
      PROVE  Expects(g, g.task.roster) = roster
  BY <1>1, <1>8, <1>9 DEF Expects
<1>10. r \in roster <=> Mine(r) # {}
  BY <1>1, <1>4
<1>11. ASSUME ~refused, r \in roster
       PROVE  ObservedBy(g, r) = {s.bit : s \in Mine(r)}
  <2>1. {q \in g.task.roster : ModelOf(g.config, q) = r} = {r}
    BY <1>1, <1>8, <1>11
  <2>2. ObservedBy(g, r) = UNION {g.task.required[q] : q \in {r}}
    BY <2>1 DEF ObservedBy
  <2>3. UNION {g.task.required[q] : q \in {r}} = required[r]
    BY <1>8, <1>11
  <2> QED
    BY <1>1, <1>2, <2>2, <2>3
<1>12. KnowsRoles(conf, end) /\ r \in roster <=> ~refused /\ r \in roster
  BY <1>5 DEF n
<1> QED
  BY <1>7, <1>9, <1>10, <1>11, <1>12 DEF Mine

(* observe_outcome after a workflow task: a rostered role's model pushes    *)
(* that task's outcome into its window, any other keeps what it had.        *)
LEMMA ScoreLearns ==
    ASSUME Workflow, conf.signal \in Signals, conf.signal # "performance",
           ~conf.group.shared, conf.group.n_roles \in Nat,
           NEW g, GroupTyped(g, conf.group), DOMAIN g.model = Models(conf.group),
           NEW t, Task(t).written \in DrawShape(TaggedSteps(Task(t).tags)),
           g.task = TaskFor(g, Steps(t)),
           NEW members, NEW end, end = TaskEnd(t, members), NEW accepts,
           NEW h, h = ObserveGroup(g, Signal(t, end), accepts)
    PROVE  /\ DOMAIN h.model = Models(conf.group)
           /\ \A r \in Models(conf.group) :
                LET old == g.model[r].replay
                IN  h.model[r].replay
                      = IF IsSeen(conf, end, r)
                        THEN Append(IF Len(old) = REPLAY_CAP THEN Tail(old) ELSE old,
                                    OutcomeOf(conf, end, r))
                        ELSE old
<1> DEFINE per_bit == Signal(t, end)
           sees == ObservesWidth(conf.group.n_bits, per_bit) /\ g.task.open
<1>1. /\ end.steps = Steps(t) /\ MetOf(conf, end) \subseteq end.steps
      /\ \A s \in end.steps : s \in StepSet /\ s.role = Task(t).tags[s.bit]
  BY EndFacts
<1>2. /\ DOMAIN per_bit = Bit
      /\ \A b \in Bit : per_bit[b] <=> b \in MetBits(conf, end)
      /\ ObservesWidth(conf.group.n_bits, per_bit) <=> conf.group.n_bits = Bits
  <2>1. DOMAIN per_bit = Bit
    BY SignalFacts
  <2>2. \A b \in Bit : per_bit[b] <=> b \in MetBits(conf, end)
    BY SignalFacts
  <2>3. \A width : ObservesWidth(width, per_bit) <=> width = Bits
    BY SignalFacts
  <2> QED
    BY <2>1, <2>2, <2>3
<1>3. h.model = IF ~sees THEN g.model
                ELSE [m \in DOMAIN g.model |->
                        IF m \in Expects(g, g.task.roster)
                        THEN ObserveOutcome(g.model[m], ObservedBy(g, m), per_bit)
                        ELSE g.model[m]]
  BY ObservesModels
<1> HIDE DEF per_bit
<1>4. DOMAIN h.model = Models(conf.group)
  BY <1>3
<1>5. ASSUME NEW r \in Models(conf.group)
      PROVE  LET old == g.model[r].replay
             IN  h.model[r].replay
                   = IF IsSeen(conf, end, r)
                     THEN Append(IF Len(old) = REPLAY_CAP THEN Tail(old) ELSE old,
                                 OutcomeOf(conf, end, r))
                     ELSE old
  <2> DEFINE old == g.model[r].replay
             kept == IF Len(old) = REPLAY_CAP THEN Tail(old) ELSE old
             mine == r \in Expects(g, g.task.roster)
  <2>1. g.config = conf.group /\ r \in Nat
    BY DEF GroupTyped, Models, ModelOf
  <2>2. /\ g.task.open /\ mine <=> KnowsRoles(conf, end) /\ MineOf(conf, end, r) # {}
        /\ g.task.open /\ mine => ObservedBy(g, r) = {s.bit : s \in MineOf(conf, end, r)}
    BY <1>1, <2>1, RosterFacts
  <2>3. sees /\ mine <=> IsSeen(conf, end, r)
    BY <1>2, <2>2 DEF IsSeen
  <2>4. CASE sees /\ mine
    <3>1. h.model[r] = ObserveOutcome(g.model[r], ObservedBy(g, r), per_bit)
      BY <1>3, <2>4
    <3>2. h.model[r].replay = Append(kept, Observation(ObservedBy(g, r), per_bit))
      BY <3>1 DEF ObserveOutcome
    <3>3. Observation(ObservedBy(g, r), per_bit) = OutcomeOf(conf, end, r)
      <4> DEFINE required == ObservedBy(g, r)
      <4>1. required = {s.bit : s \in MineOf(conf, end, r)}
        BY <2>2, <2>4
      <4> DEFINE tags == Task(t).tags
      <4>2. \A s \in end.steps : s \in StepSet /\ s.role = tags[s.bit]
        BY <1>1
      <4> HIDE DEF required, tags
      <4>3. Observation(required, per_bit) = OutcomeOf(conf, end, r)
        BY <1>1, <1>2, <2>1, <4>1, <4>2, OutcomeIs
      <4> QED
        BY <4>3 DEF required
    <3> QED
      BY <2>3, <2>4, <3>2, <3>3
  <2>5. CASE ~(sees /\ mine)
    <3>1. h.model[r] = g.model[r]
      BY <1>3, <2>5
    <3> QED
      BY <2>3, <2>5, <3>1
  <2> QED
    BY <2>4, <2>5
<1> QED
  BY <1>4, <1>5

(***************************************************************************)
(* The instance: every task is drawn before the run begins, and stays.     *)
(***************************************************************************)
RunPhases == {"begin", "join", "leave", "done"}
Draft(d) ==
    /\ DOMAIN d = {"tags", "arrival", "written"}
    /\ d.written # << >> => d.written \in DrawShape(TaggedSteps(d.tags))

TasksInv ==
    /\ \E S : instance.tasks \in Seq(S)
    /\ \A t \in DOMAIN instance.tasks : Draft(instance.tasks[t])
    /\ bench.phase \in {"idle", "refused"} => instance.tasks = << >>
    /\ Workflow /\ bench.phase \in RunPhases \cup {"shape"} => Len(instance.tasks) = NTasks
    /\ Workflow /\ bench.phase \in RunPhases => Unwritten = {}

(* One more draft. *)
LEMMA DrawTaskKeeps ==
    ASSUME BenchShape, TasksInv, DrawTask
    PROVE  TasksInv'
<1>1. PICK tags, arrival, keep, n :
       /\ n = Len(instance.tasks) + 1
       /\ instance' = IF keep THEN [instance EXCEPT !.tasks = Append(@,
                                      [tags |-> tags, arrival |-> arrival, written |-> << >>])]
                      ELSE instance
       /\ bench' = IF keep
                       THEN [bench EXCEPT !.attempts = 0,
                               !.phase = IF n < NTasks THEN "draw"
                                         ELSE IF Workflow THEN "shape" ELSE "begin"]
                       ELSE IF bench.attempts + 1 >= RedrawCap
                            THEN [bench EXCEPT !.phase = "infeasible"]
                            ELSE [bench EXCEPT !.attempts = @ + 1]
  BY DEF DrawTask
<1> DEFINE drawn == [tags |-> tags, arrival |-> arrival, written |-> << >>]
           ts == instance.tasks
<1>2. /\ bench.phase = "draw" /\ Len(ts) < NTasks /\ DOMAIN bench = BenchFields
      /\ "phase" \in BenchFields /\ "attempts" \in BenchFields
      /\ instance = [config |-> conf, tasks |-> ts, rows |-> instance.rows]
  BY DEF DrawTask, BenchShape, BenchFields, conf
<1>3. PICK S : ts \in Seq(S)
  BY DEF TasksInv
<1>4. Draft(drawn)
  BY DEF Draft
<1>5. conf' = conf /\ Workflow' = Workflow
  <2>1. instance'.config = instance.config
    BY <1>1, <1>2
  <2> QED
    BY <2>1 DEF conf, Workflow
<1> HIDE DEF drawn
<1>6. CASE keep
  <2> DEFINE us == Append(ts, drawn)
             p == IF n < NTasks THEN "draw" ELSE IF Workflow THEN "shape" ELSE "begin"
  <2>1. instance'.tasks = us
    BY <1>1, <1>2, <1>6 DEF drawn
  <2>2. bench'.phase = p
    BY <1>1, <1>2, <1>6
  <2>3. /\ us \in Seq(S \cup {drawn}) /\ Len(us) = n /\ DOMAIN us = 1..n /\ n \in Nat
        /\ us[n] = drawn /\ \A t \in 1..(n - 1) : us[t] = ts[t]
        /\ DOMAIN ts = 1..(n - 1)
    <3>1. ts \in Seq(S \cup {drawn}) /\ drawn \in S \cup {drawn}
      BY <1>3
    <3> QED
      BY <1>1, <3>1, AppendFacts
  <2> HIDE DEF us
  <2>4. \A t \in DOMAIN us : Draft(us[t])
    <3> SUFFICES ASSUME NEW t \in 1..n PROVE Draft(us[t])
      BY <2>3
    <3>1. CASE t = n
      BY <1>4, <2>3, <3>1
    <3>2. CASE t \in 1..(n - 1)
      BY <2>3, <3>2 DEF TasksInv
    <3> QED
      BY <2>3, <3>1, <3>2
  <2>5. n <= NTasks
    BY <1>1, <1>2, <2>3, BenchBounds
  <2>6. Workflow => bench'.phase = "draw" \/ (bench'.phase = "shape" /\ n = NTasks)
    BY <2>2, <2>3, <2>5, BenchBounds
  <2>7. bench'.phase \in {"draw", "shape", "begin"}
    BY <2>2
  <2>8. \E Q : instance'.tasks \in Seq(Q)
    BY <2>1, <2>3
  <2> QED
    BY <1>5, <2>1, <2>3, <2>4, <2>6, <2>7, <2>8 DEF TasksInv, RunPhases
<1>7. CASE ~keep
  <2>1. instance' = instance
    BY <1>1, <1>7
  <2>2. bench'.phase \in {"draw", "infeasible"}
    BY <1>1, <1>2, <1>7
  <2> QED
    BY <1>5, <2>1, <2>2 DEF TasksInv, RunPhases
<1> QED
  BY <1>6, <1>7

(* The first unwritten draft is written. *)
LEMMA DrawShapesKeeps ==
    ASSUME BenchShape, TasksInv, DrawShapes
    PROVE  TasksInv'
<1> DEFINE t == Min(Unwritten)
           ts == instance.tasks
<1>1. PICK w \in DrawShape(TaggedSteps(ts[t].tags)) :
        instance' = [instance EXCEPT !.tasks[t].written = w]
  BY DEF DrawShapes
<1>2. /\ bench.phase = "shape" /\ bench' = bench
      /\ instance = [config |-> conf, tasks |-> ts, rows |-> instance.rows]
  BY DEF DrawShapes, BenchShape, conf
<1>3. PICK S : ts \in Seq(S)
  BY DEF TasksInv
<1> HIDE DEF t
<1> DEFINE d == [ts[t] EXCEPT !.written = w]
           us == [ts EXCEPT ![t] = d]
<1>4. instance' = [instance EXCEPT !.tasks = us]
  BY <1>1
<1>5. instance'.tasks = us /\ conf' = conf /\ Workflow' = Workflow
  BY <1>2, <1>4 DEF conf, Workflow
<1> HIDE DEF d
<1>6. us \in Seq(S \cup {d}) /\ Len(us) = Len(ts) /\ DOMAIN us = DOMAIN ts
  <2>1. Len(ts) \in Nat /\ ts \in [1..Len(ts) -> S]
    BY <1>3
  <2>2. us \in [1..Len(ts) -> S \cup {d}]
    BY <2>1
  <2>3. us \in Seq(S \cup {d})
    BY <2>1, <2>2
  <2> HIDE DEF us
  <2> QED
    BY <2>1, <2>2, <2>3
<1>7. ASSUME NEW u \in DOMAIN ts PROVE Draft(us[u])
  <2>1. Draft(ts[u])
    BY DEF TasksInv
  <2>2. CASE u = t
    <3>1. us[u] = d
      BY <1>7, <2>2
    <3>2. d.written = w /\ d.tags = ts[t].tags /\ DOMAIN d = {"tags", "arrival", "written"}
      BY <2>1, <2>2 DEF d, Draft
    <3> QED
      BY <1>1, <3>1, <3>2 DEF Draft
  <2>3. CASE u # t
    BY <2>1, <2>3
  <2> QED
    BY <2>2, <2>3
<1> HIDE DEF us
<1>8. \E Q : instance'.tasks \in Seq(Q)
  BY <1>5, <1>6
<1> QED
  BY <1>2, <1>5, <1>6, <1>7, <1>8 DEF TasksInv, RunPhases

(* Whatever leaves the tasks. *)
LEMMA OthersKeepTasks ==
    ASSUME TasksInv, UNCHANGED instance.tasks, UNCHANGED conf,
           bench.phase \in {"idle", "refused"} <=> bench'.phase \in {"idle", "refused"},
           Workflow /\ bench'.phase \in RunPhases \cup {"shape"}
               => bench.phase \in RunPhases \cup {"shape"},
           Workflow /\ bench'.phase \in RunPhases => Unwritten = {}
    PROVE  TasksInv'
<1>1. Workflow' = Workflow /\ Unwritten' = Unwritten
  BY DEF Workflow, Unwritten
<1> QED
  BY <1>1 DEF TasksInv

(* The instance is what it was drawn to be, whoever steps. *)
LEMMA TasksNextStep ==
    ASSUME BenchShape, TasksInv, [BenchNext]_benchvars
    PROVE  TasksInv'
<1>1. /\ DOMAIN bench = BenchFields /\ "phase" \in BenchFields
      /\ instance = [config |-> conf, tasks |-> instance.tasks, rows |-> instance.rows]
  BY DEF BenchShape, BenchFields, conf
<1>2. ASSUME NEW config \in BenchConfigs, Start(config) PROVE TasksInv'
  <2>1. /\ bench.phase = "idle" /\ bench'.phase \in {"refused", "draw"}
        /\ instance'.tasks = instance.tasks
    BY <1>1, <1>2 DEF Start
  <2>2. instance'.tasks = << >> /\ << >> \in Seq({})
    BY <2>1 DEF TasksInv
  <2> QED
    BY <2>1, <2>2 DEF TasksInv, RunPhases
<1>3. CASE DrawTask
  BY <1>3, DrawTaskKeeps
<1>4. CASE DrawShapes
  BY <1>4, DrawShapesKeeps
<1>5. CASE DrawPerformance
  <2>1. /\ bench.phase = "shape" /\ Unwritten = {} /\ bench'.phase = "begin"
    BY <1>1, <1>5 DEF DrawPerformance
  <2>2. PICK rows : instance' = [instance EXCEPT !.rows = rows]
    BY <1>5 DEF DrawPerformance
  <2>3. instance'.tasks = instance.tasks /\ conf' = conf
    BY <1>1, <2>2 DEF conf
  <2> QED
    BY <2>1, <2>3, OthersKeepTasks
<1>6. CASE BeginTasks
  <2>1. bench.phase = "begin" /\ bench'.phase = "join" /\ instance' = instance
    BY <1>1, <1>6 DEF BeginTasks
  <2> QED
    BY <2>1 DEF TasksInv, RunPhases, conf, Workflow, Unwritten
<1>7. CASE JoinNext \/ LeaveNext
  <2>1. bench.phase \in {"join", "leave"} /\ instance' = instance
    BY <1>7 DEF JoinNext, LeaveNext
  <2>2. bench'.phase = bench.phase
    BY <1>1, <1>7 DEF JoinNext, LeaveNext
  <2> QED
    BY <2>1, <2>2 DEF TasksInv, RunPhases, conf, Workflow, Unwritten
<1>8. CASE JoinsEnd
  <2>1. bench.phase = "join" /\ bench'.phase = "leave" /\ instance' = instance
    BY <1>1, <1>8 DEF JoinsEnd
  <2> QED
    BY <2>1 DEF TasksInv, RunPhases, conf, Workflow, Unwritten
<1>9. CASE ScoreTask
  <2>1. bench.phase = "leave" /\ instance' = instance
    BY <1>9 DEF ScoreTask
  <2>2. \E q : bench' = [bench EXCEPT !.phase = IF bench.task < NTasks THEN "begin" ELSE "done",
                                     !.missed = q]
    BY <1>9 DEF ScoreTask
  <2>3. bench'.phase \in {"begin", "done"}
    BY <1>1, <2>2
  <2> QED
    BY <2>1, <2>3 DEF TasksInv, RunPhases, conf, Workflow, Unwritten
<1>10. CASE UNCHANGED <<instance, bench>>
  BY <1>10 DEF TasksInv, conf, Workflow, Unwritten
<1> QED
  BY <1>2, <1>3, <1>4, <1>5, <1>6, <1>7, <1>8, <1>9, <1>10
     DEF BenchNext, OtherStarts, OtherEnds, benchvars

-----------------------------------------------------------------------------
(***************************************************************************)
(* The models along a run: what each remembers is what the tasks that      *)
(* ended so far make of it, and the task in force is the bench's.          *)
(***************************************************************************)
Remembering ==
    Grouping /\ Workflow /\ conf.signal # "performance" /\ ~conf.group.shared

Memory ==
    /\ DOMAIN group.model = Models(conf.group)
    /\ \A r \in Models(conf.group) : group.model[r].replay = Remembered(conf, results, r)
    /\ Due => group.task = TaskFor(group, Steps(bench.task))

MemoryInv ==
    /\ LedgerInv /\ TasksInv
    /\ \E S : results \in Seq(S)
    /\ bench.phase = "idle" => results = << >>
    /\ Due => bench.task \in 1 .. NTasks
    /\ Remembering => Memory

(* A policy that has seen no task remembers none. *)
LEMMA NothingRemembered ==
    ASSUME NEW c, NEW r
    PROVE  Remembered(c, << >>, r) = << >>
<1> DEFINE rs == << >>
           s == SeenBy(c, rs, r)
           w == Newest(s)
<1>1. s \in Seq({}) /\ Len(s) = 0
  <2>1. DOMAIN rs = {}
    OBVIOUS
  <2>2. s = [k \in 1 .. Cardinality({}) |->
               [t \in {} |-> t][CHOOSE i \in {} : Cardinality({j \in {} : j <= i}) = k]]
    BY <2>1 DEF SeenBy, Picked
  <2>3. s = << >>
    BY <2>2, FS_EmptySet
  <2>4. << >> \in Seq({}) /\ Len(<< >>) = 0
    OBVIOUS
  <2> QED
    BY <2>3, <2>4, Zenon
<1>2. DOMAIN w = 1 .. 0
  <2> HIDE DEF s
  <2>1. DOMAIN Newest(s) = 1 .. IF Len(s) <= REPLAY_CAP THEN Len(s) ELSE REPLAY_CAP
    BY <1>1, NewestIs
  <2> QED
    BY <1>1, <2>1, ArmBounds
<1>3. Remembered(c, rs, r) = [i \in DOMAIN w |-> OutcomeOf(c, rs[w[i]], r)]
  BY DEF Remembered
<1> HIDE DEF w
<1> QED
  BY <1>2, <1>3

(* The invariant is at least the property. *)
LEMMA MemoryGives == MemoryInv => ModelsSeeTheirSteps
<1> SUFFICES ASSUME MemoryInv, bench.phase \in {"begin", "done"}, Workflow,
                    conf.policy = "group", conf.signal # "performance", ~conf.group.shared
             PROVE  ModelsSeeTheirSteps
  BY DEF ModelsSeeTheirSteps
<1>1. Memory
  BY DEF MemoryInv, Remembering, Grouping
<1> DEFINE width == conf.group.n_bits
           InRange(t) == \A s \in results[t].steps : s.role < conf.group.n_roles
           Mine(t, r) == {s \in results[t].steps : s.role = r /\ s.bit < width}
           Met(t)   == IF conf.signal = "both" THEN results[t].performed ELSE results[t].covered
           Seen(r)  == Picked([t \in DOMAIN results |-> t],
                              {t \in DOMAIN results : width = Bits /\ InRange(t) /\ Mine(t, r) # {}})
           Outcome(t, r) == [b \in Bit |-> IF Step(b, r) \notin Mine(t, r) THEN "no_obs"
                                           ELSE IF Step(b, r) \in Met(t) THEN "success" ELSE "failure"]
           Window(s) == SubSeq(s, Max({1, Len(s) - REPLAY_CAP + 1}), Len(s))
<1>2. ASSUME NEW r \in DOMAIN group.model
      PROVE  group.model[r].replay
               = [i \in DOMAIN Window(Seen(r)) |-> Outcome(Window(Seen(r))[i], r)]
  <2>1. group.model[r].replay = Remembered(conf, results, r)
    BY <1>1 DEF Memory
  <2>2. SeenBy(conf, results, r) = Seen(r)
    BY DEF SeenBy, IsSeen, KnowsRoles, MineOf
  <2>3. Newest(Seen(r)) = Window(Seen(r))
    BY DEF Newest
  <2>4. \A t : OutcomeOf(conf, results[t], r) = Outcome(t, r)
    BY DEF OutcomeOf, MineOf, MetOf
  <2> HIDE DEF Seen, Window, Outcome
  <2> QED
    BY <2>1, <2>2, <2>3, <2>4 DEF Remembered
<1> QED
  BY <1>2 DEF ModelsSeeTheirSteps

(* new: no task, no memory. *)
LEMMA MemoryStart ==
    ASSUME MemoryInv, LedgerInv', TasksInv', NEW config \in BenchConfigs, Start(config)
    PROVE  MemoryInv'
<1>1. BenchShape' /\ bench.phase = "idle" /\ conf' = config
  BY ShapeStart DEF MemoryInv, LedgerInv
<1>2. results' = results /\ results = << >>
  BY <1>1 DEF MemoryInv, Start
<1>3. bench'.phase \in {"refused", "draw"}
  <2>1. DOMAIN bench = BenchFields /\ "phase" \in BenchFields
    BY DEF MemoryInv, LedgerInv, BenchShape, BenchFields
  <2> QED
    BY <2>1 DEF Start
<1>4. ~Due'
  BY <1>3 DEF Due
<1>5. ASSUME Remembering' PROVE Memory'
  <2> DEFINE refused == \/ NeedsPerformance(config.signal) /\ ~config.perf
                        \/ config.policy = "group" /\ ~Accepted(config.group)
  <2>1. /\ bench' = [bench EXCEPT !.phase = IF refused THEN "refused" ELSE "draw"]
        /\ group' = IF config.policy = "group" /\ ~refused THEN NewGroup(config.group) ELSE group
    BY DEF Start
  <2>2. config.policy = "group" /\ bench'.phase # "refused"
    BY <1>1, <1>5 DEF Remembering, Grouping
  <2>3. DOMAIN bench = BenchFields /\ "phase" \in BenchFields
    BY DEF MemoryInv, LedgerInv, BenchShape, BenchFields
  <2> HIDE DEF refused
  <2>4. group' = NewGroup(config.group)
    BY <2>1, <2>2, <2>3
  <2>5. group'.model = [m \in Models(config.group) |-> NewModel]
    BY <2>4 DEF NewGroup
  <2>6. \A r \in Models(config.group) :
           group'.model[r].replay = << >> /\ Remembered(config, << >>, r) = << >>
    BY <2>5, NothingRemembered DEF NewModel
  <2> QED
    BY <1>1, <1>2, <1>4, <2>5, <2>6 DEF Memory
<1> QED
  BY <1>2, <1>3, <1>4, <1>5 DEF MemoryInv

(* Whatever leaves the results, the models and the task in force.           *)
LEMMA MemoryKept ==
    ASSUME MemoryInv, LedgerInv', TasksInv', bench.phase # "idle", bench'.phase # "idle",
           results' = results, conf' = conf, Due' => Due /\ instance.tasks' = instance.tasks,
           Due' => bench'.task = bench.task,
           Grouping' => Grouping /\ group'.config = group.config /\ group'.model = group.model
                           /\ group'.task = group.task
    PROVE  MemoryInv'
<1>1. Remembering' => Remembering
  BY DEF Remembering, Workflow
<1>2. Due' => Steps(bench.task)' = Steps(bench.task)
  BY DEF Steps, Task, Workflow
<1>3. ASSUME Remembering' PROVE Memory'
  <2>1. Memory /\ group'.config = group.config /\ group'.model = group.model
        /\ group'.task = group.task
    BY <1>1, <1>3 DEF MemoryInv, Remembering
  <2>2. ASSUME NEW steps PROVE TaskFor(group', steps) = TaskFor(group, steps)
    BY <2>1 DEF TaskFor, DemandOf
  <2> QED
    BY <1>2, <2>1, <2>2 DEF Memory
<1> QED
  BY <1>3 DEF MemoryInv

(* begin_task: another task in force, the models as they were. *)
LEMMA MemoryBegins ==
    ASSUME MemoryInv, LedgerInv', TasksInv', BeginTasks
    PROVE  MemoryInv'
<1> DEFINE t == bench.task + 1
<1>1. /\ bench.phase = "begin" /\ bench.task < NTasks /\ UNCHANGED <<instance, results>>
      /\ bench' = [bench EXCEPT !.task = t, !.phase = "join", !.pos = 2,
                                !.members = <<Task(t).arrival[1]>>]
      /\ group' = IF conf.policy = "group" THEN BeginTask(group, Steps(t)) ELSE group
  BY DEF BeginTasks
<1>2. DOMAIN bench = BenchFields /\ bench.task \in Nat
  BY DEF MemoryInv, LedgerInv, BenchShape
<1>3. bench'.task = t /\ bench'.phase = "join" /\ t \in 1 .. NTasks
  BY <1>1, <1>2, BenchBounds DEF BenchFields
<1> HIDE DEF t
<1>4. conf' = conf /\ Workflow' = Workflow /\ Steps(bench.task)' = Steps(t)
  BY <1>1, <1>3 DEF conf, Workflow, Steps, Task
<1>5. ASSUME Remembering' PROVE Memory'
  <2>1. Grouping /\ Remembering /\ conf.policy = "group"
    BY <1>1, <1>4, <1>5 DEF Remembering, Grouping
  <2>2. Memory /\ GroupTyped(group, conf.group)
    BY <2>1 DEF MemoryInv, LedgerInv, Ledger
  <2> DEFINE S == Steps(t)
  <2>3. group' = BeginTask(group, S)
    BY <1>1, <2>1
  <2> HIDE DEF S
  <2>4. group'.model = group.model /\ group'.task = TaskFor(group, S)
    BY <2>2, <2>3, BeginsTask
  <2>5. group'.config = group.config
    BY <1>4, <1>5, <2>2 DEF LedgerInv, Ledger, GroupTyped, Remembering
  <2>6. TaskFor(group', S) = TaskFor(group, S)
    BY <2>5 DEF TaskFor, DemandOf
  <2> QED
    BY <1>1, <1>4, <2>2, <2>4, <2>6 DEF Memory, S
<1> QED
  BY <1>1, <1>3, <1>5 DEF MemoryInv, Due

(* A decision asks the models and teaches them nothing. *)
LEMMA MemoryAsked ==
    ASSUME MemoryInv, LedgerInv', TasksInv', JoinNext \/ LeaveNext
    PROVE  MemoryInv'
<1>1. /\ bench.phase \in {"join", "leave"} /\ UNCHANGED <<instance, results>>
      /\ DOMAIN bench = BenchFields /\ {"phase", "task"} \subseteq BenchFields
  BY DEF JoinNext, LeaveNext, MemoryInv, LedgerInv, BenchShape, BenchFields
<1>2. bench'.phase = bench.phase /\ bench'.task = bench.task
  BY <1>1 DEF JoinNext, LeaveNext
<1>3. conf' = conf
  BY <1>1 DEF conf
<1>4. \/ group' = group
      \/ \E leave \in BOOLEAN : \E a, act : GroupDecides(leave, a, Present, act)
  BY DEF JoinNext, LeaveNext, Decides, RefDecides, AifDecides, AnyDecides
<1>5. ASSUME Grouping'
      PROVE  Grouping /\ group'.config = group.config /\ group'.model = group.model
                /\ group'.task = group.task
  <2>1. Grouping
    BY <1>2, <1>3, <1>5 DEF Grouping
  <2>2. GroupTyped(group, conf.group) /\ ReadsOK(group) /\ GroupTyped(group', conf.group)
    BY <1>3, <1>5, <2>1 DEF MemoryInv, LedgerInv, Ledger
  <2>3. group'.config = group.config
    BY <2>2 DEF GroupTyped
  <2>4. ASSUME NEW leave \in BOOLEAN, NEW a, NEW act, GroupDecides(leave, a, Present, act)
        PROVE  group'.model = group.model /\ group'.task = group.task
    <3> DEFINE S == Present
               gconf == conf.group
    <3>1. gconf.n_roles \in Nat /\ GroupTyped(group, gconf) /\ GroupDecides(leave, a, S, act)
      BY <2>1, <2>2, <2>4, RolesOK DEF MemoryInv, LedgerInv
    <3> HIDE DEF S, gconf
    <3>2. SameLearning(group, group')
      BY <2>2, <3>1, GroupDecidesFacts
    <3> QED
      BY <3>2 DEF SameLearning
  <2> QED
    BY <1>4, <2>1, <2>3, <2>4
<1>6. /\ bench.phase # "idle" /\ bench'.phase # "idle" /\ Due' = Due
      /\ results' = results /\ instance.tasks' = instance.tasks
  BY <1>1, <1>2 DEF Due
<1> QED
  BY <1>2, <1>3, <1>5, <1>6, MemoryKept

(* observe_outcome: the task that ends becomes the newest memory. *)
LEMMA MemoryScored ==
    ASSUME MemoryInv, LedgerInv', TasksInv', ScoreTask
    PROVE  MemoryInv'
<1> DEFINE t == bench.task
           members == Present
           end == TaskEnd(t, members)
<1>1. /\ bench.phase = "leave" /\ UNCHANGED instance /\ results' = Append(results, end)
      /\ \E accepts, q :
            /\ group' = IF conf.policy = "group" THEN ObserveGroup(group, Signal(t, end), accepts)
                        ELSE group
            /\ bench' = [bench EXCEPT !.phase = IF t < NTasks THEN "begin" ELSE "done",
                                      !.missed = q]
  BY DEF ScoreTask
<1>2. DOMAIN bench = BenchFields /\ "phase" \in BenchFields
  BY DEF MemoryInv, LedgerInv, BenchShape, BenchFields
<1>3. bench'.phase \in {"begin", "done"}
  BY <1>1, <1>2
<1>4. conf' = conf /\ Workflow' = Workflow
  BY <1>1 DEF conf, Workflow
<1>5. PICK S : results \in Seq(S)
  BY DEF MemoryInv
<1>6. results \in Seq(S \cup {end}) /\ results' \in Seq(S \cup {end})
  <2> HIDE DEF end
  <2>1. results \in Seq(S \cup {end})
    BY <1>5
  <2> QED
    BY <1>1, <2>1
<1>7. ~Due' /\ Due /\ t \in 1 .. NTasks
  BY <1>1, <1>3 DEF Due, MemoryInv
<1>8. ASSUME Remembering' PROVE Memory'
  <2>1. Grouping /\ Remembering /\ Workflow /\ conf.policy = "group"
    BY <1>1, <1>4, <1>8 DEF Remembering, Grouping
  <2>2. Memory /\ GroupTyped(group, conf.group) /\ BenchShape
    BY <2>1 DEF MemoryInv, LedgerInv, Ledger
  <2>3. /\ conf.signal \in Signals /\ conf.signal # "performance" /\ ~conf.group.shared
        /\ conf.group.n_roles \in Nat
    BY <1>1, <2>1, <2>2, SignalsOK, RolesOK DEF BenchShape, Remembering
  <2>4. Task(t).written \in DrawShape(TaggedSteps(Task(t).tags))
    <3>1. Len(instance.tasks) = NTasks /\ Unwritten = {}
      BY <1>1, <2>1 DEF MemoryInv, TasksInv, RunPhases
    <3>2. t \in DOMAIN instance.tasks
      BY <1>7, <3>1 DEF MemoryInv, TasksInv
    <3> QED
      BY <3>1, <3>2 DEF MemoryInv, TasksInv, Unwritten, Draft, Task
  <2>5. group.task = TaskFor(group, Steps(t)) /\ DOMAIN group.model = Models(conf.group)
    BY <1>7, <2>2 DEF Memory
  <2>6. PICK accepts : group' = ObserveGroup(group, Signal(t, end), accepts)
    BY <1>1, <2>1
  <2> HIDE DEF t, members
  <2>7. /\ DOMAIN group'.model = Models(conf.group)
        /\ \A r \in Models(conf.group) :
              LET old == group.model[r].replay
              IN  group'.model[r].replay
                    = IF IsSeen(conf, end, r)
                      THEN Append(IF Len(old) = REPLAY_CAP THEN Tail(old) ELSE old,
                                  OutcomeOf(conf, end, r))
                      ELSE old
    BY <2>1, <2>2, <2>3, <2>4, <2>5, <2>6, ScoreLearns
  <2> HIDE DEF end
  <2>8. ASSUME NEW r \in Models(conf.group)
        PROVE  group'.model[r].replay = Remembered(conf, results', r)
    <3>1. group.model[r].replay = Remembered(conf, results, r)
      BY <2>2 DEF Memory
    <3> DEFINE old == Remembered(conf, results, r)
               c == conf
    <3>2. Remembered(c, Append(results, end), r)
            = IF IsSeen(c, end, r)
              THEN Append(IF Len(old) = REPLAY_CAP THEN Tail(old) ELSE old, OutcomeOf(c, end, r))
              ELSE old
      <4>1. end \in S \cup {end}
        OBVIOUS
      <4> HIDE DEF c
      <4> QED
        BY <1>6, <4>1, RememberedGrows DEF c
    <3> QED
      BY <1>1, <2>7, <3>1, <3>2
  <2> QED
    BY <1>4, <1>7, <2>7, <2>8 DEF Memory
<1> QED
  BY <1>3, <1>6, <1>7, <1>8 DEF MemoryInv
(* An idle bench. *)
LEMMA MemoryInitial == BenchInit => MemoryInv
<1> SUFFICES ASSUME BenchInit PROVE MemoryInv
  OBVIOUS
<1>1. /\ LedgerInv /\ bench.phase = "idle" /\ results = << >> /\ instance.tasks = << >>
  BY LedgerInitial DEF BenchInit, NoBench
<1>2. << >> \in Seq({}) /\ DOMAIN << >> = {}
  OBVIOUS
<1> QED
  BY <1>1, <1>2 DEF MemoryInv, TasksInv, Remembering, Grouping, Due, RunPhases

(* Every step of the bench and of the other thread keeps the memory. *)
LEMMA MemoryNextStep == MemoryInv /\ [BenchNext]_benchvars => MemoryInv'
<1> SUFFICES ASSUME MemoryInv, [BenchNext]_benchvars PROVE MemoryInv'
  OBVIOUS
<1>1. LedgerInv' /\ TasksInv'
  BY LedgerNextStep, TasksNextStep DEF MemoryInv, LedgerInv
<1>2. ASSUME NEW config \in BenchConfigs, Start(config) PROVE MemoryInv'
  BY <1>1, <1>2, MemoryStart
<1>3. CASE Generates
  <2>1. /\ BenchShape' /\ conf' = conf /\ Due' = Due
        /\ bench.phase \notin {"idle", "refused"} /\ bench'.task = bench.task
        /\ group' = group
    BY <1>3, GenerateFacts DEF MemoryInv, LedgerInv
  <2>2. results' = results
    BY <1>3 DEF Generates, DrawTask, DrawShapes, DrawPerformance, JoinsEnd
  <2>3. Due' => instance' = instance
    <3>1. Due' => bench.phase \in {"join", "leave"}
      BY <2>1 DEF Due
    <3> QED
      BY <1>3, <3>1 DEF Generates, DrawTask, DrawShapes, DrawPerformance, JoinsEnd
  <2>4. bench'.phase # "idle"
    <3>1. DOMAIN bench = BenchFields /\ "phase" \in BenchFields /\ "attempts" \in BenchFields
      BY DEF MemoryInv, LedgerInv, BenchShape, BenchFields
    <3> QED
      BY <1>3, <2>1, <3>1 DEF Generates, DrawTask, DrawShapes, DrawPerformance, JoinsEnd
  <2>5. Grouping' => Grouping
    BY <2>1 DEF Grouping
  <2> QED
    BY <1>1, <2>1, <2>2, <2>3, <2>4, <2>5, MemoryKept
<1>4. CASE BeginTasks
  BY <1>1, <1>4, MemoryBegins
<1>5. CASE JoinNext \/ LeaveNext
  BY <1>1, <1>5, MemoryAsked
<1>6. CASE ScoreTask
  BY <1>1, <1>6, MemoryScored
<1>7. ASSUME Running, UNCHANGED <<instance, bench, results>>, SameLearning(group, group')
      PROVE  MemoryInv'
  <2>1. Grouping /\ bench.phase # "idle" /\ conf' = conf
    BY <1>7 DEF Running, Grouping, conf
  <2>2. Grouping'
    BY <1>7, <2>1 DEF Grouping
  <2>3. group'.config = group.config
    BY <1>1, <2>1, <2>2 DEF MemoryInv, LedgerInv, Ledger, GroupTyped
  <2>4. /\ bench'.phase # "idle" /\ Due' = Due /\ bench'.task = bench.task
        /\ results' = results /\ instance.tasks' = instance.tasks
    BY <1>7, <2>1 DEF Due
  <2>5. group'.model = group.model /\ group'.task = group.task
    BY <1>7 DEF SameLearning
  <2> QED
    BY <1>1, <2>1, <2>3, <2>4, <2>5, MemoryKept
<1>8. CASE OtherStarts
  <2>1. GroupTyped(group, conf.group)
    BY <1>8 DEF OtherStarts, Running, MemoryInv, LedgerInv, Ledger, Grouping
  <2>2. group' = DecideStarts(group, KnownRoles, PoolAgents)
    BY <1>8 DEF OtherStarts
  <2>3. SameLearning(group, group')
    BY <2>1, <2>2, StartsFacts
  <2> QED
    BY <1>7, <1>8, <2>3 DEF OtherStarts
<1>9. ASSUME NEW ok \in BOOLEAN, OtherEnds(ok) PROVE MemoryInv'
  <2> DEFINE ask == other.ask
             last == Max(other.ask.roster)
             gconf == conf.group
  <2>1. GroupTyped(group, gconf) /\ ReadsOK(group) /\ GoodAsk(ask, gconf)
    BY <1>9 DEF OtherEnds, Running, MemoryInv, LedgerInv, Ledger, Grouping
  <2>2. group' = DecideEnds(group, ask, ok, last)
    BY <1>9 DEF OtherEnds
  <2> HIDE DEF ask, last, gconf
  <2>3. SameLearning(group, group')
    BY <2>1, <2>2, EndsFacts
  <2> QED
    BY <1>7, <1>9, <2>3 DEF OtherEnds
<1>10. CASE UNCHANGED benchvars
  <2>1. UNCHANGED <<instance, bench, results, group>>
    BY <1>10 DEF benchvars
  <2> QED
    BY <1>1, <2>1 DEF MemoryInv, Memory, Remembering, Grouping, Due, conf, Workflow, Steps, Task
<1> QED
  BY <1>2, <1>3, <1>4, <1>5, <1>6, <1>8, <1>9, <1>10 DEF BenchNext, Generates

(* In every state. *)
LEMMA MemoryInvHolds == BenchSpec => []MemoryInv
<1> QED
  BY MemoryInitial, MemoryNextStep, PTL DEF BenchSpec

(***************************************************************************)
(* What a role's model has learned (group_policy.rs: begin_task and        *)
(* observe_outcome; workflow.rs: the outcome signal), on a workflow, with  *)
(* a model per role and a signal made of steps.  Its window holds          *)
(* the outcomes of the last REPLAY_CAP tasks it was rostered on, in order, *)
(* each bit a success just when that role's step on the bit was met; no    *)
(* other role's bit, no task it was not rostered on and no earlier task's  *)
(* demand ever enters it, whatever the policy is asked in between, also by *)
(* a second thread, and whichever updates the engine refuses.  For any     *)
(* pool, roles, bits, tasks and window.                                    *)
(***************************************************************************)
THEOREM ModelsAlwaysSeeTheirSteps == BenchSpec => []ModelsSeeTheirSteps
<1> QED
  BY MemoryInvHolds, MemoryGives, PTL

-----------------------------------------------------------------------------
(***************************************************************************)
(* Rewriting (WorkflowRewrite).  First the rules of the theory: a fused    *)
(* bit is a remainder, and the rules of a role are numbered by quotient    *)
(* and remainder.                                                          *)
(***************************************************************************)
(* fusion_target: a sum with the bit -4 in it leaves the other bit. *)
LEMMA Unfused ==
    ASSUME NEW c \in Bit
    PROVE  /\ FusionTarget(Obstruction, c) = c
           /\ FusionTarget(c, Obstruction) = c
<1> DEFINE d == Bits
           o == Obstruction
           q == (d - 4) \div d
           r == (o + c + 4) % d
           p == (o + c + 4) \div d
<1>0. d \in Nat \ {0} /\ c \in 0 .. d - 1
  BY ShapeAssumption DEF Bit
<1>1. q \in Int /\ o \in 0 .. d - 1 /\ d - 4 = d * q + o
  BY <1>0, DivMod DEF Obstruction
<1> HIDE DEF o, q, d
<1>2. o + c + 4 \in Int
  BY <1>0, <1>1
<1>3. p \in Int /\ r \in 0 .. d - 1 /\ o + c + 4 = d * p + r
  BY <1>0, <1>2, DivMod
<1>4. c + o + 4 = o + c + 4
  BY <1>0, <1>1
<1> HIDE DEF r, p
<1>5. d * (1 - q) = d - d * q
  BY <1>0, <1>1
<1>6. d * p + r = d * (1 - q) + c
  BY <1>0, <1>1, <1>3, <1>5
<1>7. r = c
  BY <1>0, <1>1, <1>3, <1>6, OneRemainder
<1> QED
  BY <1>4, <1>7 DEF o, r, d, FusionTarget

-----------------------------------------------------------------------------
(* The rules are what the theory says: two that keep the step, and fusions  *)
(* of two distinct bits of one role, neither of them the obstruction.       *)
GoodRule(rule) ==
    /\ rule.target \in StepSet
    /\ \/ rule.schema \in {"idempotence", "absorption"} /\ rule.sources = <<rule.target, rule.target>>
       \/ /\ rule.schema = "fusion"
          /\ \E b, c \in Bit : /\ rule.sources = <<Step(b, rule.target.role), Step(c, rule.target.role)>>
                               /\ b # Obstruction /\ c # Obstruction

(* The fused pairs are pairs of bits without the obstruction. *)
LEMMA PairFacts ==
    /\ Len(FusionPairs) \in Nat
    /\ \A k \in 1 .. Len(FusionPairs) :
          LET p == FusionPairs[k]
          IN  /\ p = <<p[1], p[2]>> /\ p[1] \in Bit /\ p[2] \in Bit
              /\ p[1] # Obstruction /\ p[2] # Obstruction
<1> DEFINE n == Bits * Bits
           kept == {i \in DOMAIN BitPairs : Fuses(BitPairs[i])}
<1>1. n \in Nat
  BY ShapeAssumption
<1> HIDE DEF n
<1>2. BitPairs = [i \in 1 .. n |-> <<(i - 1) \div Bits, (i - 1) % Bits>>] /\ DOMAIN BitPairs = 1 .. n
  BY DEF BitPairs, n
<1>3. ASSUME NEW i \in 1 .. n
      PROVE  (i - 1) \div Bits \in Bit /\ (i - 1) % Bits \in Bit
  <2>1. Bits \in Nat \ {0} /\ i - 1 \in Nat /\ i - 1 < Bits * Bits
    BY <1>1, ShapeAssumption DEF n
  <2>2. (i - 1) % Bits \in 0 .. Bits - 1
    BY <2>1, DivMod, SMTT(30)
  <2> QED
    BY <2>1, <2>2, DivBelow DEF Bit
<1>4. BitPairs \in Seq(Bit \X Bit) /\ Len(BitPairs) = n
  BY <1>1, <1>2, <1>3
<1>5. kept \in SUBSET (1 .. n) /\ \A i \in kept : Fuses(BitPairs[i])
  BY <1>2
<1>6. ASSUME NEW i \in kept
      PROVE  LET p == BitPairs[i]
             IN  /\ p = <<p[1], p[2]>> /\ p[1] \in Bit /\ p[2] \in Bit
                 /\ p[1] # Obstruction /\ p[2] # Obstruction
  <2> DEFINE p == BitPairs[i]
  <2>1. p = <<p[1], p[2]>> /\ p[1] \in Bit /\ p[2] \in Bit
    BY <1>2, <1>3, <1>5
  <2>2. Fuses(p)
    BY <1>5
  <2> HIDE DEF p
  <2>3. p[1] # Obstruction /\ p[2] # Obstruction
    BY <2>1, <2>2, Unfused DEF Fuses
  <2> QED
    BY <2>1, <2>3 DEF p
<1>7. FusionPairs = Picked(BitPairs, kept)
  BY DEF FusionPairs
<1> HIDE DEF kept
<1>8. /\ FusionPairs \in Seq(Bit \X Bit)
      /\ Range(FusionPairs) = {BitPairs[i] : i \in kept}
  BY <1>4, <1>5, <1>7, PickedFacts
<1>9. ASSUME NEW k \in 1 .. Len(FusionPairs) PROVE \E i \in kept : FusionPairs[k] = BitPairs[i]
  <2>1. FusionPairs[k] \in Range(FusionPairs)
    BY <1>8 DEF Range
  <2> QED
    BY <1>8, <2>1
<1> QED
  BY <1>6, <1>8, <1>9

(* Every rule of the theory is one of those. *)
LEMMA RuleFacts ==
    /\ DOMAIN RuleTheory \subseteq Nat \ {0}
    /\ \A i \in DOMAIN RuleTheory : GoodRule(RuleTheory[i])
<1> DEFINE n == Roles * Bits
           m == Roles * Len(FusionPairs)
<1>0. Roles \in Nat \ {0} /\ Bits \in Nat \ {0} /\ Len(FusionPairs) \in Nat
  BY ShapeAssumption, PairFacts
<1>1. n \in Nat /\ m \in Nat
  BY <1>0
<1>2. ASSUME NEW schema \in {"idempotence", "absorption"}, NEW i \in 1 .. n
      PROVE  GoodRule(OneStepRules(schema)[i])
  <2> DEFINE s == Step((i - 1) % Bits, (i - 1) \div Bits)
  <2>1. OneStepRules(schema)[i] = Label(schema, s, s, s)
    BY DEF OneStepRules
  <2>2. i - 1 \in Nat /\ i - 1 < Roles * Bits
    BY <1>1
  <2>3. (i - 1) % Bits \in Bit /\ (i - 1) \div Bits \in RoleIds
    <3>1. (i - 1) % Bits \in 0 .. Bits - 1
      BY <1>0, <2>2, DivMod
    <3>2. (i - 1) \div Bits \in 0 .. Roles - 1
      BY <1>0, <2>2, DivBelow
    <3> QED
      BY <3>1, <3>2 DEF Bit, RoleIds
  <2>4. s \in StepSet
    BY <2>3 DEF Step, StepSet
  <2> HIDE DEF s
  <2> QED
    BY <2>1, <2>4 DEF GoodRule, Label
<1>3. ASSUME NEW i \in 1 .. m PROVE GoodRule(FusionRules[i])
  <2> DEFINE l == Len(FusionPairs)
             k == ((i - 1) % l) + 1
             r == (i - 1) \div l
             p == FusionPairs[k]
             t == FusionTarget(p[1], p[2])
  <2>1. l \in Nat \ {0}
    <3>1. l # 0
      BY <1>0, <1>1
    <3> QED
      BY <1>0, <3>1
  <2>2. FusionRules[i] = Label("fusion", Step(p[1], r), Step(p[2], r), Step(t, r))
    BY DEF FusionRules
  <2>3. i - 1 \in Nat /\ i - 1 < Roles * l
    BY <1>1
  <2> HIDE DEF l
  <2>4. r \in RoleIds
    BY <1>0, <2>1, <2>3, DivBelow DEF RoleIds
  <2>5. k \in 1 .. l
    <3>1. (i - 1) % l \in 0 .. l - 1
      BY <2>1, <2>3, DivMod
    <3> QED
      BY <2>1, <3>1
  <2>6. /\ p[1] \in Bit /\ p[2] \in Bit /\ p[1] # Obstruction /\ p[2] # Obstruction
    <3> HIDE DEF k
    <3> QED
      BY <2>5, PairFacts DEF l
  <2> HIDE DEF p, r
  <2>7. t \in Bit
    <3>1. p[1] + p[2] + 4 \in Int
      BY <2>6, <1>0 DEF Bit
    <3>2. (p[1] + p[2] + 4) % Bits \in 0 .. Bits - 1
      BY <1>0, <3>1, DivMod
    <3> QED
      BY <3>2 DEF FusionTarget, Bit
  <2> HIDE DEF t
  <2>8. Step(t, r) \in StepSet /\ Step(t, r).role = r
    BY <2>4, <2>7 DEF Step, StepSet
  <2> QED
    BY <2>2, <2>6, <2>8 DEF GoodRule, Label
<1> DEFINE A == OneStepRules("idempotence")
           B == FusionRules
           C == OneStepRules("absorption")
           G == {x \in {A[i] : i \in 1 .. n} \cup {B[i] : i \in 1 .. m} \cup {C[i] : i \in 1 .. n} :
                   GoodRule(x)}
<1>4. /\ A = [i \in 1 .. n |-> A[i]] /\ B = [i \in 1 .. m |-> B[i]] /\ C = [i \in 1 .. n |-> C[i]]
  BY DEF OneStepRules, FusionRules
<1>5. /\ \A i \in 1 .. n : A[i] \in G /\ C[i] \in G
      /\ \A i \in 1 .. m : B[i] \in G
  BY <1>2, <1>3
<1>6. \A x \in G : GoodRule(x)
  OBVIOUS
<1>7. RuleTheory = A \o B \o C
  BY DEF RuleTheory
<1> HIDE DEF A, B, C, G, n, m
<1>8. A \in Seq(G) /\ B \in Seq(G) /\ C \in Seq(G)
  <2>1. A \in [1 .. n -> G] /\ B \in [1 .. m -> G] /\ C \in [1 .. n -> G]
    BY <1>4, <1>5
  <2> QED
    BY <1>1, <2>1
<1>9. RuleTheory \in Seq(G)
  BY <1>7, <1>8
<1>10. DOMAIN RuleTheory \subseteq Nat \ {0} /\ \A i \in DOMAIN RuleTheory : RuleTheory[i] \in G
  BY <1>9
<1> QED
  BY <1>6, <1>10

-----------------------------------------------------------------------------
(* Writings: for every role a list of cells.                                *)
Cells == [bit : Bit, wide : BOOLEAN]
WellWritten == [RoleIds -> Seq(Cells)]

(* What a match says of a leg and a rewrite makes of it. *)
LEMMA RewriteFacts ==
    ASSUME NEW rule, GoodRule(rule), NEW w \in WellWritten, NEW i \in Nat \ {0}, Matches(w, rule, i)
    PROVE  LET r   == rule.target.role
               v   == Rewrite(w, rule, i)
               leg == w[r]
               new == v[r]
               n   == Len(LeftSide(rule))
           IN  /\ r \in RoleIds /\ v \in WellWritten /\ \A q \in RoleIds \ {r} : v[q] = w[q]
               /\ n \in {1, 2} /\ Len(leg) \in Nat
               /\ i + n - 1 <= Len(leg) /\ Len(new) = Len(leg) - n + 1
               /\ \A j \in 1 .. i - 1 : new[j] = leg[j]
               /\ new[i] = Cell(rule.target.bit, FALSE)
               /\ \A j \in i + 1 .. Len(new) : new[j] = leg[j + n - 1]
               /\ n = 1 => leg[i] = Cell(rule.target.bit, TRUE) /\ rule.schema # "fusion"
               /\ n = 2 => /\ leg[i].wide = FALSE /\ leg[i + 1].wide = FALSE
                           /\ rule.schema # "fusion" => /\ leg[i].bit = rule.target.bit
                                                        /\ leg[i + 1].bit = rule.target.bit
                           /\ rule.schema = "fusion" => /\ leg[i].bit # Obstruction
                                                        /\ leg[i + 1].bit # Obstruction
<1> DEFINE r   == rule.target.role
           v   == Rewrite(w, rule, i)
           leg == w[r]
           left == LeftSide(rule)
           n   == Len(left)
           c   == Cell(rule.target.bit, FALSE)
<1>1. r \in RoleIds /\ rule.target.bit \in Bit
  BY DEF GoodRule, StepSet
<1>2. leg \in Seq(Cells) /\ Len(leg) \in Nat /\ c \in Cells
  <2>1. leg \in Seq(Cells)
    BY <1>1 DEF WellWritten
  <2>2. c \in Cells
    BY <1>1 DEF Cells, Cell
  <2> HIDE DEF leg, c
  <2> QED
    BY <2>1, <2>2
<1>3. i + n - 1 <= Len(leg) /\ SubSeq(leg, i, i + n - 1) = left
  BY DEF Matches
<1>4. \/ n = 1 /\ left = <<Cell(rule.target.bit, TRUE)>> /\ rule.schema # "fusion"
      \/ /\ n = 2 /\ rule.schema # "fusion"
         /\ left = <<Cell(rule.target.bit, FALSE), Cell(rule.target.bit, FALSE)>>
      \/ /\ n = 2 /\ rule.schema = "fusion"
         /\ \E b, d \in Bit : /\ left = <<Cell(b, FALSE), Cell(d, FALSE)>>
                              /\ b # Obstruction /\ d # Obstruction
  <2>1. CASE rule.schema = "idempotence"
    <3>1. rule.sources = <<rule.target, rule.target>>
      BY <2>1 DEF GoodRule
    <3>2. left = Idempotence(rule)
      BY <2>1 DEF LeftSide
    <3>3. left = <<Cell(rule.target.bit, FALSE), Cell(rule.target.bit, FALSE)>>
      BY <3>1, <3>2 DEF Idempotence
    <3> QED
      BY <2>1, <3>3
  <2>2. CASE rule.schema = "absorption"
    <3>1. rule.sources = <<rule.target, rule.target>>
      BY <2>2 DEF GoodRule
    <3>2. left = SpiderAbsorption(rule)
      BY <2>2 DEF LeftSide
    <3>3. left = <<Cell(rule.target.bit, TRUE)>>
      BY <3>1, <3>2 DEF SpiderAbsorption
    <3> QED
      BY <2>2, <3>3
  <2>3. CASE rule.schema = "fusion"
    <3>1. PICK b, d \in Bit : /\ rule.sources = <<Step(b, r), Step(d, r)>>
                              /\ b # Obstruction /\ d # Obstruction
      BY <2>3 DEF GoodRule
    <3>2. left = Fusion(rule)
      BY <2>3 DEF LeftSide
    <3>3. Step(b, r).bit = b /\ Step(d, r).bit = d
      BY DEF Step
    <3>4. rule.sources[1].bit = b /\ rule.sources[2].bit = d
      BY <3>1, <3>3
    <3>5. left = <<Cell(b, FALSE), Cell(d, FALSE)>>
      BY <3>2, <3>4 DEF Fusion
    <3> QED
      BY <2>3, <3>1, <3>5
  <2> QED
    BY <2>1, <2>2, <2>3 DEF GoodRule
<1>5. n \in {1, 2}
  BY <1>4
<1>6. v = [w EXCEPT ![r] = SubSeq(leg, 1, i - 1) \o <<c>> \o SubSeq(leg, i + n, Len(leg))]
  BY DEF Rewrite
<1> HIDE DEF left, n, c, v
<1>7. v[r] = SubSeq(leg, 1, i - 1) \o <<c>> \o SubSeq(leg, i + n, Len(leg))
      /\ (\A q \in RoleIds \ {r} : v[q] = w[q])
  BY <1>1, <1>6 DEF WellWritten
<1>8. /\ v[r] \in Seq(Cells) /\ Len(v[r]) = Len(leg) - n + 1
      /\ \A j \in 1 .. i - 1 : v[r][j] = leg[j]
      /\ v[r][i] = c
      /\ \A j \in i + 1 .. Len(v[r]) : v[r][j] = leg[j + n - 1]
  <2> DEFINE new == v[r]
  <2>1. new = SubSeq(leg, 1, i - 1) \o <<c>> \o SubSeq(leg, i + n, Len(leg))
    BY <1>7
  <2> HIDE DEF new, leg
  <2>2. /\ new \in Seq(Cells) /\ Len(new) = Len(leg) - n + 1
        /\ \A j \in 1 .. i - 1 : new[j] = leg[j]
        /\ new[i] = c
        /\ \A j \in i + 1 .. Len(new) : new[j] = leg[j + n - 1]
    <3> DEFINE u == Splice(leg, i, n, c)
    <3>1. /\ u \in Seq(Cells) /\ Len(u) = Len(leg) - n + 1
          /\ \A j \in 1 .. i - 1 : u[j] = leg[j]
          /\ u[i] = c
          /\ \A j \in i + 1 .. Len(u) : u[j] = leg[j + n - 1]
      <4>1. n \in Nat
        BY <1>5
      <4> QED
        BY <1>2, <1>3, <4>1, Spliced
    <3>2. new = u
      BY <2>1 DEF Splice, Three
    <3> HIDE DEF u
    <3> QED
      BY <3>1, <3>2
  <2> QED
    BY <2>2 DEF new
<1>9. v \in WellWritten
  <2>1. v = [q \in RoleIds |-> v[q]]
    BY <1>6 DEF WellWritten
  <2>2. \A q \in RoleIds : v[q] \in Seq(Cells)
    BY <1>7, <1>8 DEF WellWritten
  <2> QED
    BY <2>1, <2>2 DEF WellWritten
<1>10. /\ leg[i] = left[1]
       /\ n = 2 => leg[i + 1] = left[2]
  <2> HIDE DEF leg
  <2> DEFINE e == i + n - 1
             u == SubSeq(leg, i, e)
  <2>1. e \in Nat /\ i <= e + 1 /\ e - i + 1 = n
    BY <1>5
  <2>2. u = left /\ e <= Len(leg)
    BY <1>3
  <2> HIDE DEF e
  <2>3. \A k \in 1 .. e - i + 1 : u[k] = leg[i + k - 1]
    BY <1>2, <2>1, <2>2, StretchFacts
  <2> HIDE DEF u
  <2>4. \A k \in 1 .. n : left[k] = leg[i + k - 1]
    BY <2>1, <2>2, <2>3
  <2>5. 1 \in 1 .. n /\ (n = 2 => 2 \in 1 .. n) /\ i + 1 - 1 = i /\ i + 2 - 1 = i + 1
    BY <1>5
  <2> QED
    BY <2>4, <2>5
<1>11. /\ n = 1 => leg[i] = Cell(rule.target.bit, TRUE) /\ rule.schema # "fusion"
       /\ n = 2 => /\ leg[i].wide = FALSE /\ leg[i + 1].wide = FALSE
                   /\ rule.schema # "fusion" => /\ leg[i].bit = rule.target.bit
                                                /\ leg[i + 1].bit = rule.target.bit
                   /\ rule.schema = "fusion" => /\ leg[i].bit # Obstruction
                                                /\ leg[i + 1].bit # Obstruction
  <2> DEFINE narrow(b) == Cell(b, FALSE)
             wide == Cell(rule.target.bit, TRUE)
  <2>0. \/ n = 1 /\ left = <<wide>> /\ rule.schema # "fusion"
        \/ /\ n = 2 /\ rule.schema # "fusion"
           /\ left = <<narrow(rule.target.bit), narrow(rule.target.bit)>>
        \/ /\ n = 2 /\ rule.schema = "fusion"
           /\ \E b, d \in Bit : /\ left = <<narrow(b), narrow(d)>>
                                /\ b # Obstruction /\ d # Obstruction
    BY Zenon, <1>4
  <2> HIDE DEF narrow, wide
  <2>1. CASE n = 1
    <3>1. left = <<wide>> /\ rule.schema # "fusion"
      BY <2>0, <2>1
    <3>2. left[1] = wide
      BY <3>1
    <3> QED
      BY <1>10, <2>1, <3>1, <3>2 DEF wide
  <2>2. CASE n = 2 /\ rule.schema # "fusion"
    <3>0. left = <<narrow(rule.target.bit), narrow(rule.target.bit)>>
      BY <2>0, <2>2
    <3>1. left[1] = narrow(rule.target.bit) /\ left[2] = narrow(rule.target.bit)
      BY <3>0
    <3> QED
      BY <1>10, <2>2, <3>1 DEF Cell, narrow
  <2>3. CASE n = 2 /\ rule.schema = "fusion"
    <3>1. PICK b, d \in Bit : /\ left = <<narrow(b), narrow(d)>>
                              /\ b # Obstruction /\ d # Obstruction
      BY <2>0, <2>3
    <3>2. left[1] = narrow(b) /\ left[2] = narrow(d)
      BY <3>1
    <3> QED
      BY <1>10, <2>3, <3>1, <3>2 DEF Cell, narrow
  <2> QED
    BY <1>5, <2>1, <2>2, <2>3
<1> QED
  BY <1>1, <1>2, <1>3, <1>5, <1>7, <1>8, <1>9, <1>11 DEF v, n, c, left

(* A step is demanded just when a cell of its role's leg has its bit. *)
LEMMA DistinctFacts ==
    ASSUME NEW w \in WellWritten
    PROVE  /\ Distinct(w) = {s \in StepSet : \E j \in 1 .. Len(w[s.role]) : w[s.role][j].bit = s.bit}
           /\ \A s \in StepSet : Multiplicity(w, s) \in Nat
<1>1. ASSUME NEW s \in StepSet
      PROVE  /\ Multiplicity(w, s) \in Nat
             /\ Multiplicity(w, s) > 0 <=> \E j \in 1 .. Len(w[s.role]) : w[s.role][j].bit = s.bit
  <2> DEFINE leg == w[s.role]
             cells == {i \in DOMAIN leg : leg[i].bit = s.bit}
             wides == {i \in cells : leg[i].wide}
  <2>1. leg \in Seq(Cells)
    BY DEF WellWritten, StepSet
  <2>2. Len(leg) \in Nat /\ DOMAIN leg = 1 .. Len(leg)
    BY <2>1
  <2>3. IsFiniteSet(1 .. Len(leg))
    <3> HIDE DEF leg
    <3> QED
      BY <2>2, FS_Interval
  <2>4. IsFiniteSet(cells) /\ IsFiniteSet(wides)
    <3>1. cells \subseteq 1 .. Len(leg) /\ wides \subseteq 1 .. Len(leg)
      BY <2>2
    <3> QED
      BY <2>3, <3>1, FS_Subset
  <2>5. wides \subseteq cells
    OBVIOUS
  <2>6. Multiplicity(w, s) = Cardinality(cells) + Cardinality(wides)
    BY DEF Multiplicity
  <2>7. cells # {} <=> \E j \in 1 .. Len(leg) : leg[j].bit = s.bit
    BY <2>2
  <2> HIDE DEF cells, wides, leg
  <2>8. Cardinality(cells) \in Nat /\ Cardinality(wides) \in Nat
        /\ (Cardinality(cells) = 0 <=> cells = {})
        /\ (Cardinality(wides) = 0 <=> wides = {})
    BY <2>4, FS_CardinalityType, FS_EmptySet
  <2>9. Multiplicity(w, s) \in Nat /\ (Multiplicity(w, s) > 0 <=> cells # {})
    BY <2>5, <2>6, <2>8
  <2> QED
    BY <2>7, <2>9 DEF leg
<1> QED
  BY <1>1 DEF Distinct

(* What one rewrite does to the demand. *)
LEMMA DemandMoves ==
    ASSUME NEW rule, GoodRule(rule), NEW w \in WellWritten, NEW i \in Nat \ {0}, Matches(w, rule, i)
    PROVE  LET v      == Rewrite(w, rule, i)
               before == Distinct(w)
               after  == Distinct(v)
           IN  /\ rule.schema # "fusion" => after = before
               /\ after \subseteq before \cup {rule.target}
               /\ {s.role : s \in before} = {s.role : s \in after}
               /\ {s \in before : s.bit = Obstruction} \subseteq after
<1> DEFINE r   == rule.target.role
           v   == Rewrite(w, rule, i)
           leg == w[r]
           new == v[r]
           n   == Len(LeftSide(rule))
           t   == rule.target
           A   == Distinct(v)
           B   == Distinct(w)
           narrow == Cell(t.bit, FALSE)
           wide   == Cell(t.bit, TRUE)
<1>1. /\ r \in RoleIds /\ v \in WellWritten /\ \A q \in RoleIds \ {r} : v[q] = w[q]
      /\ n \in {1, 2} /\ Len(leg) \in Nat
      /\ i + n - 1 <= Len(leg) /\ Len(new) = Len(leg) - n + 1
      /\ \A j \in 1 .. i - 1 : new[j] = leg[j]
      /\ new[i] = narrow
      /\ \A j \in i + 1 .. Len(new) : new[j] = leg[j + n - 1]
      /\ n = 1 => leg[i] = wide /\ rule.schema # "fusion"
      /\ n = 2 => /\ leg[i].wide = FALSE /\ leg[i + 1].wide = FALSE
                  /\ rule.schema # "fusion" => leg[i].bit = t.bit /\ leg[i + 1].bit = t.bit
                  /\ rule.schema = "fusion" => /\ leg[i].bit # Obstruction
                                               /\ leg[i + 1].bit # Obstruction
  BY RewriteFacts
<1>2. /\ t \in StepSet
      /\ \A s \in StepSet : s.role \in RoleIds /\ (s.role = r /\ s.bit = t.bit => s = t)
  BY DEF GoodRule, StepSet
<1> HIDE DEF v
<1>3. /\ A = {s \in StepSet : \E j \in 1 .. Len(v[s.role]) : v[s.role][j].bit = s.bit}
      /\ B = {s \in StepSet : \E j \in 1 .. Len(w[s.role]) : w[s.role][j].bit = s.bit}
  BY <1>1, DistinctFacts
<1>4. new[i].bit = t.bit /\ (n = 1 => leg[i].bit = t.bit)
  <2>1. narrow.bit = t.bit /\ wide.bit = t.bit
    BY DEF Cell
  <2> HIDE DEF narrow, wide, new, leg, n
  <2> QED
    BY <1>1, <2>1
<1> HIDE DEF A, B, n, leg, new, narrow, wide
<1>5. ASSUME NEW s \in StepSet, s.role # r PROVE s \in A <=> s \in B
  <2>1. v[s.role] = w[s.role]
    BY <1>1, <1>2, <1>5
  <2> QED
    BY <1>3, <2>1
<1>6. \A s \in StepSet : s.role = r =>
         /\ s \in A <=> \E j \in 1 .. Len(new) : new[j].bit = s.bit
         /\ s \in B <=> \E j \in 1 .. Len(leg) : leg[j].bit = s.bit
  BY <1>3 DEF new, leg
<1>7. t \in A
  <2>1. i \in 1 .. Len(new)
    BY <1>1
  <2> QED
    BY <1>2, <1>4, <1>6, <2>1
<1>8. ASSUME NEW s \in A PROVE s \in B \/ s = t
  <2>1. s \in StepSet
    BY <1>3
  <2>2. CASE s.role = r
    <3>1. PICK j \in 1 .. Len(new) : new[j].bit = s.bit
      BY <1>6, <2>1, <2>2
    <3>2. CASE j \in 1 .. i - 1
      <4>1. j \in 1 .. Len(leg) /\ leg[j].bit = s.bit
        BY <1>1, <3>1, <3>2
      <4> QED
        BY <1>6, <2>1, <2>2, <4>1
    <3>3. CASE j = i
      BY <1>2, <1>4, <2>1, <2>2, <3>1, <3>3
    <3>4. CASE j \in i + 1 .. Len(new)
      <4>1. j + n - 1 \in 1 .. Len(leg) /\ leg[j + n - 1].bit = s.bit
        BY <1>1, <3>1, <3>4
      <4> QED
        BY <1>6, <2>1, <2>2, <4>1
    <3> QED
      BY <1>1, <3>2, <3>3, <3>4
  <2> QED
    BY <1>5, <2>1, <2>2
<1>9. ASSUME NEW s \in B
      PROVE  s \in A \/ (rule.schema = "fusion" /\ s.bit # Obstruction /\ s.role = r)
  <2>1. s \in StepSet
    BY <1>3
  <2>2. CASE s.role = r
    <3>1. PICK j \in 1 .. Len(leg) : leg[j].bit = s.bit
      BY <1>6, <2>1, <2>2
    <3>2. CASE j \in 1 .. i - 1
      <4>1. j \in 1 .. Len(new) /\ new[j].bit = s.bit
        BY <1>1, <3>1, <3>2
      <4> QED
        BY <1>6, <2>1, <2>2, <4>1
    <3>3. CASE j = i \/ (n = 2 /\ j = i + 1)
      <4>1. leg[j].bit = t.bit \/ (rule.schema = "fusion" /\ leg[j].bit # Obstruction)
        BY <1>1, <1>4, <3>3
      <4> QED
        BY <1>2, <1>7, <2>1, <2>2, <3>1, <4>1
    <3>4. CASE j \in i + n .. Len(leg)
      <4>1. j - n + 1 \in i + 1 .. Len(new) /\ j - n + 1 \in 1 .. Len(new) /\ j - n + 1 + n - 1 = j
        BY <1>1, <3>4
      <4>2. new[j - n + 1].bit = s.bit
        BY <1>1, <3>1, <4>1
      <4> QED
        BY <1>6, <2>1, <2>2, <4>1, <4>2
    <3>5. \/ j \in 1 .. i - 1 \/ j = i \/ (n = 2 /\ j = i + 1) \/ j \in i + n .. Len(leg)
      BY <1>1
    <3> QED
      BY <3>2, <3>3, <3>4, <3>5
  <2> QED
    BY <1>5, <2>1, <2>2
<1>10. \E s \in B : s.role = r /\ (rule.schema # "fusion" => s = t)
  <2> DEFINE s == Step(leg[i].bit, r)
  <2>1. i \in 1 .. Len(leg)
    BY <1>1
  <2>2. leg \in Seq(Cells)
    BY <1>1 DEF leg, WellWritten
  <2>3. leg[i].bit \in Bit
    <3>1. leg[i] \in Cells
      BY <2>1, <2>2
    <3> QED
      BY <3>1 DEF Cells
  <2>4. s \in StepSet /\ s.role = r /\ s.bit = leg[i].bit
    BY <1>1, <2>3 DEF StepSet, Step
  <2> HIDE DEF s
  <2>5. s \in B
    BY <1>6, <2>1, <2>4
  <2>6. rule.schema # "fusion" => s.bit = t.bit
    BY <1>1, <1>4, <2>4
  <2> QED
    BY <1>2, <2>4, <2>5, <2>6
<1>11. rule.schema # "fusion" => A = B
  BY <1>8, <1>9, <1>10
<1>12. {s.role : s \in B} = {s.role : s \in A}
  <2>1. \A s \in A : \E u \in B : u.role = s.role
    BY <1>8, <1>10
  <2>2. \A s \in B : \E u \in A : u.role = s.role
    BY <1>7, <1>9
  <2> QED
    BY <2>1, <2>2
<1> QED
  BY <1>8, <1>9, <1>11, <1>12 DEF A, B, v

-----------------------------------------------------------------------------
(* The cost of a writing, read off its cells.                               *)
LEMMA CellsAreFinite ==
    ASSUME NEW w \in WellWritten
    PROVE  /\ IsFiniteSet(Positions(w)) /\ IsFiniteSet(Wide(w))
           /\ Cardinality(Positions(w)) \in Nat /\ Cardinality(Wide(w)) \in Nat
           /\ \A p : p \in Positions(w) <=>
                        \E q \in RoleIds, j \in Nat : j \in 1 .. Len(w[q]) /\ p = <<q, j>>
           /\ UniformCost(w) = Cardinality(Positions(w)) + 3 * Cardinality(Wide(w))
<1> DEFINE Leg(q) == {<<q, j>> : j \in 1 .. Len(w[q])}
           Legs == {Leg(q) : q \in RoleIds}
           P == Positions(w)
<1>1. \A q \in RoleIds : Len(w[q]) \in Nat
  BY DEF WellWritten
<1>2. P = UNION Legs
  BY DEF Positions
<1>3. ASSUME NEW q \in RoleIds PROVE IsFiniteSet(Leg(q))
  <2>1. IsFiniteSet(1 .. Len(w[q]))
    BY <1>1, FS_Interval
  <2> DEFINE f == [j \in 1 .. Len(w[q]) |-> <<q, j>>]
  <2>2. f \in Surjection(1 .. Len(w[q]), Leg(q))
    BY DEF Surjection
  <2> HIDE DEF f, Leg
  <2> QED
    BY <2>1, <2>2, FS_Surjection
<1>4. IsFiniteSet(Legs)
  <2>1. IsFiniteSet(RoleIds)
    BY ShapeAssumption, FS_Interval DEF RoleIds
  <2> HIDE DEF Leg
  <2> DEFINE f == [q \in RoleIds |-> Leg(q)]
  <2>2. f \in Surjection(RoleIds, Legs)
    BY DEF Surjection
  <2> HIDE DEF f, Legs
  <2> QED
    BY <2>1, <2>2, FS_Surjection
<1>5. IsFiniteSet(P)
  <2> HIDE DEF Leg
  <2>1. \A T \in Legs : IsFiniteSet(T)
    BY <1>3
  <2> HIDE DEF Legs, P
  <2> QED
    BY <1>2, <1>4, <2>1, FS_UNION
<1>6. IsFiniteSet(Wide(w)) /\ Wide(w) \subseteq P
  BY <1>5, FS_Subset DEF Wide
<1>7. Cardinality(P) \in Nat /\ Cardinality(Wide(w)) \in Nat
  BY <1>5, <1>6, FS_CardinalityType
<1>8. UniformCost(w) = Cardinality(P) + 3 * Cardinality(Wide(w))
  <2> HIDE DEF P
  <2>1. UniformCost(w) = (Cardinality(P) + Cardinality(Wide(w))) + 2 * Cardinality(Wide(w))
    BY DEF UniformCost, Total, Spiders, P
  <2> QED
    BY <1>7, <2>1
<1>9. \A p : p \in P <=> \E q \in RoleIds, j \in Nat : j \in 1 .. Len(w[q]) /\ p = <<q, j>>
  BY <1>2
<1> QED
  BY <1>5, <1>6, <1>7, <1>8, <1>9

(* Every rewrite makes the writing cheaper by one at least.                 *)
LEMMA CostDrops ==
    ASSUME NEW rule, GoodRule(rule), NEW w \in WellWritten, NEW i \in Nat \ {0}, Matches(w, rule, i)
    PROVE  UniformCost(Rewrite(w, rule, i)) + 1 <= UniformCost(w)
<1> DEFINE r   == rule.target.role
           v   == Rewrite(w, rule, i)
           leg == w[r]
           new == v[r]
           n   == Len(LeftSide(rule))
           narrow == Cell(rule.target.bit, FALSE)
           wide   == Cell(rule.target.bit, TRUE)
           P == Positions(w)
           Q == Positions(v)
           W == Wide(w)
           X == Wide(v)
<1>1. /\ r \in RoleIds /\ v \in WellWritten /\ \A q \in RoleIds \ {r} : v[q] = w[q]
      /\ n \in {1, 2} /\ Len(leg) \in Nat
      /\ i + n - 1 <= Len(leg) /\ Len(new) = Len(leg) - n + 1
      /\ \A j \in 1 .. i - 1 : new[j] = leg[j]
      /\ new[i] = narrow
      /\ \A j \in i + 1 .. Len(new) : new[j] = leg[j + n - 1]
      /\ n = 1 => leg[i] = wide /\ rule.schema # "fusion"
      /\ n = 2 => /\ leg[i].wide = FALSE /\ leg[i + 1].wide = FALSE
                  /\ rule.schema # "fusion" => /\ leg[i].bit = rule.target.bit
                                               /\ leg[i + 1].bit = rule.target.bit
                  /\ rule.schema = "fusion" => /\ leg[i].bit # Obstruction
                                               /\ leg[i + 1].bit # Obstruction
  BY RewriteFacts
<1>2. narrow.wide = FALSE /\ wide.wide = TRUE
  BY DEF Cell
<1> HIDE DEF v, n, narrow, wide, P, Q, W, X
<1>3. /\ IsFiniteSet(P) /\ IsFiniteSet(W) /\ Cardinality(P) \in Nat /\ Cardinality(W) \in Nat
      /\ \A p : p \in P <=> \E q \in RoleIds, j \in Nat : j \in 1 .. Len(w[q]) /\ p = <<q, j>>
      /\ UniformCost(w) = Cardinality(P) + 3 * Cardinality(W)
  BY CellsAreFinite DEF P, W
<1>4. /\ IsFiniteSet(Q) /\ IsFiniteSet(X) /\ Cardinality(Q) \in Nat /\ Cardinality(X) \in Nat
      /\ \A p : p \in Q <=> \E q \in RoleIds, j \in Nat : j \in 1 .. Len(v[q]) /\ p = <<q, j>>
      /\ UniformCost(v) = Cardinality(Q) + 3 * Cardinality(X)
  BY <1>1, CellsAreFinite DEF Q, X
<1>5. /\ \A q, j : <<q, j>> \in P <=> q \in RoleIds /\ j \in 1 .. Len(w[q])
      /\ \A q, j : <<q, j>> \in Q <=> q \in RoleIds /\ j \in 1 .. Len(v[q])
  BY <1>3, <1>4
<1>6. /\ \A q, j : <<q, j>> \in W <=> q \in RoleIds /\ j \in 1 .. Len(w[q]) /\ w[q][j].wide
      /\ \A q, j : <<q, j>> \in X <=> q \in RoleIds /\ j \in 1 .. Len(v[q]) /\ v[q][j].wide
      /\ W \subseteq P /\ X \subseteq Q
  BY <1>5 DEF W, X, P, Q, Wide, CellAt
<1> HIDE DEF leg, new
<1>7. ASSUME n = 1 PROVE Cardinality(Q) = Cardinality(P) /\ Cardinality(X) + 1 = Cardinality(W)
  <2>1. Len(new) = Len(leg) /\ \A j \in 1 .. Len(leg) : j # i => new[j] = leg[j]
    <3>1. \A j \in i + 1 .. Len(new) : j + n - 1 = j
      BY <1>7
    <3> QED
      BY <1>1, <1>7, <3>1
  <2>2. Q = P
    <3>1. \A q \in RoleIds : Len(v[q]) = Len(w[q])
      BY <1>1, <2>1 DEF new, leg
    <3> QED
      BY <1>3, <1>4, <3>1
  <2>3. <<r, i>> \in W
    <3>1. i \in 1 .. Len(w[r]) /\ w[r][i].wide
      BY <1>1, <1>2, <1>7 DEF leg
    <3> QED
      BY <1>1, <1>6, <3>1
  <2>4. X = W \ {<<r, i>>}
    <3>1. ASSUME NEW p \in X PROVE p \in W /\ p # <<r, i>>
      <4>1. PICK q \in RoleIds, j \in Nat : j \in 1 .. Len(v[q]) /\ p = <<q, j>>
        BY <1>4, <1>6
      <4>2. v[q][j].wide
        BY <1>6, <4>1
      <4>3. q = r => j # i
        BY <1>1, <1>2, <4>2 DEF new
      <4>4. j \in 1 .. Len(w[q]) /\ v[q][j] = w[q][j]
        BY <1>1, <2>1, <4>1, <4>3 DEF new, leg
      <4> QED
        BY <1>6, <4>1, <4>2, <4>3, <4>4
    <3>2. ASSUME NEW p \in W, p # <<r, i>> PROVE p \in X
      <4>1. PICK q \in RoleIds, j \in Nat : j \in 1 .. Len(w[q]) /\ p = <<q, j>>
        BY <1>3, <1>6
      <4>2. w[q][j].wide
        BY <1>6, <4>1
      <4>3. q = r => j # i
        BY <3>2, <4>1
      <4>4. j \in 1 .. Len(v[q]) /\ v[q][j] = w[q][j]
        BY <1>1, <2>1, <4>1, <4>3 DEF new, leg
      <4> QED
        BY <1>6, <4>1, <4>2, <4>4
    <3> QED
      BY <3>1, <3>2
  <2>5. Cardinality(X) = Cardinality(W) - 1
    <3> DEFINE e == <<r, i>>
    <3> HIDE DEF e
    <3>1. e \in W /\ X = W \ {e}
      BY <2>3, <2>4 DEF e
    <3> QED
      BY <1>3, <3>1, FS_RemoveElement
  <2> QED
    BY <1>3, <1>4, <2>2, <2>5
<1>8. ASSUME n = 2 PROVE Cardinality(Q) + 1 = Cardinality(P) /\ Cardinality(X) <= Cardinality(W)
  <2> DEFINE last == <<r, Len(leg)>>
  <2>1. Len(new) = Len(leg) - 1 /\ i + 1 <= Len(leg)
    BY <1>1, <1>8
  <2>2. last \in P
    <3>1. Len(leg) \in 1 .. Len(leg)
      BY <1>1, <2>1
    <3> QED
      BY <1>1, <1>5, <3>1 DEF leg
  <2>3. Q = P \ {last}
    <3>1. ASSUME NEW q \in RoleIds, NEW j
          PROVE  j \in 1 .. Len(v[q]) <=> j \in 1 .. Len(w[q]) /\ <<q, j>> # last
      <4>1. CASE q = r
        <5>1. j \in 1 .. Len(leg) - 1 <=> j \in 1 .. Len(leg) /\ j # Len(leg)
          BY <1>1
        <5> QED
          BY <2>1, <4>1, <5>1 DEF leg, new
      <4>2. CASE q # r
        BY <1>1, <4>2
      <4> QED
        BY <4>1, <4>2
    <3> HIDE DEF last
    <3>2. ASSUME NEW p \in Q PROVE p \in P /\ p # last
      <4>1. PICK q \in RoleIds, j \in Nat : j \in 1 .. Len(v[q]) /\ p = <<q, j>>
        BY <1>4
      <4> QED
        BY <1>3, <3>1, <4>1
    <3>3. ASSUME NEW p \in P, p # last PROVE p \in Q
      <4>1. PICK q \in RoleIds, j \in Nat : j \in 1 .. Len(w[q]) /\ p = <<q, j>>
        BY <1>3
      <4> QED
        BY <1>4, <3>1, <3>3, <4>1
    <3> QED
      BY <3>2, <3>3
  <2>4. Cardinality(Q) = Cardinality(P) - 1
    BY <1>3, <2>2, <2>3, FS_RemoveElement, ZenonT(60)
  <2> DEFINE to(p) == IF p[1] = r /\ p[2] > i THEN <<r, p[2] + 1>> ELSE p
             f == [p \in X |-> to(p)]
  <2>5. ASSUME NEW p \in X
        PROVE  \E q \in RoleIds, j \in Nat :
                  /\ j \in 1 .. Len(v[q]) /\ p = <<q, j>> /\ p[1] = q /\ p[2] = j /\ v[q][j].wide /\ (q = r => j # i)
    <3>1. PICK q \in RoleIds, j \in Nat : j \in 1 .. Len(v[q]) /\ p = <<q, j>>
      BY <1>4, <1>6
    <3>2. v[q][j].wide
      BY <1>6, <3>1
    <3>3. q = r => j # i
      BY <1>1, <1>2, <3>2 DEF new
    <3> QED
      BY <3>1, <3>2, <3>3
  <2>6. ASSUME NEW p \in X PROVE f[p] \in W
    <3>1. PICK q \in RoleIds, j \in Nat :
             j \in 1 .. Len(v[q]) /\ p = <<q, j>> /\ p[1] = q /\ p[2] = j /\ v[q][j].wide /\ (q = r => j # i)
      BY <2>5
    <3>2. CASE q = r /\ j > i
      <4>1. f[p] = <<r, j + 1>>
        BY <3>1, <3>2
      <4>2. j \in i + 1 .. Len(new) /\ j + n - 1 = j + 1 /\ j + 1 \in 1 .. Len(leg)
        BY <1>1, <1>8, <2>1, <3>1, <3>2 DEF new
      <4>3. new[j] = leg[j + 1]
        BY <1>1, <4>2
      <4>4. w[r][j + 1].wide /\ j + 1 \in 1 .. Len(w[r])
        BY <3>1, <3>2, <4>2, <4>3 DEF new, leg
      <4> QED
        <5> HIDE DEF f
        <5>1. <<r, j + 1>> \in W
          BY <1>1, <1>6, <4>4
        <5> QED
          BY <4>1, <5>1
    <3>3. CASE ~(q = r /\ j > i)
      <4>1. f[p] = <<q, j>>
        BY <3>1, <3>3
      <4>2. CASE q = r
        <5>1. j \in 1 .. i - 1 /\ j \in 1 .. Len(leg)
          BY <1>1, <2>1, <3>1, <3>3, <4>2 DEF new
        <5>2. leg[j].wide
          BY <1>1, <3>1, <4>2, <5>1 DEF new
        <5> QED
          BY <1>6, <4>1, <4>2, <5>1, <5>2 DEF leg
      <4>3. CASE q # r
        BY <1>1, <1>6, <3>1, <4>1, <4>3, SMTT(30)
      <4> QED
        BY <4>2, <4>3
    <3> QED
      BY <3>2, <3>3
  <2>7. ASSUME NEW p \in X, NEW o \in X, f[p] = f[o] PROVE p = o
    <3>1. PICK q \in RoleIds, j \in Nat :
             j \in 1 .. Len(v[q]) /\ p = <<q, j>> /\ p[1] = q /\ p[2] = j /\ v[q][j].wide /\ (q = r => j # i)
      BY <2>5
    <3>2. PICK s \in RoleIds, k \in Nat :
             k \in 1 .. Len(v[s]) /\ o = <<s, k>> /\ o[1] = s /\ o[2] = k /\ v[s][k].wide /\ (s = r => k # i)
      BY <2>5
    <3>3. f[p] = <<q, IF q = r /\ j > i THEN j + 1 ELSE j>>
      BY <3>1
    <3>4. f[o] = <<s, IF s = r /\ k > i THEN k + 1 ELSE k>>
      BY <3>2
    <3> DEFINE a == IF q = r /\ j > i THEN j + 1 ELSE j
               b == IF s = r /\ k > i THEN k + 1 ELSE k
    <3>5. q = s /\ a = b
      <4> HIDE DEF a, b
      <4>1. <<q, a>> = <<s, b>>
        BY <2>7, <3>3, <3>4 DEF a, b
      <4> QED
        BY <4>1
    <3>6. j \in Int /\ k \in Int
      OBVIOUS
    <3>7. j = k
      BY <3>1, <3>2, <3>5, <3>6
    <3> QED
      BY <3>1, <3>2, <3>5, <3>7
  <2>8. f \in Injection(X, W)
    <3>1. f = [p \in X |-> f[p]]
      OBVIOUS
    <3> HIDE DEF f
    <3>2. f \in [X -> W]
      BY <2>6, <3>1
    <3> QED
      BY <2>7, <3>2 DEF Injection, IsInjective
  <2>9. Cardinality(X) <= Cardinality(W)
    <3> HIDE DEF f
    <3> QED
      BY <1>3, <1>4, <2>8, FS_Injection
  <2> QED
    BY <1>3, <1>4, <2>4, <2>9
<1>9. UniformCost(v) + 1 <= UniformCost(w)
  <2>1. n = 1 \/ n = 2
    BY <1>1
  <2>2. UniformCost(w) = Cardinality(P) + 3 * Cardinality(W)
        /\ UniformCost(v) = Cardinality(Q) + 3 * Cardinality(X)
        /\ Cardinality(P) \in Nat /\ Cardinality(W) \in Nat
        /\ Cardinality(Q) \in Nat /\ Cardinality(X) \in Nat
    BY <1>3, <1>4
  <2>3. CASE n = 1
    BY <1>7, <2>2, <2>3
  <2>4. CASE n = 2
    BY <1>8, <2>2, <2>4
  <2> QED
    BY <2>1, <2>3, <2>4
<1> QED
  BY <1>9 DEF v

(* Either price is an integer. *)
LEMMA PricesAreInt ==
    ASSUME NEW w \in WellWritten, NEW price
    PROVE  UniformCost(w) \in Int /\ CostOf(price, w) \in Int
<1>1. UniformCost(w) \in Int
  <2> DEFINE p == Cardinality(Positions(w))
             x == Cardinality(Wide(w))
  <2>1. p \in Nat /\ x \in Nat /\ UniformCost(w) = p + 3 * x
    BY CellsAreFinite
  <2> HIDE DEF p, x
  <2> QED
    BY <2>1
<1>2. IsFiniteSet(StepSet)
  <2> DEFINE f == [x \in Bit \X RoleIds |-> Step(x[1], x[2])]
  <2>1. IsFiniteSet(Bit) /\ IsFiniteSet(RoleIds)
    BY ShapeAssumption, FS_Interval DEF Bit, RoleIds
  <2>2. IsFiniteSet(Bit \X RoleIds)
    BY <2>1, FS_Product
  <2>3. f \in Surjection(Bit \X RoleIds, StepSet)
    <3>1. \A x \in Bit \X RoleIds : f[x] \in StepSet
      BY DEF Step, StepSet
    <3>2. ASSUME NEW s \in StepSet PROVE \E x \in Bit \X RoleIds : f[x] = s
      <4>1. <<s.bit, s.role>> \in Bit \X RoleIds /\ Step(s.bit, s.role) = s
        BY DEF StepSet, Step
      <4>2. f[<<s.bit, s.role>>] = Step(s.bit, s.role)
        BY <4>1
      <4> HIDE DEF f
      <4> QED
        BY <4>1, <4>2
    <3>3. f \in [Bit \X RoleIds -> StepSet]
      BY <3>1
    <3> HIDE DEF f
    <3> QED
      BY <3>2, <3>3 DEF Surjection
  <2> HIDE DEF f
  <2> QED
    BY <2>2, <2>3, FS_Surjection
<1>3. ASSUME NEW s \in StepSet PROVE Multiplicity(w, s) * Price(Workforce, s) \in Int
  <2> DEFINE h == Holders(Workforce, s)
             d == Cardinality(DOMAIN Workforce)
             c == Cardinality(h)
  <2>1. IsFiniteSet(h)
    BY PoolIsFinite, FS_Subset DEF Holders
  <2>2. d \in Nat /\ c \in Nat
    BY <2>1, PoolIsFinite, FS_CardinalityType
  <2>3. Price(Workforce, s) = 1 + (d - c)
    BY DEF Price, Scarcity
  <2> HIDE DEF d, c, h
  <2>4. Multiplicity(w, s) \in Int /\ Price(Workforce, s) \in Int
    BY <2>2, <2>3, DistinctFacts
  <2> QED
    BY <2>4
<1>4. StaffingPrice(Workforce, w) \in Int
  <2> DEFINE f == [s \in StepSet |-> Multiplicity(w, s) * Price(Workforce, s)]
             D == Distinct(w)
             x == Cardinality(Wide(w))
  <2>1. D \subseteq StepSet
    BY DEF Distinct
  <2>2. IsFiniteSet(D)
    BY <1>2, <2>1, FS_Subset
  <2>3. \A s \in D : f[s] \in Int
    BY <1>3, <2>1
  <2>4. SumFunctionOnSet(f, D) \in Int
    <3> HIDE DEF f, D
    <3> QED
      BY <2>2, <2>3, SumInt
  <2>5. x \in Nat
    BY CellsAreFinite
  <2>6. StaffingPrice(Workforce, w) = 2 * x + SumFunctionOnSet(f, D)
    BY DEF StaffingPrice, Spiders
  <2> HIDE DEF f, D, x
  <2> QED
    BY <2>4, <2>5, <2>6
<1> QED
  BY <1>1, <1>4 DEF CostOf

(* The writings the harness draws are writings. *)
LEMMA DrawnAreWritten ==
    Writings \subseteq WellWritten
<1> SUFFICES ASSUME NEW w \in Writings PROVE w \in WellWritten
  OBVIOUS
<1>1. PICK tags : w \in DrawShape(TaggedSteps(tags))
  BY DEF Writings
<1> DEFINE L(r) == LegBits(TaggedSteps(tags), r)
<1>2. PICK fanout : w = [r \in RoleIds |-> [i \in DOMAIN L(r) |-> Cell(L(r)[i], <<r, i>> \in fanout)]]
  BY <1>1 DEF DrawShape
<1>3. ASSUME NEW r \in RoleIds PROVE L(r) \in Seq(Bit)
  <2> DEFINE all == [i \in 1 .. Bits |-> i - 1]
             kept == {i \in 1 .. Bits : Step(i - 1, r) \in TaggedSteps(tags)}
  <2>1. Bits \in Nat /\ \A i \in 1 .. Bits : i - 1 \in Bit
    BY ShapeAssumption DEF Bit
  <2>2. all \in Seq(Bit) /\ Len(all) = Bits
    BY <2>1
  <2>3. L(r) = Picked(all, kept)
    BY DEF LegBits
  <2>4. kept \in SUBSET (1 .. Len(all))
    BY <2>2
  <2> HIDE DEF all, kept, L
  <2> QED
    BY <2>2, <2>3, <2>4, PickedFacts, ZenonT(60)
<1> HIDE DEF L
<1>4. ASSUME NEW r \in RoleIds PROVE w[r] \in Seq(Cells)
  <2> DEFINE leg == L(r)
             u == [i \in DOMAIN leg |-> Cell(leg[i], <<r, i>> \in fanout)]
  <2>1. w[r] = u
    BY <1>2
  <2>2. leg \in Seq(Bit)
    BY <1>3
  <2> HIDE DEF leg
  <2>3. Len(leg) \in Nat /\ DOMAIN leg = 1 .. Len(leg) /\ \A i \in 1 .. Len(leg) : leg[i] \in Bit
    BY <2>2
  <2>4. \A i \in 1 .. Len(leg) : u[i] \in Cells
    BY <2>3 DEF Cell, Cells
  <2>5. u = [i \in 1 .. Len(leg) |-> u[i]]
    BY <2>3
  <2> HIDE DEF u
  <2> QED
    BY <2>1, <2>3, <2>4, <2>5
<1>5. w = [r \in RoleIds |-> w[r]]
  BY <1>2
<1> QED
  BY <1>4, <1>5 DEF WellWritten

-----------------------------------------------------------------------------
(* Replay is a recursion over the steps: one step more is one more replayed. *)
Replays(start, steps, f) ==
    f = [k \in 0 .. Len(steps) |-> IF k = 0 THEN [ok |-> TRUE, written |-> start]
                                   ELSE ReplayStep(f[k - 1], steps[k])]

(* The operator's own definition, with the recursion named. *)
LEMMA ReplayIsChosen ==
    ASSUME NEW start, NEW steps
    PROVE  Replay(start, steps) = (CHOOSE f : Replays(start, steps, f))[Len(steps)]
BY Zenon DEF Replay, Replays

(* The recursion has a solution. *)
LEMMA ReplayExists ==
    ASSUME NEW S, NEW steps \in Seq(S), NEW start
    PROVE  \E f : Replays(start, steps, f)
<1> DEFINE n == Len(steps)
           first == [ok |-> TRUE, written |-> start]
           Good(l, f) == \A k \in 0 .. l : f[k] = IF k = 0 THEN first ELSE ReplayStep(f[k - 1], steps[k])
           Bad == {l \in Nat : ~\E f : Good(l, f)}
<1>1. n \in Nat
  OBVIOUS
<1> HIDE DEF n, first
<1>2. \E f : Good(0, f)
  <2> DEFINE g == [k \in {0} |-> first]
  <2>1. Good(0, g)
    OBVIOUS
  <2> QED
    BY <2>1
<1>3. ASSUME NEW l \in Nat, NEW f, Good(l, f) PROVE \E g : Good(l + 1, g)
  <2> DEFINE g == [k \in 0 .. l + 1 |-> IF k <= l THEN f[k] ELSE ReplayStep(f[l], steps[l + 1])]
  <2>1. ASSUME NEW k \in 0 .. l + 1
        PROVE  g[k] = IF k = 0 THEN first ELSE ReplayStep(g[k - 1], steps[k])
    <3>1. CASE k = 0
      BY <1>3, <3>1
    <3>2. CASE k \in 1 .. l
      <4>1. g[k] = f[k] /\ g[k - 1] = f[k - 1] /\ k \in 0 .. l /\ k # 0
        BY <3>2
      <4> HIDE DEF g
      <4> QED
        BY <1>3, <4>1
    <3>3. CASE k = l + 1
      <4>1. g[k] = ReplayStep(f[l], steps[l + 1]) /\ g[k - 1] = f[l] /\ k # 0
        BY <3>3
      <4> HIDE DEF g
      <4> QED
        BY <3>3, <4>1
    <3> QED
      BY <3>1, <3>2, <3>3
  <2> HIDE DEF g
  <2> QED
    BY <2>1
<1>4. Bad = {}
  <2> SUFFICES ASSUME Bad # {} PROVE FALSE
    OBVIOUS
  <2>1. PICK l \in Bad : \A k \in Bad : l <= k
    <3>1. Bad \subseteq Nat
      OBVIOUS
    <3> HIDE DEF Bad
    <3> QED
      BY <3>1, LeastNat
  <2>2. l \in Nat /\ ~\E f : Good(l, f)
    OBVIOUS
  <2> HIDE DEF Good
  <2>3. l # 0
    BY <1>2, <2>2
  <2>4. l - 1 \in Nat /\ l - 1 \notin Bad
    BY <2>1, <2>2, <2>3
  <2>5. PICK f : Good(l - 1, f)
    BY <2>4
  <2>6. \E g : Good((l - 1) + 1, g)
    BY <1>3, <2>4, <2>5
  <2>7. (l - 1) + 1 = l
    BY <2>2
  <2> QED
    BY <2>2, <2>6, <2>7
<1>5. PICK f : Good(n, f)
  <2> HIDE DEF Good
  <2> QED
    BY <1>1, <1>4
<1> DEFINE h == [k \in 0 .. n |-> f[k]]
<1>6. ASSUME NEW k \in 0 .. n
      PROVE  h[k] = IF k = 0 THEN first ELSE ReplayStep(h[k - 1], steps[k])
  <2>1. k # 0 => k - 1 \in 0 .. n
    BY <1>1
  <2> QED
    BY <1>5, <2>1
<1>7. h = [k \in 0 .. n |-> h[k]]
  OBVIOUS
<1> HIDE DEF h
<1>8. h = [k \in 0 .. n |-> IF k = 0 THEN first ELSE ReplayStep(h[k - 1], steps[k])]
  BY <1>6, <1>7
<1> QED
  BY <1>8 DEF Replays, n, first

(* One more step is replayed where the others led. *)
LEMMA ReplayAppend ==
    ASSUME NEW S, NEW steps \in Seq(S), NEW m \in S, NEW start
    PROVE  /\ Replay(start, Append(steps, m)) = ReplayStep(Replay(start, steps), m)
           /\ Replay(start, << >>) = [ok |-> TRUE, written |-> start]
<1> DEFINE n == Len(steps)
           more == Append(steps, m)
           f == CHOOSE r : Replays(start, steps, r)
           g == CHOOSE r : Replays(start, more, r)
           e == CHOOSE r : Replays(start, << >>, r)
           first == [ok |-> TRUE, written |-> start]
<1>1. /\ n \in Nat /\ more \in Seq(S) /\ Len(more) = n + 1
      /\ more[n + 1] = m /\ \A k \in 1 .. n : more[k] = steps[k]
      /\ << >> \in Seq(S) /\ Len(<< >>) = 0
  OBVIOUS
<1> HIDE DEF more
<1>2. Replays(start, steps, f) /\ Replays(start, more, g) /\ Replays(start, << >>, e)
  BY <1>1, ReplayExists
<1>3. /\ Replay(start, steps) = f[n] /\ Replay(start, more) = g[n + 1]
      /\ Replay(start, << >>) = e[0]
  BY <1>1, ReplayIsChosen
<1> HIDE DEF f, g, e, n, first
<1>4. /\ \A k \in 0 .. n : f[k] = IF k = 0 THEN first ELSE ReplayStep(f[k - 1], steps[k])
      /\ \A k \in 0 .. n + 1 : g[k] = IF k = 0 THEN first ELSE ReplayStep(g[k - 1], more[k])
      /\ \A k \in 0 .. 0 : e[k] = IF k = 0 THEN first ELSE ReplayStep(e[k - 1], << >>[k])
  BY <1>1, <1>2 DEF Replays, first, n
<1> DEFINE Bad == {k \in 0 .. n : f[k] # g[k]}
<1>5. Bad = {}
  <2> SUFFICES ASSUME Bad # {} PROVE FALSE
    OBVIOUS
  <2>1. PICK k \in Bad : \A j \in Bad : k <= j
    <3>1. Bad \subseteq Nat
      OBVIOUS
    <3> HIDE DEF Bad
    <3> QED
      BY <3>1, LeastNat
  <2>2. k \in 0 .. n /\ f[k] # g[k]
    OBVIOUS
  <2>3. k # 0
    BY <1>1, <1>4, <2>2
  <2>4. k - 1 \in 0 .. n /\ k - 1 \notin Bad /\ k \in 1 .. n /\ k \in 0 .. n + 1
    BY <1>1, <2>1, <2>2, <2>3
  <2>5. f[k - 1] = g[k - 1]
    BY <2>4
  <2>6. f[k] = ReplayStep(f[k - 1], steps[k]) /\ g[k] = ReplayStep(g[k - 1], steps[k])
    BY <1>1, <1>4, <2>2, <2>3, <2>4
  <2> QED
    BY <2>2, <2>5, <2>6
<1>6. f[n] = g[n]
  BY <1>1, <1>5
<1>7. g[n + 1] = ReplayStep(g[n], m)
  BY <1>1, <1>4
<1>8. e[0] = first
  BY <1>4
<1> QED
  BY <1>3, <1>6, <1>7, <1>8 DEF more, first

-----------------------------------------------------------------------------
(* The inductive invariant: both kept traces replay to the writings they    *)
(* are said to lead to, and the current one stands to the start as the      *)
(* theory allows.                                                           *)
RuleAt == (DOMAIN RuleTheory) \X (Nat \ {0})

Leads(start, steps, w) ==
    /\ steps \in Seq(RuleAt) /\ w \in WellWritten
    /\ Replay(start, steps) = [ok |-> TRUE, written |-> w]

ClassKept(start, w, taken) ==
    LET before == Distinct(start)
        after  == Distinct(w)
    IN  /\ Fusions(taken) = {} => after = before
        /\ after \ before \subseteq {RuleTheory[m[1]].target : m \in Fusions(taken)}
        /\ {s.role : s \in before} = {s.role : s \in after}
        /\ {s \in before : s.bit = Obstruction} \subseteq after
        /\ UniformCost(w) + Len(taken) <= UniformCost(start)

RewriteInv ==
    /\ rewrite = [phase |-> rewrite.phase, start |-> rewrite.start, price |-> rewrite.price,
                  current |-> rewrite.current, trace |-> rewrite.trace,
                  best |-> rewrite.best, steps |-> rewrite.steps]
    /\ rewrite.phase \in {"idle", "search", "declared", "verified"}
    /\ rewrite.phase # "idle" =>
          /\ rewrite.start \in WellWritten
          /\ Leads(rewrite.start, rewrite.trace, rewrite.current)
          /\ Leads(rewrite.start, rewrite.steps, rewrite.best)
          /\ CostOf(rewrite.price, rewrite.best) <= CostOf(rewrite.price, rewrite.start)
          /\ ClassKept(rewrite.start, rewrite.current, rewrite.trace)

(* Nothing rewritten keeps its class. *)
LEMMA ClassStarts ==
    ASSUME NEW w \in WellWritten
    PROVE  ClassKept(w, w, << >>)
<1>1. Fusions(<< >>) = {} /\ Len(<< >>) = 0
  BY DEF Fusions, ToSet
<1>2. UniformCost(w) \in Int
  BY PricesAreInt
<1>3. UniformCost(w) + Len(<< >>) <= UniformCost(w)
  BY <1>1, <1>2
<1> QED
  BY <1>1, <1>3 DEF ClassKept

(* One more rewrite keeps the class. *)
LEMMA ClassMoves ==
    ASSUME NEW start \in WellWritten, NEW w \in WellWritten, NEW taken \in Seq(RuleAt), NEW m \in RuleAt,
           Matches(w, RuleTheory[m[1]], m[2]), ClassKept(start, w, taken)
    PROVE  /\ Rewrite(w, RuleTheory[m[1]], m[2]) \in WellWritten
           /\ ClassKept(start, Rewrite(w, RuleTheory[m[1]], m[2]), Append(taken, m))
<1> DEFINE rule == RuleTheory[m[1]]
           v == Rewrite(w, rule, m[2])
           t == Append(taken, m)
           A == Distinct(start)
           B == Distinct(w)
           C == Distinct(v)
           F == Fusions(taken)
           G == Fusions(t)
<1>1. m[1] \in DOMAIN RuleTheory /\ m[2] \in Nat \ {0}
  BY DEF RuleAt
<1>2. GoodRule(rule)
  BY <1>1, RuleFacts
<1>3. Matches(w, rule, m[2])
  OBVIOUS
<1>4. ToSet(t) = ToSet(taken) \cup {m} /\ Len(t) = Len(taken) + 1 /\ Len(taken) \in Nat
  <2>1. Range(t) = Range(taken) \cup {m} /\ Len(t) = Len(taken) + 1 /\ Len(taken) \in Nat
    BY AppendFacts
  <2> QED
    BY <2>1 DEF ToSet, Range
<1>5. G = F \cup (IF rule.schema = "fusion" THEN {m} ELSE {})
  BY <1>4 DEF Fusions
<1> HIDE DEF rule, t
<1>6. /\ rule.schema # "fusion" => C = B
      /\ C \subseteq B \cup {rule.target}
      /\ {s.role : s \in B} = {s.role : s \in C}
      /\ {s \in B : s.bit = Obstruction} \subseteq C
  BY <1>1, <1>2, <1>3, DemandMoves
<1>7. v \in WellWritten
  BY <1>1, <1>2, <1>3, RewriteFacts
<1>8. UniformCost(v) + 1 <= UniformCost(w)
  BY <1>1, <1>2, <1>3, CostDrops
<1> HIDE DEF A, B, C, F, G, v
<1>9. /\ F = {} => B = A
      /\ B \ A \subseteq {RuleTheory[k[1]].target : k \in F}
      /\ {s.role : s \in A} = {s.role : s \in B}
      /\ {s \in A : s.bit = Obstruction} \subseteq B
      /\ UniformCost(w) + Len(taken) <= UniformCost(start)
  BY DEF ClassKept, A, B, F
<1>10. G = {} => C = A
  BY <1>5, <1>6, <1>9
<1>11. C \ A \subseteq {RuleTheory[k[1]].target : k \in G}
  <2> SUFFICES ASSUME NEW s \in C, s \notin A
               PROVE  \E k \in G : s = RuleTheory[k[1]].target
    OBVIOUS
  <2>1. CASE s \in B
    <3>1. PICK k \in F : s = RuleTheory[k[1]].target
      BY <1>9, <2>1
    <3> QED
      BY <1>5, <3>1
  <2>2. CASE s \notin B
    BY <1>5, <1>6, <2>2 DEF rule
  <2> QED
    BY <2>1, <2>2
<1>12. {s.role : s \in A} = {s.role : s \in C}
  BY <1>6, <1>9
<1>13. {s \in A : s.bit = Obstruction} \subseteq C
  BY <1>6, <1>9
<1>14. UniformCost(v) + Len(t) <= UniformCost(start)
  <2>1. UniformCost(v) \in Int /\ UniformCost(w) \in Int /\ UniformCost(start) \in Int
    BY <1>7, PricesAreInt
  <2> QED
    BY <1>4, <1>8, <1>9, <2>1
<1> QED
  BY <1>7, <1>10, <1>11, <1>12, <1>13, <1>14 DEF ClassKept, A, C, G, v, t, rule

(* A trace with one more rewrite leads to what is rewritten. *)
LEMMA LeadsOn ==
    ASSUME NEW start, NEW steps, NEW w, Leads(start, steps, w), NEW m \in RuleAt,
           Matches(w, RuleTheory[m[1]], m[2]),
           Rewrite(w, RuleTheory[m[1]], m[2]) \in WellWritten
    PROVE  Leads(start, Append(steps, m), Rewrite(w, RuleTheory[m[1]], m[2]))
<1> DEFINE v == Rewrite(w, RuleTheory[m[1]], m[2])
           here == [ok |-> TRUE, written |-> w]
<1>1. steps \in Seq(RuleAt) /\ w \in WellWritten /\ Replay(start, steps) = here
  BY DEF Leads
<1>2. Replay(start, Append(steps, m)) = ReplayStep(Replay(start, steps), m)
  BY <1>1, ReplayAppend
<1>3. ReplayStep(here, m) = [ok |-> TRUE, written |-> v]
  <2>1. here.ok = TRUE /\ here.written = w
    OBVIOUS
  <2> HIDE DEF here
  <2> QED
    BY <2>1 DEF ReplayStep
<1>4. Append(steps, m) \in Seq(RuleAt)
  BY <1>1
<1> QED
  BY <1>1, <1>2, <1>3, <1>4 DEF Leads

(* The search keeps it. *)
LEMMA SearchKeeps ==
    ASSUME RewriteInv, SearchStep
    PROVE  RewriteInv'
<1>1. PICK m \in AllMatches(rewrite.current) :
         LET w     == Rewrite(rewrite.current, RuleTheory[m[1]], m[2])
             taken == Append(rewrite.trace, m)
             finds == CostOf(rewrite.price, w) < CostOf(rewrite.price, rewrite.best)
         IN  rewrite' = [rewrite EXCEPT !.current = w, !.trace = taken,
                                        !.best = IF finds THEN w ELSE @,
                                        !.steps = IF finds THEN taken ELSE @]
  BY DEF SearchStep
<1> DEFINE w     == Rewrite(rewrite.current, RuleTheory[m[1]], m[2])
           taken == Append(rewrite.trace, m)
           finds == CostOf(rewrite.price, w) < CostOf(rewrite.price, rewrite.best)
<1>2. rewrite.phase = "search"
  BY DEF SearchStep
<1>3. /\ rewrite.start \in WellWritten
      /\ Leads(rewrite.start, rewrite.trace, rewrite.current)
      /\ Leads(rewrite.start, rewrite.steps, rewrite.best)
      /\ CostOf(rewrite.price, rewrite.best) <= CostOf(rewrite.price, rewrite.start)
      /\ ClassKept(rewrite.start, rewrite.current, rewrite.trace)
  BY <1>2 DEF RewriteInv
<1>4. rewrite.current \in WellWritten /\ rewrite.trace \in Seq(RuleAt) /\ rewrite.best \in WellWritten
  BY <1>3 DEF Leads
<1>5. m \in RuleAt /\ Matches(rewrite.current, RuleTheory[m[1]], m[2])
  <2>1. \A r \in RoleIds : DOMAIN rewrite.current[r] \subseteq Nat \ {0}
    BY <1>4 DEF WellWritten
  <2> QED
    BY <2>1 DEF AllMatches, RuleAt
<1>6. w \in WellWritten /\ ClassKept(rewrite.start, w, taken)
  BY <1>3, <1>4, <1>5, ClassMoves
<1>7. Leads(rewrite.start, taken, w)
  BY <1>3, <1>5, <1>6, LeadsOn
<1>8. rewrite' = [rewrite EXCEPT !.current = w, !.trace = taken,
                                 !.best = IF finds THEN w ELSE @,
                                 !.steps = IF finds THEN taken ELSE @]
  BY <1>1
<1> HIDE DEF w, taken, finds
<1>9. rewrite' = [phase |-> rewrite.phase, start |-> rewrite.start, price |-> rewrite.price,
                  current |-> w, trace |-> taken,
                  best |-> IF finds THEN w ELSE rewrite.best,
                  steps |-> IF finds THEN taken ELSE rewrite.steps]
  BY <1>8 DEF RewriteInv
<1>10. /\ rewrite'.phase = rewrite.phase /\ rewrite'.start = rewrite.start
       /\ rewrite'.price = rewrite.price /\ rewrite'.current = w /\ rewrite'.trace = taken
       /\ rewrite'.best = (IF finds THEN w ELSE rewrite.best)
       /\ rewrite'.steps = (IF finds THEN taken ELSE rewrite.steps)
       /\ rewrite' = [phase |-> rewrite'.phase, start |-> rewrite'.start, price |-> rewrite'.price,
                      current |-> rewrite'.current, trace |-> rewrite'.trace,
                      best |-> rewrite'.best, steps |-> rewrite'.steps]
  BY <1>9
<1>11. /\ Leads(rewrite'.start, rewrite'.trace, rewrite'.current)
       /\ Leads(rewrite'.start, rewrite'.steps, rewrite'.best)
  BY <1>3, <1>7, <1>10
<1>12. CostOf(rewrite.price, rewrite'.best) <= CostOf(rewrite.price, rewrite.start)
  <2>1. /\ CostOf(rewrite.price, w) \in Int /\ CostOf(rewrite.price, rewrite.best) \in Int
        /\ CostOf(rewrite.price, rewrite.start) \in Int
    BY <1>3, <1>4, <1>6, PricesAreInt
  <2>2. CASE finds
    <3>1. CostOf(rewrite.price, w) < CostOf(rewrite.price, rewrite.best)
      BY <2>2 DEF finds
    <3> QED
      BY <1>3, <1>10, <2>1, <2>2, <3>1
  <2>3. CASE ~finds
    BY <1>3, <1>10, <2>3
  <2> QED
    BY <2>2, <2>3
<1>13. ClassKept(rewrite'.start, rewrite'.current, rewrite'.trace)
  BY <1>6, <1>10
<1> QED
  BY <1>2, <1>3, <1>10, <1>11, <1>12, <1>13 DEF RewriteInv

(* Every step keeps it. *)
LEMMA RewriteStep ==
    ASSUME RewriteInv, [RewriteNext]_rewrite
    PROVE  RewriteInv'
<1>1. ASSUME NEW w \in Writings, NEW price, OptimizeWorkflow(w, price) PROVE RewriteInv'
  <2> DEFINE first == [phase |-> "search", start |-> w, price |-> price, current |-> w,
                       trace |-> << >>, best |-> w, steps |-> << >>]
  <2>1. rewrite' = first
    BY <1>1 DEF OptimizeWorkflow
  <2>2. w \in WellWritten
    BY DrawnAreWritten
  <2>3. ClassKept(w, w, << >>)
    BY <2>2, ClassStarts
  <2>4. Leads(w, << >>, w)
    <3>1. << >> \in Seq(RuleAt)
      OBVIOUS
    <3>2. Replay(w, << >>) = [ok |-> TRUE, written |-> w]
      <4>1. \A m \in {0} : Replay(w, << >>) = [ok |-> TRUE, written |-> w]
        <5>1. << >> \in Seq({0})
          OBVIOUS
        <5> QED
          BY <5>1, ReplayAppend
      <4> QED
        BY <4>1
    <3> QED
      BY <2>2, <3>1, <3>2 DEF Leads
  <2>5. CostOf(price, w) <= CostOf(price, w)
    BY <2>2, PricesAreInt
  <2>6. /\ rewrite'.phase = "search" /\ rewrite'.start = w /\ rewrite'.price = price
        /\ rewrite'.current = w /\ rewrite'.trace = << >> /\ rewrite'.best = w
        /\ rewrite'.steps = << >>
        /\ rewrite' = [phase |-> rewrite'.phase, start |-> rewrite'.start, price |-> rewrite'.price,
                       current |-> rewrite'.current, trace |-> rewrite'.trace,
                       best |-> rewrite'.best, steps |-> rewrite'.steps]
    BY <2>1
  <2> QED
    BY <2>2, <2>3, <2>4, <2>5, <2>6 DEF RewriteInv
<1>2. ASSUME SearchStep PROVE RewriteInv'
  BY <1>2, SearchKeeps
<1>3. ASSUME NEW phase \in {"declared", "verified"}, rewrite.phase # "idle",
             rewrite' = [rewrite EXCEPT !.phase = phase]
      PROVE  RewriteInv'
  <2>1. rewrite' = [phase |-> phase, start |-> rewrite.start, price |-> rewrite.price,
                    current |-> rewrite.current, trace |-> rewrite.trace,
                    best |-> rewrite.best, steps |-> rewrite.steps]
    BY <1>3 DEF RewriteInv
  <2>2. /\ rewrite'.phase = phase /\ rewrite'.start = rewrite.start
        /\ rewrite'.price = rewrite.price /\ rewrite'.current = rewrite.current
        /\ rewrite'.trace = rewrite.trace /\ rewrite'.best = rewrite.best
        /\ rewrite'.steps = rewrite.steps
        /\ rewrite' = [phase |-> rewrite'.phase, start |-> rewrite'.start, price |-> rewrite'.price,
                       current |-> rewrite'.current, trace |-> rewrite'.trace,
                       best |-> rewrite'.best, steps |-> rewrite'.steps]
    BY <2>1
  <2> QED
    BY <1>3, <2>2 DEF RewriteInv
<1>4. ASSUME SearchEnds PROVE RewriteInv'
  BY <1>3, <1>4 DEF SearchEnds
<1>5. ASSUME VerifyOptimization PROVE RewriteInv'
  <2>1. rewrite.phase = "declared"
    BY <1>5 DEF VerifyOptimization
  <2>2. Leads(rewrite.start, rewrite.steps, rewrite.best)
    BY <2>1 DEF RewriteInv
  <2> DEFINE replayed == Replay(rewrite.start, rewrite.steps)
  <2>3. replayed.ok /\ replayed.written = rewrite.best
    BY <2>2 DEF Leads
  <2>4. rewrite' = [rewrite EXCEPT !.phase = IF replayed.ok /\ replayed.written = rewrite.best
                                             THEN "verified" ELSE "unsound"]
    BY <1>5 DEF VerifyOptimization
  <2> HIDE DEF replayed
  <2>5. rewrite' = [rewrite EXCEPT !.phase = "verified"]
    BY <2>3, <2>4
  <2> QED
    BY <1>3, <2>1, <2>5
<1>6. CASE UNCHANGED rewrite
  BY <1>6 DEF RewriteInv
<1> QED
  BY <1>1, <1>2, <1>4, <1>5, <1>6 DEF RewriteNext

(* In a derivation of any length, for any width, roles, pool and fuel, the  *)
(* rules of the theory never consume the bit (Bits - 4) mod Bits, empty no  *)
(* role's leg and add no step but a fusion's target; every rewrite lowers   *)
(* the uniform cost; and the declared writing always passes the replay and  *)
(* costs no more than the start (rewrite.rs, theory.rs).                    *)
THEOREM RewritesAlwaysKeepClass == RewriteSpec => []RewritesKeepClass
<1>1. RewriteInit => RewriteInv
  BY DEF RewriteInit, RewriteIdle, RewriteInv
<1>2. RewriteInv /\ [RewriteNext]_rewrite => RewriteInv'
  BY RewriteStep
<1>3. RewriteInv => RewritesKeepClass
  BY DEF RewriteInv, RewritesKeepClass, ClassKept
<1> QED
  BY <1>1, <1>2, <1>3, PTL DEF RewriteSpec
=============================================================================
