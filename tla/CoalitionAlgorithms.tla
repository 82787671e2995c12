------------------------ MODULE CoalitionAlgorithms -------------------------
(***************************************************************************)
(* The pure part of src/algorithms: the value calculators                  *)
(* (value_calculation.rs, and decision/reliability_value.rs), the bounds   *)
(* of the integer-partition search (aipa.rs) and the distribution of the   *)
(* value calculations among agents (dcvc.rs).                              *)
(*                                                                         *)
(* Floats: a value is the integer it is in the unit Unit(calc), which      *)
(* makes it exact for at most three members and trust levels in tens.      *)
(***************************************************************************)
EXTENDS Integers, Sequences, FiniteSets, FiniteSetsExt, SequencesExt, Functions

CONSTANTS Capabilities,     \* agent -> the set of its capability bits
          Trust,            \* agent -> its trust level
          Required,         \* ReliabilityCoverage: the required bits,
          Reliability       \* and the reliability of each, in tenths

ASSUME ValuesAreExact ==
    /\ Cardinality(DOMAIN Trust) <= 3
    /\ \A a \in DOMAIN Trust : Trust[a] % 10 = 0
    /\ Required # {}

Calculators ==
    {"additive", "synergistic", "multiplicative", "coverage",
     "balanced", "capability_focused", "trust_focused"}

Unit(calc) ==
    CASE calc = "additive"       -> 1
      [] calc = "synergistic"    -> 6
      [] calc = "multiplicative" -> 1000
      [] calc = "coverage"       -> 10 * Cardinality(Required)
      [] OTHER                   -> 2

size_bonus(agents) == 50 * Cardinality(agents)
capability_bonus(agents) ==
    10 * MapThenSumSet(LAMBDA a : Cardinality(Capabilities[a]), agents)
trust_sum(agents) == MapThenSumSet(LAMBDA a : Trust[a], agents)
combined_capabilities(agents) == UNION {Capabilities[a] : a \in agents}
synergy(agents) == 25 * Cardinality(combined_capabilities(agents))

AdditiveCalculator(agents) ==
    size_bonus(agents) + capability_bonus(agents) + trust_sum(agents)

SynergisticCalculator(agents) ==
    6 * (size_bonus(agents) + capability_bonus(agents) + synergy(agents)
         + (IF Cardinality(agents) >= 3 THEN 30 * Cardinality(agents) ELSE 0))
    + (6 * trust_sum(agents)) \div Cardinality(agents)

MultiplicativeCalculator(agents) ==
    FoldSet(LAMBDA a, product :
               product * (Cardinality(Capabilities[a]) + 1) * (Trust[a] \div 10),
            Cardinality(agents) * 10^(3 - Cardinality(agents)), agents)

(* The presets of WeightedCalculator, in halves. *)
Weights(preset) ==
    CASE preset = "balanced" ->
            [size |-> 2, capability |-> 2, trust |-> 2, synergy |-> 2]
      [] preset = "capability_focused" ->
            [size |-> 1, capability |-> 4, trust |-> 1, synergy |-> 3]
      [] preset = "trust_focused" ->
            [size |-> 1, capability |-> 1, trust |-> 4, synergy |-> 1]

WeightedCalculator(preset, agents) ==
    LET w == Weights(preset)
    IN  w.size * size_bonus(agents) + w.capability * capability_bonus(agents)
        + w.trust * trust_sum(agents) + w.synergy * synergy(agents)

sum_reliability(bits) == MapThenSumSet(LAMBDA b : Reliability[b], bits)

ReliabilityCoverage(agents) ==
    LET covered == combined_capabilities(agents) \intersect Required
    IN  (IF covered = Required THEN 100 * sum_reliability(Required)
         ELSE 15 * Cardinality(Required) * sum_reliability(covered))
        - 8 * Unit("coverage") * Cardinality(agents)

base_value(calc, agents) ==
    IF agents = {} THEN 0
    ELSE CASE calc = "additive"       -> AdditiveCalculator(agents)
           [] calc = "synergistic"    -> SynergisticCalculator(agents)
           [] calc = "multiplicative" -> MultiplicativeCalculator(agents)
           [] calc = "coverage"       -> ReliabilityCoverage(agents)
           [] OTHER                   -> WeightedCalculator(calc, agents)

-----------------------------------------------------------------------------
(* aipa.rs.  A partition is a non-increasing sequence of block sizes.      *)

RECURSIVE generate_partitions_recursive(_, _)
generate_partitions_recursive(n, max_value) ==
    IF n = 0 THEN << <<>> >>
    ELSE LET top == Min({max_value, n})
             Starting(i) == LET rest == generate_partitions_recursive(n - i, i)
                            IN  [k \in DOMAIN rest |-> Cons(i, rest[k])]
         IN  FlattenSeq([k \in 1..top |-> Starting(top + 1 - k)])

generate_integer_partitions(n) == generate_partitions_recursive(n, n)

(* Row k counts the partitions into parts of at most k. *)
partition_count(n) ==
    LET p[k \in 0..n, i \in 0..n] ==
            IF k = 0 THEN (IF i = 0 THEN 1 ELSE 0)
            ELSE p[k - 1, i] + (IF i >= k THEN p[k, i - k] ELSE 0)
    IN  p[n, n]

verify_partition(partition, n) ==
    \/ partition = <<>> /\ n = 0
    \/ /\ partition # <<>> /\ ~Contains(partition, 0)
       /\ SumFunction(partition) = n
       /\ \A i \in 2..Len(partition) : partition[i] <= partition[i - 1]

(* mutant: a size that occurs twice is added once. *)
sum_for_partition_once(partition, map) ==
    MapThenSumSet(LAMBDA s : IF s \in DOMAIN map THEN map[s] ELSE 0,
                  Range(partition))

(* values_by_size maps a size to a non-empty sequence of values.  A size   *)
(* it does not have adds nothing; averages are in units of 1/Averages.     *)
sum_for_partition(partition, map) ==
    MapThenSumSet(LAMBDA i : IF partition[i] \in DOMAIN map
                             THEN map[partition[i]] ELSE 0,
                  DOMAIN partition)

Averages(values_by_size) ==
    FoldSet(LAMBDA s, d : d * Len(values_by_size[s]), 1, DOMAIN values_by_size)

Average(values_by_size, s) ==
    SumFunction(values_by_size[s])
    * (Averages(values_by_size) \div Len(values_by_size[s]))

(* Each of the three takes its aggregate again for every part. *)
SumOfParts(partition, aggregate) ==
    MapThenSumSet(LAMBDA i : aggregate[partition[i]],
                  {i \in DOMAIN partition : partition[i] \in DOMAIN aggregate})

compute_partition_upper_bound(partition, values_by_size) ==
    SumOfParts(partition, [s \in DOMAIN values_by_size |->
                              Max(Range(values_by_size[s]))])
compute_partition_avg_bound(partition, values_by_size) ==
    SumOfParts(partition, [s \in DOMAIN values_by_size |->
                              Average(values_by_size, s)])
compute_partition_min_bound(partition, values_by_size) ==
    SumOfParts(partition, [s \in DOMAIN values_by_size |->
                              Min(Range(values_by_size[s]))])

aggregate_per_size(values_by_size) ==
    [max |-> [s \in DOMAIN values_by_size |-> Max(Range(values_by_size[s]))],
     avg |-> [s \in DOMAIN values_by_size |-> Average(values_by_size, s)]]

PartitionBounds(partition, per_size) ==
    [partition   |-> partition,
     upper_bound |-> sum_for_partition(partition, per_size.max),
     lower_bound |-> sum_for_partition(partition, per_size.avg)]

AllBounds(n, values_by_size) ==
    LET partitions == generate_integer_partitions(n)
        per_size   == aggregate_per_size(values_by_size)
    IN  [k \in DOMAIN partitions |-> PartitionBounds(partitions[k], per_size)]

(* sort_by is stable. *)
compute_all_partition_bounds(n, values_by_size) ==
    LET bounds == AllBounds(n, values_by_size)
        Before(k, l) == \/ bounds[k].upper_bound > bounds[l].upper_bound
                        \/ /\ bounds[k].upper_bound = bounds[l].upper_bound
                           /\ k < l
        order == SetToSortSeq(DOMAIN bounds, Before)
    IN  [k \in DOMAIN order |-> bounds[order[k]]]

(* max_by keeps the last of several greatest. *)
find_best_partition(n, values_by_size) ==
    LET bounds == AllBounds(n, values_by_size)
        Greatest(k) == \A l \in DOMAIN bounds :
                          bounds[l].upper_bound <= bounds[k].upper_bound
    IN  bounds[Max({k \in DOMAIN bounds : Greatest(k)})]

-----------------------------------------------------------------------------
(* dcvc.rs.  The agents of a distribution are the positions of `speeds`,   *)
(* ids their agent_id.  The float product of an exact share may round to   *)
(* just below it: `low` are the speeds for which it does.                  *)

share_size(speeds, total, low, i) ==
    LET sum == SumFunction(speeds)
    IN  IF sum = 0 THEN 0                             \* NaN as usize
        ELSE (total * speeds[i]) \div sum
             - (IF speeds[i] \in low /\ 0 < speeds[i] /\ speeds[i] < sum
                   /\ (total * speeds[i]) % sum = 0 THEN 1 ELSE 0)

(* The shares are consecutive intervals of 0..total-1, in the agents' order. *)
share_end(speeds, total, low, i) ==
    Min({total, MapThenSumSet(LAMBDA j : share_size(speeds, total, low, j),
                              1..i)})

FastestFirst(speeds) ==
    SetToSortSeq(DOMAIN speeds,
                 LAMBDA i, j : speeds[i] > speeds[j] \/ (speeds[i] = speeds[j] /\ i < j))

(* mutant: what is left over starts one further. *)
leftover_skips(speeds, total, low, i) ==
    LET sorted == FastestFirst(speeds)
        start  == share_end(speeds, total, low, Len(speeds)) + 1
    IN  {idx \in start..(total - 1) :
            sorted[((idx - start) % Len(sorted)) + 1] = i}

(* What is left over goes round the agents, fastest first. *)
leftover(speeds, total, low, i) ==
    LET sorted == FastestFirst(speeds)
        start  == share_end(speeds, total, low, Len(speeds))
    IN  {idx \in start..(total - 1) :
            sorted[((idx - start) % Len(sorted)) + 1] = i}

(* The map is keyed by agent_id: a second agent of the same id overwrites  *)
(* the share of the first, and what is left over for either is its.        *)
distribute_workload(ids, speeds, total, low) ==
    IF speeds = <<>> \/ total = 0 THEN <<>>
    ELSE [id \in Range(ids) |->
            LET i == Max({j \in DOMAIN ids : ids[j] = id})
            IN  (IF i = 1 THEN 0 ELSE share_end(speeds, total, low, i - 1))
                    ..(share_end(speeds, total, low, i) - 1)
                \union UNION {leftover(speeds, total, low, j) :
                                 j \in {k \in DOMAIN ids : ids[k] = id}}]

verify_distribution(shares, total) ==
    /\ \A id \in DOMAIN shares : shares[id] \subseteq 0..(total - 1)
    /\ \A id, other \in DOMAIN shares :
          id # other => shares[id] \intersect shares[other] = {}
    /\ UNION Range(shares) = 0..(total - 1)

calculate_statistics(shares) ==
    IF DOMAIN shares = {} THEN [min |-> 0, max |-> 0, total |-> 0]
    ELSE LET sizes == [id \in DOMAIN shares |-> Cardinality(shares[id])]
         IN  [min |-> Min(Range(sizes)), max |-> Max(Range(sizes)),
              total |-> SumFunction(sizes)]
=============================================================================
