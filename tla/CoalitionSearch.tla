--------------------------- MODULE CoalitionSearch --------------------------
(***************************************************************************)
(* The population-based search for a coalition structure and the recording *)
(* of its lineage (src/algorithms/population.rs), over a FeedbackCalculator *)
(* whose store may be written while the search runs.                       *)
(*                                                                         *)
(* A structure assigns each agent of the slice (its position) a block id.  *)
(* Every draw of SplitMix64 is a free choice, so one behaviour stands for  *)
(* every seed and every p_gbest, p_pbest.  A fitness is summed block by    *)
(* block, and each block takes the store's lock anew.                      *)
(***************************************************************************)
EXTENDS OutcomeFeedback, CoalitionAlgorithms

CONSTANTS Slices,       \* the slices of agents searched over
          Configs,      \* the [population, iterations] searched with
          Speeds,       \* the slices of speeds distributed over
          MaxWork       \* bound: coalitions distributed

VARIABLES search,       \* the search, and the recording of its lineage
          live,         \* the blocks recorded as coalitions and not dissolved
          work          \* a distribution: [ids, speeds, total, shares]

searching == <<search, live, work>>

NoStructure == [assignment |-> <<>>, fitness |-> 0]
Idle == [step |-> "idle", agents |-> <<>>, calc |-> "additive", left |-> 0,
         particle |-> 0, candidate |-> <<>>, block |-> 0, sum |-> 0,
         current |-> <<>>, pbest |-> <<>>, gbest |-> NoStructure,
         lineage |-> <<>>, disturbed |-> FALSE]
NoWork == [ids |-> <<>>, speeds |-> <<>>, total |-> 0, shares |-> <<>>]

SearchInit == Init /\ search = Idle /\ live = {} /\ work = NoWork

-----------------------------------------------------------------------------
(* Dense ids in the order of their first occurrence. *)
canonicalize(assignment) ==
    LET First(i) == Min({j \in DOMAIN assignment : assignment[j] = assignment[i]})
    IN  [i \in DOMAIN assignment |->
            Cardinality({assignment[j] : j \in 1..(First(i) - 1)})]

(* The blocks in the order of their ids, without the empty ones. *)
assignment_blocks(assignment) ==
    IF assignment = <<>> THEN <<>>
    ELSE LET Block(id) == {i \in DOMAIN assignment : assignment[i] = id}
         IN  SelectSeq([k \in 1..(Max(Range(assignment)) + 1) |-> Block(k - 1)],
                       LAMBDA b : b # {})

(* FeedbackCalculator::calculate_value: the base calculator plus the       *)
(* members' feedback, both weights 1, read under one lock of the store.    *)
block_value(agents, calc, block) ==
    LET members == {agents[i] : i \in block}
    IN  base_value(calc, members) + 25 * Unit(calc) * feedback_total(members)

(* The reference: the fitness by the store as it is now. *)
fitness(agents, calc, assignment) ==
    LET blocks == assignment_blocks(assignment)
    IN  MapThenSumSet(LAMBDA k : block_value(agents, calc, blocks[k]),
                      DOMAIN blocks)

(* A shuffle of the positions cut into blocks of the shape's sizes. *)
Realisations(shape, n) ==
    LET Cut(k) == SumFunctionOnSet(shape, 1..k)
        BlockAt(pos) == Min({k \in DOMAIN shape : pos <= Cut(k)})
    IN  {canonicalize([i \in 1..n |-> BlockAt(perm[i]) - 1]) :
            perm \in Bijection(1..n, 1..n)}

(* Particle p realises shapes[p % shapes.len()]. *)
seed_assignments(n, population) ==
    LET shapes == generate_integer_partitions(n)
        Seeds(p) == Realisations(shapes[((p - 1) % Len(shapes)) + 1], n)
    IN  {s \in [1..population -> UNION {Seeds(p) : p \in 1..population}] :
            \A p \in 1..population : s[p] \in Seeds(p)}

-----------------------------------------------------------------------------
(* search *)

Start(agents, calc, cfg) ==
    LET begun == [Idle EXCEPT !.agents = agents, !.calc = calc,
                              !.left = cfg.iterations]
        population == Max({cfg.population, 1})
    IN  /\ IF agents = <<>>
           THEN search' = [begun EXCEPT !.step = "done", !.left = 0,
                                        !.lineage = <<NoStructure>>]
           ELSE \E seeds \in seed_assignments(Len(agents), population) :
                   search' = [begun EXCEPT !.step = "seed", !.current = seeds,
                                 !.particle = 1, !.candidate = seeds[1]]
        /\ UNCHANGED <<vars, live, work>>

Evaluated == search.block = Len(assignment_blocks(search.candidate))
Scored == [assignment |-> search.candidate, fitness |-> search.sum]

EvaluateBlock ==
    /\ search.step \in {"seed", "eval"} /\ ~Evaluated
    /\ LET b == assignment_blocks(search.candidate)[search.block + 1]
       IN  search' = [search EXCEPT !.block = @ + 1,
                         !.sum = @ + block_value(search.agents, search.calc, b)]
    /\ UNCHANGED <<vars, live, work>>

(* The first strict maximum. *)
BestOf(pbest) ==
    pbest[Min({p \in DOMAIN pbest :
                  \A q \in DOMAIN pbest : pbest[q].fitness <= pbest[p].fitness})]

SeedEvaluated ==
    /\ search.step = "seed" /\ Evaluated
    /\ LET pbest == Append(search.pbest, Scored)
           next  == [search EXCEPT !.pbest = pbest, !.block = 0, !.sum = 0]
       IN  search' =
              IF search.particle < Len(search.current)
              THEN [next EXCEPT !.particle = @ + 1,
                                !.candidate = search.current[search.particle + 1]]
              ELSE [next EXCEPT !.particle = 1, !.candidate = <<>>,
                       !.gbest = BestOf(pbest), !.lineage = <<BestOf(pbest)>>,
                       !.step = IF search.left = 0 THEN "done" ELSE "move"]
    /\ UNCHANGED <<vars, live, work>>

(* The velocity of one particle: per agent the block id of the global      *)
(* best, of the personal best, or any up to one new id.                    *)
Velocities ==
    LET n      == Len(search.agents)
        max_id == Max(Range(search.current[search.particle]))
        Ids(i) == {search.gbest.assignment[i],
                   search.pbest[search.particle].assignment[i]}
                  \union 0..(max_id + 1)
    IN  {canonicalize(a) : a \in {f \in [1..n -> 0..n] :
                                    \A i \in 1..n : f[i] \in Ids(i)}}

Move ==
    /\ search.step = "move"
    /\ \E next \in Velocities :
          search' = [search EXCEPT !.step = "eval", !.candidate = next]
    /\ UNCHANGED <<vars, live, work>>

(* mutant: the global best follows every particle's latest position. *)
MoveEvaluated_latest ==
    /\ search.step = "eval" /\ Evaluated
    /\ LET p == search.particle
           more == p < Len(search.current)
       IN  search' = [search EXCEPT
              !.gbest = Scored, !.lineage = Append(@, Scored),
              !.current[p] = search.candidate, !.candidate = <<>>,
              !.block = 0, !.sum = 0,
              !.particle = IF more THEN p + 1 ELSE 1,
              !.left = IF more THEN @ ELSE @ - 1,
              !.step = IF more \/ search.left > 1 THEN "move" ELSE "done"]
    /\ UNCHANGED <<vars, live, work>>

MoveEvaluated ==
    /\ search.step = "eval" /\ Evaluated
    /\ LET p == search.particle
           more == p < Len(search.current)
           improves == search.sum > search.gbest.fitness
       IN  search' = [search EXCEPT
              !.pbest[p] = IF search.sum > @.fitness THEN Scored ELSE @,
              !.gbest = IF improves THEN Scored ELSE @,
              !.lineage = IF improves THEN Append(@, Scored) ELSE @,
              !.current[p] = search.candidate, !.candidate = <<>>,
              !.block = 0, !.sum = 0,
              !.particle = IF more THEN p + 1 ELSE 1,
              !.left = IF more THEN @ ELSE @ - 1,
              !.step = IF more \/ search.left > 1 THEN "move" ELSE "done"]
    /\ UNCHANGED <<vars, live, work>>

-----------------------------------------------------------------------------
(* record_trajectory, on a fresh manager: per epoch the coalitions of the  *)
(* epoch before are dissolved, then the blocks formed, one call each;      *)
(* `particle` counts epochs, `block` calls, and any call may fail.         *)

Epoch(k) == IF k = 0 THEN <<>>
            ELSE assignment_blocks(search.lineage[k].assignment)

AddAgents ==
    /\ search.step = "done"
    /\ search' = [search EXCEPT !.step = "dissolve", !.particle = 1,
                                !.current = <<>>, !.pbest = <<>>]
    /\ UNCHANGED <<vars, live, work>>

Dissolve ==
    /\ search.step = "dissolve"
    /\ LET prev == Epoch(search.particle - 1)
       IN  IF search.block < Len(prev)
           THEN /\ live' = live \ {prev[search.block + 1]}
                /\ search' = [search EXCEPT !.block = @ + 1]
           ELSE /\ search' = [search EXCEPT !.step = "form", !.block = 0]
                /\ UNCHANGED live
    /\ UNCHANGED <<vars, work>>

Form ==
    /\ search.step = "form"
    /\ LET blocks == Epoch(search.particle)
       IN  IF search.block < Len(blocks)
           THEN /\ live' = live \union {blocks[search.block + 1]}
                /\ search' = [search EXCEPT !.block = @ + 1]
           ELSE /\ search' = [search EXCEPT !.block = 0,
                      !.particle = @ + 1,
                      !.step = IF search.particle < Len(search.lineage)
                               THEN "dissolve" ELSE "recorded"]
                /\ UNCHANGED live
    /\ UNCHANGED <<vars, work>>

CallFails ==
    /\ search.step \in {"dissolve", "form"}
    /\ search' = [search EXCEPT !.step = "failed"]
    /\ UNCHANGED <<vars, live, work>>

-----------------------------------------------------------------------------
Distribute(ids, speeds, total, low) ==
    /\ work' = [ids |-> ids, speeds |-> speeds, total |-> total,
                shares |-> distribute_workload(ids, speeds, total, low)]
    /\ UNCHANGED <<vars, search, live>>

(* The store is written while a search is under way. *)
SeedMeanwhile(a) ==
    /\ search.step \in {"seed", "move", "eval"} /\ add_history(a)
    /\ search' = [search EXCEPT !.disturbed = TRUE]
    /\ UNCHANGED <<live, work>>

(* Ids of their own, or one id for all. *)
IdsOf(speeds) == {[i \in DOMAIN speeds |-> i], [i \in DOMAIN speeds |-> 1]}

(***************************************************************************)
(* Bound: a search and a distribution start on a store that was at most    *)
(* seeded, before any outcome; from then on the forwarder rests and the    *)
(* store is written by add_history only, under the same lock and to the    *)
(* same counters as record_outcome.                                        *)
(***************************************************************************)
Resting == search.step = "idle" /\ work = NoWork
Fresh == emitted = 0 /\ tapOpen /\ ~cancelled /\ decision = NoDecision

StartSearch ==
    /\ Resting /\ Fresh
    /\ \E agents \in Slices, calc \in Calculators, cfg \in Configs :
          Start(agents, calc, cfg)

StartDistribution ==
    /\ Resting /\ Fresh
    /\ \E speeds \in Speeds : \E ids \in IdsOf(speeds),
           total \in 0..MaxWork, low \in SUBSET Range(speeds) :
              Distribute(ids, speeds, total, low)

OutcomeStep == Resting /\ Next /\ UNCHANGED searching

SearchNext ==
    \/ OutcomeStep \/ StartSearch \/ StartDistribution
    \/ EvaluateBlock \/ SeedEvaluated \/ Move \/ MoveEvaluated
    \/ AddAgents \/ Dissolve \/ Form \/ CallFails
    \/ \E a \in Agents : SeedMeanwhile(a)

SearchSpec == SearchInit /\ [][SearchNext]_<<vars, searching>>
              /\ WF_<<vars, searching>>(Forwarder /\ UNCHANGED searching)

-----------------------------------------------------------------------------
Structures(n) == {canonicalize(a) : a \in [1..n -> 0..(n - 1)]}
Blocks(s) == ToSet(assignment_blocks(s.assignment))

Improves == \A k \in 2..Len(search.lineage) :
    search.lineage[k].fitness > search.lineage[k - 1].fitness

SamePartition(s, t) ==
    {{i \in DOMAIN s : s[i] = id} : id \in Range(s)}
    = {{i \in DOMAIN t : t[i] = id} : id \in Range(t)}

(***************************************************************************)
(* "The first entry is the initial global best and each subsequent entry   *)
(* strictly improved it; best == last" (population.rs), whatever was       *)
(* written to the store meanwhile.  No personal best beats the global one, *)
(* two structures are equal exactly when they induce the same partition,   *)
(* and with a store at rest a fitness is the value of its structure, every *)
(* particle's position is at most its personal best, and the additive      *)
(* calculator ("constant across every set-partition") has one epoch.       *)
(* Recording leaves exactly the coalitions of the best structure alive.    *)
(***************************************************************************)
SearchKeepsBest ==
    /\ search.lineage # <<>> =>
          /\ search.gbest = Last(search.lineage) /\ Improves
          /\ \A p \in DOMAIN search.pbest :
                search.pbest[p].fitness <= search.gbest.fitness
    /\ \A p, q \in DOMAIN search.pbest :
          SamePartition(search.pbest[p].assignment, search.pbest[q].assignment)
          => search.pbest[p].assignment = search.pbest[q].assignment
    /\ search.step \in {"move", "done"} /\ ~search.disturbed =>
          LET Now(s) == fitness(search.agents, search.calc, s)
          IN  /\ \A s \in ToSet(search.lineage) \union ToSet(search.pbest) :
                    s.fitness = Now(s.assignment)
              /\ \A p \in DOMAIN search.current :
                    Now(search.current[p]) <= search.pbest[p].fitness
              /\ search.calc = "additive" => Len(search.lineage) = 1
    /\ search.step = "recorded" => live = Blocks(search.gbest)
    /\ \A b, c \in live : b # c => b \intersect c = {}

-----------------------------------------------------------------------------
(* The values of all coalitions of the slice, by size. *)
values_by_size ==
    LET n == Len(search.agents)
        Of(s) == SetToSeq(kSubset(s, 1..n))
    IN  [s \in 1..n |-> [k \in DOMAIN Of(s) |->
            block_value(search.agents, search.calc, Of(s)[k])]]

Shape(s) == SortSeq([k \in DOMAIN assignment_blocks(s) |->
                        Cardinality(assignment_blocks(s)[k])],
                    LAMBDA x, y : x > y)

(***************************************************************************)
(* The bounds of a partition hold for the structures of its shape: none is *)
(* above the upper bound or below the minimum, and the best of them is at  *)
(* least the average; the bounds from the table of aggregates are those    *)
(* computed part by part.  The shapes are the partitions of n, each once,  *)
(* as many as partition_count says; the two functions agree on the         *)
(* greatest upper bound, and no search finds more than it.                 *)
(***************************************************************************)
BoundsBracketStructures ==
    search.step = "done" /\ search.agents # <<>> /\ ~search.disturbed =>
        LET n      == Len(search.agents)
            bounds == compute_all_partition_bounds(n, values_by_size)
            best   == find_best_partition(n, values_by_size)
            Fit(s) == fitness(search.agents, search.calc, s)
            Shaped(b) == {s \in Structures(n) : Shape(s) = b.partition}
        IN  /\ \A b \in ToSet(bounds) :
                  /\ verify_partition(b.partition, n)
                  /\ b.upper_bound = compute_partition_upper_bound(
                                         b.partition, values_by_size)
                  /\ b.lower_bound = compute_partition_avg_bound(
                                         b.partition, values_by_size)
                  /\ \A s \in Shaped(b) :
                        /\ Fit(s) <= b.upper_bound
                        /\ compute_partition_min_bound(
                              b.partition, values_by_size) <= Fit(s)
                  /\ \E s \in Shaped(b) :
                        b.lower_bound <= Fit(s) * Averages(values_by_size)
            /\ {b.partition : b \in ToSet(bounds)} = {Shape(s) : s \in Structures(n)}
            /\ Len(bounds) = partition_count(n)
            /\ Len(bounds) = Cardinality({b.partition : b \in ToSet(bounds)})
            /\ best.upper_bound = bounds[1].upper_bound
            /\ search.gbest.fitness <= best.upper_bound

(***************************************************************************)
(* Agents of different ids share the coalitions out completely and without *)
(* overlap; a faster agent never has fewer than a slower one, and agents   *)
(* of equal speed differ by at most one, whichever products the float      *)
(* arithmetic rounds down.                                                 *)
(***************************************************************************)
SharesPartitionWork ==
    work.speeds # <<>> /\ IsInjective(work.ids) =>
        /\ verify_distribution(work.shares, work.total)
        /\ calculate_statistics(work.shares).total = work.total
        /\ work.total > 0 => \A i, j \in DOMAIN work.ids :
              LET mine  == Cardinality(work.shares[work.ids[i]])
                  yours == Cardinality(work.shares[work.ids[j]])
              IN  /\ work.speeds[i] > work.speeds[j] => mine >= yours
                  /\ work.speeds[i] = work.speeds[j] => mine <= yours + 1

(* The tables a search is planned from are exact: bounds and shares.       *)
PlansAreExact == BoundsBracketStructures /\ SharesPartitionWork
=============================================================================
