------------------------- MODULE MCOutcomeFeedback --------------------------
(* CoalitionSearch and OutcomeFeedback for TLC: one outcome names an agent *)
(* twice; a2 and a3 cover the required bits together, and a1 adds nothing. *)
EXTENDS CoalitionSearch

CONSTANTS a1, a2, a3

MCOutcomes == {[members |-> <<a1, a2>>, success |-> TRUE],
               [members |-> <<a1, a1>>, success |-> FALSE]}

MCCapabilities == [a \in Agents |-> IF a = a3 THEN {1, 3} ELSE {0}]
MCTrust == [a \in Agents |-> IF a = a1 THEN 20 ELSE 70]
MCRequired == {0, 1}
MCReliability == [b \in 0..3 |-> IF b = 0 THEN 9 ELSE 4]

MCSlices == {<<>>, <<a1, a2, a3>>}
MCConfigs == {[population |-> 0, iterations |-> 2],
              [population |-> 3, iterations |-> 1]}
MCSpeeds == UNION {[1..n -> {0, 1, 3}] : n \in 0..3}
=============================================================================
