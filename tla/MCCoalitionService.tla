------------------------- MODULE MCCoalitionService -------------------------
(***************************************************************************)
(* Instances of CoalitionService.  Three agents, of which 0 and 1 are in   *)
(* coalition 0.                                                            *)
(***************************************************************************)
EXTENDS CoalitionService

CONSTANTS c1, c2

MCGraph == Graph((0 :> "w") @@ (1 :> "w") @@ (2 :> "w"),
                 (0 :> [members |-> <<0, 1>>, weight |-> "w"]), 3, 1)

Join(v, h)  == [op |-> "join_coalition", v |-> v, h |-> h]
Leave(v, h) == [op |-> "leave_coalition", v |-> v, h |-> h]
Ask(h)      == [op |-> "members", h |-> h]

(* A join of agent 2 races with its own leave, with a join of an unknown   *)
(* agent or with a read, and all of them with a change of Others at every  *)
(* await: a member leaves or goes, the coalition goes, or a mutator        *)
(* poisons the lock.                                                       *)
MCRequests == (c1 :> {Join(2, 0)}) @@ (c2 :> {Join(3, 0), Leave(2, 0), Ask(0)})

Others == {[op |-> "leave_coalition", v |-> 0, h |-> 0],
           [op |-> "remove_vertex", v |-> 1],
           [op |-> "remove_hyperedge", h |-> 0],
           [op |-> "panicking_mutator", h |-> 0]}
=============================================================================
