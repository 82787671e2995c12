------------------------ MODULE MCTemporalHypergraph ------------------------
(***************************************************************************)
(* Small instances of TemporalHypergraph for TLC: the graphs the runs      *)
(* start from and the requests their calls may make.                       *)
(***************************************************************************)
EXTENDS TemporalHypergraph, TLC

(* Two agents; two coalitions that share one of them. *)
Populated ==
    [verts |-> (0 :> "a" @@ 1 :> "b"),
     edges |-> (0 :> [members |-> <<0, 1>>, weight |-> "x"]
             @@ 1 :> [members |-> <<1>>, weight |-> "y"]),
     nextV |-> 2, nextE |-> 2]

PopulatedOnly == {Populated}

(* Two mutations that race, one that can fail, one that panics. *)
RacingRequests ==
    {[op |-> "join_coalition", v |-> 0, h |-> 1],
     [op |-> "join_hyperedges", hs |-> <<0, 1>>],
     [op |-> "panicking_mutator", h |-> 1]}

SmallTimes == 0..2
=============================================================================
