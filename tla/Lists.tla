------------------------------- MODULE Lists --------------------------------
(***************************************************************************)
(* Selections from a list by position, as the code makes them with         *)
(* iterator filters and retain.  Written so, and not with SelectSeq, a     *)
(* proof can speak of the kept positions.                                  *)
(***************************************************************************)
EXTENDS Integers, Sequences, FiniteSets

(* The elements of s at the kept positions, in their order: the k-th is    *)
(* the one with k kept positions up to its own.                            *)
Picked(s, kept) ==
    [k \in 1..Cardinality(kept) |->
        s[CHOOSE i \in kept : Cardinality({j \in kept : j <= i}) = k]]
=============================================================================
