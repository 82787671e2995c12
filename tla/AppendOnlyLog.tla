--------------------------- MODULE AppendOnlyLog ----------------------------
(***************************************************************************)
(* What one stream of an EventStore (src/persistence/store.rs) promises:   *)
(* records are only added at the end, in the order they were handed over;  *)
(* a power failure may take records off the end again, but none that a     *)
(* rotation has synced.                                                    *)
(***************************************************************************)
EXTENDS Naturals, Sequences, SequencesExt

CONSTANT MaxRecords    \* bound: records handed to the stream

VARIABLES records,     \* the stored records, oldest first
          secured      \* how many of them no failure can take away

log_vars == <<records, secured>>

(* Records are numbered in the order they are handed over. *)
Later(n) == \A i \in DOMAIN records : records[i] < n

LogInit == records = <<>> /\ secured = 0

Store(n) ==
    /\ Later(n)
    /\ records' = Append(records, n)
    /\ UNCHANGED secured

Secure ==
    /\ secured' \in secured..Len(records)
    /\ UNCHANGED records

LoseTail ==
    /\ \E n \in secured..Len(records) : records' = SubSeq(records, 1, n)
    /\ UNCHANGED secured

LogNext == (\E n \in 1..MaxRecords : Store(n)) \/ Secure \/ LoseTail

LogSpec == LogInit /\ [][LogNext]_log_vars
=============================================================================
