---------------------------- MODULE StreamReplay ----------------------------
(***************************************************************************)
(* The way of an event to the Topology stream and back: the projection to  *)
(* the wire (src/persistence/wire.rs), the record the forwarder builds     *)
(* (src/persistence/tee.rs) and the replay of the stream into a fresh log  *)
(* (src/persistence/replay.rs).  The writer may have been another build on *)
(* another target: a record can be newer, sealed, undecodable, or hold a   *)
(* weight or an index that this reader cannot represent.                   *)
(***************************************************************************)
EXTENDS TemporalQueries, FiniteSetsExt

CONSTANTS REPLAY_BATCH,   \* records read at once
          UsizeMax        \* the largest index of the reader's target

ASSUME ReplayBounds == REPLAY_BATCH \in Nat \ {0} /\ UsizeMax \in Nat

WIRE_TOPOLOGY_SCHEMA_VERSION == 1

-----------------------------------------------------------------------------
(***************************************************************************)
(* The wire mirror: weights go through the caller's projection, indices    *)
(* and timestamps widen to u64, the variants keep their fields.            *)
(***************************************************************************)
WeightFields(type) ==
    CASE type \in {"VertexAdded", "VertexRemoved", "HyperedgeAdded",
                   "HyperedgeRemoved"} -> {"weight"}
      [] type \in {"VertexWeightUpdated", "HyperedgeWeightUpdated"} ->
            {"old", "new"}
      [] OTHER -> {}

IndexFields(e) == DOMAIN e \cap {"index", "target"}

VectorFields(e) ==
    (DOMAIN e \cap {"members", "contracted", "sources", "old", "new"})
        \ WeightFields(e.type)

(* Into<VW>, Into<HW>, and TryInto back: it fails for what is no projection. *)
Projection(w) == Some(w)
NoProjection == None
Unproject(p) == CHOOSE w \in p : TRUE

from_event(x) ==
    [timestamp |-> x.ts,
     mirror    |-> [k \in DOMAIN x.event |->
                       IF k \in WeightFields(x.event.type)
                       THEN Projection(x.event[k]) ELSE x.event[k]]]

(* vertex_from_u64 and hyperedge_from_u64 over every index of the mirror. *)
IndicesFit(e) ==
    /\ \A k \in IndexFields(e) : e[k] <= UsizeMax
    /\ \A k \in VectorFields(e) : \A v \in Range(e[k]) : v <= UsizeMax

WeightsConvert(e) == \A k \in WeightFields(e.type) : e[k] # NoProjection

Ok(x) == [err |-> "none", val |-> x]
Err(e) == [err |-> e, val |-> <<>>]

(* mutant: an update comes back with its old and new value swapped. *)
try_into_event_swapped(w) ==
    LET e == w.mirror
        Field(k) == IF k \in WeightFields(e.type) THEN Unproject(e[k]) ELSE e[k]
    IN  IF ~ (IndicesFit(e) /\ WeightsConvert(e)) THEN Err("Decode")
        ELSE Ok([ts |-> w.timestamp,
                 event |-> [k \in DOMAIN e |->
                    IF k = "old" THEN Field("new")
                    ELSE IF k = "new" /\ "old" \in DOMAIN e THEN Field("old")
                    ELSE Field(k)]])

try_into_event(w) ==
    LET e == w.mirror
    IN  IF ~ (IndicesFit(e) /\ WeightsConvert(e)) THEN Err("Decode")
        ELSE Ok([ts    |-> w.timestamp,
                 event |-> [k \in DOMAIN e |->
                               IF k \in WeightFields(e.type)
                               THEN Unproject(e[k]) ELSE e[k]]])

-----------------------------------------------------------------------------
(* forward_one: the record of an event; the payload is the CBOR of w. *)
Record(x) == [version |-> WIRE_TOPOLOGY_SCHEMA_VERSION, payload |-> "Plain",
              cbor |-> Some(from_event(x))]

(* EventStore::read_from, sequence numbers from 0. *)
read_from(stream, from, limit) ==
    SubSeq(stream, from + 1, Min({from + limit, Len(stream)}))

DecodeRecord(r) ==
    IF r.version > WIRE_TOPOLOGY_SCHEMA_VERSION
    THEN Err("SchemaVersionUnsupported")
    ELSE IF r.payload = "Sealed" \/ r.cbor = None THEN Err("Decode")
    ELSE try_into_event(CHOOSE w \in r.cbor : TRUE)

(* A batch: its events in order, or the first error among its records. *)
DecodeBatch(batch) ==
    LET decoded == [i \in DOMAIN batch |-> DecodeRecord(batch[i])]
        failed  == {i \in DOMAIN batch : decoded[i].err # "none"}
    IN  IF failed = {} THEN Ok([i \in DOMAIN batch |-> decoded[i].val])
        ELSE decoded[Min(failed)]

(* The first error ends the replay and the log so far is dropped. *)
replay_into_event_log(stream, from) ==
    LET Loop[cursor \in Nat] ==
            LET batch  == read_from(stream, cursor, REPLAY_BATCH)
                events == DecodeBatch(batch)
            IN  IF batch = <<>> \/ events.err # "none" THEN events
                ELSE LET rest == Loop[cursor + Len(batch)]
                     IN  IF rest.err # "none" THEN rest
                         ELSE Ok(events.val \o rest.val)
    IN  Loop[from]

-----------------------------------------------------------------------------
(***************************************************************************)
(* The stream a quiescent pipeline wrote for the log, and the same stream  *)
(* with the record of one event replaced.                                  *)
(***************************************************************************)
Stream == [i \in DOMAIN log |-> Record(log[i])]

WithMirror(r, S, x) ==
    [r EXCEPT !.cbor = {[w EXCEPT !.mirror =
        [k \in DOMAIN w.mirror |-> IF k \in S THEN x ELSE w.mirror[k]]] : w \in @}]

Damaged(i) ==
    LET r == Record(log[i])
        e == log[i].event
    IN  {[r EXCEPT !.version = @ + 1], [r EXCEPT !.payload = "Sealed"],
         [r EXCEPT !.cbor = None]}
        \cup {WithMirror(r, {k}, NoProjection) : k \in WeightFields(e.type)}
        \cup {WithMirror(r, {k}, UsizeMax + 1) : k \in IndexFields(e)}
        \cup {WithMirror(r, {k}, <<0, UsizeMax + 1>>) : k \in VectorFields(e)}

ErrorOf(r) == IF r.version > WIRE_TOPOLOGY_SCHEMA_VERSION
              THEN "SchemaVersionUnsupported" ELSE "Decode"

(***************************************************************************)
(* "The returned log carries the same events, in the same order, as the    *)
(* live log that produced them" (replay.rs:33-34): across batch boundaries *)
(* and from any sequence number, nothing is skipped, repeated or altered;  *)
(* and a record this reader cannot represent fails the whole replay, never *)
(* a part of it, exactly when it lies in the part asked for.               *)
(***************************************************************************)
ReplayParity ==
    LET live  == [i \in 1..Len(log) |-> [ts |-> log[i].ts, event |-> log[i].event]]
        After(n) == Ok(SubSeq(live, n + 1, Len(log)))
    IN  /\ \A from \in 0..(Len(log) + 1) :
              replay_into_event_log(Stream, from) = After(from)
        /\ \A i \in DOMAIN log : \A r \in Damaged(i) :
              LET stream == [Stream EXCEPT ![i] = r]
              IN  /\ replay_into_event_log(stream, i - 1) = Err(ErrorOf(r))
                  /\ replay_into_event_log(stream, i) = After(i)
=============================================================================
