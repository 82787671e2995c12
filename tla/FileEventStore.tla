--------------------------- MODULE FileEventStore ---------------------------
(***************************************************************************)
(* src/persistence/store.rs with the frames of src/persistence/chain.rs:   *)
(* one stream of the segmented, hash-chained file store.  The streams of a *)
(* store share a mutex and nothing else.                                   *)
(*                                                                         *)
(* A frame is two cells of its segment file: the length prefix and the     *)
(* body.  A write can reach the file in part; a process kill keeps what    *)
(* reached the file, a power failure keeps of it at least what was synced. *)
(* The hash of a frame stands for its whole content, so it is the          *)
(* sequence of the records up to and including it: no collisions.          *)
(***************************************************************************)
EXTENDS Naturals, Sequences, SequencesExt

CONSTANTS SegmentMaxes, \* values of FileStoreConfig.segment_max_records
          MaxRecords,   \* bound: records handed to append
          MaxCrashes,   \* bound: times the store goes down
          PowerFails    \* whether a crash may be a power failure

ASSUME StoreBounds ==
    SegmentMaxes \subseteq Nat /\ MaxRecords \in Nat /\ MaxCrashes \in Nat
ASSUME PowerFailsIsBool == PowerFails \in BOOLEAN

VARIABLES
    segment_max,     \* the configuration, the same for every open
    disk,            \* segment files: [first, cells, synced], oldest first
    status,          \* "down", "up", or "refused": open returned an error
    segments,        \* StreamState: [first, offsets] per segment
    next_seq, head, active_len, wedged, hasWriter, buffer,
    appending,       \* where append is
    handed,          \* records handed to append so far
    crashes,
    acked, secured   \* history: what append returned Ok for; what was synced

memory    == <<segments, next_seq, head, active_len, wedged, hasWriter, buffer>>
storevars == <<segment_max, disk, status, memory, appending, handed, crashes,
               acked, secured>>

-----------------------------------------------------------------------------
(***************************************************************************)
(* Frames (chain.rs).                                                      *)
(***************************************************************************)
hash_frame(f) == Append(f.prev, f.record)

encode_frame(n, seq, prev) == [seq |-> seq, prev |-> prev, record |-> n]

CellsOf(f) == <<[frame |-> f, part |-> "len"], [frame |-> f, part |-> "body"]>>

(* decode_frame: the two cells hold one frame, of the sequence expected. *)
Decodes(cells, offset, seq) ==
    /\ offset + 2 <= Len(cells)
    /\ cells[offset + 1] = [frame |-> cells[offset + 2].frame, part |-> "len"]
    /\ cells[offset + 2].part = "body"
    /\ cells[offset + 2].frame.seq = seq

-----------------------------------------------------------------------------
(***************************************************************************)
(* Reading through the index: segment_containing, read_frame_bytes_at.     *)
(***************************************************************************)
Holding(segs, seq) ==
    {i \in DOMAIN segs : /\ segs[i].first <= seq
                         /\ seq < segs[i].first + Len(segs[i].offsets)}

(* The newest segment that holds seq, or 0. *)
segment_containing(segs, seq) ==
    IF Holding(segs, seq) = {} THEN 0 ELSE Max(Holding(segs, seq))

FileOf(d, first) == d[CHOOSE i \in DOMAIN d : d[i].first = first]

(* The stored frame of seq as a set: empty if it cannot be read. *)
FrameAt(d, segs, seq) ==
    LET s == segment_containing(segs, seq)
    IN  IF s = 0 THEN {}
        ELSE LET cells  == FileOf(d, segs[s].first).cells
                 offset == segs[s].offsets[seq - segs[s].first + 1]
             IN  IF Decodes(cells, offset, seq)
                 THEN {cells[offset + 2].frame} ELSE {}

(* The hash that seq's frame must carry as prev_hash: of the frame before. *)
PredecessorHash(d, segs, seq) ==
    IF seq = 0 THEN {<<>>} ELSE {hash_frame(f) : f \in FrameAt(d, segs, seq - 1)}

(* check_back_link. *)
check_back_link(d, segs, seq) ==
    \E f \in FrameAt(d, segs, seq) : f.prev \in PredecessorHash(d, segs, seq)

(* read_from: at most limit records from sequence from on. *)
read_from(from, limit) ==
    LET end == IF from + limit - 1 < next_seq THEN from + limit - 1
                                              ELSE next_seq - 1
    IN  IF limit = 0 \/ next_seq = 0 \/ from >= next_seq THEN <<>>
        ELSE [i \in 1..(end - from + 1) |->
                {f.record : f \in FrameAt(disk, segments, from + i - 1)}]

(* verify over from..to, to clamped to the head. *)
verify(from, to) ==
    LET end == IF to < next_seq THEN to ELSE next_seq - 1
    IN  next_seq > 0 /\ \A s \in from..end : check_back_link(disk, segments, s)

-----------------------------------------------------------------------------
(***************************************************************************)
(* open: scan_stream and scan_segment over the files, a torn tail of the   *)
(* last one cut off, compute_head over what is left.                       *)
(***************************************************************************)
Whole(cells) == Len(cells) \div 2
Torn(cells)  == Len(cells) % 2 = 1

(* scan_segment: a length prefix with its body after it is a frame. *)
scan_segment(file) ==
    [first |-> file.first,
     offsets |-> [i \in 1..Whole(file.cells) |-> 2 * (i - 1)]]

Truncated(file) ==
    LET kept == SubSeq(file.cells, 1, 2 * Whole(file.cells))
    IN  IF Torn(file.cells)
        THEN [first |-> file.first, cells |-> kept, synced |-> Len(kept)]
        ELSE file

Scanned == [i \in DOMAIN disk |-> scan_segment(disk[i])]

(* The sequence number after the last whole frame of files d. *)
End(d) == IF d = <<>> THEN 0 ELSE Last(d).first + Whole(Last(d).cells)
ScannedNext == End(disk)

(* mutant: a torn tail is an error in every segment. *)
Continuous_strict ==
    \A i \in DOMAIN disk :
       /\ disk[i].first = IF i = 1 THEN 0
                          ELSE disk[i-1].first + Whole(disk[i-1].cells)
       /\ ~Torn(disk[i].cells)

(* Each segment continues the one before; only the last may be torn. *)
Continuous ==
    \A i \in DOMAIN disk :
       /\ disk[i].first = IF i = 1 THEN 0
                          ELSE disk[i-1].first + Whole(disk[i-1].cells)
       /\ i < Len(disk) => ~Torn(disk[i].cells)

(* compute_head: the last frame decodes and links to the one before it. *)
HeadVerifies ==
    ScannedNext > 0 => check_back_link(disk, Scanned, ScannedNext - 1)

HeadHash(d, segs, n) ==
    IF n = 0 THEN <<>>
    ELSE hash_frame(CHOOSE f \in FrameAt(d, segs, n - 1) : TRUE)

open ==
    /\ status = "down"
    /\ IF Continuous /\ HeadVerifies
       THEN /\ status' = "up"
            /\ disk' = [i \in DOMAIN disk |-> IF i = Len(disk)
                                              THEN Truncated(disk[i])
                                              ELSE disk[i]]
            /\ segments' = Scanned
            /\ next_seq' = ScannedNext
            /\ head' = HeadHash(disk, Scanned, ScannedNext)
            /\ active_len' = IF disk = <<>> THEN 0
                             ELSE 2 * Whole(Last(disk).cells)
            /\ hasWriter' = (disk # <<>>)
            /\ wedged' = FALSE /\ buffer' = <<>>
       ELSE status' = "refused" /\ UNCHANGED <<disk, memory>>
    /\ UNCHANGED <<appending, handed, crashes, acked, secured>>

-----------------------------------------------------------------------------
(***************************************************************************)
(* append: one attempt per record.  Every error before the write leaves    *)
(* the stream usable; a failed write wedges it.                            *)
(***************************************************************************)
NeedNew == IF segments = <<>> THEN TRUE
           ELSE Len(Last(segments).offsets) >= segment_max

append ==
    /\ status = "up" /\ appending = "idle" /\ handed < MaxRecords
    /\ handed' = handed + 1
    /\ appending' = IF wedged THEN "idle"
               ELSE IF ~NeedNew THEN "write"
               ELSE IF hasWriter THEN "sync" ELSE "create"
    /\ UNCHANGED <<disk, status, memory, crashes, acked, secured>>

Failed == appending' = "idle" /\ UNCHANGED <<disk, memory, secured>>

(* The last file is the active segment's. *)
Active == Len(disk)

(* mutant: the closed segment is flushed but not synced. *)
Sync_only_flushes ==
    /\ appending = "sync" /\ appending' = "create"
    /\ secured' = next_seq
    /\ UNCHANGED <<disk, status, memory, handed, crashes, acked>>

(* rotate_if_needed: the segment to close is flushed and synced first... *)
Sync ==
    /\ appending = "sync"
    /\ \/ /\ disk' = [disk EXCEPT ![Active].synced = Len(disk[Active].cells)]
          /\ secured' = next_seq
          /\ appending' = "create" /\ UNCHANGED memory
       \/ Failed
    /\ UNCHANGED <<status, handed, crashes, acked>>

(* ...then the next one is created, named by the next sequence number; a   *)
(* file that already has that name is opened instead.                      *)
Create ==
    /\ appending = "create"
    /\ \/ /\ disk' = IF \E i \in DOMAIN disk : disk[i].first = next_seq
                     THEN disk
                     ELSE Append(disk, [first |-> next_seq, cells |-> <<>>,
                                        synced |-> 0])
          /\ segments' = Append(segments, [first |-> next_seq,
                                           offsets |-> <<>>])
          /\ active_len' = 0 /\ hasWriter' = TRUE
          /\ appending' = "write"
          /\ UNCHANGED <<next_seq, head, wedged, buffer, secured>>
       \/ Failed
    /\ UNCHANGED <<status, handed, crashes, acked>>

Frame == encode_frame(handed, next_seq, head)

(* The first k cells of the frame reach the active file. *)
Written(cells) == [disk EXCEPT ![Active].cells = @ \o cells]

EncodeFrameFails ==
    /\ appending = "write" /\ Failed
    /\ UNCHANGED <<status, handed, crashes, acked>>

(* write_frame succeeds: index, next_seq and head follow, append returns. *)
WriteFrame ==
    /\ appending = "write" /\ appending' = "idle"
    /\ disk' = Written(CellsOf(Frame))
    /\ segments' = [segments EXCEPT ![Len(segments)].offsets =
                                        Append(@, active_len)]
    /\ active_len' = active_len + 2
    /\ next_seq' = next_seq + 1
    /\ head' = hash_frame(Frame)
    /\ acked' = acked \union {[seq |-> next_seq, record |-> handed]}
    /\ UNCHANGED <<status, wedged, hasWriter, buffer, handed, crashes, secured>>

(* mutant: a failed write is just an error. *)
WriteFails_no_wedge ==
    /\ appending = "write" /\ appending' = "idle"
    /\ \E k \in {0, 1} :
          /\ disk' = Written(SubSeq(CellsOf(Frame), 1, k))
          /\ buffer' = <<>>
    /\ UNCHANGED <<status, segments, next_seq, head, active_len, wedged,
                   hasWriter, handed, crashes, acked, secured>>

(* write_frame fails: part of the frame is in the file, the rest stays in  *)
(* the BufWriter, and the stream is wedged.                                *)
WriteFails ==
    /\ appending = "write" /\ appending' = "idle"
    /\ \E k \in {0, 1} :
          /\ disk' = Written(SubSeq(CellsOf(Frame), 1, k))
          /\ buffer' = SubSeq(CellsOf(Frame), k + 1, 2)
    /\ wedged' = TRUE
    /\ UNCHANGED <<status, segments, next_seq, head, active_len, hasWriter,
                   handed, crashes, acked, secured>>

-----------------------------------------------------------------------------
(* The store's memory is gone; open rebuilds it. *)
GoDown ==
    /\ crashes < MaxCrashes
    /\ crashes' = crashes + 1
    /\ status' = "down" /\ appending' = "idle"
    /\ segments' = <<>> /\ next_seq' = 0 /\ head' = <<>> /\ active_len' = 0
    /\ wedged' = FALSE /\ hasWriter' = FALSE /\ buffer' = <<>>
    /\ UNCHANGED handed

(* The store is dropped: its BufWriter tries to write what it still holds. *)
DropStore ==
    /\ status = "up" /\ appending = "idle" /\ GoDown
    /\ \E k \in 0..Len(buffer) :
          disk' = IF disk = <<>> THEN disk ELSE Written(SubSeq(buffer, 1, k))
    /\ UNCHANGED <<acked, secured>>

(* The process is killed, possibly inside a write. *)
Kill ==
    /\ status = "up" /\ GoDown
    /\ \E k \in (IF appending = "write" THEN 0..2 ELSE {0}) :
          disk' = IF k = 0 THEN disk
                  ELSE Written(SubSeq(CellsOf(Frame), 1, k))
    /\ UNCHANGED <<acked, secured>>

(* A power failure: of each file what was synced survives, and some of the *)
(* rest; the newest file may be gone if nothing of it was synced.          *)
Surviving(file) ==
    {[file EXCEPT !.cells = SubSeq(@, 1, n)] : n \in file.synced..Len(file.cells)}

AfterPowerFailure ==
    {d \in UNION {[1..n -> UNION {Surviving(disk[i]) : i \in DOMAIN disk}] :
                    n \in {Len(disk)} \cup
                          (IF disk # <<>> THEN {Len(disk) - 1} ELSE {})} :
        /\ \A i \in DOMAIN d : d[i] \in Surviving(disk[i])
        /\ Len(d) < Len(disk) => Last(disk).synced = 0}

PowerFailure ==
    /\ PowerFails /\ status # "refused" /\ GoDown
    /\ disk' \in AfterPowerFailure
    /\ acked' = {a \in acked : a.seq < End(disk')}
    /\ UNCHANGED secured

StoreInit ==
    /\ segment_max \in SegmentMaxes
    /\ disk = <<>> /\ status = "down"
    /\ segments = <<>> /\ next_seq = 0 /\ head = <<>> /\ active_len = 0
    /\ wedged = FALSE /\ hasWriter = FALSE /\ buffer = <<>>
    /\ appending = "idle" /\ handed = 0 /\ crashes = 0
    /\ acked = {} /\ secured = 0

StoreNext ==
    /\ \/ open \/ append \/ Sync \/ Create \/ EncodeFrameFails \/ WriteFrame
       \/ WriteFails \/ DropStore \/ Kill \/ PowerFailure
    /\ UNCHANGED segment_max

StoreSpec == StoreInit /\ [][StoreNext]_storevars

-----------------------------------------------------------------------------
(***************************************************************************)
(* Properties.                                                             *)
(***************************************************************************)

(***************************************************************************)
(* A store can always be reopened: no crash, at any step of an append or a *)
(* rotation, leaves files that open refuses (scan_stream, scan_segment and *)
(* compute_head return Decode or ChainBroken only for damage from outside).*)
(***************************************************************************)
OpenSucceeds == status # "refused"

(***************************************************************************)
(* While the store is open, what append acknowledged is read back at the   *)
(* sequence number it returned, through read_from with every start and     *)
(* limit, and the hash chain verifies from any start to any end and up to  *)
(* the head the next append will link to, whatever writes failed and       *)
(* however the process died before.                                        *)
(***************************************************************************)
ReadsInFull(from, limit) ==
    LET got == read_from(from, limit)
    IN  /\ Len(got) <= limit
        /\ \A i \in DOMAIN got :
              got[i] = read_from(from + i - 1, 1)[1] /\ got[i] # {}

ChainVerifies ==
    /\ \A from, to \in 0..(next_seq + 1) : verify(from, to)
    /\ head = HeadHash(disk, segments, next_seq)

AckedAreRead ==
    status = "up" =>
       /\ \A a \in acked : read_from(a.seq, 1) = <<{a.record}>>
       /\ \A from \in 0..next_seq, limit \in 0..(next_seq + 1) :
             ReadsInFull(from, limit)
       /\ next_seq > 0 => ChainVerifies

(* A store survives its crashes: it always reopens, and what is open holds *)
(* everything it acknowledged and kept.                                    *)
StoreSurvives == OpenSucceeds /\ AckedAreRead

(* The records of the whole frames of files d, oldest first: what a reopen *)
(* would find.                                                             *)
RecordAt(d, seq) ==
    LET i == CHOOSE i \in DOMAIN d :
                d[i].first <= seq /\ seq < d[i].first + Whole(d[i].cells)
    IN  d[i].cells[2 * (seq - d[i].first + 1)].frame.record

StoredIn(d) == [q \in 1..End(d) |-> RecordAt(d, q - 1)]
Stored == StoredIn(disk)

(***************************************************************************)
(* The files implement an append-only log: whole records are only added at *)
(* the end and in order, never twice, and crashes remove at most the part  *)
(* of the last segment that no rotation has synced.                        *)
(***************************************************************************)
Abstract == INSTANCE AppendOnlyLog WITH records <- Stored
ImplementsLog == Abstract!LogSpec
=============================================================================
