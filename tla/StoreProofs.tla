---------------------------- MODULE StoreProofs -----------------------------
(***************************************************************************)
(* Proofs about FileEventStore: whatever writes fail and however often the *)
(* store goes down, its files are one chain of frames without a gap, so    *)
(* that it reopens and reads back what it acknowledged.                    *)
(***************************************************************************)
EXTENDS FileEventStore, NaturalsInduction, WellFoundedInduction, TLAPS

-----------------------------------------------------------------------------
(***************************************************************************)
(* Files.  Frame k of file i of d, and the number it has to carry.         *)
(***************************************************************************)
StoredFrame == [seq : Nat, prev : Seq(Nat), record : Nat]
Cell  == [frame : StoredFrame, part : {"len", "body"}]
File  == [first : Nat, cells : Seq(Cell), synced : Nat]

W(d, i) == Whole(d[i].cells)
FrameOf(d, i, k) == d[i].cells[2 * k].frame
NumberOf(d, i, k) == d[i].first + k - 1

(* What is whole of a file is frames, numbered from its name on. *)
FramesOK(d, i) ==
    \A k \in 1..W(d, i) :
       /\ d[i].cells[2 * k - 1] = [frame |-> FrameOf(d, i, k), part |-> "len"]
       /\ d[i].cells[2 * k].part = "body"
       /\ FrameOf(d, i, k).seq = NumberOf(d, i, k)

(* Only the last file is open: the others are whole, synced and not empty. *)
ClosedOK(d, i) ==
    /\ d[i].synced <= Len(d[i].cells)
    /\ i < Len(d) => /\ ~Torn(d[i].cells) /\ W(d, i) > 0
                     /\ d[i].synced = Len(d[i].cells)

(* Each file begins where the one before ends. *)
Adjacent(d) ==
    /\ \A i \in 1..Len(d) :
          d[i].first = IF i = 1 THEN 0 ELSE d[i - 1].first + W(d, i - 1)
    /\ \A i, j \in 1..Len(d) : i < j => d[i].first + W(d, i) <= d[j].first

(* No number is missing. *)
Gapless(d) ==
    \A q \in 0..(End(d) - 1) : \E i \in 1..Len(d) :
       d[i].first <= q /\ q < d[i].first + W(d, i)

(* Each frame carries the hash of the frame before it. *)
Linked(d) ==
    \A j \in 1..Len(d) : \A l \in 1..W(d, j) :
       /\ NumberOf(d, j, l) = 0 => FrameOf(d, j, l).prev = <<>>
       /\ \A i \in 1..Len(d) : \A k \in 1..W(d, i) :
             NumberOf(d, j, l) = NumberOf(d, i, k) + 1 =>
                FrameOf(d, j, l).prev = hash_frame(FrameOf(d, i, k))

ShapeOK(d) ==
    /\ d \in Seq(File)
    /\ \A i \in 1..Len(d) : ClosedOK(d, i)
    /\ Adjacent(d) /\ Gapless(d)

FilesOK(d) == ShapeOK(d) /\ Linked(d) /\ \A i \in 1..Len(d) : FramesOK(d, i)

(* h is the hash the next frame has to carry. *)
HeadOK(d, h) ==
    /\ h \in Seq(Nat)
    /\ End(d) = 0 => h = <<>>
    /\ \A i \in 1..Len(d) : \A k \in 1..W(d, i) :
          NumberOf(d, i, k) = End(d) - 1 => h = hash_frame(FrameOf(d, i, k))

-----------------------------------------------------------------------------
(***************************************************************************)
(* The index in memory: each entry is about the frames of one file, and    *)
(* every frame is in some entry.                                           *)
(***************************************************************************)
Entry == [first : Nat, offsets : Seq(Nat)]

IndexOK(d, segs) ==
    /\ segs \in Seq(Entry)
    /\ \A s \in 1..Len(segs) :
          /\ \E i \in 1..Len(d) : /\ d[i].first = segs[s].first
                                  /\ Len(segs[s].offsets) <= W(d, i)
          /\ \A k \in 1..Len(segs[s].offsets) :
                segs[s].offsets[k] = 2 * (k - 1)
    /\ \A q \in 0..(End(d) - 1) : \E s \in 1..Len(segs) :
          segs[s].first <= q /\ q < segs[s].first + Len(segs[s].offsets)

(* The active segment is the last entry and the last file. *)
ActiveOK ==
    /\ disk = <<>> <=> segments = <<>>
    /\ hasWriter <=> disk # <<>>
    /\ disk # <<>> =>
          /\ segments[Len(segments)].first = disk[Len(disk)].first
          /\ Len(segments[Len(segments)].offsets) = W(disk, Len(disk))
          /\ active_len = 2 * W(disk, Len(disk))

(* A stream that is not wedged has whole frames only; in a wedged one the  *)
(* rest of the frame that failed is in the BufWriter.                      *)
TornTail == Torn(disk[Len(disk)].cells)
WedgeOK ==
    /\ ~wedged => buffer = <<>> /\ (disk # <<>> => ~TornTail)
    /\ wedged =>
          /\ appending = "idle" /\ disk # <<>>
          /\ \E n \in 0..handed :
                LET f == CellsOf(encode_frame(n, next_seq, head))
                IN  \/ ~TornTail /\ buffer = f
                    \/ /\ TornTail /\ buffer = <<f[2]>>
                       /\ disk[Len(disk)].cells[2 * W(disk, Len(disk)) + 1] = f[1]

StepOK ==
    /\ appending \in {"idle", "sync", "create", "write"}
    /\ appending \in {"sync", "write"} => disk # <<>>
    /\ appending = "create" /\ disk # <<>> =>
          disk[Len(disk)].synced = Len(disk[Len(disk)].cells)

UpOK ==
    /\ next_seq = End(disk) /\ HeadOK(disk, head)
    /\ IndexOK(disk, segments) /\ ActiveOK /\ WedgeOK /\ StepOK

(* What was acknowledged and not lost since is in its frame. *)
AckOK(d, acks) ==
    \A a \in acks :
       /\ a.seq \in Nat /\ a.seq < End(d)
       /\ \A i \in 1..Len(d) : \A k \in 1..W(d, i) :
             NumberOf(d, i, k) = a.seq => FrameOf(d, i, k).record = a.record

StoreInv ==
    /\ status \in {"up", "down"} /\ handed \in Nat /\ wedged \in BOOLEAN
    /\ hasWriter \in BOOLEAN
    /\ FilesOK(disk) /\ AckOK(disk, acked)
    /\ status = "up" => UpOK
    /\ status = "down" => appending = "idle"

-----------------------------------------------------------------------------
(***************************************************************************)
(* Numbers: halves, and the largest of finitely many.                      *)
(***************************************************************************)
LEMMA WholeFacts ==
    ASSUME NEW S, NEW c \in Seq(S)
    PROVE  /\ Whole(c) \in Nat /\ Len(c) \in Nat
           /\ Torn(c) => Len(c) = 2 * Whole(c) + 1
           /\ ~Torn(c) => Len(c) = 2 * Whole(c)
<1>1. Len(c) \in Nat
  OBVIOUS
<1>2. ASSUME NEW n \in Nat
      PROVE  /\ n \div 2 \in Nat /\ (n % 2 = 1 => n = 2 * (n \div 2) + 1)
             /\ (n % 2 # 1 => n = 2 * (n \div 2))
  OBVIOUS
<1> QED
  BY <1>1, <1>2 DEF Whole, Torn

(* Whole frames of a file are pairs of its cells. *)
LEMMA WholeIs ==
    ASSUME NEW S, NEW c \in Seq(S), NEW n \in Nat
    PROVE  /\ Len(c) = 2 * n => Whole(c) = n /\ ~Torn(c)
           /\ Len(c) = 2 * n + 1 => Whole(c) = n /\ Torn(c)
<1>1. Len(c) \in Nat
  OBVIOUS
<1>2. (2 * n) \div 2 = n /\ (2 * n) % 2 = 0
  OBVIOUS
<1>3. (2 * n + 1) \div 2 = n /\ (2 * n + 1) % 2 = 1
  OBVIOUS
<1> QED
  BY <1>1, <1>2, <1>3 DEF Whole, Torn

(* Naturals have a least element. *)
LEMMA NatMin ==
    ASSUME NEW T, T \subseteq Nat, T # {}
    PROVE  \E x \in T : \A y \in T : x <= y
<1>1. IsWellFoundedOn(OpToRel(<, Nat), Nat)
  BY NatLessThanWellFounded
<1>2. PICK x \in T : \A y \in T : ~(<<y, x>> \in OpToRel(<, Nat))
  BY <1>1, WFMin
<1>3. ASSUME NEW y \in T PROVE x <= y
  <2>1. ~(y < x)
    BY <1>2 DEF OpToRel
  <2> QED
    BY <2>1
<1> QED
  BY <1>3

(* The greatest number of a finite range is one of them. *)
LEMMA MaxIsIn ==
    ASSUME NEW n \in Nat, NEW T \in SUBSET (1..n), T # {}
    PROVE  Max(T) \in T
<1> DEFINE U == {n - x : x \in T}
<1>1. U \subseteq Nat /\ U # {}
  OBVIOUS
<1>2. PICK u \in U : \A v \in U : u <= v
  BY <1>1, NatMin
<1>3. PICK x \in T : u = n - x
  OBVIOUS
<1>4. ASSUME NEW y \in T PROVE x >= y
  <2>1. n - y \in U
    OBVIOUS
  <2>2. n - x <= n - y
    BY <1>2, <1>3, <2>1
  <2>3. x \in 1..n /\ y \in 1..n
    OBVIOUS
  <2> QED
    BY <2>2, <2>3
<1>5. \E m \in T : \A y \in T : m >= y
  BY <1>4
<1> QED
  BY <1>5 DEF Max

-----------------------------------------------------------------------------
(***************************************************************************)
(* Sequences: one more element, another one at a position, and functions   *)
(* that are sequences.                                                     *)
(***************************************************************************)
LEMMA AppendFacts ==
    ASSUME NEW S, NEW s \in Seq(S), NEW x \in S
    PROVE  /\ Append(s, x) \in Seq(S) /\ Append(s, x) # <<>>
           /\ Len(s) \in Nat /\ Len(Append(s, x)) = Len(s) + 1
           /\ \A i \in 1..Len(s) : Append(s, x)[i] = s[i]
           /\ Append(s, x)[Len(s) + 1] = x
  OBVIOUS

(* One element of a list replaced. *)
LEMMA ReplaceFacts ==
    ASSUME NEW S, NEW s \in Seq(S), NEW i \in 1..Len(s), NEW x \in S,
           NEW t, t = [s EXCEPT ![i] = x]
    PROVE  /\ t \in Seq(S) /\ Len(t) = Len(s) /\ t[i] = x
           /\ \A j \in 1..Len(s) : j # i => t[j] = s[j]
  OBVIOUS

(* A function on 1..n is a list. *)
LEMMA IsSeq ==
    ASSUME NEW S, NEW n \in Nat, NEW f, f = [k \in 1..n |-> f[k]],
           \A k \in 1..n : f[k] \in S
    PROVE  f \in Seq(S) /\ Len(f) = n /\ DOMAIN f = 1..n
<1>1. f \in [1..n -> S] /\ DOMAIN f = 1..n
  OBVIOUS
<1> QED
  BY <1>1

-----------------------------------------------------------------------------
(***************************************************************************)
(* Where a frame is: every number below the end is in one place of one     *)
(* file.                                                                   *)
(***************************************************************************)
LEMMA FileFacts ==
    ASSUME NEW d \in Seq(File), NEW i \in 1..Len(d)
    PROVE  /\ d[i].first \in Nat /\ d[i].cells \in Seq(Cell) /\ d[i].synced \in Nat
           /\ W(d, i) \in Nat /\ Len(d[i].cells) \in Nat /\ i \in Nat /\ Len(d) \in Nat
           /\ \A k \in 1..W(d, i) : /\ 2 * k \in 1..Len(d[i].cells)
                                    /\ 2 * k - 1 \in 1..Len(d[i].cells)
                                    /\ FrameOf(d, i, k) \in StoredFrame
<1>1. d[i] \in File
  OBVIOUS
<1>2. /\ d[i].first \in Nat /\ d[i].cells \in Seq(Cell) /\ d[i].synced \in Nat
      /\ i \in Nat /\ Len(d) \in Nat
  BY <1>1 DEF File
<1>3. /\ W(d, i) \in Nat /\ Len(d[i].cells) \in Nat
      /\ 2 * W(d, i) <= Len(d[i].cells)
  BY <1>2, WholeFacts DEF W
<1>4. ASSUME NEW k \in 1..W(d, i)
      PROVE  /\ 2 * k \in 1..Len(d[i].cells) /\ 2 * k - 1 \in 1..Len(d[i].cells)
             /\ FrameOf(d, i, k) \in StoredFrame
  <2>1. 2 * k \in 1..Len(d[i].cells) /\ 2 * k - 1 \in 1..Len(d[i].cells)
    BY <1>3
  <2>2. d[i].cells[2 * k] \in Cell
    BY <1>2, <2>1
  <2> QED
    BY <2>1, <2>2 DEF FrameOf, Cell
<1> QED
  BY <1>2, <1>3, <1>4

(* The end of the store: where its last file ends. *)
LEMMA EndFacts ==
    ASSUME NEW d, ShapeOK(d)
    PROVE  /\ End(d) \in Nat /\ Len(d) \in Nat
           /\ d = <<>> => Len(d) = 0 /\ End(d) = 0
           /\ d # <<>> => /\ Len(d) \in 1..Len(d)
                          /\ End(d) = d[Len(d)].first + W(d, Len(d))
<1>1. d \in Seq(File)
  BY DEF ShapeOK
<1>2. CASE d = <<>>
  BY <1>2 DEF End
<1>3. CASE d # <<>>
  <2>1. Len(d) \in 1..Len(d) /\ Len(d) \in Nat
    BY <1>1, <1>3
  <2>2. End(d) = d[Len(d)].first + W(d, Len(d))
    BY <1>3 DEF End, Last, W
  <2> QED
    BY <1>1, <1>3, <2>1, <2>2, FileFacts
<1> QED
  BY <1>2, <1>3

(* A frame in the store has a number below the end. *)
LEMMA NumberBelow ==
    ASSUME NEW d, ShapeOK(d), NEW i \in 1..Len(d), NEW k \in 1..W(d, i)
    PROVE  NumberOf(d, i, k) \in 0..(End(d) - 1)
<1>1. /\ d \in Seq(File) /\ d # <<>>
      /\ d[i].first \in Nat /\ W(d, i) \in Nat
      /\ d[Len(d)].first \in Nat /\ W(d, Len(d)) \in Nat /\ Len(d) \in Nat
      /\ Len(d) \in 1..Len(d)
  <2>1. d \in Seq(File) /\ d # <<>>
    BY DEF ShapeOK
  <2>2. Len(d) \in 1..Len(d)
    BY <2>1, EndFacts
  <2> QED
    BY <2>1, <2>2, FileFacts
<1>2. End(d) = d[Len(d)].first + W(d, Len(d))
  BY <1>1, EndFacts
<1>3. d[i].first + W(d, i) <= End(d)
  <2>1. CASE i = Len(d)
    BY <1>1, <1>2, <2>1
  <2>2. CASE i < Len(d)
    <3>1. d[i].first + W(d, i) <= d[Len(d)].first
      BY <1>1, <2>2 DEF ShapeOK, Adjacent
    <3> QED
      BY <1>1, <1>2, <3>1
  <2> QED
    BY <1>1, <2>1, <2>2
<1>4. End(d) \in Nat
  BY <1>1, <1>2
<1>5. k \in Nat /\ 1 <= k /\ k <= W(d, i)
  BY <1>1
<1> QED
  BY SMTT(30), <1>1, <1>3, <1>4, <1>5 DEF NumberOf

(* Every number below the end is that of a frame. *)
LEMMA PlaceExists ==
    ASSUME NEW d, ShapeOK(d), NEW q \in 0..(End(d) - 1)
    PROVE  \E i \in 1..Len(d) : \E k \in 1..W(d, i) : NumberOf(d, i, k) = q
<1>1. PICK i \in 1..Len(d) : d[i].first <= q /\ q < d[i].first + W(d, i)
  BY DEF ShapeOK, Gapless
<1>2. d[i].first \in Nat /\ W(d, i) \in Nat
  BY FileFacts DEF ShapeOK
<1>3. End(d) \in Nat
  BY EndFacts
<1> DEFINE k == q - d[i].first + 1
<1>4. k \in 1..W(d, i) /\ NumberOf(d, i, k) = q
  BY <1>1, <1>2, <1>3 DEF NumberOf
<1> QED
  BY <1>4

(* A number is that of one frame only. *)
LEMMA PlaceUnique ==
    ASSUME NEW d, ShapeOK(d), NEW i \in 1..Len(d), NEW k \in 1..W(d, i),
           NEW j \in 1..Len(d), NEW l \in 1..W(d, j),
           NumberOf(d, i, k) = NumberOf(d, j, l)
    PROVE  i = j /\ k = l
<1>1. /\ d[i].first \in Nat /\ W(d, i) \in Nat /\ d[j].first \in Nat
      /\ W(d, j) \in Nat /\ Len(d) \in Nat
  BY FileFacts DEF ShapeOK
<1>2. ~(i < j)
  <2>1. i < j => d[i].first + W(d, i) <= d[j].first
    BY DEF ShapeOK, Adjacent
  <2> QED
    BY SMTT(30), <1>1, <2>1 DEF NumberOf
<1>3. ~(j < i)
  <2>1. j < i => d[j].first + W(d, j) <= d[i].first
    BY DEF ShapeOK, Adjacent
  <2> QED
    BY SMTT(30), <1>1, <2>1 DEF NumberOf
<1>4. i = j
  BY <1>1, <1>2, <1>3
<1> QED
  BY <1>1, <1>4 DEF NumberOf

(* No two files have one name. *)
LEMMA NameUnique ==
    ASSUME NEW d, ShapeOK(d), NEW i \in 1..Len(d), NEW j \in 1..Len(d),
           d[i].first = d[j].first
    PROVE  i = j
<1>1. /\ d[i].first \in Nat /\ W(d, i) \in Nat /\ d[j].first \in Nat
      /\ W(d, j) \in Nat /\ Len(d) \in Nat
  BY FileFacts DEF ShapeOK
<1>2. ~(i < j)
  <2>1. i < j => d[i].first + W(d, i) <= d[j].first /\ W(d, i) > 0
    BY <1>1 DEF ShapeOK, Adjacent, ClosedOK
  <2> QED
    BY <1>1, <2>1
<1>3. ~(j < i)
  <2>1. j < i => d[j].first + W(d, j) <= d[i].first /\ W(d, j) > 0
    BY <1>1 DEF ShapeOK, Adjacent, ClosedOK
  <2> QED
    BY <1>1, <2>1
<1> QED
  BY <1>1, <1>2, <1>3

-----------------------------------------------------------------------------
(***************************************************************************)
(* Reading.  Through any index that fits the files, the frame of a number  *)
(* is the one in its place.                                                *)
(***************************************************************************)
LEMMA ReadFrame ==
    ASSUME NEW d, NEW segs, FilesOK(d), IndexOK(d, segs),
           NEW i \in 1..Len(d), NEW k \in 1..W(d, i)
    PROVE  FrameAt(d, segs, NumberOf(d, i, k)) = {FrameOf(d, i, k)}
<1> DEFINE q == NumberOf(d, i, k)
           H == Holding(segs, q)
<1>1. ShapeOK(d) /\ d \in Seq(File)
  BY DEF FilesOK, ShapeOK
<1>2. q \in 0..(End(d) - 1) /\ End(d) \in Nat /\ q \in Nat
  <2>1. q \in 0..(End(d) - 1)
    BY <1>1, NumberBelow
  <2>2. End(d) \in Nat
    BY <1>1, EndFacts
  <2> QED
    BY <2>1, <2>2
<1> HIDE DEF q
<1>3. /\ segs \in Seq(Entry) /\ Len(segs) \in Nat
      /\ DOMAIN segs = 1..Len(segs)
  BY DEF IndexOK
<1>4. H \in SUBSET (1..Len(segs)) /\ H # {}
  <2>1. PICK s \in 1..Len(segs) :
           segs[s].first <= q /\ q < segs[s].first + Len(segs[s].offsets)
    BY <1>2 DEF IndexOK
  <2> QED
    BY <1>3, <2>1 DEF Holding
<1> DEFINE s == Max(H)
<1>5. s \in H
  BY <1>3, <1>4, MaxIsIn
<1>6. s \in 1..Len(segs) /\ segment_containing(segs, q) = s /\ s # 0
  BY <1>3, <1>4, <1>5 DEF segment_containing
<1>7. segs[s].first <= q /\ q < segs[s].first + Len(segs[s].offsets)
  BY <1>5 DEF Holding
<1> HIDE DEF s, H
<1>8. /\ segs[s].first \in Nat /\ segs[s].offsets \in Seq(Nat)
      /\ Len(segs[s].offsets) \in Nat
  <2>1. segs[s] \in Entry
    BY <1>3, <1>6
  <2>2. segs[s].first \in Nat /\ segs[s].offsets \in Seq(Nat)
    BY <2>1 DEF Entry
  <2> QED
    BY <2>2
<1>9. PICK j \in 1..Len(d) : /\ d[j].first = segs[s].first
                             /\ Len(segs[s].offsets) <= W(d, j)
  BY <1>6 DEF IndexOK
<1>10. d[j].first \in Nat /\ W(d, j) \in Nat /\ Len(d[j].cells) \in Nat
  BY <1>1, FileFacts
<1>11. FileOf(d, segs[s].first) = d[j]
  <2>1. DOMAIN d = 1..Len(d)
    BY <1>1
  <2>2. \A x \in DOMAIN d : d[x].first = segs[s].first => x = j
    BY <1>1, <1>9, <2>1, NameUnique
  <2>3. (CHOOSE x \in DOMAIN d : d[x].first = segs[s].first) = j
    BY <1>9, <2>1, <2>2
  <2> QED
    BY <2>3 DEF FileOf
<1> DEFINE l == q - segs[s].first + 1
<1>12. /\ l \in 1..Len(segs[s].offsets) /\ l \in 1..W(d, j) /\ l \in Nat
       /\ NumberOf(d, j, l) = q
  <2>0. ASSUME NEW a \in Nat, NEW n \in Nat, a <= q, q < a + n
        PROVE  q - a + 1 \in Nat /\ 1 <= q - a + 1 /\ q - a + 1 <= n
    BY <1>2, <2>0
  <2>1. l \in Nat /\ 1 <= l /\ l <= Len(segs[s].offsets)
    BY <1>7, <1>8, <2>0
  <2>2. l <= W(d, j)
    BY <1>8, <1>9, <1>10, <2>1
  <2>3. NumberOf(d, j, l) = q
    BY <1>2, <1>8, <1>9 DEF NumberOf
  <2> QED
    BY <1>8, <1>10, <2>1, <2>2, <2>3
<1>13. segs[s].offsets[l] = 2 * (l - 1)
  BY <1>6, <1>12 DEF IndexOK
<1> HIDE DEF l
<1>14. /\ 2 * (l - 1) + 1 = 2 * l - 1 /\ 2 * (l - 1) + 2 = 2 * l
       /\ 2 * l <= Len(d[j].cells)
  <2>1. 2 * l \in 1..Len(d[j].cells)
    BY <1>1, <1>12, FileFacts
  <2> QED
    BY <1>10, <1>12, <2>1
<1>15. /\ d[j].cells[2 * l - 1] = [frame |-> FrameOf(d, j, l), part |-> "len"]
       /\ d[j].cells[2 * l].part = "body"
       /\ FrameOf(d, j, l).seq = q
  BY <1>12 DEF FilesOK, FramesOK
<1>16. Decodes(d[j].cells, 2 * (l - 1), q)
  BY <1>14, <1>15 DEF Decodes, FrameOf
<1>17. i = j /\ k = l
  BY <1>1, <1>12, PlaceUnique DEF q
<1>18. FrameAt(d, segs, q) = {d[j].cells[2 * (l - 1) + 2].frame}
  BY <1>6, <1>11, <1>13, <1>16 DEF FrameAt, l
<1> QED
  BY <1>14, <1>17, <1>18 DEF FrameOf, q

(* The check of a back link succeeds on files in order. *)
LEMMA BackLink ==
    ASSUME NEW d, NEW segs, FilesOK(d), IndexOK(d, segs),
           NEW q \in 0..(End(d) - 1)
    PROVE  check_back_link(d, segs, q)
<1>1. ShapeOK(d) /\ End(d) \in Nat /\ q \in Nat
  BY EndFacts DEF FilesOK
<1>2. PICK j \in 1..Len(d) : \E l \in 1..W(d, j) : NumberOf(d, j, l) = q
  BY <1>1, PlaceExists
<1>3. PICK l \in 1..W(d, j) : NumberOf(d, j, l) = q
  BY <1>2
<1>4. FrameAt(d, segs, q) = {FrameOf(d, j, l)}
  BY <1>3, ReadFrame
<1>5. FrameOf(d, j, l).prev \in PredecessorHash(d, segs, q)
  <2>1. CASE q = 0
    BY <1>3, <2>1 DEF PredecessorHash, FilesOK, Linked
  <2>2. CASE q # 0
    <3>1. q - 1 \in 0..(End(d) - 1)
      BY <1>1, <2>2
    <3>2. PICK i \in 1..Len(d) : \E k \in 1..W(d, i) : NumberOf(d, i, k) = q - 1
      BY <1>1, <3>1, PlaceExists
    <3>3. PICK k \in 1..W(d, i) : NumberOf(d, i, k) = q - 1
      BY <3>2
    <3>4. FrameAt(d, segs, q - 1) = {FrameOf(d, i, k)}
      BY <3>3, ReadFrame
    <3>5. NumberOf(d, j, l) = NumberOf(d, i, k) + 1
      BY <1>1, <1>3, <3>3
    <3>6. FrameOf(d, j, l).prev = hash_frame(FrameOf(d, i, k))
      BY <3>5 DEF FilesOK, Linked
    <3> QED
      BY <2>2, <3>4, <3>6 DEF PredecessorHash
  <2> QED
    BY <2>1, <2>2
<1> QED
  BY <1>4, <1>5 DEF check_back_link

(* The hash of a stored frame is a list of numbers. *)
LEMMA HashTypes ==
    ASSUME NEW f \in StoredFrame
    PROVE  hash_frame(f) \in Seq(Nat)
  BY DEF StoredFrame, hash_frame

(* The hash of the last frame is the one the next has to carry, and there  *)
(* is no other.                                                            *)
LEMMA HeadHashOK ==
    ASSUME NEW d, NEW segs, FilesOK(d), IndexOK(d, segs)
    PROVE  /\ HeadOK(d, HeadHash(d, segs, End(d)))
           /\ \A h : HeadOK(d, h) => h = HeadHash(d, segs, End(d))
<1>1. ShapeOK(d) /\ End(d) \in Nat
  BY EndFacts DEF FilesOK
<1>2. CASE End(d) = 0
  <2>1. HeadHash(d, segs, End(d)) = <<>>
    BY <1>2 DEF HeadHash
  <2>2. ASSUME NEW i \in 1..Len(d), NEW k \in 1..W(d, i) PROVE FALSE
    BY <1>1, <1>2, <2>2, NumberBelow
  <2>3. <<>> \in Seq(Nat)
    OBVIOUS
  <2>4. HeadOK(d, <<>>)
    BY <2>2, <2>3 DEF HeadOK
  <2>5. \A h : HeadOK(d, h) => h = <<>>
    BY <1>2 DEF HeadOK
  <2> QED
    BY <2>1, <2>4, <2>5
<1>3. CASE End(d) # 0
  <2>1. End(d) - 1 \in 0..(End(d) - 1)
    BY <1>1, <1>3
  <2>2. PICK i \in 1..Len(d) : \E k \in 1..W(d, i) : NumberOf(d, i, k) = End(d) - 1
    BY <1>1, <2>1, PlaceExists
  <2>3. PICK k \in 1..W(d, i) : NumberOf(d, i, k) = End(d) - 1
    BY <2>2
  <2>4. FrameAt(d, segs, End(d) - 1) = {FrameOf(d, i, k)}
    BY <2>3, ReadFrame
  <2>5. HeadHash(d, segs, End(d)) = hash_frame(FrameOf(d, i, k))
    BY <1>3, <2>4 DEF HeadHash
  <2>6. hash_frame(FrameOf(d, i, k)) \in Seq(Nat)
    BY <1>1, FileFacts, HashTypes DEF ShapeOK
  <2>7. ASSUME NEW j \in 1..Len(d), NEW l \in 1..W(d, j),
               NumberOf(d, j, l) = End(d) - 1
        PROVE  FrameOf(d, j, l) = FrameOf(d, i, k)
    <3>1. j = i /\ l = k
      BY <1>1, <2>3, <2>7, PlaceUnique
    <3> QED
      BY <3>1
  <2>8. HeadOK(d, HeadHash(d, segs, End(d)))
    BY <1>3, <2>5, <2>6, <2>7 DEF HeadOK
  <2>9. ASSUME NEW h, HeadOK(d, h) PROVE h = HeadHash(d, segs, End(d))
    BY <2>3, <2>5, <2>9 DEF HeadOK
  <2> QED
    BY <2>8, <2>9
<1> QED
  BY <1>2, <1>3

-----------------------------------------------------------------------------
(***************************************************************************)
(* What the invariant says to a reader of the store.                       *)
(***************************************************************************)
LEMMA RecordRead ==
    ASSUME FilesOK(disk), IndexOK(disk, segments), next_seq = End(disk),
           NEW from \in 0..(End(disk) - 1), NEW limit \in Nat \ {0}
    PROVE  LET got == read_from(from, limit)
               n   == IF from + limit - 1 < next_seq THEN limit ELSE next_seq - from
           IN  /\ n \in Nat \ {0} /\ n <= limit /\ from + n <= next_seq
               /\ got = [i \in 1..n |-> {f.record : f \in FrameAt(disk, segments, from + i - 1)}]
<1>1. End(disk) \in Nat
  BY EndFacts DEF FilesOK
<1>2. CASE from + limit - 1 < next_seq
  <2>1. (from + limit - 1) - from + 1 = limit
    BY <1>1
  <2>2. ~(limit = 0 \/ next_seq = 0 \/ from >= next_seq)
    BY <1>1
  <2>3. read_from(from, limit) =
           [i \in 1..limit |-> {f.record : f \in FrameAt(disk, segments, from + i - 1)}]
    BY <1>2, <2>1, <2>2 DEF read_from
  <2> QED
    BY <1>1, <1>2, <2>3
<1>3. CASE ~(from + limit - 1 < next_seq)
  <2>1. (next_seq - 1) - from + 1 = next_seq - from
    BY <1>1
  <2>2. ~(limit = 0 \/ next_seq = 0 \/ from >= next_seq)
    BY <1>1
  <2>3. read_from(from, limit) =
           [i \in 1..(next_seq - from) |-> {f.record : f \in FrameAt(disk, segments, from + i - 1)}]
    BY <1>3, <2>1, <2>2 DEF read_from
  <2> QED
    BY <1>1, <1>3, <2>3
<1> QED
  BY <1>2, <1>3

(* A frame can be read for every number below the end. *)
LEMMA FrameReadable ==
    ASSUME FilesOK(disk), IndexOK(disk, segments), NEW q \in 0..(End(disk) - 1)
    PROVE  \E i \in 1..Len(disk) : \E k \in 1..W(disk, i) :
              /\ NumberOf(disk, i, k) = q
              /\ FrameAt(disk, segments, q) = {FrameOf(disk, i, k)}
<1>1. ShapeOK(disk)
  BY DEF FilesOK
<1>2. PICK i \in 1..Len(disk) : \E k \in 1..W(disk, i) : NumberOf(disk, i, k) = q
  BY <1>1, PlaceExists
<1>3. PICK k \in 1..W(disk, i) : NumberOf(disk, i, k) = q
  BY <1>2
<1>4. FrameAt(disk, segments, q) = {FrameOf(disk, i, k)}
  BY <1>3, ReadFrame
<1> QED
  BY <1>3, <1>4

(* The invariant contains the property. *)
LEMMA InvSurvives == StoreInv => StoreSurvives
<1> SUFFICES ASSUME StoreInv PROVE StoreSurvives
  OBVIOUS
<1>1. OpenSucceeds
  BY DEF StoreInv, OpenSucceeds
<1>2. ASSUME status = "up" PROVE
         /\ \A a \in acked : read_from(a.seq, 1) = <<{a.record}>>
         /\ \A from \in 0..next_seq, limit \in 0..(next_seq + 1) : ReadsInFull(from, limit)
         /\ next_seq > 0 => ChainVerifies
  <2>1. /\ FilesOK(disk) /\ IndexOK(disk, segments) /\ next_seq = End(disk)
        /\ HeadOK(disk, head) /\ AckOK(disk, acked)
    BY <1>2 DEF StoreInv, UpOK
  <2>2. next_seq \in Nat
    BY <2>1, EndFacts DEF FilesOK
  <2>3. ASSUME NEW a \in acked PROVE read_from(a.seq, 1) = <<{a.record}>>
    <3>1. a.seq \in 0..(End(disk) - 1) /\ a.seq \in Nat /\ a.seq < next_seq
      BY <2>1, <2>2 DEF AckOK
    <3>2. PICK i \in 1..Len(disk) : \E k \in 1..W(disk, i) :
              /\ NumberOf(disk, i, k) = a.seq
              /\ FrameAt(disk, segments, a.seq) = {FrameOf(disk, i, k)}
      BY <2>1, <3>1, FrameReadable
    <3>3. PICK k \in 1..W(disk, i) :
              /\ NumberOf(disk, i, k) = a.seq
              /\ FrameAt(disk, segments, a.seq) = {FrameOf(disk, i, k)}
      BY <3>2
    <3>4. FrameOf(disk, i, k).record = a.record
      BY <2>1, <3>3 DEF AckOK
    <3>5. read_from(a.seq, 1) =
             [x \in 1..1 |-> {f.record : f \in FrameAt(disk, segments, a.seq + x - 1)}]
      <4>1. a.seq + 1 - 1 < next_seq
        BY <2>2, <3>1
      <4>2. 1 \in Nat \ {0}
        OBVIOUS
      <4> QED
        BY <2>1, <3>1, <4>1, <4>2, RecordRead
    <3>6. \A x \in 1..1 : {f.record : f \in FrameAt(disk, segments, a.seq + x - 1)} = {a.record}
      <4> SUFFICES ASSUME NEW x \in 1..1
                   PROVE  {f.record : f \in FrameAt(disk, segments, a.seq + x - 1)} = {a.record}
        OBVIOUS
      <4>1. a.seq + x - 1 = a.seq
        BY <3>1
      <4> QED
        BY <3>3, <3>4, <4>1
    <3>7. [x \in 1..1 |-> {f.record : f \in FrameAt(disk, segments, a.seq + x - 1)}]
             = [x \in 1..1 |-> {a.record}]
      BY <3>6
    <3> QED
      BY <3>5, <3>7
  <2>4. ASSUME NEW from \in 0..next_seq, NEW limit \in 0..(next_seq + 1)
        PROVE  ReadsInFull(from, limit)
    <3>1. CASE limit = 0 \/ next_seq = 0 \/ from >= next_seq
      <4>1. read_from(from, limit) = <<>>
        BY <3>1 DEF read_from
      <4> QED
        BY <2>2, <4>1 DEF ReadsInFull
    <3>2. CASE ~(limit = 0 \/ next_seq = 0 \/ from >= next_seq)
      <4> DEFINE n == IF from + limit - 1 < next_seq THEN limit ELSE next_seq - from
                 got == read_from(from, limit)
                 Rec(q) == {f.record : f \in FrameAt(disk, segments, q)}
      <4>1. from \in 0..(End(disk) - 1) /\ limit \in Nat \ {0} /\ from \in Nat
        BY <2>1, <2>2, <3>2
      <4>2. /\ n \in Nat \ {0} /\ n <= limit /\ from + n <= next_seq
            /\ got = [i \in 1..n |-> Rec(from + i - 1)]
        BY <2>1, <4>1, RecordRead
      <4> HIDE DEF n, got, Rec
      <4>3. Len(got) = n /\ DOMAIN got = 1..n
        BY <4>2
      <4>4. ASSUME NEW i \in 1..n
            PROVE  got[i] = read_from(from + i - 1, 1)[1] /\ got[i] # {}
        <5> DEFINE q == from + i - 1
        <5>1. /\ q \in 0..(End(disk) - 1) /\ q \in Nat /\ q + 1 - 1 < next_seq
              /\ q + 1 - 1 = q
          BY <2>1, <2>2, <4>1, <4>2
        <5> HIDE DEF q
        <5>2. got[i] = Rec(q)
          BY <4>2 DEF q
        <5>3. read_from(q, 1) = [x \in 1..1 |-> Rec(q + x - 1)]
          <6>1. 1 \in Nat \ {0}
            OBVIOUS
          <6> QED
            BY <2>1, <5>1, <6>1, RecordRead DEF Rec
        <5>4. read_from(q, 1)[1] = Rec(q)
          BY <5>1, <5>3
        <5>5. Rec(q) # {}
          <6>1. PICK j \in 1..Len(disk) : \E k \in 1..W(disk, j) :
                   /\ NumberOf(disk, j, k) = q
                   /\ FrameAt(disk, segments, q) = {FrameOf(disk, j, k)}
            BY <2>1, <5>1, FrameReadable
          <6> QED
            BY <6>1 DEF Rec
        <5> QED
          BY <5>2, <5>4, <5>5 DEF q
      <4> QED
        BY <4>2, <4>3, <4>4 DEF ReadsInFull, got
    <3> QED
      BY <3>1, <3>2
  <2>5. ASSUME next_seq > 0 PROVE ChainVerifies
    <3>1. ASSUME NEW from \in 0..(next_seq + 1), NEW to \in 0..(next_seq + 1)
          PROVE  verify(from, to)
      <4> DEFINE end == IF to < next_seq THEN to ELSE next_seq - 1
      <4>1. ASSUME NEW q \in from..end PROVE check_back_link(disk, segments, q)
        <5>1. q \in 0..(End(disk) - 1)
          BY <2>1, <2>2, <2>5
        <5> QED
          BY <2>1, <5>1, BackLink
      <4> QED
        BY <2>5, <4>1 DEF verify
    <3>2. head = HeadHash(disk, segments, next_seq)
      BY <2>1, HeadHashOK
    <3> QED
      BY <3>1, <3>2 DEF ChainVerifies
  <2> QED
    BY <2>3, <2>4, <2>5
<1> QED
  BY <1>1, <1>2 DEF StoreSurvives, AckedAreRead

-----------------------------------------------------------------------------
(***************************************************************************)
(* Files that lose frames.  e is d with the last file cut: what is left of *)
(* it begins as before.                                                    *)
(***************************************************************************)
SameBut(d, e) ==
    /\ e \in Seq(File) /\ Len(e) = Len(d) /\ Len(d) > 0
    /\ \A i \in 1..(Len(d) - 1) : e[i] = d[i]
    /\ e[Len(d)].first = d[Len(d)].first
    /\ e[Len(d)].synced <= Len(e[Len(d)].cells)

Cut(d, e) ==
    /\ SameBut(d, e) /\ W(e, Len(d)) <= W(d, Len(d))
    /\ \A c \in 1..(2 * W(e, Len(d))) : e[Len(d)].cells[c] = d[Len(d)].cells[c]

(* What is left of a cut store stands where it stood. *)
LEMMA CutPlaces ==
    ASSUME NEW d, NEW e, FilesOK(d), Cut(d, e), NEW i \in 1..Len(e)
    PROVE  /\ i \in 1..Len(d) /\ e[i].first = d[i].first
           /\ W(e, i) <= W(d, i) /\ (i # Len(d) => W(e, i) = W(d, i))
           /\ \A k \in 1..W(e, i) : /\ k \in 1..W(d, i)
                                    /\ FrameOf(e, i, k) = FrameOf(d, i, k)
                                    /\ NumberOf(e, i, k) = NumberOf(d, i, k)
           /\ FramesOK(e, i)
<1>1. d \in Seq(File) /\ e \in Seq(File) /\ Len(e) = Len(d)
  BY DEF FilesOK, ShapeOK, Cut, SameBut
<1>2. i \in 1..Len(d) /\ W(d, i) \in Nat /\ W(e, i) \in Nat /\ Len(d) \in Nat
  BY <1>1, FileFacts
<1>3. CASE i # Len(d)
  <2>1. i \in 1..(Len(d) - 1)
    BY <1>1, <1>2, <1>3
  <2>2. e[i] = d[i]
    BY <2>1 DEF Cut, SameBut
  <2>3. FramesOK(d, i)
    BY <1>2 DEF FilesOK
  <2> QED
    BY <1>2, <1>3, <2>2, <2>3 DEF W, FrameOf, NumberOf, FramesOK
<1>4. CASE i = Len(d)
  <2>1. /\ e[i].first = d[i].first /\ W(e, i) <= W(d, i)
        /\ \A c \in 1..(2 * W(e, i)) : e[i].cells[c] = d[i].cells[c]
    BY <1>4 DEF Cut, SameBut
  <2>2. ASSUME NEW k \in 1..W(e, i)
        PROVE  /\ k \in 1..W(d, i)
               /\ e[i].cells[2 * k] = d[i].cells[2 * k]
               /\ e[i].cells[2 * k - 1] = d[i].cells[2 * k - 1]
    <3>1. 2 * k \in 1..(2 * W(e, i)) /\ 2 * k - 1 \in 1..(2 * W(e, i))
      BY <1>2
    <3> QED
      BY <1>2, <2>1, <3>1
  <2>3. FramesOK(d, i)
    BY <1>2 DEF FilesOK
  <2>4. ASSUME NEW k \in 1..W(e, i)
        PROVE  /\ k \in 1..W(d, i) /\ FrameOf(e, i, k) = FrameOf(d, i, k)
               /\ NumberOf(e, i, k) = NumberOf(d, i, k)
               /\ e[i].cells[2 * k - 1] = [frame |-> FrameOf(e, i, k), part |-> "len"]
               /\ e[i].cells[2 * k].part = "body"
               /\ FrameOf(e, i, k).seq = NumberOf(e, i, k)
    <3>1. FrameOf(e, i, k) = FrameOf(d, i, k) /\ NumberOf(e, i, k) = NumberOf(d, i, k)
      BY <2>1, <2>2 DEF FrameOf, NumberOf
    <3> QED
      BY <2>2, <2>3, <3>1 DEF FramesOK
  <2> QED
    BY <1>2, <1>4, <2>1, <2>4 DEF FramesOK
<1> QED
  BY <1>3, <1>4

(* A cut store is in order. *)
LEMMA CutOK ==
    ASSUME NEW d, NEW e, FilesOK(d), Cut(d, e)
    PROVE  FilesOK(e) /\ End(e) = d[Len(d)].first + W(e, Len(d))
<1> DEFINE n == Len(d)
<1>1. /\ ShapeOK(d) /\ d \in Seq(File) /\ e \in Seq(File) /\ Len(e) = n
      /\ n \in Nat /\ n > 0 /\ d # <<>> /\ e # <<>> /\ n \in 1..n
  BY DEF FilesOK, ShapeOK, Cut, SameBut
<1>2. \A i \in 1..n : /\ d[i].first \in Nat /\ W(d, i) \in Nat /\ W(e, i) \in Nat
                      /\ e[i].first = d[i].first /\ W(e, i) <= W(d, i)
                      /\ i # n => W(e, i) = W(d, i)
  BY <1>1, FileFacts, CutPlaces
<1>3. End(e) = e[n].first + W(e, n)
  BY <1>1 DEF End, Last, W
<1>4. End(d) = d[n].first + W(d, n)
  BY <1>1 DEF End, Last, W
<1>5. \A i \in 1..n : ClosedOK(e, i)
  <2> SUFFICES ASSUME NEW i \in 1..n PROVE ClosedOK(e, i)
    OBVIOUS
  <2>1. CASE i = n
    BY <1>1, <2>1 DEF Cut, SameBut, ClosedOK
  <2>2. CASE i # n
    <3>1. i \in 1..(n - 1) /\ ClosedOK(d, i)
      BY <1>1, <2>2 DEF ShapeOK
    <3>2. e[i] = d[i]
      BY <3>1 DEF Cut, SameBut
    <3> QED
      BY <1>1, <3>1, <3>2 DEF ClosedOK, W
  <2> QED
    BY <2>1, <2>2
<1>6. Adjacent(e)
  <2>1. \A i \in 1..n : i # 1 => i - 1 \in 1..n /\ i - 1 # n
    BY <1>1
  <2>2. \A i, j \in 1..n : i < j => i # n
    BY <1>1
  <2>3. Adjacent(d)
    BY <1>1 DEF ShapeOK
  <2> QED
    BY <1>1, <1>2, <2>1, <2>2, <2>3 DEF Adjacent
<1>7. Gapless(e)
  <2> SUFFICES ASSUME NEW q \in 0..(End(e) - 1)
               PROVE  \E i \in 1..n : e[i].first <= q /\ q < e[i].first + W(e, i)
    BY <1>1 DEF Gapless
  <2>1. q \in 0..(End(d) - 1) /\ q < e[n].first + W(e, n) /\ q \in Nat
    BY <1>1, <1>2, <1>3, <1>4
  <2>2. PICK i \in 1..n : d[i].first <= q /\ q < d[i].first + W(d, i)
    BY <1>1, <2>1 DEF ShapeOK, Gapless
  <2>3. CASE i = n
    BY <1>1, <1>2, <2>1, <2>2, <2>3
  <2>4. CASE i # n
    BY <1>2, <2>2, <2>4
  <2> QED
    BY <2>3, <2>4
<1>8. Linked(e)
  <2>1. \A i \in 1..n : \A k \in 1..W(e, i) :
           /\ k \in 1..W(d, i) /\ FrameOf(e, i, k) = FrameOf(d, i, k)
           /\ NumberOf(e, i, k) = NumberOf(d, i, k)
    BY <1>1, CutPlaces
  <2>2. Linked(d)
    BY DEF FilesOK
  <2> QED
    BY <1>1, <2>1, <2>2 DEF Linked
<1>9. \A i \in 1..n : FramesOK(e, i)
  BY <1>1, CutPlaces
<1> QED
  BY <1>1, <1>2, <1>3, <1>5, <1>6, <1>7, <1>8, <1>9 DEF FilesOK, ShapeOK

(* Without a frame lost, whatever was said of the frames still holds. *)
LEMMA CutKeeps ==
    ASSUME NEW d, NEW e, FilesOK(d), Cut(d, e), W(e, Len(d)) = W(d, Len(d))
    PROVE  /\ End(e) = End(d)
           /\ \A h : HeadOK(d, h) => HeadOK(e, h)
           /\ \A segs : IndexOK(d, segs) => IndexOK(e, segs)
           /\ \A acks : AckOK(d, acks) => AckOK(e, acks)
<1>1. /\ d \in Seq(File) /\ d # <<>> /\ Len(e) = Len(d) /\ e # <<>>
      /\ Len(d) \in 1..Len(d)
  BY DEF FilesOK, ShapeOK, Cut, SameBut
<1>2. \A i \in 1..Len(d) :
         /\ e[i].first = d[i].first /\ W(e, i) = W(d, i)
         /\ \A k \in 1..W(e, i) : /\ FrameOf(e, i, k) = FrameOf(d, i, k)
                                  /\ NumberOf(e, i, k) = NumberOf(d, i, k)
  BY <1>1, CutPlaces
<1>3. End(e) = End(d)
  BY <1>1, <1>2 DEF End, Last, W
<1>4. \A h : HeadOK(d, h) => HeadOK(e, h)
  BY <1>1, <1>2, <1>3 DEF HeadOK
<1>5. \A segs : IndexOK(d, segs) => IndexOK(e, segs)
  BY <1>1, <1>2, <1>3 DEF IndexOK
<1>6. \A acks : AckOK(d, acks) => AckOK(e, acks)
  BY <1>1, <1>2, <1>3 DEF AckOK
<1> QED
  BY <1>3, <1>4, <1>5, <1>6

(* With frames lost, what was acknowledged below the new end is still there. *)
LEMMA CutAcks ==
    ASSUME NEW d, NEW e, FilesOK(d), Cut(d, e), NEW acks, AckOK(d, acks)
    PROVE  AckOK(e, {a \in acks : a.seq < End(e)})
<1>1. Len(e) = Len(d)
  BY DEF Cut, SameBut
<1>2. \A i \in 1..Len(d) : \A k \in 1..W(e, i) :
         /\ k \in 1..W(d, i) /\ FrameOf(e, i, k) = FrameOf(d, i, k)
         /\ NumberOf(e, i, k) = NumberOf(d, i, k)
  BY <1>1, CutPlaces
<1> QED
  BY <1>1, <1>2 DEF AckOK

(* The last file is gone. *)
LEMMA DroppedOK ==
    ASSUME NEW d, NEW e, FilesOK(d), e \in Seq(File), Len(d) > 0,
           Len(e) = Len(d) - 1, \A i \in 1..Len(e) : e[i] = d[i],
           NEW acks, AckOK(d, acks)
    PROVE  FilesOK(e) /\ AckOK(e, {a \in acks : a.seq < End(e)})
<1> DEFINE n == Len(d)
<1>1. /\ ShapeOK(d) /\ d \in Seq(File) /\ n \in Nat /\ n \in 1..n /\ Len(e) = n - 1
      /\ d # <<>>
  BY DEF FilesOK, ShapeOK
<1>2. /\ \A i \in 1..n : /\ d[i].first \in Nat /\ W(d, i) \in Nat
      /\ \A i \in 1..Len(e) : i \in 1..n /\ i < n /\ e[i].first = d[i].first /\ W(e, i) = W(d, i)
  <2>1. \A i \in 1..n : d[i].first \in Nat /\ W(d, i) \in Nat
    BY <1>1, FileFacts
  <2>2. ASSUME NEW i \in 1..Len(e)
        PROVE  i \in 1..n /\ i < n /\ e[i].first = d[i].first /\ W(e, i) = W(d, i)
    <3>1. e[i] = d[i]
      OBVIOUS
    <3> QED
      BY <1>1, <3>1 DEF W
  <2> QED
    BY <2>1, <2>2
<1>3. End(e) = d[n].first
  <2>1. CASE n = 1
    <3>1. d[1].first = 0
      BY <1>1, <2>1 DEF ShapeOK, Adjacent
    <3>2. e = <<>>
      BY <1>1, <2>1
    <3> QED
      BY <2>1, <3>1, <3>2 DEF End
  <2>2. CASE n # 1
    <3>1. d[n].first = d[n - 1].first + W(d, n - 1)
      BY <1>1, <2>2 DEF ShapeOK, Adjacent
    <3>2. e # <<>> /\ Len(e) \in 1..Len(e)
      BY <1>1, <2>2
    <3>3. End(e) = e[n - 1].first + W(e, n - 1)
      BY <1>1, <3>2 DEF End, Last, W
    <3> QED
      BY <1>1, <1>2, <3>1, <3>2, <3>3
  <2> QED
    BY <2>1, <2>2
<1>4. End(d) = d[n].first + W(d, n)
  BY <1>1 DEF End, Last, W
<1>5. \A i \in 1..Len(e) : ClosedOK(e, i)
  <2> SUFFICES ASSUME NEW i \in 1..Len(e) PROVE ClosedOK(e, i)
    OBVIOUS
  <2>1. e[i] = d[i] /\ ClosedOK(d, i) /\ i < n
    BY <1>1, <1>2 DEF ShapeOK
  <2> QED
    BY <2>1 DEF ClosedOK, W
<1>6. Adjacent(e)
  <2>1. \A i \in 1..Len(e) : i # 1 => i - 1 \in 1..Len(e)
    BY <1>1
  <2>2. Adjacent(d)
    BY <1>1 DEF ShapeOK
  <2> QED
    BY <1>1, <1>2, <2>1, <2>2 DEF Adjacent
<1>7. Gapless(e)
  <2> SUFFICES ASSUME NEW q \in 0..(End(e) - 1)
               PROVE  \E i \in 1..Len(e) : e[i].first <= q /\ q < e[i].first + W(e, i)
    BY DEF Gapless
  <2>1. q \in 0..(End(d) - 1) /\ q < d[n].first /\ q \in Nat
    BY <1>1, <1>2, <1>3, <1>4
  <2>2. PICK i \in 1..n : d[i].first <= q /\ q < d[i].first + W(d, i)
    BY <1>1, <2>1 DEF ShapeOK, Gapless
  <2>3. i # n
    BY <1>1, <1>2, <2>1, <2>2
  <2>4. i \in 1..Len(e)
    BY <1>1, <2>3
  <2> QED
    BY <1>2, <2>2, <2>4
<1>8. \A i \in 1..Len(e) : \A k \in 1..W(e, i) :
           /\ k \in 1..W(d, i) /\ FrameOf(e, i, k) = FrameOf(d, i, k)
           /\ NumberOf(e, i, k) = NumberOf(d, i, k)
  BY <1>2 DEF FrameOf, NumberOf
<1>9. Linked(e)
  <2>2. Linked(d)
    BY DEF FilesOK
  <2> QED
    BY <1>2, <1>8, <2>2 DEF Linked
<1>10. \A i \in 1..Len(e) : FramesOK(e, i)
  <2> SUFFICES ASSUME NEW i \in 1..Len(e) PROVE FramesOK(e, i)
    OBVIOUS
  <2>1. e[i] = d[i] /\ FramesOK(d, i)
    BY <1>2 DEF FilesOK
  <2> QED
    BY <2>1 DEF FramesOK, W, FrameOf, NumberOf
<1>11. AckOK(e, {a \in acks : a.seq < End(e)})
  <2> SUFFICES ASSUME NEW a \in acks, a.seq < End(e)
               PROVE  /\ a.seq \in Nat /\ a.seq < End(e)
                      /\ \A i \in 1..Len(e) : \A k \in 1..W(e, i) :
                            NumberOf(e, i, k) = a.seq => FrameOf(e, i, k).record = a.record
    BY DEF AckOK
  <2>1. /\ a.seq \in Nat
        /\ \A i \in 1..Len(d) : \A k \in 1..W(d, i) :
              NumberOf(d, i, k) = a.seq => FrameOf(d, i, k).record = a.record
    BY DEF AckOK
  <2> QED
    BY <1>2, <1>8, <2>1
<1> QED
  BY <1>5, <1>6, <1>7, <1>9, <1>10, <1>11 DEF FilesOK, ShapeOK

-----------------------------------------------------------------------------
(***************************************************************************)
(* Files that gain: one frame at the end of the last file, or a file.      *)
(***************************************************************************)
Grown(d, e, f) ==
    /\ SameBut(d, e) /\ W(e, Len(d)) = W(d, Len(d)) + 1
    /\ \A c \in 1..(2 * W(d, Len(d))) : e[Len(d)].cells[c] = d[Len(d)].cells[c]
    /\ e[Len(d)].cells[2 * W(d, Len(d)) + 1] = [frame |-> f, part |-> "len"]
    /\ e[Len(d)].cells[2 * W(d, Len(d)) + 2] = [frame |-> f, part |-> "body"]
    /\ f \in StoredFrame /\ f.seq = End(d)

(* The places of e are those of d and one more. *)
LEMMA GrownPlaces ==
    ASSUME NEW d, NEW e, NEW f, FilesOK(d), Grown(d, e, f)
    PROVE  /\ \A i \in 1..Len(d) : \A k \in 1..W(d, i) :
                 /\ k \in 1..W(e, i) /\ FrameOf(e, i, k) = FrameOf(d, i, k)
                 /\ NumberOf(e, i, k) = NumberOf(d, i, k)
           /\ \A i \in 1..Len(d) : \A k \in 1..W(e, i) :
                 \/ k \in 1..W(d, i)
                 \/ i = Len(d) /\ FrameOf(e, i, k) = f /\ NumberOf(e, i, k) = End(d)
           /\ \A i \in 1..Len(d) : /\ e[i].first = d[i].first /\ FramesOK(e, i)
                                   /\ i # Len(d) => W(e, i) = W(d, i)
<1> DEFINE n == Len(d)
           w == W(d, n)
<1>1. /\ d \in Seq(File) /\ e \in Seq(File) /\ Len(e) = n /\ n \in Nat /\ n \in 1..n
      /\ d # <<>>
  BY DEF FilesOK, ShapeOK, Grown, SameBut
<1>2. \A i \in 1..n : W(d, i) \in Nat /\ W(e, i) \in Nat /\ d[i].first \in Nat
  BY <1>1, FileFacts
<1>3. End(d) = d[n].first + w
  BY <1>1 DEF End, Last, W
<1>4. ASSUME NEW i \in 1..n, i # n PROVE e[i] = d[i]
  BY <1>1, <1>4 DEF Grown, SameBut
<1>5. /\ e[n].first = d[n].first /\ W(e, n) = w + 1 /\ w \in Nat
      /\ \A c \in 1..(2 * w) : e[n].cells[c] = d[n].cells[c]
      /\ e[n].cells[2 * w + 1] = [frame |-> f, part |-> "len"]
      /\ e[n].cells[2 * w + 2] = [frame |-> f, part |-> "body"]
      /\ f.seq = End(d)
  BY <1>1, <1>2 DEF Grown, SameBut
<1> HIDE DEF w
<1>6. ASSUME NEW k \in 1..w
      PROVE  /\ e[n].cells[2 * k] = d[n].cells[2 * k]
             /\ e[n].cells[2 * k - 1] = d[n].cells[2 * k - 1]
             /\ FrameOf(e, n, k) = FrameOf(d, n, k)
             /\ NumberOf(e, n, k) = NumberOf(d, n, k)
  <2>1. 2 * k \in 1..(2 * w) /\ 2 * k - 1 \in 1..(2 * w)
    BY <1>5
  <2> QED
    BY <1>5, <2>1 DEF FrameOf, NumberOf
<1>7. /\ FrameOf(e, n, w + 1) = f /\ NumberOf(e, n, w + 1) = End(d)
      /\ e[n].cells[2 * (w + 1) - 1] = [frame |-> f, part |-> "len"]
      /\ e[n].cells[2 * (w + 1)].part = "body"
  <2>1. 2 * (w + 1) = 2 * w + 2 /\ 2 * (w + 1) - 1 = 2 * w + 1
    BY SMTT(30), <1>5
  <2>2. d[n].first + (w + 1) - 1 = End(d)
    BY <1>1, <1>2, <1>3, <1>5
  <2> QED
    BY <1>5, <2>1, <2>2 DEF FrameOf, NumberOf
<1>8. ASSUME NEW i \in 1..n, NEW k \in 1..W(d, i)
      PROVE  /\ k \in 1..W(e, i) /\ FrameOf(e, i, k) = FrameOf(d, i, k)
             /\ NumberOf(e, i, k) = NumberOf(d, i, k)
  <2>1. CASE i = n
    <3>1. k \in 1..w
      BY <2>1 DEF w
    <3> QED
      BY <1>5, <1>6, <2>1, <3>1
  <2>2. CASE i # n
    BY <1>4, <2>2 DEF W, FrameOf, NumberOf
  <2> QED
    BY <2>1, <2>2
<1>9. ASSUME NEW i \in 1..n, NEW k \in 1..W(e, i)
      PROVE  \/ k \in 1..W(d, i)
             \/ i = n /\ FrameOf(e, i, k) = f /\ NumberOf(e, i, k) = End(d)
  <2>1. CASE i = n
    <3>1. k \in 1..w \/ k = w + 1
      BY <1>5, <2>1
    <3> QED
      BY <1>7, <2>1, <3>1 DEF w
  <2>2. CASE i # n
    BY <1>4, <2>2 DEF W
  <2> QED
    BY <2>1, <2>2
<1>10. ASSUME NEW i \in 1..n
       PROVE  /\ e[i].first = d[i].first /\ FramesOK(e, i)
              /\ i # n => W(e, i) = W(d, i)
  <2>1. FramesOK(d, i)
    BY DEF FilesOK
  <2>2. CASE i # n
    BY <1>4, <2>1, <2>2 DEF FramesOK, W, FrameOf, NumberOf
  <2>3. CASE i = n
    <3>1. ASSUME NEW k \in 1..W(e, n)
          PROVE  /\ e[n].cells[2 * k - 1] = [frame |-> FrameOf(e, n, k), part |-> "len"]
                 /\ e[n].cells[2 * k].part = "body"
                 /\ FrameOf(e, n, k).seq = NumberOf(e, n, k)
      <4>1. CASE k \in 1..w
        <5>1. k \in 1..W(d, i)
          BY <2>3, <4>1 DEF w
        <5> QED
          BY <1>6, <2>1, <2>3, <4>1, <5>1 DEF FramesOK
      <4>2. CASE k = w + 1
        BY <1>5, <1>7, <4>2
      <4> QED
        BY <1>5, <4>1, <4>2
    <3> QED
      BY <1>5, <2>3, <3>1 DEF FramesOK
  <2> QED
    BY <2>2, <2>3
<1> QED
  BY <1>8, <1>9, <1>10

(* A store with one more frame is in order, and keeps its promises. *)
LEMMA GrownOK ==
    ASSUME NEW d, NEW e, NEW f, FilesOK(d), Grown(d, e, f), HeadOK(d, f.prev)
    PROVE  /\ FilesOK(e) /\ End(e) = End(d) + 1 /\ HeadOK(e, hash_frame(f))
           /\ \A acks : AckOK(d, acks) => AckOK(e, acks)
           /\ \A acks : AckOK(d, acks) =>
                 AckOK(e, acks \union {[seq |-> End(d), record |-> f.record]})
<1> DEFINE n == Len(d)
<1>1. /\ ShapeOK(d) /\ d \in Seq(File) /\ e \in Seq(File) /\ Len(e) = n /\ n \in Nat
      /\ n \in 1..n /\ d # <<>> /\ e # <<>>
  BY DEF FilesOK, ShapeOK, Grown, SameBut
<1>2. /\ \A i \in 1..n : W(d, i) \in Nat /\ W(e, i) \in Nat /\ d[i].first \in Nat
      /\ \A i \in 1..n : e[i].first = d[i].first /\ (i # n => W(e, i) = W(d, i))
      /\ W(e, n) = W(d, n) + 1
  <2>1. \A i \in 1..n : W(d, i) \in Nat /\ W(e, i) \in Nat /\ d[i].first \in Nat
    BY <1>1, FileFacts
  <2>2. \A i \in 1..n : e[i].first = d[i].first /\ (i # n => W(e, i) = W(d, i))
    BY GrownPlaces
  <2>3. W(e, n) = W(d, n) + 1
    BY DEF Grown
  <2> QED
    BY <2>1, <2>2, <2>3
<1>3. End(d) = d[n].first + W(d, n) /\ End(e) = e[n].first + W(e, n)
  BY <1>1 DEF End, Last, W
<1>4. /\ End(e) = End(d) + 1 /\ End(d) \in Nat
      /\ e[n].first <= End(d) /\ End(d) < e[n].first + W(e, n)
  <2>1. /\ d[n].first \in Nat /\ W(d, n) \in Nat /\ e[n].first = d[n].first
        /\ W(e, n) = W(d, n) + 1
    BY <1>1, <1>2
  <2> QED
    BY SMTT(30), <1>3, <2>1
<1>5. \A i \in 1..n : ClosedOK(e, i)
  <2> SUFFICES ASSUME NEW i \in 1..n PROVE ClosedOK(e, i)
    OBVIOUS
  <2>1. CASE i = n
    BY <1>1, <2>1 DEF Grown, SameBut, ClosedOK
  <2>2. CASE i # n
    <3>1. i \in 1..(n - 1) /\ ClosedOK(d, i)
      BY <1>1, <2>2 DEF ShapeOK
    <3>2. e[i] = d[i]
      BY <3>1 DEF Grown, SameBut
    <3> QED
      BY <1>1, <3>1, <3>2 DEF ClosedOK, W
  <2> QED
    BY <2>1, <2>2
<1>6. Adjacent(e)
  <2>1. \A i \in 1..n : i # 1 => i - 1 \in 1..n /\ i - 1 # n
    BY <1>1
  <2>2. \A i, j \in 1..n : i < j => i # n
    BY <1>1
  <2>3. Adjacent(d)
    BY <1>1 DEF ShapeOK
  <2> QED
    BY <1>1, <1>2, <2>1, <2>2, <2>3 DEF Adjacent
<1>7. Gapless(e)
  <2> SUFFICES ASSUME NEW q \in 0..(End(e) - 1)
               PROVE  \E i \in 1..n : e[i].first <= q /\ q < e[i].first + W(e, i)
    BY <1>1 DEF Gapless
  <2>1. CASE q = End(d)
    BY <1>1, <1>4, <2>1
  <2>2. CASE q \in 0..(End(d) - 1)
    <3>1. PICK i \in 1..n : d[i].first <= q /\ q < d[i].first + W(d, i)
      BY <1>1, <2>2 DEF ShapeOK, Gapless
    <3>2. e[i].first = d[i].first /\ W(d, i) \in Nat /\ d[i].first \in Nat
      BY <1>2
    <3>3. W(e, i) = W(d, i) \/ W(e, i) = W(d, i) + 1
      BY <1>2
    <3>4. q \in Nat
      BY <1>4, <2>2
    <3> QED
      BY <3>1, <3>2, <3>3, <3>4
  <2> QED
    BY <1>4, <2>1, <2>2
<1>8. \A i \in 1..n : \A k \in 1..W(d, i) :
         /\ NumberOf(d, i, k) \in 0..(End(d) - 1)
         /\ FrameOf(e, i, k) = FrameOf(d, i, k) /\ NumberOf(e, i, k) = NumberOf(d, i, k)
  BY <1>1, NumberBelow, GrownPlaces
<1>9. \A i \in 1..n : \A k \in 1..W(e, i) :
         \/ k \in 1..W(d, i)
         \/ FrameOf(e, i, k) = f /\ NumberOf(e, i, k) = End(d)
  BY GrownPlaces
<1>10. Linked(e)
  <2>1. Linked(d)
    BY DEF FilesOK
  <2>2. ASSUME NEW j \in 1..n, NEW l \in 1..W(e, j)
        PROVE  /\ NumberOf(e, j, l) = 0 => FrameOf(e, j, l).prev = <<>>
               /\ \A i \in 1..n : \A k \in 1..W(e, i) :
                     NumberOf(e, j, l) = NumberOf(e, i, k) + 1 =>
                        FrameOf(e, j, l).prev = hash_frame(FrameOf(e, i, k))
    <3>1. CASE l \in 1..W(d, j)
      <4>1. ASSUME NEW i \in 1..n, NEW k \in 1..W(e, i),
                   NumberOf(e, j, l) = NumberOf(e, i, k) + 1
            PROVE  k \in 1..W(d, i)
        BY <1>4, <1>8, <1>9, <3>1, <4>1
      <4> QED
        BY <1>8, <2>1, <3>1, <4>1 DEF Linked
    <3>2. CASE l \notin 1..W(d, j)
      <4>1. FrameOf(e, j, l) = f /\ NumberOf(e, j, l) = End(d)
        BY <1>9, <3>2
      <4>2. ASSUME NEW i \in 1..n, NEW k \in 1..W(e, i), End(d) = NumberOf(e, i, k) + 1
            PROVE  f.prev = hash_frame(FrameOf(e, i, k))
        <5>1. k \in 1..W(d, i)
          BY <1>4, <1>9, <4>2
        <5>2. NumberOf(d, i, k) = End(d) - 1 /\ FrameOf(e, i, k) = FrameOf(d, i, k)
          BY <1>4, <1>8, <4>2, <5>1
        <5> QED
          BY <5>1, <5>2 DEF HeadOK
      <4>3. End(d) = 0 => f.prev = <<>>
        BY DEF HeadOK
      <4> QED
        BY <4>1, <4>2, <4>3
    <3> QED
      BY <3>1, <3>2
  <2> QED
    BY <1>1, <2>2 DEF Linked
<1>11. \A i \in 1..n : FramesOK(e, i)
  BY GrownPlaces
<1>12. FilesOK(e)
  BY <1>1, <1>5, <1>6, <1>7, <1>10, <1>11 DEF FilesOK, ShapeOK
<1>13. HeadOK(e, hash_frame(f))
  <2>1. hash_frame(f) \in Seq(Nat) /\ End(e) # 0 /\ End(e) - 1 = End(d)
    BY <1>4, HashTypes DEF Grown
  <2>2. ASSUME NEW i \in 1..n, NEW k \in 1..W(e, i), NumberOf(e, i, k) = End(d)
        PROVE  FrameOf(e, i, k) = f
    BY <1>4, <1>8, <1>9, <2>2
  <2> QED
    BY <1>1, <2>1, <2>2 DEF HeadOK
<1>14. ASSUME NEW acks, AckOK(d, acks), NEW a,
              a \in acks \union {[seq |-> End(d), record |-> f.record]}
       PROVE  /\ a.seq \in Nat /\ a.seq < End(e)
              /\ \A i \in 1..n : \A k \in 1..W(e, i) :
                    NumberOf(e, i, k) = a.seq => FrameOf(e, i, k).record = a.record
  <2>1. CASE a \in acks
    <3>1. /\ a.seq \in Nat /\ a.seq < End(d)
          /\ \A i \in 1..n : \A k \in 1..W(d, i) :
                NumberOf(d, i, k) = a.seq => FrameOf(d, i, k).record = a.record
      BY <1>14, <2>1 DEF AckOK
    <3>2. ASSUME NEW i \in 1..n, NEW k \in 1..W(e, i), NumberOf(e, i, k) = a.seq
          PROVE  FrameOf(e, i, k).record = a.record
      <4>1. k \in 1..W(d, i)
        BY <1>4, <1>9, <3>1, <3>2
      <4> QED
        BY <1>8, <3>1, <3>2, <4>1
    <3> QED
      BY <1>4, <3>1, <3>2
  <2>2. CASE a = [seq |-> End(d), record |-> f.record]
    <3>1. a.seq = End(d) /\ a.record = f.record
      BY <2>2
    <3>2. ASSUME NEW i \in 1..n, NEW k \in 1..W(e, i), NumberOf(e, i, k) = End(d)
          PROVE  FrameOf(e, i, k) = f
      BY <1>4, <1>8, <1>9, <3>2
    <3> QED
      BY <1>4, <3>1, <3>2
  <2> QED
    BY <1>14, <2>1, <2>2
<1>15. \A acks : AckOK(d, acks) => AckOK(e, acks)
  BY <1>1, <1>14 DEF AckOK
<1>16. \A acks : AckOK(d, acks) =>
          AckOK(e, acks \union {[seq |-> End(d), record |-> f.record]})
  BY <1>1, <1>14 DEF AckOK
<1> QED
  BY <1>4, <1>12, <1>13, <1>15, <1>16

NewFile(d) == [first |-> End(d), cells |-> <<>>, synced |-> 0]

(* A store with a new, empty file is in order. *)
LEMMA NewFileOK ==
    ASSUME NEW d, FilesOK(d),
           d # <<>> => /\ ~Torn(d[Len(d)].cells) /\ W(d, Len(d)) > 0
                       /\ d[Len(d)].synced = Len(d[Len(d)].cells)
    PROVE  LET e == Append(d, NewFile(d)) IN
           /\ FilesOK(e) /\ End(e) = End(d) /\ Len(e) = Len(d) + 1 /\ Len(d) \in Nat
           /\ \A i \in 1..Len(d) : e[i] = d[i]
           /\ e[Len(d) + 1] = NewFile(d) /\ W(e, Len(d) + 1) = 0
           /\ ~Torn(e[Len(d) + 1].cells)
           /\ \A h : HeadOK(d, h) => HeadOK(e, h)
           /\ \A acks : AckOK(d, acks) => AckOK(e, acks)
<1> DEFINE e == Append(d, NewFile(d))
           n == Len(d)
<1>1. ShapeOK(d) /\ d \in Seq(File) /\ n \in Nat /\ End(d) \in Nat
  BY EndFacts DEF FilesOK, ShapeOK
<1>2. NewFile(d) \in File
  BY <1>1 DEF NewFile, File
<1>3. /\ e \in Seq(File) /\ Len(e) = n + 1 /\ e # <<>>
      /\ \A i \in 1..n : e[i] = d[i]
      /\ e[n + 1] = NewFile(d)
  BY <1>1, <1>2, AppendFacts
<1> HIDE DEF e
<1>4. /\ e[n + 1].first = End(d) /\ e[n + 1].cells = <<>> /\ e[n + 1].synced = 0
      /\ Len(e[n + 1].cells) = 0
  BY <1>3 DEF NewFile
<1>5. W(e, n + 1) = 0 /\ ~Torn(e[n + 1].cells)
  <2>1. <<>> \in Seq(Cell) /\ Len(<<>>) = 2 * 0
    OBVIOUS
  <2> QED
    BY <1>4, <2>1, WholeIs DEF W
<1>6. End(e) = End(d)
  <2>1. End(e) = e[n + 1].first + W(e, n + 1)
    BY <1>3 DEF End, Last, W
  <2> QED
    BY <1>1, <1>4, <1>5, <2>1
<1>7. \A i \in 1..n : /\ W(e, i) = W(d, i) /\ W(d, i) \in Nat /\ d[i].first \in Nat
                      /\ e[i].first = d[i].first
                      /\ \A k \in 1..W(d, i) : /\ FrameOf(e, i, k) = FrameOf(d, i, k)
                                               /\ NumberOf(e, i, k) = NumberOf(d, i, k)
  BY <1>1, <1>3, FileFacts DEF W, FrameOf, NumberOf
<1>8. \A i \in 1..(n + 1) : i \in 1..n \/ i = n + 1
  BY <1>1
<1>9. \A i \in 1..(n + 1) : ClosedOK(e, i)
  <2> SUFFICES ASSUME NEW i \in 1..(n + 1) PROVE ClosedOK(e, i)
    OBVIOUS
  <2>1. CASE i = n + 1
    BY <1>1, <1>3, <1>4, <2>1 DEF ClosedOK
  <2>2. CASE i \in 1..n
    <3>1. e[i] = d[i] /\ ClosedOK(d, i) /\ W(e, i) = W(d, i)
      BY <1>1, <1>3, <1>7, <2>2 DEF ShapeOK
    <3>2. CASE i < n
      BY <3>1, <3>2 DEF ClosedOK
    <3>3. CASE i = n
      <4>1. d # <<>>
        BY <1>1, <2>2
      <4> QED
        BY <3>1, <3>3, <4>1 DEF ClosedOK
    <3> QED
      BY <1>1, <2>2, <3>2, <3>3
  <2> QED
    BY <1>8, <2>1, <2>2
<1>10. \A i \in 1..n : d[i].first + W(d, i) <= End(d)
  <2> SUFFICES ASSUME NEW i \in 1..n PROVE d[i].first + W(d, i) <= End(d)
    OBVIOUS
  <2>1. n \in 1..n /\ End(d) = d[n].first + W(d, n)
    BY <1>1, EndFacts
  <2>2. i < n => d[i].first + W(d, i) <= d[n].first
    BY <1>1, <2>1 DEF ShapeOK, Adjacent
  <2> QED
    BY <1>1, <1>7, <2>1, <2>2
<1>11. Adjacent(e)
  <2>1. ASSUME NEW i \in 1..(n + 1)
        PROVE  e[i].first = IF i = 1 THEN 0 ELSE e[i - 1].first + W(e, i - 1)
    <3>1. CASE i = n + 1
      <4>1. CASE n = 0
        <5>1. d = <<>>
          BY <1>1, <4>1
        <5>2. End(d) = 0
          BY <1>1, <5>1, EndFacts
        <5> QED
          BY <1>4, <3>1, <4>1, <5>2
      <4>2. CASE n # 0
        <5>1. n \in 1..n /\ i - 1 = n /\ i # 1 /\ d # <<>>
          BY <1>1, <3>1, <4>2
        <5>2. End(d) = d[n].first + W(d, n)
          BY <1>1, <5>1, EndFacts
        <5> QED
          BY <1>4, <1>7, <3>1, <5>1, <5>2
      <4> QED
        BY <4>1, <4>2
    <3>2. CASE i \in 1..n
      <4>1. d[i].first = IF i = 1 THEN 0 ELSE d[i - 1].first + W(d, i - 1)
        BY <1>1, <3>2 DEF ShapeOK, Adjacent
      <4>2. i # 1 => i - 1 \in 1..n
        BY <1>1, <3>2
      <4> QED
        BY <1>7, <3>2, <4>1, <4>2
    <3> QED
      BY <1>8, <3>1, <3>2
  <2>2. ASSUME NEW i \in 1..(n + 1), NEW j \in 1..(n + 1), i < j
        PROVE  e[i].first + W(e, i) <= e[j].first
    <3>1. i \in 1..n
      BY <1>1, <2>2
    <3>2. CASE j = n + 1
      BY <1>4, <1>7, <1>10, <3>1, <3>2
    <3>3. CASE j \in 1..n
      BY <1>1, <1>7, <2>2, <3>1, <3>3 DEF ShapeOK, Adjacent
    <3> QED
      BY <1>8, <3>2, <3>3
  <2> QED
    BY <1>3, <2>1, <2>2 DEF Adjacent
<1>12. Gapless(e)
  <2> SUFFICES ASSUME NEW q \in 0..(End(d) - 1)
               PROVE  \E i \in 1..(n + 1) : e[i].first <= q /\ q < e[i].first + W(e, i)
    BY <1>3, <1>6 DEF Gapless
  <2>1. PICK i \in 1..n : d[i].first <= q /\ q < d[i].first + W(d, i)
    BY <1>1 DEF ShapeOK, Gapless
  <2>2. i \in 1..(n + 1)
    BY <1>1
  <2> QED
    BY <1>7, <2>1, <2>2
<1>13. \A i \in 1..(n + 1) : \A k \in 1..W(e, i) :
          /\ i \in 1..n /\ k \in 1..W(d, i) /\ FrameOf(e, i, k) = FrameOf(d, i, k)
          /\ NumberOf(e, i, k) = NumberOf(d, i, k)
  <2> SUFFICES ASSUME NEW i \in 1..(n + 1), NEW k \in 1..W(e, i)
               PROVE  /\ i \in 1..n /\ k \in 1..W(d, i)
                      /\ FrameOf(e, i, k) = FrameOf(d, i, k)
                      /\ NumberOf(e, i, k) = NumberOf(d, i, k)
    OBVIOUS
  <2>1. i # n + 1
    BY <1>5
  <2> QED
    BY <1>7, <1>8, <2>1
<1>14. Linked(e)
  <2>1. Linked(d)
    BY DEF FilesOK
  <2> QED
    BY <1>3, <1>13, <2>1 DEF Linked
<1>15. \A i \in 1..(n + 1) : FramesOK(e, i)
  <2> SUFFICES ASSUME NEW i \in 1..(n + 1) PROVE FramesOK(e, i)
    OBVIOUS
  <2>1. CASE i \in 1..n
    <3>1. e[i] = d[i] /\ FramesOK(d, i)
      BY <1>3, <2>1 DEF FilesOK
    <3> QED
      BY <3>1 DEF FramesOK, W, FrameOf, NumberOf
  <2>2. CASE i = n + 1
    BY <1>5, <2>2 DEF FramesOK
  <2> QED
    BY <1>8, <2>1, <2>2
<1>16. FilesOK(e)
  BY <1>3, <1>9, <1>11, <1>12, <1>14, <1>15 DEF FilesOK, ShapeOK
<1>17. \A h : HeadOK(d, h) => HeadOK(e, h)
  BY <1>3, <1>6, <1>13 DEF HeadOK
<1>18. \A acks : AckOK(d, acks) => AckOK(e, acks)
  BY <1>3, <1>6, <1>13 DEF AckOK
<1> QED
  BY <1>1, <1>3, <1>5, <1>6, <1>16, <1>17, <1>18 DEF e

-----------------------------------------------------------------------------
(***************************************************************************)
(* The index: as scanned, with a new segment, with one more frame.         *)
(***************************************************************************)
LEMMA ScannedOK ==
    ASSUME FilesOK(disk)
    PROVE  /\ IndexOK(disk, Scanned) /\ Len(Scanned) = Len(disk)
           /\ \A i \in 1..Len(disk) : /\ Scanned[i].first = disk[i].first
                                      /\ Len(Scanned[i].offsets) = W(disk, i)
<1> DEFINE S == Scanned
<1>1. ShapeOK(disk) /\ disk \in Seq(File) /\ Len(disk) \in Nat /\ DOMAIN disk = 1..Len(disk)
  BY DEF FilesOK, ShapeOK
<1>2. \A i \in 1..Len(disk) :
         /\ disk[i].first \in Nat /\ W(disk, i) \in Nat
         /\ S[i].first = disk[i].first
         /\ S[i].offsets = [k \in 1..W(disk, i) |-> 2 * (k - 1)]
  BY <1>1, FileFacts DEF Scanned, scan_segment, W
<1>3. ASSUME NEW i \in 1..Len(disk)
      PROVE  /\ S[i].offsets \in Seq(Nat) /\ Len(S[i].offsets) = W(disk, i)
             /\ \A k \in 1..W(disk, i) : S[i].offsets[k] = 2 * (k - 1)
             /\ S[i] \in Entry
  <2>1. \A k \in 1..W(disk, i) : 2 * (k - 1) \in Nat
    BY <1>2
  <2>2. S[i].offsets \in Seq(Nat) /\ Len(S[i].offsets) = W(disk, i)
    <3> DEFINE o == S[i].offsets
    <3>1. \A k \in 1..W(disk, i) : o[k] \in Nat
      BY <1>2, <2>1
    <3>2. o = [k \in 1..W(disk, i) |-> o[k]]
      BY <1>2
    <3> HIDE DEF o
    <3>3. o \in Seq(Nat) /\ Len(o) = W(disk, i)
      BY <1>2, <3>1, <3>2, IsSeq
    <3> QED
      BY <3>3 DEF o
  <2>3. S[i] = [first |-> disk[i].first, offsets |-> S[i].offsets]
    BY <1>1 DEF Scanned, scan_segment
  <2> QED
    BY <1>2, <2>2, <2>3 DEF Entry
<1>4. S \in Seq(Entry) /\ Len(S) = Len(disk)
  <2>1. S = [i \in 1..Len(disk) |-> S[i]]
    BY <1>1 DEF Scanned
  <2> HIDE DEF S
  <2> QED
    BY <1>1, <1>3, <2>1
<1> HIDE DEF S
<1>5. ASSUME NEW q \in 0..(End(disk) - 1)
      PROVE  \E s \in 1..Len(S) : S[s].first <= q /\ q < S[s].first + Len(S[s].offsets)
  BY <1>1, <1>2, <1>3, <1>4 DEF ShapeOK, Gapless
<1>6. ASSUME NEW s \in 1..Len(S)
      PROVE  /\ \E i \in 1..Len(disk) : /\ disk[i].first = S[s].first
                                        /\ Len(S[s].offsets) <= W(disk, i)
             /\ \A k \in 1..Len(S[s].offsets) : S[s].offsets[k] = 2 * (k - 1)
  BY <1>2, <1>3, <1>4
<1>7. IndexOK(disk, S)
  BY <1>4, <1>5, <1>6 DEF IndexOK
<1> QED
  BY <1>2, <1>3, <1>4, <1>7 DEF S

(* The index of a new file. *)
LEMMA IndexNew ==
    ASSUME NEW d, NEW e, NEW segs, IndexOK(d, segs), End(d) \in Nat, End(e) = End(d),
           Len(d) \in Nat, Len(e) \in Nat,
           \A i \in 1..Len(d) : i \in 1..Len(e) /\ e[i] = d[i],
           NEW j \in 1..Len(e), e[j].first = End(d), W(e, j) \in Nat
    PROVE  LET new == Append(segs, [first |-> End(d), offsets |-> <<>>])
           IN  /\ IndexOK(e, new) /\ new # <<>> /\ Len(new) = Len(segs) + 1
               /\ new[Len(new)] = [first |-> End(d), offsets |-> <<>>]
<1> DEFINE entry == [first |-> End(d), offsets |-> <<>>]
           new   == Append(segs, entry)
           m     == Len(segs)
<1>1. segs \in Seq(Entry) /\ entry \in Entry /\ m \in Nat
  BY DEF IndexOK, Entry
<1>2. /\ entry.first = End(d) /\ entry.offsets = <<>> /\ Len(entry.offsets) = 0
  OBVIOUS
<1> HIDE DEF entry
<1>3. /\ new \in Seq(Entry) /\ Len(new) = m + 1 /\ new[m + 1] = entry /\ new # <<>>
      /\ \A s \in 1..m : new[s] = segs[s]
  BY <1>1
<1> HIDE DEF new
<1>4. \A i \in 1..Len(d) : e[i].first = d[i].first /\ W(e, i) = W(d, i)
  BY DEF W
<1>5. ASSUME NEW s \in 1..(m + 1)
      PROVE  /\ \E i \in 1..Len(e) : /\ e[i].first = new[s].first
                                     /\ Len(new[s].offsets) <= W(e, i)
             /\ \A k \in 1..Len(new[s].offsets) : new[s].offsets[k] = 2 * (k - 1)
  <2>1. CASE s \in 1..m
    <3>1. PICK i \in 1..Len(d) : /\ d[i].first = segs[s].first
                                 /\ Len(segs[s].offsets) <= W(d, i)
      BY <2>1 DEF IndexOK
    <3>2. \A k \in 1..Len(segs[s].offsets) : segs[s].offsets[k] = 2 * (k - 1)
      BY <2>1 DEF IndexOK
    <3> QED
      BY <1>3, <1>4, <2>1, <3>1, <3>2
  <2>2. CASE s = m + 1
    BY <1>2, <1>3, <2>2
  <2> QED
    BY SMTT(30), <1>1, <2>1, <2>2
<1>6. ASSUME NEW q \in 0..(End(e) - 1)
      PROVE  \E s \in 1..(m + 1) : new[s].first <= q /\ q < new[s].first + Len(new[s].offsets)
  <2>1. PICK s \in 1..m : segs[s].first <= q /\ q < segs[s].first + Len(segs[s].offsets)
    BY DEF IndexOK
  <2>2. s \in 1..(m + 1)
    BY <1>1
  <2> QED
    BY <1>3, <2>1, <2>2
<1>7. IndexOK(e, new)
  BY <1>3, <1>5, <1>6 DEF IndexOK
<1> QED
  BY <1>3, <1>7 DEF new, entry

(* new is segs with one more offset in the last entry. *)
OneMore(segs, new, x) ==
    LET m == Len(segs) IN
    /\ new \in Seq(Entry) /\ Len(new) = m
    /\ new[m].first = segs[m].first /\ new[m].offsets = Append(segs[m].offsets, x)
    /\ \A s \in 1..m : s # m => new[s] = segs[s]

(* One more offset in the last entry of the index. *)
LEMMA OffsetsGrow ==
    ASSUME NEW segs \in Seq(Entry), segs # <<>>, NEW x \in Nat
    PROVE  OneMore(segs, [segs EXCEPT ![Len(segs)].offsets = Append(@, x)], x)
<1> DEFINE m == Len(segs)
           y == [segs[m] EXCEPT !.offsets = Append(segs[m].offsets, x)]
           new == [segs EXCEPT ![m] = y]
<1>1. m \in 1..Len(segs) /\ segs[m] \in Entry
  OBVIOUS
<1>2. Append(segs[m].offsets, x) \in Seq(Nat)
  BY <1>1 DEF Entry
<1>3. /\ y \in Entry /\ y.first = segs[m].first
      /\ y.offsets = Append(segs[m].offsets, x)
  BY <1>1, <1>2 DEF Entry
<1>4. new = [segs EXCEPT ![Len(segs)].offsets = Append(@, x)]
  OBVIOUS
<1> HIDE DEF y
<1>5. /\ new \in Seq(Entry) /\ Len(new) = Len(segs) /\ new[m] = y
      /\ \A s \in 1..Len(segs) : s # m => new[s] = segs[s]
  BY <1>1, <1>3, ReplaceFacts
<1> HIDE DEF new
<1>6. OneMore(segs, new, x)
  BY <1>3, <1>5 DEF OneMore
<1> QED
  BY <1>4, <1>6

(* The index of a store with one more frame. *)
LEMMA IndexGrows ==
    ASSUME NEW d, NEW e, NEW f, FilesOK(d), Grown(d, e, f), NEW segs, IndexOK(d, segs),
           segs # <<>>, segs[Len(segs)].first = d[Len(d)].first,
           Len(segs[Len(segs)].offsets) = W(d, Len(d)),
           NEW new, OneMore(segs, new, 2 * W(d, Len(d))), End(e) = End(d) + 1
    PROVE  /\ IndexOK(e, new) /\ new # <<>> /\ Len(new) = Len(segs)
           /\ new[Len(new)].first = d[Len(d)].first
           /\ Len(new[Len(new)].offsets) = W(d, Len(d)) + 1
<1> DEFINE m == Len(segs)
           n == Len(d)
           w == W(d, n)
<1>1. /\ segs \in Seq(Entry) /\ m \in Nat /\ m \in 1..m /\ d \in Seq(File) /\ n \in Nat
      /\ n \in 1..n /\ d # <<>> /\ Len(e) = n
  BY DEF IndexOK, FilesOK, ShapeOK, Grown, SameBut
<1>2. segs[m] \in Entry /\ segs[m].offsets \in Seq(Nat) /\ segs[m].first \in Nat /\ w \in Nat
  <2>1. segs[m] \in Entry
    BY <1>1
  <2>2. w \in Nat
    BY <1>1, FileFacts
  <2> QED
    BY <2>1, <2>2 DEF Entry
<1> HIDE DEF w
<1> DEFINE old == segs[m].offsets
           offs == Append(old, 2 * w)
<1>3. /\ offs \in Seq(Nat) /\ Len(offs) = w + 1 /\ Len(old) = w
      /\ \A k \in 1..w : offs[k] = old[k]
      /\ offs[w + 1] = 2 * w
  BY <1>2 DEF w
<1>4. /\ Len(new) = m /\ new \in Seq(Entry)
      /\ \A s \in 1..m : s # m => new[s] = segs[s]
      /\ new[m].first = segs[m].first /\ new[m].offsets = offs
  BY DEF OneMore, w
<1>5. new[m].first = segs[m].first /\ new[m].offsets = offs
  BY <1>4
<1> HIDE DEF offs
<1>6. /\ \A i \in 1..n : /\ W(d, i) \in Nat /\ e[i].first = d[i].first
                         /\ (i # n => W(e, i) = W(d, i))
      /\ W(e, n) = w + 1
  <2>1. \A i \in 1..n : W(d, i) \in Nat
    BY <1>1, FileFacts
  <2>2. \A i \in 1..n : e[i].first = d[i].first /\ (i # n => W(e, i) = W(d, i))
    BY GrownPlaces
  <2>3. W(e, n) = w + 1
    BY DEF Grown, w
  <2> QED
    BY <2>1, <2>2, <2>3
<1>7. ASSUME NEW s \in 1..m
      PROVE  /\ \E i \in 1..n : /\ e[i].first = new[s].first
                                /\ Len(new[s].offsets) <= W(e, i)
             /\ \A k \in 1..Len(new[s].offsets) : new[s].offsets[k] = 2 * (k - 1)
  <2>0. \A k \in 1..Len(segs[s].offsets) : segs[s].offsets[k] = 2 * (k - 1)
    BY DEF IndexOK
  <2>1. CASE s = m
    <3>1. e[n].first = new[m].first /\ Len(new[m].offsets) <= W(e, n)
      BY <1>1, <1>2, <1>3, <1>5, <1>6
    <3>2. ASSUME NEW k \in 1..(w + 1) PROVE offs[k] = 2 * (k - 1)
      <4>1. CASE k \in 1..w
        BY <1>3, <2>0, <2>1, <4>1
      <4>2. CASE k = w + 1
        BY <1>2, <1>3, <4>2
      <4> QED
        BY <1>2, <4>1, <4>2
    <3> QED
      BY <1>1, <1>3, <1>5, <2>1, <3>1, <3>2
  <2>2. CASE s # m
    <3>1. PICK i \in 1..n : d[i].first = segs[s].first /\ Len(segs[s].offsets) <= W(d, i)
      BY DEF IndexOK
    <3>2. segs[s].offsets \in Seq(Nat) /\ Len(segs[s].offsets) \in Nat
      <4>1. segs[s] \in Entry
        BY <1>1
      <4> QED
        BY <4>1 DEF Entry
    <3>3. Len(segs[s].offsets) <= W(e, i)
      <4>1. CASE i = n
        BY <1>6, <1>2, <3>1, <3>2, <4>1 DEF w
      <4>2. CASE i # n
        BY <1>6, <3>1, <4>2
      <4> QED
        BY <4>1, <4>2
    <3> QED
      BY <1>4, <1>6, <2>0, <2>2, <3>1, <3>3
  <2> QED
    BY <2>1, <2>2
<1>8. ASSUME NEW q \in 0..(End(e) - 1)
      PROVE  \E s \in 1..m : new[s].first <= q /\ q < new[s].first + Len(new[s].offsets)
  <2>0. End(d) \in Nat /\ End(d) = d[n].first + w /\ q \in Nat /\ d[n].first \in Nat
    BY <1>1, EndFacts, FileFacts DEF FilesOK, w
  <2>1. new[m].first = d[n].first /\ Len(new[m].offsets) = w + 1
    BY <1>3, <1>5
  <2>2. CASE q = End(d)
    <3>1. new[m].first <= q /\ q < new[m].first + Len(new[m].offsets)
      BY SMTT(30), <1>2, <2>0, <2>1, <2>2
    <3> QED
      BY <1>1, <3>1
  <2>3. CASE q \in 0..(End(d) - 1)
    <3>1. PICK s \in 1..m : segs[s].first <= q /\ q < segs[s].first + Len(segs[s].offsets)
      BY <2>3 DEF IndexOK
    <3>2. CASE s = m
      <4>1. new[m].first <= q /\ q < new[m].first + Len(new[m].offsets)
        <5>1. d[n].first <= q /\ q < d[n].first + w
          BY <3>1, <3>2 DEF w
        <5>2. q < d[n].first + (w + 1)
          BY SMTT(30), <1>2, <2>0, <5>1
        <5> QED
          BY <2>1, <5>1, <5>2
      <4> QED
        BY <1>1, <4>1
    <3>3. CASE s # m
      BY <1>4, <3>1, <3>3
    <3> QED
      BY <3>2, <3>3
  <2> QED
    BY <2>0, <2>2, <2>3
<1>9. IndexOK(e, new)
  BY <1>1, <1>4, <1>7, <1>8 DEF IndexOK
<1> QED
  BY <1>1, <1>3, <1>4, <1>5, <1>9 DEF w

-----------------------------------------------------------------------------
(***************************************************************************)
(* Writes: nothing, half a frame, a frame, the other half.                 *)
(***************************************************************************)
LEMMA PairFacts ==
    ASSUME NEW S, NEW a \in S, NEW b \in S
    PROVE  /\ <<a, b>> \in Seq(S) /\ Len(<<a, b>>) = 2
           /\ <<a>> \in Seq(S) /\ Len(<<a>>) = 1
           /\ <<a, b>>[1] = a /\ <<a, b>>[2] = b /\ <<a>>[1] = a
  OBVIOUS

(* A list of one element. *)
LEMMA OnlyOne ==
    ASSUME NEW S, NEW s \in Seq(S), Len(s) = 1
    PROVE  s = <<s[1]>>
  OBVIOUS

(* The parts of a list of two. *)
LEMMA SubPair ==
    ASSUME NEW S, NEW c \in Seq(S), Len(c) = 2
    PROVE  /\ SubSeq(c, 1, 0) = <<>> /\ SubSeq(c, 1, 1) = <<c[1]>>
           /\ SubSeq(c, 1, 2) = c /\ SubSeq(c, 2, 2) = <<c[2]>>
<1>1. SubSeq(c, 1, 0) = <<>>
  OBVIOUS
<1>2. SubSeq(c, 1, 2) = c
  OBVIOUS
<1>3. SubSeq(c, 1, 1) \in Seq(S) /\ Len(SubSeq(c, 1, 1)) = 1 /\ SubSeq(c, 1, 1)[1] = c[1]
  OBVIOUS
<1>4. SubSeq(c, 2, 2) \in Seq(S) /\ Len(SubSeq(c, 2, 2)) = 1 /\ SubSeq(c, 2, 2)[1] = c[2]
  OBVIOUS
<1>5. SubSeq(c, 1, 1) = <<SubSeq(c, 1, 1)[1]>>
  BY <1>3, OnlyOne
<1>6. SubSeq(c, 2, 2) = <<SubSeq(c, 2, 2)[1]>>
  BY <1>4, OnlyOne
<1> QED
  BY <1>1, <1>2, <1>3, <1>4, <1>5, <1>6

(* A frame is written as two cells: its length and its body. *)
LEMMA PartsOf ==
    ASSUME NEW f \in StoredFrame
    PROVE  LET c == CellsOf(f) IN
           /\ c \in Seq(Cell) /\ Len(c) = 2
           /\ c[1] = [frame |-> f, part |-> "len"] /\ c[1] \in Cell
           /\ c[2] = [frame |-> f, part |-> "body"] /\ c[2] \in Cell
<1> DEFINE x == [frame |-> f, part |-> "len"]
           y == [frame |-> f, part |-> "body"]
<1>1. x \in Cell /\ y \in Cell
  BY DEF Cell
<1>2. CellsOf(f) = <<x, y>>
  BY DEF CellsOf
<1> HIDE DEF x, y
<1>3. /\ <<x, y>> \in Seq(Cell) /\ Len(<<x, y>>) = 2
      /\ <<x, y>>[1] = x /\ <<x, y>>[2] = y
  BY <1>1, PairFacts
<1> QED
  BY <1>1, <1>2, <1>3 DEF x, y

(* Cells written at the end of the last file. *)
LEMMA WrittenFacts ==
    ASSUME FilesOK(disk), disk # <<>>, NEW cs \in Seq(Cell)
    PROVE  LET n == Len(disk)
               e == Written(cs)
           IN  /\ SameBut(disk, e) /\ n \in Nat /\ n \in 1..n
               /\ e[n].cells = disk[n].cells \o cs /\ e[n].cells \in Seq(Cell)
               /\ Len(e[n].cells) = Len(disk[n].cells) + Len(cs)
               /\ Len(disk[n].cells) \in Nat
               /\ \A c \in 1..Len(disk[n].cells) : e[n].cells[c] = disk[n].cells[c]
               /\ \A c \in 1..Len(cs) : e[n].cells[Len(disk[n].cells) + c] = cs[c]
               /\ e[n].synced = disk[n].synced
<1> DEFINE n == Len(disk)
           y == [disk[n] EXCEPT !.cells = disk[n].cells \o cs]
           e == [disk EXCEPT ![n] = y]
<1>1. disk \in Seq(File) /\ n \in Nat /\ n \in 1..n
  BY DEF FilesOK, ShapeOK
<1>2. disk[n] \in File /\ disk[n].cells \in Seq(Cell) /\ Len(disk[n].cells) \in Nat
  BY <1>1, FileFacts
<1>3. disk[n].cells \o cs \in Seq(Cell)
  BY <1>2
<1>4. /\ y \in File /\ y.first = disk[n].first /\ y.synced = disk[n].synced
      /\ y.cells = disk[n].cells \o cs
  BY <1>2, <1>3 DEF File
<1>5. Written(cs) = e
  BY DEF Written, Active
<1> HIDE DEF y
<1>6. /\ e \in Seq(File) /\ Len(e) = n /\ e[n] = y
      /\ \A i \in 1..n : i # n => e[i] = disk[i]
  BY <1>1, <1>4, ReplaceFacts
<1> HIDE DEF e
<1>7. /\ Len(y.cells) = Len(disk[n].cells) + Len(cs)
      /\ \A c \in 1..Len(disk[n].cells) : y.cells[c] = disk[n].cells[c]
      /\ \A c \in 1..Len(cs) : y.cells[Len(disk[n].cells) + c] = cs[c]
  BY <1>2, <1>4
<1>8. disk[n].synced <= Len(y.cells)
  <2>1. disk[n].synced <= Len(disk[n].cells) /\ disk[n].synced \in Nat /\ Len(cs) \in Nat
    BY <1>1, FileFacts DEF FilesOK, ShapeOK, ClosedOK
  <2> QED
    BY <1>2, <1>7, <2>1
<1>9. \A i \in 1..(n - 1) : e[i] = disk[i]
  BY <1>1, <1>6
<1>10. SameBut(disk, e)
  <2>1. Len(e) = Len(disk) /\ Len(disk) > 0 /\ e \in Seq(File)
    BY <1>1, <1>6
  <2>2. e[n].first = disk[n].first /\ e[n].synced <= Len(e[n].cells)
    BY <1>4, <1>6, <1>8
  <2> QED
    BY <1>9, <2>1, <2>2 DEF SameBut
<1> QED
  BY <1>1, <1>2, <1>3, <1>4, <1>5, <1>6, <1>7, <1>10

(* Writing no cell changes nothing. *)
LEMMA WrittenNone ==
    ASSUME FilesOK(disk), disk # <<>>
    PROVE  Written(<<>>) = disk
<1> DEFINE n == Len(disk)
           e == Written(<<>>)
<1>1. disk \in Seq(File) /\ n \in 1..n
  BY DEF FilesOK, ShapeOK
<1>2. disk[n] \in File /\ disk[n].cells \in Seq(Cell)
  BY <1>1, FileFacts
<1>3. disk[n].cells \o <<>> = disk[n].cells
  BY <1>2
<1>4. [disk[n] EXCEPT !.cells = disk[n].cells \o <<>>] = disk[n]
  BY <1>2, <1>3 DEF File
<1>5. e = [disk EXCEPT ![n] = [disk[n] EXCEPT !.cells = disk[n].cells \o <<>>]]
  BY DEF Written, Active
<1> QED
  BY <1>1, <1>4, <1>5

(* Half a frame written: a torn tail, and no frame more. *)
LEMMA WrittenHalf ==
    ASSUME FilesOK(disk), disk # <<>>, ~Torn(disk[Len(disk)].cells),
           NEW f \in StoredFrame
    PROVE  LET n == Len(disk)
               e == Written(<<CellsOf(f)[1]>>)
           IN  /\ Cut(disk, e) /\ W(e, n) = W(disk, n) /\ Torn(e[n].cells)
               /\ e[n].cells[2 * W(disk, n) + 1] = CellsOf(f)[1]
               /\ e[n].synced = disk[n].synced
<1> DEFINE n == Len(disk)
           cs == <<CellsOf(f)[1]>>
           e == Written(cs)
           w == W(disk, n)
<1>1. cs \in Seq(Cell) /\ Len(cs) = 1 /\ cs[1] = CellsOf(f)[1]
  <2>1. CellsOf(f)[1] \in Cell
    BY PartsOf
  <2> QED
    BY <2>1, PairFacts
<1> HIDE DEF cs
<1>2. disk[n].cells \in Seq(Cell) /\ w \in Nat /\ Len(disk[n].cells) = 2 * w
  <2>1. disk \in Seq(File) /\ n \in 1..n
    BY DEF FilesOK, ShapeOK
  <2> QED
    BY <2>1, FileFacts, WholeFacts DEF W
<1>3. /\ SameBut(disk, e) /\ e[n].cells \in Seq(Cell) /\ Len(e[n].cells) = 2 * w + 1
      /\ \A c \in 1..(2 * w) : e[n].cells[c] = disk[n].cells[c]
      /\ e[n].cells[2 * w + 1] = CellsOf(f)[1] /\ e[n].synced = disk[n].synced
  <2>1. /\ SameBut(disk, e) /\ e[n].cells \in Seq(Cell) /\ e[n].synced = disk[n].synced
        /\ Len(e[n].cells) = Len(disk[n].cells) + Len(cs)
        /\ \A c \in 1..Len(disk[n].cells) : e[n].cells[c] = disk[n].cells[c]
        /\ \A c \in 1..Len(cs) : e[n].cells[Len(disk[n].cells) + c] = cs[c]
    BY <1>1, WrittenFacts
  <2> HIDE DEF e, w
  <2>2. 1 \in 1..Len(cs)
    BY <1>1
  <2>3. e[n].cells[Len(disk[n].cells) + 1] = cs[1]
    BY <2>1, <2>2
  <2>4. Len(disk[n].cells) + 1 = 2 * w + 1
    BY <1>2
  <2>5. e[n].cells[2 * w + 1] = cs[1]
    BY <2>3, <2>4
  <2> QED
    BY <1>1, <1>2, <2>1, <2>5
<1> HIDE DEF e
<1>4. W(e, n) = w /\ Torn(e[n].cells)
  BY <1>2, <1>3, WholeIs DEF W
<1>5. Cut(disk, e)
  BY <1>2, <1>3, <1>4 DEF Cut
<1> QED
  BY <1>3, <1>4, <1>5 DEF e, cs

(* A whole frame written, or the other half of a torn one. *)
LEMMA WrittenFrame ==
    ASSUME FilesOK(disk), disk # <<>>, NEW f \in StoredFrame, f.seq = End(disk)
    PROVE  LET n == Len(disk)
               w == W(disk, n)
           IN  /\ ~Torn(disk[n].cells) =>
                     LET e == Written(CellsOf(f))
                     IN  /\ Grown(disk, e, f) /\ ~Torn(e[n].cells)
                         /\ e[n].synced = disk[n].synced
               /\ Torn(disk[n].cells) /\ disk[n].cells[2 * w + 1] = CellsOf(f)[1] =>
                     LET e == Written(<<CellsOf(f)[2]>>)
                     IN  /\ Grown(disk, e, f) /\ ~Torn(e[n].cells)
                         /\ e[n].synced = disk[n].synced
<1> DEFINE n == Len(disk)
           w == W(disk, n)
<1>1. /\ disk[n].cells \in Seq(Cell) /\ w \in Nat
      /\ ~Torn(disk[n].cells) => Len(disk[n].cells) = 2 * w
      /\ Torn(disk[n].cells) => Len(disk[n].cells) = 2 * w + 1
  <2>1. disk \in Seq(File) /\ n \in 1..n
    BY DEF FilesOK, ShapeOK
  <2> QED
    BY <2>1, FileFacts, WholeFacts DEF W
<1> DEFINE c == CellsOf(f)
<1>2. /\ c \in Seq(Cell) /\ Len(c) = 2
      /\ c[1] = [frame |-> f, part |-> "len"] /\ c[2] = [frame |-> f, part |-> "body"]
      /\ c[2] \in Cell
  BY PartsOf
<1> HIDE DEF c
(* Whichever it is, the last file then ends with both parts of the frame. *)
<1>3. ASSUME NEW e, SameBut(disk, e), e[n].cells \in Seq(Cell),
             Len(e[n].cells) = 2 * w + 2,
             \A x \in 1..(2 * w) : e[n].cells[x] = disk[n].cells[x],
             e[n].cells[2 * w + 1] = c[1], e[n].cells[2 * w + 2] = c[2]
      PROVE  Grown(disk, e, f) /\ ~Torn(e[n].cells)
  <2>1. w + 1 \in Nat /\ Len(e[n].cells) = 2 * (w + 1)
    BY <1>1, <1>3
  <2>2. W(e, n) = w + 1 /\ ~Torn(e[n].cells)
    BY <1>3, <2>1, WholeIs DEF W
  <2> QED
    BY <1>2, <1>3, <2>2 DEF Grown
<1>4. ASSUME ~Torn(disk[n].cells)
      PROVE  /\ Grown(disk, Written(c), f) /\ ~Torn(Written(c)[n].cells)
             /\ Written(c)[n].synced = disk[n].synced
  <2> DEFINE e == Written(c)
  <2>0. /\ SameBut(disk, e) /\ e[n].cells \in Seq(Cell) /\ e[n].synced = disk[n].synced
        /\ Len(e[n].cells) = Len(disk[n].cells) + Len(c)
        /\ \A x \in 1..Len(disk[n].cells) : e[n].cells[x] = disk[n].cells[x]
        /\ \A x \in 1..Len(c) : e[n].cells[Len(disk[n].cells) + x] = c[x]
    BY <1>2, WrittenFacts
  <2> HIDE DEF e, w
  <2>1. /\ SameBut(disk, e) /\ e[n].cells \in Seq(Cell) /\ Len(e[n].cells) = 2 * w + 2
        /\ \A x \in 1..(2 * w) : e[n].cells[x] = disk[n].cells[x]
        /\ \A x \in 1..2 : e[n].cells[2 * w + x] = c[x]
    BY <1>1, <1>2, <1>4, <2>0
  <2>2. e[n].cells[2 * w + 1] = c[1] /\ e[n].cells[2 * w + 2] = c[2]
    BY <2>1
  <2>3. Grown(disk, e, f) /\ ~Torn(e[n].cells)
    BY <1>3, <2>1, <2>2
  <2> QED
    BY <2>0, <2>3 DEF e
<1>5. ASSUME Torn(disk[n].cells), disk[n].cells[2 * w + 1] = c[1]
      PROVE  /\ Grown(disk, Written(<<c[2]>>), f) /\ ~Torn(Written(<<c[2]>>)[n].cells)
             /\ Written(<<c[2]>>)[n].synced = disk[n].synced
  <2> DEFINE cs == <<c[2]>>
             e == Written(cs)
  <2>0. cs \in Seq(Cell) /\ Len(cs) = 1 /\ cs[1] = c[2]
    BY <1>2, PairFacts
  <2> HIDE DEF cs
  <2>1. /\ SameBut(disk, e) /\ e[n].cells \in Seq(Cell) /\ e[n].synced = disk[n].synced
        /\ Len(e[n].cells) = (2 * w + 1) + 1
        /\ \A x \in 1..(2 * w + 1) : e[n].cells[x] = disk[n].cells[x]
        /\ \A x \in 1..1 : e[n].cells[(2 * w + 1) + x] = cs[x]
    <3>1. /\ SameBut(disk, e) /\ e[n].cells \in Seq(Cell) /\ e[n].synced = disk[n].synced
          /\ Len(e[n].cells) = Len(disk[n].cells) + Len(cs)
          /\ \A x \in 1..Len(disk[n].cells) : e[n].cells[x] = disk[n].cells[x]
          /\ \A x \in 1..Len(cs) : e[n].cells[Len(disk[n].cells) + x] = cs[x]
      BY <2>0, WrittenFacts
    <3> HIDE DEF e, w
    <3> QED
      BY <1>1, <1>5, <2>0, <3>1
  <2> HIDE DEF e
  <2>2. /\ (2 * w + 1) + 1 = 2 * w + 2 /\ 2 * w + 1 \in 1..(2 * w + 1)
        /\ \A x \in 1..(2 * w) : x \in 1..(2 * w + 1)
    BY <1>1
  <2>3. /\ Len(e[n].cells) = 2 * w + 2
        /\ \A x \in 1..(2 * w) : e[n].cells[x] = disk[n].cells[x]
        /\ e[n].cells[2 * w + 1] = c[1] /\ e[n].cells[2 * w + 2] = c[2]
    <3>1. e[n].cells[(2 * w + 1) + 1] = cs[1]
      BY <2>1
    <3> QED
      BY <1>5, <2>0, <2>1, <2>2, <3>1
  <2>4. Grown(disk, e, f) /\ ~Torn(e[n].cells)
    BY <1>3, <2>1, <2>3
  <2> QED
    BY <2>1, <2>4 DEF e, cs
<1> QED
  BY <1>4, <1>5 DEF c

-----------------------------------------------------------------------------
(***************************************************************************)
(* open.                                                                   *)
(***************************************************************************)
Opened == [i \in DOMAIN disk |-> IF i = Len(disk) THEN Truncated(disk[i])
                                                  ELSE disk[i]]

(* What a truncation keeps of a file. *)
LEMMA TruncatedFacts ==
    ASSUME NEW d \in Seq(File), NEW n \in 1..Len(d), d[n].synced <= Len(d[n].cells)
    PROVE  LET t == Truncated(d[n]) IN
           /\ t \in File /\ t.first = d[n].first /\ t.synced <= Len(t.cells)
           /\ Whole(t.cells) = W(d, n) /\ ~Torn(t.cells)
           /\ \A c \in 1..(2 * W(d, n)) : t.cells[c] = d[n].cells[c]
           /\ d[n].synced \div 2 <= t.synced \div 2
<1> DEFINE cells == d[n].cells
           w == W(d, n)
           kept == SubSeq(cells, 1, 2 * w)
           t == Truncated(d[n])
<1>1. /\ d[n] \in File /\ d[n].first \in Nat /\ cells \in Seq(Cell) /\ w \in Nat
      /\ d[n].synced \in Nat
  BY FileFacts
<1>2. /\ Torn(cells) => Len(cells) = 2 * w + 1
      /\ ~Torn(cells) => Len(cells) = 2 * w
  BY <1>1, WholeFacts DEF W
<1>3. CASE Torn(cells)
  <2>1. t = [first |-> d[n].first, cells |-> kept, synced |-> Len(kept)]
    BY <1>3 DEF Truncated, W
  <2> HIDE DEF w, t
  <2>2. 2 * w \in Nat /\ 2 * w <= Len(cells)
    BY <1>1, <1>2, <1>3
  <2>3. /\ kept \in Seq(Cell) /\ Len(kept) = 2 * w
        /\ \A c \in 1..(2 * w) : kept[c] = cells[c]
    BY <1>1, <2>2
  <2> HIDE DEF kept
  <2>4. Whole(kept) = w /\ ~Torn(kept)
    BY <1>1, <2>3, WholeIs
  <2>5. t.cells = kept /\ t.first = d[n].first /\ t.synced = Len(kept)
    BY <2>1
  <2>6. Len(kept) \in Nat /\ Len(kept) <= Len(kept)
    BY <2>3
  <2>7. t \in File
    BY <1>1, <2>1, <2>3, <2>6 DEF File
  <2>8. Whole(t.cells) = w /\ ~Torn(t.cells) /\ t.synced <= Len(t.cells)
    BY <2>4, <2>5, <2>6
  <2>9. d[n].synced \div 2 <= t.synced \div 2
    <3> DEFINE a == d[n].synced
    <3>1. a <= 2 * w + 1 /\ a \in Nat
      BY <1>1, <1>2, <1>3
    <3> HIDE DEF a
    <3>2. a \div 2 <= (2 * w) \div 2
      BY <1>1, <3>1
    <3> QED
      BY <2>3, <2>5, <3>2 DEF a
  <2> QED
    BY <2>3, <2>5, <2>7, <2>8, <2>9 DEF w, t
<1>4. CASE ~Torn(cells)
  <2>1. t = d[n]
    BY <1>4 DEF Truncated
  <2>2. d[n].synced \div 2 <= d[n].synced \div 2
    BY <1>1
  <2> QED
    BY <1>1, <1>4, <2>1, <2>2 DEF W
<1> QED
  BY <1>3, <1>4

(* Opening the store cuts off the torn tail. *)
LEMMA OpenCuts ==
    ASSUME FilesOK(disk), disk # <<>>
    PROVE  LET n == Len(disk) IN
           /\ Cut(disk, Opened) /\ W(Opened, n) = W(disk, n)
           /\ ~Torn(Opened[n].cells) /\ Opened # <<>> /\ Len(Opened) = n
           /\ disk[n].synced \div 2 <= Opened[n].synced \div 2
<1> DEFINE n == Len(disk)
           t == Truncated(disk[n])
           e == Opened
<1>1. disk \in Seq(File) /\ n \in Nat /\ n \in 1..n /\ DOMAIN disk = 1..n
  BY DEF FilesOK, ShapeOK
<1>2. disk[n].synced <= Len(disk[n].cells)
  BY <1>1 DEF FilesOK, ShapeOK, ClosedOK
<1>3. /\ t \in File /\ t.first = disk[n].first /\ t.synced <= Len(t.cells)
      /\ Whole(t.cells) = W(disk, n) /\ ~Torn(t.cells)
      /\ \A c \in 1..(2 * W(disk, n)) : t.cells[c] = disk[n].cells[c]
      /\ disk[n].synced \div 2 <= t.synced \div 2
  BY <1>1, <1>2, TruncatedFacts
<1> HIDE DEF t
<1>4. /\ \A i \in 1..n : e[i] = IF i = n THEN t ELSE disk[i]
      /\ e = [i \in 1..n |-> e[i]]
  BY <1>1 DEF Opened, t
<1>5. \A i \in 1..n : e[i] \in File
  BY <1>1, <1>3, <1>4
<1> HIDE DEF e
<1>6. e \in Seq(File) /\ Len(e) = n
  BY <1>1, <1>4, <1>5, IsSeq
<1>7. e[n] = t /\ \A i \in 1..(n - 1) : e[i] = disk[i]
  BY <1>1, <1>4
<1>8. SameBut(disk, e)
  BY <1>1, <1>3, <1>6, <1>7 DEF SameBut
<1>9. W(e, n) = W(disk, n)
  BY <1>3, <1>7 DEF W
<1>10. W(disk, n) \in Nat
  BY <1>1, FileFacts
<1>11. Cut(disk, e)
  BY <1>3, <1>7, <1>8, <1>9, <1>10 DEF Cut
<1>12. e # <<>>
  BY <1>1, <1>6
<1> QED
  BY <1>3, <1>6, <1>7, <1>9, <1>11, <1>12 DEF e

(* The scan never finds a gap or a broken link. *)
LEMMA ScanSucceeds ==
    ASSUME FilesOK(disk)
    PROVE  Continuous /\ HeadVerifies
<1>1. disk \in Seq(File) /\ DOMAIN disk = 1..Len(disk)
  BY DEF FilesOK, ShapeOK
<1>2. Continuous
  BY <1>1 DEF FilesOK, ShapeOK, Adjacent, ClosedOK, Continuous, W
<1>3. ASSUME ScannedNext > 0
      PROVE  check_back_link(disk, Scanned, ScannedNext - 1)
  <2>1. End(disk) \in Nat
    BY EndFacts DEF FilesOK
  <2>2. End(disk) - 1 \in 0..(End(disk) - 1)
    BY <1>3, <2>1 DEF ScannedNext
  <2>3. check_back_link(disk, Scanned, End(disk) - 1)
    BY <2>2, ScannedOK, BackLink
  <2> QED
    BY <2>3 DEF ScannedNext
<1> QED
  BY <1>2, <1>3 DEF HeadVerifies

(* Opening keeps the invariant. *)
LEMMA OpenStep ==
    ASSUME StoreInv, open
    PROVE  StoreInv'
<1>1. /\ FilesOK(disk) /\ AckOK(disk, acked) /\ status = "down" /\ appending = "idle"
      /\ handed \in Nat
  BY DEF StoreInv, open
<1>2. /\ status' = "up" /\ disk' = Opened /\ segments' = Scanned
      /\ next_seq' = End(disk) /\ head' = HeadHash(disk, Scanned, End(disk))
      /\ active_len' = (IF disk = <<>> THEN 0 ELSE 2 * Whole(Last(disk).cells))
      /\ hasWriter' = (disk # <<>>) /\ wedged' = FALSE /\ buffer' = <<>>
      /\ appending' = "idle" /\ handed' = handed /\ acked' = acked
  BY <1>1, ScanSucceeds DEF open, Opened, ScannedNext
<1>3. /\ IndexOK(disk, Scanned) /\ Len(Scanned) = Len(disk) /\ Scanned \in Seq(Entry)
      /\ \A i \in 1..Len(disk) : /\ Scanned[i].first = disk[i].first
                                 /\ Len(Scanned[i].offsets) = W(disk, i)
  BY <1>1, ScannedOK DEF IndexOK
<1>4. HeadOK(disk, head')
  BY <1>1, <1>2, <1>3, HeadHashOK
<1>5. disk \in Seq(File) /\ Len(disk) \in Nat
  BY <1>1 DEF FilesOK, ShapeOK
<1>6. /\ FilesOK(disk') /\ AckOK(disk', acked) /\ End(disk') = End(disk)
      /\ HeadOK(disk', head') /\ IndexOK(disk', Scanned)
      /\ disk' = <<>> <=> disk = <<>>
      /\ disk # <<>> => /\ ~Torn(disk'[Len(disk')].cells) /\ Len(disk') = Len(disk)
                        /\ W(disk', Len(disk)) = W(disk, Len(disk))
                        /\ disk'[Len(disk)].first = disk[Len(disk)].first
  <2>1. CASE disk = <<>>
    <3>1. disk' = [i \in {} |-> disk'[i]]
      BY <1>2, <2>1 DEF Opened
    <3>2. disk' = <<>>
      BY <3>1
    <3> QED
      BY <1>1, <1>3, <1>4, <2>1, <3>2
  <2>2. CASE disk # <<>>
    <3>1. /\ Cut(disk, disk') /\ W(disk', Len(disk)) = W(disk, Len(disk))
          /\ ~Torn(disk'[Len(disk)].cells) /\ disk' # <<>> /\ Len(disk') = Len(disk)
      BY <1>1, <1>2, <2>2, OpenCuts
    <3>2. FilesOK(disk')
      BY <1>1, <3>1, CutOK
    <3>3. /\ End(disk') = End(disk) /\ HeadOK(disk', head')
          /\ IndexOK(disk', Scanned) /\ AckOK(disk', acked)
      BY <1>1, <1>3, <1>4, <3>1, CutKeeps
    <3>4. disk'[Len(disk)].first = disk[Len(disk)].first
      BY <3>1 DEF Cut, SameBut
    <3> QED
      BY <2>2, <3>1, <3>2, <3>3, <3>4
  <2> QED
    BY <2>1, <2>2
<1>7. ActiveOK'
  <2>1. disk = <<>> <=> Scanned = <<>>
    BY <1>3, <1>5
  <2>2. CASE disk = <<>>
    BY <1>2, <1>6, <2>1, <2>2 DEF ActiveOK
  <2>3. CASE disk # <<>>
    <3>1. Len(disk) \in 1..Len(disk) /\ Len(segments') = Len(disk) /\ Len(disk') = Len(disk)
      BY <1>2, <1>3, <1>5, <1>6, <2>3
    <3>2. /\ segments'[Len(segments')].first = disk'[Len(disk')].first
          /\ Len(segments'[Len(segments')].offsets) = W(disk', Len(disk'))
      BY <1>2, <1>3, <1>6, <2>3, <3>1
    <3>3. active_len' = 2 * W(disk', Len(disk'))
      BY <1>2, <1>6, <2>3 DEF Last, W
    <3>4. disk' # <<>> /\ segments' # <<>> /\ hasWriter'
      BY <1>2, <1>6, <2>1, <2>3
    <3> QED
      BY <3>2, <3>3, <3>4 DEF ActiveOK
  <2> QED
    BY <2>2, <2>3
<1>8. WedgeOK'
  BY <1>2, <1>6 DEF WedgeOK, TornTail
<1>9. StepOK'
  BY <1>2 DEF StepOK
<1>10. UpOK'
  BY <1>2, <1>6, <1>7, <1>8, <1>9 DEF UpOK
<1> QED
  BY <1>1, <1>2, <1>6, <1>10 DEF StoreInv

-----------------------------------------------------------------------------
(***************************************************************************)
(* append up to the write.                                                 *)
(***************************************************************************)
LEMMA AppendStep ==
    ASSUME StoreInv, append
    PROVE  StoreInv'
<1>1. /\ status = "up" /\ appending = "idle" /\ handed' = handed + 1 /\ handed \in Nat
      /\ UpOK /\ UNCHANGED <<disk, status, memory, acked>>
  BY DEF StoreInv, append
<1>2. UNCHANGED <<segments, next_seq, head, active_len, wedged, hasWriter, buffer>>
  BY <1>1 DEF memory
<1>3. StepOK'
  <2>1. appending' = IF wedged THEN "idle" ELSE IF ~NeedNew THEN "write"
                ELSE IF hasWriter THEN "sync" ELSE "create"
    BY DEF append
  <2>2. disk = <<>> => NeedNew /\ ~hasWriter
    BY <1>1 DEF UpOK, ActiveOK, NeedNew
  <2>3. disk # <<>> => hasWriter
    BY <1>1 DEF UpOK, ActiveOK
  <2>4. appending' \in {"sync", "write"} => disk # <<>>
    BY <2>1, <2>2
  <2>5. appending' = "create" => disk = <<>>
    BY <2>1, <2>3
  <2>6. appending' \in {"idle", "sync", "create", "write"}
    BY <2>1
  <2> QED
    BY <1>1, <2>4, <2>5, <2>6 DEF StepOK
<1>4. WedgeOK'
  <2>1. wedged => appending' = "idle"
    BY DEF append
  <2>2. WedgeOK /\ \A n \in 0..handed : n \in 0..handed'
    BY <1>1 DEF UpOK
  <2>3. CASE wedged
    <3>1. wedged' /\ appending' = "idle" /\ disk' # <<>>
      BY <1>1, <1>2, <2>1, <2>2, <2>3 DEF WedgeOK
    <3> QED
      BY <1>1, <1>2, <2>2, <2>3, <3>1 DEF WedgeOK, TornTail
  <2>4. CASE ~wedged
    BY <1>1, <1>2, <2>2, <2>4 DEF WedgeOK, TornTail
  <2> QED
    BY <2>3, <2>4
<1>5. /\ next_seq' = End(disk') /\ HeadOK(disk', head') /\ IndexOK(disk', segments')
      /\ ActiveOK'
  <2>1. next_seq' = End(disk') /\ HeadOK(disk', head') /\ IndexOK(disk', segments')
    BY <1>1, <1>2 DEF UpOK
  <2>2. ActiveOK'
    BY <1>1, <1>2 DEF UpOK, ActiveOK
  <2> QED
    BY <2>1, <2>2
<1>6. UpOK'
  BY <1>3, <1>4, <1>5 DEF UpOK
<1>7. FilesOK(disk') /\ AckOK(disk', acked') /\ wedged' \in BOOLEAN /\ hasWriter' \in BOOLEAN
  BY <1>1, <1>2 DEF StoreInv
<1> QED
  BY <1>1, <1>6, <1>7 DEF StoreInv

(* Every error before the write leaves the stream as it was. *)
LEMMA FailedStep ==
    ASSUME StoreInv, appending # "idle", Failed, UNCHANGED <<status, handed, acked>>
    PROVE  StoreInv'
<1>1. /\ status = "up" /\ appending' = "idle" /\ UpOK
      /\ UNCHANGED <<disk, memory, status, handed, acked>>
  BY DEF StoreInv, Failed
<1>2. UNCHANGED <<segments, next_seq, head, active_len, wedged, hasWriter, buffer>>
  BY <1>1 DEF memory
<1>3. StepOK'
  BY <1>1 DEF StepOK
<1>4. WedgeOK'
  <2>1. ~wedged
    BY <1>1 DEF UpOK, WedgeOK
  <2> QED
    BY <1>1, <1>2, <2>1 DEF UpOK, WedgeOK, TornTail
<1>5. next_seq' = End(disk') /\ HeadOK(disk', head') /\ IndexOK(disk', segments')
  BY <1>1, <1>2 DEF UpOK
<1>6. ActiveOK'
  BY <1>1, <1>2 DEF UpOK, ActiveOK
<1>7. UpOK'
  BY <1>3, <1>4, <1>5, <1>6 DEF UpOK
<1>8. /\ FilesOK(disk') /\ AckOK(disk', acked') /\ wedged' \in BOOLEAN
      /\ hasWriter' \in BOOLEAN /\ handed' \in Nat
  BY <1>1, <1>2 DEF StoreInv
<1> QED
  BY <1>1, <1>7, <1>8 DEF StoreInv

(* Syncing the active file changes no cell. *)
LEMMA SyncCuts ==
    ASSUME FilesOK(disk), disk # <<>>
    PROVE  LET n == Len(disk)
               e == [disk EXCEPT ![n].synced = Len(disk[n].cells)]
           IN  /\ Cut(disk, e) /\ e[n].cells = disk[n].cells /\ e # <<>> /\ Len(e) = n
               /\ e[n].synced = Len(e[n].cells) /\ e[n].first = disk[n].first
<1> DEFINE n == Len(disk)
           y == [disk[n] EXCEPT !.synced = Len(disk[n].cells)]
           e == [disk EXCEPT ![n] = y]
<1>1. disk \in Seq(File) /\ n \in Nat /\ n \in 1..n
  BY DEF FilesOK, ShapeOK
<1>2. /\ disk[n] \in File /\ disk[n].cells \in Seq(Cell) /\ Len(disk[n].cells) \in Nat
      /\ W(disk, n) \in Nat
  BY <1>1, FileFacts
<1>3. /\ y \in File /\ y.first = disk[n].first /\ y.cells = disk[n].cells
      /\ y.synced = Len(disk[n].cells)
  BY <1>2 DEF File
<1>4. e = [disk EXCEPT ![n].synced = Len(disk[n].cells)]
  OBVIOUS
<1> HIDE DEF y
<1>5. /\ e \in Seq(File) /\ Len(e) = n /\ e[n] = y
      /\ \A i \in 1..n : i # n => e[i] = disk[i]
  BY <1>1, <1>3, ReplaceFacts
<1> HIDE DEF e
<1>6. \A i \in 1..(n - 1) : e[i] = disk[i]
  BY <1>1, <1>5
<1>7. SameBut(disk, e)
  <2>1. Len(e) = Len(disk) /\ Len(disk) > 0
    BY <1>1, <1>5
  <2>2. e[n].first = disk[n].first /\ e[n].synced <= Len(e[n].cells)
    BY <1>2, <1>3, <1>5
  <2> QED
    BY <1>5, <1>6, <2>1, <2>2 DEF SameBut
<1>8. Cut(disk, e)
  <2>1. W(e, n) = W(disk, n) /\ e[n].cells = disk[n].cells
    BY <1>3, <1>5 DEF W
  <2> QED
    BY <1>2, <1>7, <2>1 DEF Cut
<1>9. e # <<>>
  BY <1>1, <1>5
<1> QED
  BY <1>3, <1>4, <1>5, <1>8, <1>9

(* A sync keeps the invariant. *)
LEMMA SyncStep ==
    ASSUME StoreInv, Sync
    PROVE  StoreInv'
<1>1. appending = "sync" /\ UNCHANGED <<status, handed, acked>>
  BY DEF Sync
<1>2. status = "up" /\ UpOK /\ FilesOK(disk) /\ AckOK(disk, acked) /\ disk # <<>>
  BY <1>1 DEF StoreInv, UpOK, StepOK
<1>3. CASE Failed
  BY <1>1, <1>3, FailedStep
<1>4. CASE /\ disk' = [disk EXCEPT ![Active].synced = Len(disk[Active].cells)]
           /\ appending' = "create" /\ UNCHANGED memory
  <2> DEFINE n == Len(disk)
  <2>1. UNCHANGED <<segments, next_seq, head, active_len, wedged, hasWriter, buffer>>
    BY <1>4 DEF memory
  <2>2. /\ Cut(disk, disk') /\ disk'[n].cells = disk[n].cells /\ disk' # <<>>
        /\ Len(disk') = n
        /\ disk'[n].synced = Len(disk'[n].cells) /\ disk'[n].first = disk[n].first
    BY <1>2, <1>4, SyncCuts DEF Active
  <2>3. W(disk', n) = W(disk, n)
    BY <2>2 DEF W
  <2>4. FilesOK(disk')
    BY <1>2, <2>2, CutOK
  <2>5. /\ End(disk') = End(disk) /\ HeadOK(disk', head)
        /\ IndexOK(disk', segments) /\ AckOK(disk', acked)
    BY <1>2, <2>2, <2>3, CutKeeps DEF UpOK
  <2>6. ActiveOK'
    BY <1>2, <2>1, <2>2, <2>3 DEF UpOK, ActiveOK
  <2>7. WedgeOK'
    <3>1. ~wedged /\ buffer = <<>> /\ ~Torn(disk[n].cells)
      BY <1>1, <1>2 DEF UpOK, WedgeOK, TornTail
    <3> QED
      BY <2>1, <2>2, <3>1 DEF WedgeOK, TornTail
  <2>8. StepOK'
    BY <1>4, <2>2 DEF StepOK
  <2>9. UpOK'
    BY <1>2, <2>1, <2>5, <2>6, <2>7, <2>8 DEF UpOK
  <2>10. /\ handed' \in Nat /\ wedged' \in BOOLEAN /\ hasWriter' \in BOOLEAN
    BY <1>1, <2>1 DEF StoreInv
  <2> QED
    BY <1>1, <1>2, <2>4, <2>5, <2>9, <2>10 DEF StoreInv
<1> QED
  BY <1>3, <1>4 DEF Sync

(* The name of the next file is taken only by a last file that is empty. *)
LEMMA NameTaken ==
    ASSUME NEW d, ShapeOK(d), NEW i \in 1..Len(d), d[i].first = End(d)
    PROVE  i = Len(d) /\ W(d, Len(d)) = 0 /\ d # <<>>
<1>1. d \in Seq(File) /\ d # <<>> /\ Len(d) \in 1..Len(d) /\ Len(d) \in Nat
  BY DEF ShapeOK
<1>2. /\ End(d) = d[Len(d)].first + W(d, Len(d))
      /\ d[Len(d)].first \in Nat /\ W(d, Len(d)) \in Nat
      /\ d[i].first \in Nat /\ W(d, i) \in Nat
  BY <1>1, EndFacts, FileFacts
<1>3. i = Len(d)
  <2> SUFFICES ASSUME i < Len(d) PROVE FALSE
    BY <1>1
  <2>1. W(d, i) > 0 /\ d[i].first + W(d, i) <= d[Len(d)].first
    BY <1>1 DEF ShapeOK, ClosedOK, Adjacent
  <2> QED
    BY <1>2, <2>1
<1> QED
  BY <1>1, <1>2, <1>3

(* A new file keeps the invariant. *)
LEMMA CreateStep ==
    ASSUME StoreInv, Create
    PROVE  StoreInv'
<1>1. appending = "create" /\ UNCHANGED <<status, handed, acked>>
  BY DEF Create
<1>2. status = "up" /\ UpOK /\ FilesOK(disk) /\ AckOK(disk, acked)
  BY <1>1 DEF StoreInv
<1>3. /\ next_seq = End(disk) /\ HeadOK(disk, head) /\ IndexOK(disk, segments)
      /\ ~wedged /\ buffer = <<>> /\ (disk # <<>> => ~Torn(disk[Len(disk)].cells))
      /\ disk # <<>> => disk[Len(disk)].synced = Len(disk[Len(disk)].cells)
  BY <1>1, <1>2 DEF UpOK, WedgeOK, StepOK, TornTail
<1>4. CASE Failed
  BY <1>1, <1>4, FailedStep
<1> DEFINE entry == [first |-> End(disk), offsets |-> <<>>]
           taken == \E i \in DOMAIN disk : disk[i].first = next_seq
           last == Len(disk')
<1>5. ASSUME disk' = (IF taken THEN disk ELSE Append(disk, NewFile(disk))),
             segments' = Append(segments, entry), active_len' = 0, hasWriter' = TRUE,
             appending' = "write", UNCHANGED <<next_seq, head, wedged, buffer>>
      PROVE  StoreInv'
  <2>1. /\ disk \in Seq(File) /\ ShapeOK(disk) /\ DOMAIN disk = 1..Len(disk)
        /\ Len(disk) \in Nat /\ End(disk) \in Nat
    BY <1>2, EndFacts DEF FilesOK, ShapeOK
  (* Either way there is an active file, empty and named by the end. *)
  <2>2. /\ FilesOK(disk') /\ AckOK(disk', acked) /\ HeadOK(disk', head)
        /\ End(disk') = End(disk) /\ last \in Nat /\ last \in 1..last
        /\ \A i \in 1..Len(disk) : i \in 1..last /\ disk'[i] = disk[i]
        /\ disk' # <<>> /\ disk'[last].first = End(disk) /\ W(disk', last) = 0
        /\ ~Torn(disk'[last].cells)
    <3>1. CASE taken
      <4>1. PICK i \in 1..Len(disk) : disk[i].first = End(disk)
        BY <1>3, <2>1, <3>1
      <4>2. i = Len(disk) /\ W(disk, Len(disk)) = 0 /\ disk # <<>>
        BY <2>1, <4>1, NameTaken
      <4>3. disk' = disk
        BY <1>5, <3>1
      <4>4. Len(disk) \in 1..Len(disk)
        BY <2>1, <4>2
      <4>5. disk[Len(disk)].first = End(disk)
        BY <4>1, <4>2
      <4> QED
        BY <1>2, <1>3, <2>1, <4>2, <4>3, <4>4, <4>5
    <3>2. CASE ~taken
      <4>1. disk # <<>> => W(disk, Len(disk)) > 0
        <5> SUFFICES ASSUME disk # <<>>, ~(W(disk, Len(disk)) > 0) PROVE FALSE
          OBVIOUS
        <5>1. Len(disk) \in 1..Len(disk) /\ End(disk) = disk[Len(disk)].first + W(disk, Len(disk))
          BY <2>1, EndFacts
        <5>2. disk[Len(disk)].first \in Nat /\ W(disk, Len(disk)) \in Nat
          BY <2>1, <5>1, FileFacts
        <5>3. disk[Len(disk)].first = End(disk)
          BY <5>1, <5>2
        <5> QED
          BY <1>3, <2>1, <3>2, <5>1, <5>3
      <4> DEFINE e == Append(disk, NewFile(disk))
      <4>2. /\ FilesOK(e) /\ End(e) = End(disk) /\ Len(e) = Len(disk) + 1
            /\ \A i \in 1..Len(disk) : e[i] = disk[i]
            /\ e[Len(disk) + 1] = NewFile(disk) /\ W(e, Len(disk) + 1) = 0
            /\ ~Torn(e[Len(disk) + 1].cells)
            /\ HeadOK(e, head) /\ AckOK(e, acked)
        BY <1>2, <1>3, <4>1, NewFileOK
      <4>3. disk' = e
        BY <1>5, <3>2
      <4> HIDE DEF e
      <4>4. last = Len(disk) + 1 /\ last \in Nat /\ last \in 1..last
        BY <2>1, <4>2, <4>3
      <4>5. \A i \in 1..Len(disk) : i \in 1..last
        BY <2>1, <4>4
      <4>6. disk' # <<>>
        BY <4>4
      <4>7. disk'[last].first = End(disk)
        BY <4>2, <4>3, <4>4 DEF NewFile
      <4>8. W(disk', last) = 0 /\ ~Torn(disk'[last].cells)
        BY <4>2, <4>3, <4>4
      <4> QED
        BY <4>2, <4>3, <4>4, <4>5, <4>6, <4>7, <4>8
    <3> QED
      BY <3>1, <3>2
  <2>3. /\ IndexOK(disk', segments') /\ segments' # <<>>
        /\ segments'[Len(segments')] = entry
    <3>1. W(disk', last) \in Nat
      BY <2>2
    <3> HIDE DEF last
    <3>2. LET new == Append(segments, [first |-> End(disk), offsets |-> <<>>])
          IN  /\ IndexOK(disk', new) /\ new # <<>>
              /\ new[Len(new)] = [first |-> End(disk), offsets |-> <<>>]
      BY <1>3, <2>1, <2>2, <3>1, IndexNew DEF last
    <3> QED
      BY <1>5, <3>2
  <2>4. ActiveOK'
    <3>1. /\ segments'[Len(segments')].first = disk'[last].first
          /\ Len(segments'[Len(segments')].offsets) = W(disk', last)
      BY <2>2, <2>3
    <3>2. active_len' = 2 * W(disk', last)
      BY <1>5, <2>2
    <3> QED
      BY <1>5, <2>2, <2>3, <3>1, <3>2 DEF ActiveOK
  <2>5. WedgeOK'
    BY <1>3, <1>5, <2>2 DEF WedgeOK, TornTail
  <2>6. StepOK'
    BY <1>5, <2>2 DEF StepOK
  <2>7. UpOK'
    BY <1>3, <1>5, <2>2, <2>3, <2>4, <2>5, <2>6 DEF UpOK
  <2>8. handed' \in Nat /\ wedged' \in BOOLEAN /\ hasWriter' \in BOOLEAN
    BY <1>1, <1>5 DEF StoreInv
  <2> QED
    BY <1>1, <1>2, <2>2, <2>7, <2>8 DEF StoreInv
<1>6. CASE ~Failed
  <2>1. /\ disk' = (IF taken THEN disk ELSE Append(disk, NewFile(disk)))
        /\ segments' = Append(segments, entry) /\ active_len' = 0 /\ hasWriter' = TRUE
        /\ appending' = "write" /\ UNCHANGED <<next_seq, head, wedged, buffer>>
    BY <1>3, <1>6 DEF Create, NewFile
  <2> QED
    BY <1>5, <2>1
<1> QED
  BY <1>4, <1>6

-----------------------------------------------------------------------------
(***************************************************************************)
(* The write.                                                              *)
(***************************************************************************)
LEMMA NextFrame ==
    ASSUME FilesOK(disk), UpOK, NEW n \in Nat
    PROVE  LET f == encode_frame(n, next_seq, head) IN
           /\ f \in StoredFrame /\ f.seq = End(disk) /\ f.record = n
           /\ HeadOK(disk, f.prev)
<1>1. next_seq = End(disk) /\ HeadOK(disk, head) /\ head \in Seq(Nat) /\ End(disk) \in Nat
  BY EndFacts DEF FilesOK, UpOK, HeadOK
<1> QED
  BY <1>1 DEF encode_frame, StoredFrame

(* At the write the active file ends with a whole frame. *)
LEMMA AtWrite ==
    ASSUME StoreInv, appending = "write"
    PROVE  /\ status = "up" /\ UpOK /\ FilesOK(disk) /\ AckOK(disk, acked)
           /\ disk # <<>> /\ handed \in Nat /\ ~wedged /\ buffer = <<>>
           /\ ~Torn(disk[Len(disk)].cells)
           /\ Frame \in StoredFrame /\ Frame.seq = End(disk) /\ Frame.record = handed
           /\ HeadOK(disk, Frame.prev)
<1>1. status = "up" /\ UpOK /\ FilesOK(disk) /\ AckOK(disk, acked) /\ handed \in Nat
  BY DEF StoreInv
<1>2. disk # <<>> /\ ~wedged /\ buffer = <<>> /\ ~Torn(disk[Len(disk)].cells)
  BY <1>1 DEF UpOK, StepOK, WedgeOK, TornTail
<1> QED
  BY <1>1, <1>2, NextFrame DEF Frame

(* A write keeps the invariant. *)
LEMMA WriteStep ==
    ASSUME StoreInv, WriteFrame
    PROVE  StoreInv'
<1> DEFINE n == Len(disk)
           w == W(disk, n)
<1>1. /\ appending = "write" /\ appending' = "idle" /\ disk' = Written(CellsOf(Frame))
      /\ segments' = [segments EXCEPT ![Len(segments)].offsets = Append(@, active_len)]
      /\ active_len' = active_len + 2 /\ next_seq' = next_seq + 1
      /\ head' = hash_frame(Frame)
      /\ acked' = acked \union {[seq |-> next_seq, record |-> handed]}
      /\ UNCHANGED <<status, wedged, hasWriter, buffer, handed>>
  BY DEF WriteFrame
<1>2. /\ status = "up" /\ UpOK /\ FilesOK(disk) /\ AckOK(disk, acked)
      /\ disk # <<>> /\ handed \in Nat /\ ~wedged /\ buffer = <<>>
      /\ ~Torn(disk[n].cells)
      /\ Frame \in StoredFrame /\ Frame.seq = End(disk) /\ Frame.record = handed
      /\ HeadOK(disk, Frame.prev)
  BY <1>1, AtWrite
<1>3. Grown(disk, disk', Frame) /\ ~Torn(disk'[n].cells)
  BY <1>1, <1>2, WrittenFrame
<1>4. /\ FilesOK(disk') /\ End(disk') = End(disk) + 1 /\ HeadOK(disk', head')
      /\ AckOK(disk', acked \union {[seq |-> End(disk), record |-> handed]})
  BY <1>1, <1>2, <1>3, GrownOK
<1>5. /\ disk \in Seq(File) /\ n \in 1..n /\ w \in Nat /\ disk' # <<>>
      /\ Len(disk') = n /\ W(disk', n) = w + 1 /\ disk'[n].first = disk[n].first
  <2>1. disk \in Seq(File) /\ n \in 1..n /\ n \in Nat
    BY <1>2 DEF FilesOK, ShapeOK
  <2>2. /\ disk' \in Seq(File) /\ Len(disk') = n /\ W(disk', n) = w + 1
        /\ disk'[n].first = disk[n].first
    BY <1>3 DEF Grown, SameBut
  <2>3. disk' # <<>>
    BY <2>1, <2>2
  <2>4. w \in Nat
    BY <2>1, FileFacts
  <2> QED
    BY <2>1, <2>2, <2>3, <2>4
<1> HIDE DEF w
<1>6. /\ segments # <<>> /\ segments \in Seq(Entry) /\ IndexOK(disk, segments)
      /\ segments[Len(segments)].first = disk[n].first
      /\ Len(segments[Len(segments)].offsets) = W(disk, n)
      /\ active_len = 2 * W(disk, n) /\ hasWriter /\ next_seq = End(disk)
  BY <1>2 DEF UpOK, ActiveOK, IndexOK
<1>7. OneMore(segments, segments', 2 * W(disk, n))
  <2>1. 2 * W(disk, n) \in Nat
    BY <1>5 DEF w
  <2> QED
    BY <1>1, <1>6, <2>1, OffsetsGrow
<1>8. /\ IndexOK(disk', segments') /\ segments' # <<>>
      /\ segments'[Len(segments')].first = disk[n].first
      /\ Len(segments'[Len(segments')].offsets) = W(disk, n) + 1
  BY <1>2, <1>3, <1>4, <1>6, <1>7, IndexGrows
<1>9. ActiveOK'
  <2>1. active_len' = 2 * W(disk', Len(disk'))
    <3>1. 2 * w + 2 = 2 * (w + 1)
      BY <1>5
    <3> QED
      BY <1>1, <1>5, <1>6, <3>1 DEF w
  <2>2. /\ segments'[Len(segments')].first = disk'[Len(disk')].first
        /\ Len(segments'[Len(segments')].offsets) = W(disk', Len(disk'))
    BY <1>5, <1>8 DEF w
  <2>3. hasWriter'
    BY <1>1, <1>6
  <2> QED
    BY <1>5, <1>8, <2>1, <2>2, <2>3 DEF ActiveOK
<1>10. WedgeOK'
  BY <1>1, <1>2, <1>3, <1>5 DEF WedgeOK, TornTail
<1>11. StepOK'
  BY <1>1 DEF StepOK
<1>12. next_seq' = End(disk') /\ AckOK(disk', acked')
  BY <1>1, <1>4, <1>6
<1>13. UpOK'
  BY <1>4, <1>8, <1>9, <1>10, <1>11, <1>12 DEF UpOK
<1>14. /\ status' = "up" /\ handed' \in Nat /\ wedged' \in BOOLEAN
       /\ hasWriter' \in BOOLEAN
  BY <1>1, <1>2 DEF StoreInv
<1> QED
  BY <1>4, <1>12, <1>13, <1>14 DEF StoreInv

(* A failed write leaves nothing or half of the frame, and no number moves. *)
LEMMA WriteFailsStep ==
    ASSUME StoreInv, WriteFails
    PROVE  StoreInv'
<1> DEFINE n == Len(disk)
           c == CellsOf(Frame)
<1>1. /\ appending = "write" /\ appending' = "idle" /\ wedged' = TRUE
      /\ UNCHANGED <<status, segments, next_seq, head, active_len, hasWriter,
                     handed, acked>>
  BY DEF WriteFails
<1>2. PICK k \in {0, 1} : /\ disk' = Written(SubSeq(c, 1, k))
                          /\ buffer' = SubSeq(c, k + 1, 2)
  BY DEF WriteFails
<1>3. /\ status = "up" /\ UpOK /\ FilesOK(disk) /\ AckOK(disk, acked)
      /\ disk # <<>> /\ handed \in Nat /\ ~Torn(disk[n].cells)
      /\ Frame \in StoredFrame
  BY <1>1, AtWrite
<1>4. /\ c \in Seq(Cell) /\ Len(c) = 2
  BY <1>3, PartsOf
<1>5. /\ SubSeq(c, 1, 0) = <<>> /\ SubSeq(c, 1, 1) = <<c[1]>>
      /\ SubSeq(c, 1, 2) = c /\ SubSeq(c, 2, 2) = <<c[2]>>
  BY <1>4, SubPair
<1>6. /\ FilesOK(disk') /\ AckOK(disk', acked) /\ HeadOK(disk', head)
      /\ End(disk') = End(disk) /\ IndexOK(disk', segments)
      /\ Len(disk') = n /\ W(disk', n) = W(disk, n) /\ disk' # <<>>
      /\ disk'[n].first = disk[n].first
      /\ \/ ~Torn(disk'[n].cells) /\ buffer' = c
         \/ /\ Torn(disk'[n].cells) /\ buffer' = <<c[2]>>
            /\ disk'[n].cells[2 * W(disk', n) + 1] = c[1]
  <2>1. CASE k = 0
    <3>1. disk' = disk /\ buffer' = c
      <4>1. disk' = Written(SubSeq(c, 1, 0)) /\ buffer' = SubSeq(c, 1, 2)
        BY <1>2, <2>1
      <4> QED
        BY <1>3, <1>5, <4>1, WrittenNone
    <3> QED
      BY <1>3, <3>1 DEF UpOK
  <2>2. CASE k = 1
    <3>1. /\ disk' = Written(<<c[1]>>) /\ buffer' = <<c[2]>>
      <4>1. disk' = Written(SubSeq(c, 1, 1)) /\ buffer' = SubSeq(c, 2, 2)
        BY <1>2, <2>2
      <4> QED
        BY <1>5, <4>1
    <3>2. /\ Cut(disk, disk') /\ W(disk', n) = W(disk, n) /\ Torn(disk'[n].cells)
          /\ disk'[n].cells[2 * W(disk, n) + 1] = c[1]
      BY <1>3, <3>1, WrittenHalf
    <3>3. FilesOK(disk')
      BY <1>3, <3>2, CutOK
    <3>4. /\ End(disk') = End(disk) /\ HeadOK(disk', head)
          /\ IndexOK(disk', segments) /\ AckOK(disk', acked)
      BY <1>3, <3>2, CutKeeps DEF UpOK
    <3>5. Len(disk') = n /\ n > 0 /\ disk'[n].first = disk[n].first
      BY <3>2 DEF Cut, SameBut
    <3>6. disk' # <<>>
      BY <3>5
    <3> QED
      BY <3>1, <3>2, <3>3, <3>4, <3>5, <3>6
  <2> QED
    BY <2>1, <2>2
<1>7. ActiveOK'
  BY <1>1, <1>3, <1>6 DEF UpOK, ActiveOK
<1>8. WedgeOK'
  <2>1. /\ c = CellsOf(encode_frame(handed', next_seq', head')) /\ handed' \in 0..handed'
    BY <1>1, <1>3 DEF Frame
  <2> HIDE DEF c
  <2> QED
    BY <1>1, <1>6, <2>1 DEF WedgeOK, TornTail
<1>9. StepOK'
  BY <1>1 DEF StepOK
<1>10. UpOK'
  BY <1>1, <1>3, <1>6, <1>7, <1>8, <1>9 DEF UpOK
<1>11. hasWriter' \in BOOLEAN
  BY <1>1 DEF StoreInv
<1> QED
  BY <1>1, <1>3, <1>6, <1>10, <1>11 DEF StoreInv

-----------------------------------------------------------------------------
(***************************************************************************)
(* The store goes down.                                                    *)
(***************************************************************************)
LEMMA DownStep ==
    ASSUME StoreInv, GoDown, FilesOK(disk'), AckOK(disk', acked')
    PROVE  StoreInv'
<1>1. /\ status' = "down" /\ appending' = "idle" /\ wedged' = FALSE /\ hasWriter' = FALSE
      /\ handed' = handed /\ handed \in Nat
  BY DEF StoreInv, GoDown
<1> QED
  BY <1>1 DEF StoreInv

(* Any part of the next frame may reach an active file without a torn end. *)
LEMMA PartWritten ==
    ASSUME FilesOK(disk), disk # <<>>, ~Torn(disk[Len(disk)].cells), AckOK(disk, acked),
           NEW f \in StoredFrame, f.seq = End(disk), HeadOK(disk, f.prev),
           NEW k \in 0..2, NEW e, e = Written(SubSeq(CellsOf(f), 1, k))
    PROVE  FilesOK(e) /\ AckOK(e, acked)
<1> DEFINE c == CellsOf(f)
<1>1. c \in Seq(Cell) /\ Len(c) = 2
  BY PartsOf
<1>2. /\ SubSeq(c, 1, 0) = <<>> /\ SubSeq(c, 1, 1) = <<c[1]>> /\ SubSeq(c, 1, 2) = c
  BY <1>1, SubPair
<1>3. CASE k = 0
  BY <1>2, <1>3, WrittenNone
<1>4. CASE k = 1
  <2>1. e = Written(<<c[1]>>)
    BY <1>2, <1>4
  <2>2. Cut(disk, e) /\ W(e, Len(disk)) = W(disk, Len(disk))
    BY <2>1, WrittenHalf
  <2> QED
    BY <2>2, CutOK, CutKeeps
<1>5. CASE k = 2
  <2>1. e = Written(c)
    BY <1>2, <1>5
  <2>2. Grown(disk, e, f)
    BY <2>1, WrittenFrame
  <2> QED
    BY <2>2, GrownOK
<1> QED
  BY <1>3, <1>4, <1>5

(* A kill keeps the invariant. *)
LEMMA KillStep ==
    ASSUME StoreInv, Kill
    PROVE  StoreInv'
<1>1. status = "up" /\ GoDown /\ acked' = acked /\ FilesOK(disk) /\ AckOK(disk, acked)
  BY DEF StoreInv, Kill
<1>2. PICK k \in (IF appending = "write" THEN 0..2 ELSE {0}) :
         disk' = IF k = 0 THEN disk ELSE Written(SubSeq(CellsOf(Frame), 1, k))
  BY DEF Kill
<1>3. CASE k = 0
  BY <1>1, <1>2, <1>3, DownStep
<1>4. CASE k # 0
  <2>1. appending = "write" /\ k \in 0..2 /\ disk' = Written(SubSeq(CellsOf(Frame), 1, k))
    BY <1>2, <1>4
  <2>2. /\ disk # <<>> /\ ~Torn(disk[Len(disk)].cells) /\ Frame \in StoredFrame
        /\ Frame.seq = End(disk) /\ HeadOK(disk, Frame.prev)
    BY <2>1, AtWrite
  <2>3. FilesOK(disk') /\ AckOK(disk', acked)
    BY <1>1, <2>1, <2>2, PartWritten
  <2> QED
    BY <1>1, <2>3, DownStep
<1> QED
  BY <1>3, <1>4

(* The BufWriter may hold a frame, its second half, or nothing. *)
LEMMA DropStep ==
    ASSUME StoreInv, DropStore
    PROVE  StoreInv'
<1>1. /\ status = "up" /\ GoDown /\ acked' = acked /\ FilesOK(disk)
      /\ AckOK(disk, acked) /\ UpOK /\ handed \in Nat
  BY DEF StoreInv, DropStore
<1>2. PICK k \in 0..Len(buffer) :
         disk' = IF disk = <<>> THEN disk ELSE Written(SubSeq(buffer, 1, k))
  BY DEF DropStore
<1>3. CASE disk = <<>>
  BY <1>1, <1>2, <1>3, DownStep
<1>4. CASE disk # <<>> /\ ~wedged
  <2>1. buffer = <<>>
    BY <1>1, <1>4 DEF UpOK, WedgeOK
  <2>2. SubSeq(buffer, 1, k) = <<>>
    <3>1. k = 0
      BY <1>2, <2>1
    <3> QED
      BY <2>1, <3>1
  <2>3. disk' = disk
    BY <1>1, <1>2, <1>4, <2>2, WrittenNone
  <2> QED
    BY <1>1, <2>3, DownStep
<1>5. CASE disk # <<>> /\ wedged
  <2> DEFINE F(n) == encode_frame(n, next_seq, head)
  <2>1. PICK n \in 0..handed :
           \/ ~TornTail /\ buffer = CellsOf(F(n))
           \/ /\ TornTail /\ buffer = <<CellsOf(F(n))[2]>>
              /\ disk[Len(disk)].cells[2 * W(disk, Len(disk)) + 1] = CellsOf(F(n))[1]
    BY <1>1, <1>5 DEF UpOK, WedgeOK
  <2> DEFINE f == F(n)
             c == CellsOf(f)
  <2>2. f \in StoredFrame /\ f.seq = End(disk) /\ HeadOK(disk, f.prev)
    <3>1. n \in Nat
      BY <1>1, <2>1
    <3> QED
      BY <1>1, <3>1, NextFrame
  <2>3. c \in Seq(Cell) /\ Len(c) = 2 /\ c[2] \in Cell
    BY <2>2, PartsOf
  <2>4. CASE ~TornTail
    <3>1. buffer = c
      BY <2>1, <2>4
    <3>2. k \in 0..2 /\ disk' = Written(SubSeq(c, 1, k))
      BY <1>2, <1>5, <2>3, <3>1
    <3>3. FilesOK(disk') /\ AckOK(disk', acked)
      BY <1>1, <1>5, <2>2, <2>4, <3>2, PartWritten DEF TornTail
    <3> QED
      BY <1>1, <3>3, DownStep
  <2>5. CASE TornTail
    <3>1. /\ buffer = <<c[2]>>
          /\ disk[Len(disk)].cells[2 * W(disk, Len(disk)) + 1] = c[1]
      BY <2>1, <2>5
    <3> HIDE DEF c
    <3>2. buffer \in Seq(Cell) /\ Len(buffer) = 1
      BY <2>3, <3>1, PairFacts
    <3>3. k \in 0..1
      BY <1>2, <3>2
    <3>4. SubSeq(buffer, 1, 0) = <<>> /\ SubSeq(buffer, 1, 1) = buffer
      BY <3>2
    <3>5. CASE k = 0
      <4>1. disk' = disk
        BY <1>1, <1>2, <1>5, <3>4, <3>5, WrittenNone
      <4> QED
        BY <1>1, <4>1, DownStep
    <3>6. CASE k = 1
      <4>1. disk' = Written(<<c[2]>>)
        BY <1>2, <1>5, <3>1, <3>4, <3>6
      <4>2. Grown(disk, disk', f)
        BY <1>1, <1>5, <2>2, <2>5, <3>1, <4>1, WrittenFrame DEF TornTail, c
      <4>3. FilesOK(disk') /\ AckOK(disk', acked)
        BY <1>1, <2>2, <4>2, GrownOK
      <4> QED
        BY <1>1, <4>3, DownStep
    <3> QED
      BY <3>3, <3>5, <3>6
  <2> QED
    BY <2>4, <2>5
<1> QED
  BY <1>3, <1>4, <1>5

(* What survives of a file is a beginning of it that holds what was synced. *)
LEMMA SurvivorFacts ==
    ASSUME NEW x \in File, x.synced <= Len(x.cells), NEW y \in Surviving(x)
    PROVE  /\ y \in File /\ y.first = x.first /\ y.synced <= Len(y.cells)
           /\ y.synced = x.synced
           /\ Len(y.cells) <= Len(x.cells)
           /\ \A c \in 1..Len(y.cells) : y.cells[c] = x.cells[c]
           /\ x.synced = Len(x.cells) => y = x
<1>1. x.cells \in Seq(Cell) /\ x.synced \in Nat /\ x.first \in Nat /\ Len(x.cells) \in Nat
  BY DEF File
<1>2. PICK n \in x.synced..Len(x.cells) : y = [x EXCEPT !.cells = SubSeq(x.cells, 1, n)]
  BY DEF Surviving
<1>3. n \in Nat /\ x.synced <= n /\ n <= Len(x.cells)
  BY <1>1, <1>2
<1> DEFINE s == SubSeq(x.cells, 1, n)
<1>4. /\ s \in Seq(Cell) /\ Len(s) = n /\ \A c \in 1..n : s[c] = x.cells[c]
      /\ n = Len(x.cells) => s = x.cells
  BY <1>1, <1>3
<1> HIDE DEF s
<1>5. y.cells = s /\ y.first = x.first /\ y.synced = x.synced /\ y \in File
  BY <1>2, <1>4 DEF File, s
<1>6. ASSUME x.synced = Len(x.cells) PROVE y = x
  <2>1. s = x.cells
    BY <1>1, <1>3, <1>4, <1>6
  <2> QED
    BY <1>2, <2>1 DEF File, s
<1> QED
  BY <1>1, <1>3, <1>4, <1>5, <1>6

(* The newest file is cut, or lost if nothing of it was synced. *)
LEMMA FailureCuts ==
    ASSUME FilesOK(disk), NEW e \in AfterPowerFailure
    PROVE  \/ disk = <<>> /\ e = <<>>
           \/ Cut(disk, e) /\ e[Len(disk)].synced = disk[Len(disk)].synced
           \/ /\ e \in Seq(File) /\ Len(disk) > 0 /\ Len(e) = Len(disk) - 1
              /\ \A i \in 1..Len(e) : e[i] = disk[i]
              /\ disk[Len(disk)].synced = 0
<1> DEFINE m == Len(disk)
<1>1. Len(e) < Len(disk) => disk[Len(disk)].synced = 0
  BY DEF AfterPowerFailure, Last
<1>2. disk \in Seq(File) /\ m \in Nat /\ DOMAIN disk = 1..m
  BY DEF FilesOK, ShapeOK
<1>3. PICK n \in {m} \cup (IF disk # <<>> THEN {m - 1} ELSE {}) :
         /\ e = [i \in 1..n |-> e[i]]
         /\ \A i \in 1..n : e[i] \in Surviving(disk[i])
  <2>1. PICK n \in {m} \cup (IF disk # <<>> THEN {m - 1} ELSE {}) :
           e \in [1..n -> UNION {Surviving(disk[i]) : i \in DOMAIN disk}]
    BY DEF AfterPowerFailure
  <2>2. \A i \in DOMAIN e : e[i] \in Surviving(disk[i])
    BY DEF AfterPowerFailure
  <2>3. DOMAIN e = 1..n /\ e = [i \in 1..n |-> e[i]]
    BY <2>1
  <2> QED
    BY <2>2, <2>3
<1>4. n \in Nat /\ (n = m \/ (m > 0 /\ n = m - 1))
  <2>1. disk # <<>> => m > 0
    BY <1>2
  <2> QED
    BY <1>2, <1>3, <2>1
<1>5. ASSUME NEW i \in 1..n
      PROVE  /\ i \in 1..m /\ e[i] \in File /\ e[i].first = disk[i].first
             /\ e[i].synced <= Len(e[i].cells) /\ e[i].synced = disk[i].synced
             /\ Len(e[i].cells) <= Len(disk[i].cells)
             /\ \A c \in 1..Len(e[i].cells) : e[i].cells[c] = disk[i].cells[c]
             /\ i < m => e[i] = disk[i]
  <2>1. i \in 1..m
    <3> HIDE DEF m
    <3>1. n <= m
      BY <1>2, <1>4
    <3>2. i \in Nat /\ 1 <= i /\ i <= n
      BY <1>4
    <3>3. n \in Int /\ m \in Int
      BY <1>2, <1>4
    <3>4. i <= m
      BY <3>1, <3>2, <3>3
    <3> QED
      BY <1>2, <3>2, <3>4
  <2>2. /\ disk[i] \in File /\ disk[i].synced <= Len(disk[i].cells)
        /\ i < m => disk[i].synced = Len(disk[i].cells)
    BY <1>2, <2>1 DEF FilesOK, ShapeOK, ClosedOK
  <2> QED
    BY <1>3, <2>1, <2>2, SurvivorFacts
<1>6. e \in Seq(File) /\ Len(e) = n
  BY <1>3, <1>4, <1>5, IsSeq
<1>7. CASE n # m
  <2>1. m > 0 /\ n = m - 1 /\ Len(e) = m - 1
    BY <1>4, <1>6, <1>7
  <2>2. \A i \in 1..n : i < m
    <3> HIDE DEF m
    <3> QED
      BY <1>2, <2>1
  <2>3. \A i \in 1..Len(e) : e[i] = disk[i]
    BY <1>5, <1>6, <2>2
  <2>4. Len(e) < Len(disk)
    <3>1. m - 1 < m
      <4> HIDE DEF m
      <4> QED
        BY <1>2
    <3> QED
      BY <2>1, <3>1
  <2> QED
    BY <1>1, <1>6, <2>1, <2>3, <2>4
<1>8. CASE n = m /\ m = 0
  BY <1>2, <1>6, <1>8
<1>9. CASE n = m /\ m > 0
  <2>1. m \in 1..n /\ Len(e) = m
    BY <1>2, <1>6, <1>9
  <2>2. SameBut(disk, e)
    <3>1. \A i \in 1..(m - 1) : e[i] = disk[i]
      BY <1>2, <1>5, <1>9
    <3>2. e[m].first = disk[m].first /\ e[m].synced <= Len(e[m].cells)
      BY <1>5, <2>1
    <3> QED
      BY <1>6, <1>9, <2>1, <3>1, <3>2 DEF SameBut
  <2> DEFINE x == disk[m].cells
             y == e[m].cells
  <2>3. /\ x \in Seq(Cell) /\ y \in Seq(Cell) /\ Len(y) <= Len(x)
        /\ \A c \in 1..Len(y) : y[c] = x[c]
    BY <1>2, <1>5, <1>6, <1>9, <2>1, FileFacts
  <2> HIDE DEF x, y
  <2>4. /\ Whole(x) \in Nat /\ Whole(y) \in Nat /\ Len(x) \in Nat /\ Len(y) \in Nat
        /\ (Len(x) = 2 * Whole(x) \/ Len(x) = 2 * Whole(x) + 1)
        /\ (Len(y) = 2 * Whole(y) \/ Len(y) = 2 * Whole(y) + 1)
    BY <2>3, WholeFacts
  <2>5. Whole(y) <= Whole(x) /\ \A c \in 1..(2 * Whole(y)) : y[c] = x[c]
    <3>1. Whole(y) <= Whole(x)
      BY <2>3, <2>4
    <3>2. \A c \in 1..(2 * Whole(y)) : c \in 1..Len(y)
      BY <2>4
    <3> QED
      BY <2>3, <3>1, <3>2
  <2>6. Cut(disk, e)
    BY <2>2, <2>5 DEF Cut, W, x, y
  <2> QED
    BY <1>5, <2>1, <2>6
<1>10. n # m \/ (n = m /\ m = 0) \/ (n = m /\ m > 0)
  <2> HIDE DEF m
  <2> QED
    BY <1>2
<1> QED
  BY <1>7, <1>8, <1>9, <1>10

(* A power failure keeps the invariant. *)
LEMMA PowerFailureStep ==
    ASSUME StoreInv, PowerFailure
    PROVE  StoreInv'
<1>1. /\ GoDown /\ FilesOK(disk) /\ AckOK(disk, acked) /\ disk' \in AfterPowerFailure
      /\ acked' = {a \in acked : a.seq < End(disk')}
  BY DEF StoreInv, PowerFailure
<1>2. FilesOK(disk') /\ AckOK(disk', acked')
  <2>1. CASE disk = <<>> /\ disk' = <<>>
    <3>1. FilesOK(disk')
      BY <1>1, <2>1
    <3>2. AckOK(disk', acked')
      BY <1>1, <2>1 DEF AckOK
    <3> QED
      BY <3>1, <3>2
  <2>2. CASE Cut(disk, disk')
    BY <1>1, <2>2, CutOK, CutAcks
  <2>3. CASE /\ disk' \in Seq(File) /\ Len(disk) > 0 /\ Len(disk') = Len(disk) - 1
             /\ \A i \in 1..Len(disk') : disk'[i] = disk[i]
    BY <1>1, <2>3, DroppedOK
  <2> QED
    BY <1>1, <2>1, <2>2, <2>3, FailureCuts
<1> QED
  BY <1>1, <1>2, DownStep

-----------------------------------------------------------------------------
(***************************************************************************)
(* The theorem.                                                            *)
(***************************************************************************)
LEMMA StoreStarts == StoreInit => StoreInv
<1> SUFFICES ASSUME StoreInit PROVE StoreInv
  OBVIOUS
<1>1. /\ disk = <<>> /\ status = "down" /\ appending = "idle" /\ handed = 0
      /\ wedged = FALSE /\ hasWriter = FALSE /\ acked = {}
  BY DEF StoreInit
<1>2. <<>> \in Seq(File) /\ Len(<<>>) = 0 /\ End(<<>>) = 0
  BY DEF End
<1>3. FilesOK(<<>>)
  BY <1>2 DEF FilesOK, ShapeOK, Adjacent, Gapless, Linked
<1>4. AckOK(disk, acked)
  BY <1>1 DEF AckOK
<1> QED
  BY <1>1, <1>3, <1>4 DEF StoreInv

(* Every step keeps the invariant. *)
LEMMA StoreStep == StoreInv /\ [StoreNext]_storevars => StoreInv'
<1> SUFFICES ASSUME StoreInv, [StoreNext]_storevars PROVE StoreInv'
  OBVIOUS
<1>1. CASE open
  BY <1>1, OpenStep
<1>2. CASE append
  BY <1>2, AppendStep
<1>3. CASE Sync
  BY <1>3, SyncStep
<1>4. CASE Create
  BY <1>4, CreateStep
<1>5. CASE EncodeFrameFails
  BY <1>5, FailedStep DEF EncodeFrameFails
<1>6. CASE WriteFrame
  BY <1>6, WriteStep
<1>7. CASE WriteFails
  BY <1>7, WriteFailsStep
<1>8. CASE DropStore
  BY <1>8, DropStep
<1>9. CASE Kill
  BY <1>9, KillStep
<1>10. CASE PowerFailure
  BY <1>10, PowerFailureStep
<1>11. CASE UNCHANGED storevars
  BY <1>11 DEF storevars, memory, StoreInv, UpOK, ActiveOK, WedgeOK, TornTail, StepOK
<1> QED
  BY <1>1, <1>2, <1>3, <1>4, <1>5, <1>6, <1>7, <1>8, <1>9, <1>10, <1>11 DEF StoreNext

(***************************************************************************)
(* Whatever the segment size, the records handed over, the writes that     *)
(* fail and the kills and power failures between two steps of an append or *)
(* a rotation, open never refuses the files it finds (scan_stream,         *)
(* scan_segment, compute_head), and while the store is open read_from      *)
(* returns each acknowledged record at its number and verify finds every   *)
(* back link whole.                                                        *)
(***************************************************************************)
THEOREM StoreAlwaysSurvives == StoreSpec => []StoreSurvives
<1>1. StoreInv => StoreSurvives
  BY InvSurvives
<1> QED
  BY <1>1, StoreStarts, StoreStep, PTL DEF StoreSpec

-----------------------------------------------------------------------------
(***************************************************************************)
(* The refinement of AppendOnlyLog.  What is secured is in the synced part *)
(* of the files, and records are stored in the order they are handed over: *)
(* the one being written, or left in the BufWriter, is later than all of   *)
(* them.                                                                   *)
(***************************************************************************)
SyncedEnd(d) == IF d = <<>> THEN 0
                ELSE d[Len(d)].first + (d[Len(d)].synced \div 2)

RecordsBelow(d, n) ==
    \A i \in 1..Len(d) : \A k \in 1..W(d, i) : FrameOf(d, i, k).record < n

Unwritten == buffer[Len(buffer)].frame.record

RecordInv ==
    /\ handed \in 0..MaxRecords /\ RecordsBelow(disk, handed + 1)
    /\ appending # "idle" => handed # 0 /\ RecordsBelow(disk, handed)
    /\ status = "up" /\ wedged => Unwritten \in 1..handed /\ RecordsBelow(disk, Unwritten)

LogInv == secured \in Nat /\ secured <= SyncedEnd(disk) /\ RecordInv

(* Number q is the record at position q + 1. *)
LEMMA RecordPlace ==
    ASSUME NEW d, FilesOK(d), NEW i \in 1..Len(d), NEW k \in 1..W(d, i)
    PROVE  RecordAt(d, NumberOf(d, i, k)) = FrameOf(d, i, k).record
<1> DEFINE q == NumberOf(d, i, k)
           In(j) == d[j].first <= q /\ q < d[j].first + W(d, j)
           c == CHOOSE j \in 1..Len(d) : In(j)
<1>1. d \in Seq(File) /\ DOMAIN d = 1..Len(d) /\ ShapeOK(d) /\ Len(d) \in Nat
  BY DEF FilesOK, ShapeOK
<1>2. \A j \in 1..Len(d) : d[j].first \in Nat /\ W(d, j) \in Nat
  BY <1>1, FileFacts
<1>3. q = d[i].first + k - 1 /\ In(i) /\ q \in Nat
  BY <1>2 DEF NumberOf
<1> HIDE DEF q
<1>4. c \in 1..Len(d) /\ In(c)
  BY <1>3
<1> HIDE DEF c
<1>5. c = i
  <2> SUFFICES ASSUME c # i PROVE FALSE
    OBVIOUS
  <2>1. \A x, y \in 1..Len(d) : x < y => d[x].first + W(d, x) <= d[y].first
    BY <1>1 DEF ShapeOK, Adjacent
  <2>2. c < i \/ i < c
    BY <1>1, <1>4
  <2>3. ASSUME c < i PROVE FALSE
    <3>1. d[c].first + W(d, c) <= d[i].first
      BY <1>4, <2>1, <2>3
    <3> QED
      BY <1>2, <1>3, <1>4, <3>1
  <2>4. ASSUME i < c PROVE FALSE
    <3>1. d[i].first + W(d, i) <= d[c].first
      BY <1>4, <2>1, <2>4
    <3> QED
      BY <1>2, <1>3, <1>4, <3>1
  <2> QED
    BY <2>2, <2>3, <2>4
<1>6. RecordAt(d, q) = d[c].cells[2 * (q - d[c].first + 1)].frame.record
  BY <1>1 DEF RecordAt, c, W
<1>7. q - d[i].first + 1 = k
  BY <1>2, <1>3
<1> QED
  BY <1>5, <1>6, <1>7 DEF FrameOf, q

(* The records of the store, by their numbers. *)
LEMMA StoredFacts ==
    ASSUME NEW d, FilesOK(d)
    PROVE  /\ StoredIn(d) \in Seq(Nat) /\ Len(StoredIn(d)) = End(d) /\ End(d) \in Nat
           /\ \A i \in 1..Len(d) : \A k \in 1..W(d, i) :
                 /\ NumberOf(d, i, k) + 1 \in 1..End(d)
                 /\ StoredIn(d)[NumberOf(d, i, k) + 1] = FrameOf(d, i, k).record
           /\ \A q \in 1..End(d) : \E i \in 1..Len(d) : \E k \in 1..W(d, i) :
                 NumberOf(d, i, k) + 1 = q /\ StoredIn(d)[q] = FrameOf(d, i, k).record
<1> DEFINE s == StoredIn(d)
<1>1. d \in Seq(File) /\ ShapeOK(d) /\ End(d) \in Nat
  BY EndFacts DEF FilesOK, ShapeOK
<1>2. \A q \in 1..End(d) : s[q] = RecordAt(d, q - 1)
  BY DEF StoredIn
<1>3. s = [q \in 1..End(d) |-> s[q]]
  BY DEF StoredIn
<1> HIDE DEF s
<1>4. ASSUME NEW i \in 1..Len(d), NEW k \in 1..W(d, i)
      PROVE  /\ NumberOf(d, i, k) + 1 \in 1..End(d)
             /\ s[NumberOf(d, i, k) + 1] = FrameOf(d, i, k).record
  <2> DEFINE q == NumberOf(d, i, k)
  <2>1. q \in 0..(End(d) - 1)
    BY <1>1, NumberBelow
  <2>2. RecordAt(d, q) = FrameOf(d, i, k).record
    BY RecordPlace
  <2> HIDE DEF q
  <2>3. q + 1 \in 1..End(d) /\ (q + 1) - 1 = q
    BY <1>1, <2>1
  <2>4. s[q + 1] = RecordAt(d, q)
    BY <1>2, <2>3
  <2> QED
    BY <2>2, <2>3, <2>4 DEF q
<1>5. ASSUME NEW q \in 1..End(d)
      PROVE  \E i \in 1..Len(d) : \E k \in 1..W(d, i) :
                NumberOf(d, i, k) + 1 = q /\ s[q] = FrameOf(d, i, k).record
  <2>1. q - 1 \in 0..(End(d) - 1)
    BY <1>1
  <2>2. PICK i \in 1..Len(d) : \E k \in 1..W(d, i) : NumberOf(d, i, k) = q - 1
    BY <1>1, <2>1, PlaceExists
  <2>3. PICK k \in 1..W(d, i) : NumberOf(d, i, k) = q - 1
    BY <2>2
  <2>4. NumberOf(d, i, k) + 1 = q
    BY <1>1, <2>3
  <2> QED
    BY <1>4, <2>4
<1>6. \A q \in 1..End(d) : s[q] \in Nat
  <2> TAKE q \in 1..End(d)
  <2>1. PICK i \in 1..Len(d) : \E k \in 1..W(d, i) : s[q] = FrameOf(d, i, k).record
    BY <1>5
  <2>2. PICK k \in 1..W(d, i) : s[q] = FrameOf(d, i, k).record
    BY <2>1
  <2>3. FrameOf(d, i, k) \in StoredFrame
    BY <1>1, FileFacts
  <2> QED
    BY <2>2, <2>3 DEF StoredFrame
<1>7. s \in Seq(Nat) /\ Len(s) = End(d)
  BY <1>1, <1>3, <1>6, IsSeq
<1> QED
  BY <1>1, <1>4, <1>5, <1>7 DEF s

(* Files whose frames are all frames of d hold a beginning of what d holds. *)
Part(d, e) ==
    \A i \in 1..Len(e) : \A k \in 1..W(e, i) :
       \E j \in 1..Len(d) : \E l \in 1..W(d, j) :
          NumberOf(d, j, l) = NumberOf(e, i, k) /\ FrameOf(d, j, l) = FrameOf(e, i, k)

(* Part of a store holds the first of its records. *)
LEMMA StoredPart ==
    ASSUME NEW d, NEW e, FilesOK(d), FilesOK(e), Part(d, e), End(e) <= End(d)
    PROVE  /\ StoredIn(e) = SubSeq(StoredIn(d), 1, End(e))
           /\ End(e) = End(d) => StoredIn(e) = StoredIn(d)
<1> DEFINE s == StoredIn(d)
           t == StoredIn(e)
<1>1. /\ s \in Seq(Nat) /\ Len(s) = End(d) /\ End(d) \in Nat
      /\ t \in Seq(Nat) /\ Len(t) = End(e) /\ End(e) \in Nat
  BY StoredFacts
<1>2. ASSUME NEW q \in 1..End(e) PROVE t[q] = s[q]
  <2>1. PICK i \in 1..Len(e) : \E k \in 1..W(e, i) :
           NumberOf(e, i, k) + 1 = q /\ t[q] = FrameOf(e, i, k).record
    BY StoredFacts
  <2>2. PICK k \in 1..W(e, i) :
           NumberOf(e, i, k) + 1 = q /\ t[q] = FrameOf(e, i, k).record
    BY <2>1
  <2>3. PICK j \in 1..Len(d) : \E l \in 1..W(d, j) :
           NumberOf(d, j, l) = NumberOf(e, i, k) /\ FrameOf(d, j, l) = FrameOf(e, i, k)
    BY DEF Part
  <2>4. PICK l \in 1..W(d, j) :
           NumberOf(d, j, l) = NumberOf(e, i, k) /\ FrameOf(d, j, l) = FrameOf(e, i, k)
    BY <2>3
  <2>5. s[NumberOf(d, j, l) + 1] = FrameOf(d, j, l).record
    BY StoredFacts
  <2> QED
    BY <2>2, <2>4, <2>5
<1> HIDE DEF s, t
<1>3. LET u == SubSeq(s, 1, End(e)) IN
      /\ u \in Seq(Nat) /\ Len(u) = End(e) /\ \A q \in 1..End(e) : u[q] = s[q]
  BY <1>1
<1>4. t = SubSeq(s, 1, End(e))
  BY <1>1, <1>2, <1>3
<1>5. End(e) = End(d) => t = s
  BY <1>1, <1>2
<1> QED
  BY <1>4, <1>5 DEF s, t

(* A record above all that are stored is a later one. *)
LEMMA StoredBelow ==
    ASSUME FilesOK(disk), NEW n, RecordsBelow(disk, n)
    PROVE  Abstract!Later(n)
<1>1. StoredIn(disk) \in Seq(Nat) /\ DOMAIN StoredIn(disk) = 1..End(disk)
  <2>1. StoredIn(disk) \in Seq(Nat) /\ Len(StoredIn(disk)) = End(disk)
    BY StoredFacts
  <2> QED
    BY <2>1
<1>2. ASSUME NEW q \in 1..End(disk) PROVE StoredIn(disk)[q] < n
  <2>1. PICK i \in 1..Len(disk) : \E k \in 1..W(disk, i) :
           StoredIn(disk)[q] = FrameOf(disk, i, k).record
    BY StoredFacts
  <2> QED
    BY <2>1 DEF RecordsBelow
<1> QED
  BY <1>1, <1>2 DEF Abstract!Later, Stored

(* A change of the files that the log does not see. *)
Quiet(d, e) ==
    /\ StoredIn(e) = StoredIn(d)
    /\ \A n : RecordsBelow(d, n) => RecordsBelow(e, n)
    /\ \A n \in Nat : n <= SyncedEnd(d) => n <= SyncedEnd(e)

(* A change that adds record r. *)
Adds(d, e, r) ==
    /\ StoredIn(e) = Append(StoredIn(d), r)
    /\ \A n : RecordsBelow(d, n) /\ r < n => RecordsBelow(e, n)
    /\ \A n \in Nat : n <= SyncedEnd(d) => n <= SyncedEnd(e)

(* Part of a store has no greater records. *)
LEMMA PartBelow ==
    ASSUME NEW d, NEW e, Part(d, e)
    PROVE  \A n : RecordsBelow(d, n) => RecordsBelow(e, n)
  BY DEF Part, RecordsBelow

(* A cut store is part of it. *)
LEMMA CutPart ==
    ASSUME NEW d, NEW e, FilesOK(d), Cut(d, e)
    PROVE  /\ FilesOK(e) /\ Part(d, e) /\ End(e) <= End(d)
           /\ End(e) = d[Len(d)].first + W(e, Len(d))
           /\ W(e, Len(d)) = W(d, Len(d)) => End(e) = End(d)
<1>1. FilesOK(e) /\ End(e) = d[Len(d)].first + W(e, Len(d))
  BY CutOK
<1>2. d \in Seq(File) /\ e \in Seq(File) /\ Len(e) = Len(d) /\ Len(d) > 0 /\ d # <<>>
  BY DEF FilesOK, ShapeOK, Cut, SameBut
<1>3. Len(d) \in 1..Len(d) /\ End(d) = d[Len(d)].first + W(d, Len(d))
  BY <1>2, EndFacts DEF FilesOK
<1>4. d[Len(d)].first \in Nat /\ W(d, Len(d)) \in Nat /\ W(e, Len(d)) \in Nat
  BY <1>2, <1>3, FileFacts
<1>5. W(e, Len(d)) <= W(d, Len(d))
  BY DEF Cut
<1>6. End(e) <= End(d)
  BY <1>1, <1>3, <1>4, <1>5
<1>7. Part(d, e)
  <2> SUFFICES ASSUME NEW i \in 1..Len(e), NEW k \in 1..W(e, i)
               PROVE  \E j \in 1..Len(d) : \E l \in 1..W(d, j) :
                         /\ NumberOf(d, j, l) = NumberOf(e, i, k)
                         /\ FrameOf(d, j, l) = FrameOf(e, i, k)
    BY DEF Part
  <2>1. /\ i \in 1..Len(d) /\ k \in 1..W(d, i) /\ FrameOf(e, i, k) = FrameOf(d, i, k)
        /\ NumberOf(e, i, k) = NumberOf(d, i, k)
    BY CutPlaces
  <2> QED
    BY <2>1
<1> QED
  BY <1>1, <1>3, <1>6, <1>7

(* Halves of numbers are in their order. *)
LEMMA HalfMonotone ==
    ASSUME NEW m \in Nat, NEW n \in Nat, m <= n
    PROVE  m \div 2 <= n \div 2 /\ m \div 2 \in Nat /\ n \div 2 \in Nat
  OBVIOUS

(* A cut that costs no frame is quiet. *)
LEMMA QuietCut ==
    ASSUME NEW d, NEW e, FilesOK(d), Cut(d, e), W(e, Len(d)) = W(d, Len(d)),
           d[Len(d)].synced \div 2 <= e[Len(d)].synced \div 2
    PROVE  Quiet(d, e)
<1>1. FilesOK(e) /\ Part(d, e) /\ End(e) = End(d) /\ End(e) <= End(d)
  BY CutPart
<1>2. StoredIn(e) = StoredIn(d) /\ \A n : RecordsBelow(d, n) => RecordsBelow(e, n)
  BY <1>1, StoredPart, PartBelow
<1>3. /\ d \in Seq(File) /\ e \in Seq(File) /\ Len(e) = Len(d) /\ d # <<>> /\ e # <<>>
      /\ e[Len(d)].first = d[Len(d)].first /\ Len(d) \in 1..Len(d) /\ Len(d) \in 1..Len(e)
  <2>1. /\ d \in Seq(File) /\ e \in Seq(File) /\ Len(e) = Len(d) /\ Len(d) > 0
        /\ e[Len(d)].first = d[Len(d)].first
    BY DEF FilesOK, ShapeOK, Cut, SameBut
  <2> QED
    BY <2>1
<1>4. /\ d[Len(d)].first \in Nat /\ d[Len(d)].synced \in Nat /\ e[Len(d)].synced \in Nat
  BY <1>3, FileFacts
<1>5. d[Len(d)].synced \div 2 \in Nat /\ e[Len(d)].synced \div 2 \in Nat
  BY <1>4, HalfMonotone
<1>6. /\ SyncedEnd(d) = d[Len(d)].first + (d[Len(d)].synced \div 2)
      /\ SyncedEnd(e) = d[Len(d)].first + (e[Len(d)].synced \div 2)
  BY <1>3 DEF SyncedEnd
<1> DEFINE a == d[Len(d)].synced \div 2
           b == e[Len(d)].synced \div 2
           c == d[Len(d)].first
<1>7. a \in Nat /\ b \in Nat /\ c \in Nat /\ a <= b /\ SyncedEnd(d) = c + a /\ SyncedEnd(e) = c + b
  BY <1>4, <1>5, <1>6
<1> HIDE DEF a, b, c
<1>8. \A n \in Nat : n <= SyncedEnd(d) => n <= SyncedEnd(e)
  BY <1>7
<1> QED
  BY <1>2, <1>8 DEF Quiet

(* One more frame adds its record. *)
LEMMA AddsGrown ==
    ASSUME NEW d, NEW e, NEW f, FilesOK(d), Grown(d, e, f), HeadOK(d, f.prev),
           e[Len(d)].synced = d[Len(d)].synced
    PROVE  Adds(d, e, f.record)
<1>1. FilesOK(e) /\ End(e) = End(d) + 1
  BY GrownOK
<1> DEFINE s == StoredIn(d)
           t == StoredIn(e)
           r == f.record
<1>2. /\ s \in Seq(Nat) /\ Len(s) = End(d) /\ End(d) \in Nat
      /\ t \in Seq(Nat) /\ Len(t) = End(d) + 1
  BY <1>1, StoredFacts
<1>3. /\ d \in Seq(File) /\ e \in Seq(File) /\ Len(e) = Len(d) /\ Len(d) > 0
      /\ e[Len(d)].first = d[Len(d)].first /\ r \in Nat
  BY DEF FilesOK, ShapeOK, Grown, SameBut, StoredFrame
<1>4. ASSUME NEW q \in 1..End(d) PROVE t[q] = s[q]
  <2>1. PICK i \in 1..Len(d) : \E k \in 1..W(d, i) :
           NumberOf(d, i, k) + 1 = q /\ s[q] = FrameOf(d, i, k).record
    BY StoredFacts
  <2>2. PICK k \in 1..W(d, i) :
           NumberOf(d, i, k) + 1 = q /\ s[q] = FrameOf(d, i, k).record
    BY <2>1
  <2>3. /\ k \in 1..W(e, i) /\ FrameOf(e, i, k) = FrameOf(d, i, k)
        /\ NumberOf(e, i, k) = NumberOf(d, i, k)
    BY GrownPlaces
  <2>4. i \in 1..Len(e)
    BY <1>3
  <2>5. t[NumberOf(e, i, k) + 1] = FrameOf(e, i, k).record
    BY <1>1, <2>3, <2>4, StoredFacts
  <2> QED
    BY <2>2, <2>3, <2>5
<1>5. t[End(d) + 1] = r
  <2>1. End(d) + 1 \in 1..End(e)
    BY <1>1, <1>2
  <2>2. PICK i \in 1..Len(d) : \E k \in 1..W(e, i) :
           NumberOf(e, i, k) + 1 = End(d) + 1 /\ t[End(d) + 1] = FrameOf(e, i, k).record
    BY SMTT(30), <1>1, <1>3, <2>1, StoredFacts
  <2>3. PICK k \in 1..W(e, i) :
           NumberOf(e, i, k) + 1 = End(d) + 1 /\ t[End(d) + 1] = FrameOf(e, i, k).record
    BY <2>2
  <2>4. k \notin 1..W(d, i)
    <3> SUFFICES ASSUME k \in 1..W(d, i) PROVE FALSE
      OBVIOUS
    <3>1. NumberOf(d, i, k) \in 0..(End(d) - 1) /\ NumberOf(e, i, k) = NumberOf(d, i, k)
      BY NumberBelow, GrownPlaces DEF FilesOK
    <3> QED
      BY <1>2, <2>3, <3>1
  <2>5. FrameOf(e, i, k) = f
    BY <2>4, GrownPlaces
  <2> QED
    BY <2>3, <2>5
<1>6. t = Append(s, r)
  <2> HIDE DEF s, t, r
  <2>1. /\ Append(s, r) \in Seq(Nat) /\ Len(Append(s, r)) = End(d) + 1
        /\ \A q \in 1..End(d) : Append(s, r)[q] = s[q] /\ Append(s, r)[End(d) + 1] = r
    BY <1>2, <1>3
  <2>2. \A q \in 1..(End(d) + 1) : t[q] = Append(s, r)[q]
    <3> TAKE q \in 1..(End(d) + 1)
    <3>1. q \in 1..End(d) \/ q = End(d) + 1
      BY <1>2
    <3>2. Append(s, r)[End(d) + 1] = r
      BY <1>2, <1>3
    <3> QED
      BY <1>4, <1>5, <2>1, <3>1, <3>2
  <2> QED
    BY <1>2, <2>1, <2>2
<1>7. ASSUME NEW n, RecordsBelow(d, n), r < n PROVE RecordsBelow(e, n)
  <2> SUFFICES ASSUME NEW i \in 1..Len(d), NEW k \in 1..W(e, i)
               PROVE  FrameOf(e, i, k).record < n
    BY <1>3 DEF RecordsBelow
  <2>1. CASE k \in 1..W(d, i)
    BY <1>7, <2>1, GrownPlaces DEF RecordsBelow
  <2>2. CASE k \notin 1..W(d, i)
    BY <1>7, <2>2, GrownPlaces
  <2> QED
    BY <2>1, <2>2
<1>8. SyncedEnd(e) = SyncedEnd(d)
  <2>1. d # <<>> /\ e # <<>>
    BY <1>3
  <2> QED
    BY <1>3, <2>1 DEF SyncedEnd
<1> QED
  BY <1>6, <1>7, <1>8 DEF Adds

-----------------------------------------------------------------------------
(***************************************************************************)
(* Steps of the log.                                                       *)
(***************************************************************************)
LogStep == Abstract!LogNext \/ UNCHANGED Abstract!log_vars

(* Files that do not change are quiet. *)
LEMMA QuietSame == \A d : Quiet(d, d)
  BY DEF Quiet

(* The log stutters when the files are quiet. *)
LEMMA QuietStep ==
    ASSUME Quiet(disk, disk'), secured' = secured
    PROVE  LogStep
  BY DEF Quiet, LogStep, Abstract!log_vars, Stored

(* The log stores a record when the files add it. *)
LEMMA AddsStep ==
    ASSUME FilesOK(disk), NEW r \in 1..MaxRecords, RecordsBelow(disk, r),
           Adds(disk, disk', r), secured' = secured
    PROVE  LogStep
<1>1. Abstract!Later(r)
  BY StoredBelow
<1>2. Stored' = Append(Stored, r)
  BY DEF Adds, Stored
<1>3. Abstract!Store(r)
  BY <1>1, <1>2 DEF Abstract!Store
<1> QED
  BY <1>3 DEF LogStep, Abstract!LogNext

(* What is synced is stored. *)
LEMMA SyncedWithin ==
    ASSUME NEW d, FilesOK(d)
    PROVE  SyncedEnd(d) \in Nat /\ End(d) \in Nat /\ SyncedEnd(d) <= End(d)
<1>1. /\ ShapeOK(d) /\ d \in Seq(File) /\ End(d) \in Nat
      /\ d # <<>> => Len(d) \in 1..Len(d) /\ End(d) = d[Len(d)].first + W(d, Len(d))
      /\ d = <<>> => End(d) = 0
  BY EndFacts DEF FilesOK, ShapeOK
<1>2. CASE d = <<>>
  BY <1>1, <1>2 DEF SyncedEnd
<1>3. CASE d # <<>>
  <2> DEFINE f == d[Len(d)].first
             a == d[Len(d)].synced
             b == Len(d[Len(d)].cells)
  <2>1. f \in Nat /\ a \in Nat /\ b \in Nat /\ a <= b
    BY <1>1, <1>3, FileFacts DEF ShapeOK, ClosedOK
  <2>2. SyncedEnd(d) = f + (a \div 2) /\ End(d) = f + (b \div 2)
    BY <1>1, <1>3 DEF SyncedEnd, W, Whole
  <2> HIDE DEF f, a, b
  <2>3. a \div 2 <= b \div 2 /\ a \div 2 \in Nat /\ b \div 2 \in Nat
    BY <2>1, HalfMonotone
  <2> DEFINE x == a \div 2
             y == b \div 2
  <2>4. x \in Nat /\ y \in Nat /\ x <= y
    BY <2>3
  <2>5. SyncedEnd(d) = f + x /\ End(d) = f + y
    BY <2>2
  <2> HIDE DEF x, y
  <2> QED
    BY <2>1, <2>4, <2>5
<1> QED
  BY <1>2, <1>3

(* All of a file that is synced to its end counts. *)
LEMMA SyncedAll ==
    ASSUME NEW d, FilesOK(d), d # <<>>, d[Len(d)].synced = Len(d[Len(d)].cells)
    PROVE  SyncedEnd(d) = End(d)
<1>1. End(d) = d[Len(d)].first + W(d, Len(d))
  BY EndFacts DEF FilesOK
<1> QED
  BY <1>1 DEF SyncedEnd, W, Whole

(* Records below one number are below a later one. *)
LEMMA BelowLater ==
    ASSUME NEW d, FilesOK(d), NEW m \in Nat, NEW n \in Nat, m <= n, RecordsBelow(d, m)
    PROVE  RecordsBelow(d, n)
<1> SUFFICES ASSUME NEW i \in 1..Len(d), NEW k \in 1..W(d, i)
             PROVE  FrameOf(d, i, k).record < n
  BY DEF RecordsBelow
<1>1. FrameOf(d, i, k).record < m
  BY DEF RecordsBelow
<1>2. FrameOf(d, i, k) \in StoredFrame
  BY FileFacts DEF FilesOK, ShapeOK
<1>3. FrameOf(d, i, k).record \in Nat
  BY <1>2 DEF StoredFrame
<1> QED
  BY <1>1, <1>3

(* Opening is a step of the log. *)
LEMMA LogOpen ==
    ASSUME StoreInv, LogInv, open
    PROVE  LogInv' /\ LogStep
<1>1. FilesOK(disk) /\ status = "down" /\ appending = "idle"
  BY DEF StoreInv, open
<1>2. /\ disk' = Opened /\ wedged' = FALSE
      /\ appending' = "idle" /\ handed' = handed /\ secured' = secured
  BY <1>1, ScanSucceeds DEF open, Opened
<1>3. Quiet(disk, disk')
  <2>1. CASE disk = <<>>
    <3>1. disk' = [i \in {} |-> disk'[i]]
      BY <1>2, <2>1 DEF Opened
    <3>2. disk' = <<>>
      BY <3>1
    <3> QED
      BY <2>1, <3>2, QuietSame
  <2>2. CASE disk # <<>>
    BY <1>1, <1>2, <2>2, OpenCuts, QuietCut
  <2> QED
    BY <2>1, <2>2
<1>4. LogInv'
  <2>1. secured' \in Nat /\ secured' <= SyncedEnd(disk')
    BY <1>2, <1>3 DEF Quiet, LogInv
  <2>2. RecordsBelow(disk', handed' + 1)
    BY <1>2, <1>3 DEF Quiet, LogInv, RecordInv
  <2> QED
    BY <1>2, <2>1, <2>2 DEF LogInv, RecordInv
<1> QED
  BY <1>2, <1>3, <1>4, QuietStep

(* Starting an append is a step of the log. *)
LEMMA LogAppend ==
    ASSUME StoreInv, LogInv, append
    PROVE  LogInv' /\ LogStep
<1>1. /\ status = "up" /\ appending = "idle" /\ handed' = handed + 1 /\ handed < MaxRecords
      /\ UNCHANGED <<disk, status, memory, secured>> /\ (wedged => appending' = "idle")
      /\ FilesOK(disk)
  BY DEF append, StoreInv
<1>2. UNCHANGED <<buffer, wedged>>
  BY <1>1 DEF memory
<1>3. /\ handed \in Nat /\ handed' \in Nat /\ handed' \in 0..MaxRecords
      /\ handed' # 0 /\ RecordsBelow(disk, handed')
  BY <1>1, StoreBounds DEF LogInv, RecordInv
<1>4. RecordsBelow(disk, handed' + 1)
  <2>1. \A n \in Nat : n + 1 \in Nat /\ n <= n + 1
    OBVIOUS
  <2> QED
    BY <1>1, <1>3, <2>1, BelowLater
<1>5. wedged => Unwritten \in 1..handed' /\ RecordsBelow(disk, Unwritten)
  BY <1>1, <1>3 DEF LogInv, RecordInv
<1>6. RecordInv'
  BY <1>1, <1>2, <1>3, <1>4, <1>5 DEF RecordInv, Unwritten
<1>7. LogInv'
  BY <1>1, <1>6 DEF LogInv
<1> QED
  BY <1>1, <1>7, QuietSame, QuietStep

(* A failed operation is a step of the log. *)
LEMMA LogFailed ==
    ASSUME StoreInv, LogInv, Failed, UNCHANGED <<status, handed>>
    PROVE  LogInv' /\ LogStep
<1>1. appending' = "idle" /\ UNCHANGED <<disk, memory, secured, status, handed>>
  BY DEF Failed
<1>2. UNCHANGED <<buffer, wedged>>
  BY <1>1 DEF memory
<1>3. LogInv'
  BY <1>1, <1>2 DEF LogInv, RecordInv, Unwritten
<1> QED
  BY <1>1, <1>3, QuietSame, QuietStep

(* A sync is a step of the log. *)
LEMMA LogSync ==
    ASSUME StoreInv, LogInv, Sync
    PROVE  LogInv' /\ LogStep
<1>1. appending = "sync" /\ UNCHANGED <<status, handed>>
  BY DEF Sync
<1>2. /\ status = "up" /\ UpOK /\ FilesOK(disk) /\ disk # <<>> /\ next_seq = End(disk)
      /\ ~wedged
  BY <1>1 DEF StoreInv, UpOK, StepOK, WedgeOK
<1>3. CASE Failed
  BY <1>1, <1>3, LogFailed
<1>4. CASE /\ disk' = [disk EXCEPT ![Active].synced = Len(disk[Active].cells)]
           /\ secured' = next_seq /\ appending' = "create" /\ UNCHANGED memory
  <2> DEFINE n == Len(disk)
  <2>1. UNCHANGED <<buffer, wedged>>
    BY <1>4 DEF memory
  <2>2. /\ Cut(disk, disk') /\ disk'[n].cells = disk[n].cells /\ disk' # <<>>
        /\ Len(disk') = n
        /\ disk'[n].synced = Len(disk'[n].cells) /\ disk'[n].first = disk[n].first
    BY <1>2, <1>4, SyncCuts DEF Active
  <2>3. W(disk', n) = W(disk, n)
    BY <2>2 DEF W
  <2>4. FilesOK(disk') /\ End(disk') = End(disk)
    BY <1>2, <2>2, <2>3, CutPart
  <2>5. disk[n].synced \div 2 <= disk'[n].synced \div 2
    <3>1. disk \in Seq(File) /\ n \in 1..n
      BY <1>2 DEF FilesOK, ShapeOK
    <3>2. /\ disk[n].synced \in Nat /\ Len(disk[n].cells) \in Nat
          /\ disk[n].synced <= Len(disk[n].cells)
      BY <1>2, <3>1, FileFacts DEF FilesOK, ShapeOK, ClosedOK
    <3> QED
      BY <2>2, <3>2, HalfMonotone
  <2>6. Quiet(disk, disk')
    BY <1>2, <2>2, <2>3, <2>5, QuietCut
  <2>7. SyncedEnd(disk') = End(disk)
    BY <2>2, <2>4, SyncedAll
  <2>8. /\ secured \in Nat /\ End(disk) \in Nat /\ secured <= End(disk)
    <3>1. SyncedEnd(disk) \in Nat /\ End(disk) \in Nat /\ SyncedEnd(disk) <= End(disk)
      BY <1>2, SyncedWithin
    <3>2. secured \in Nat /\ secured <= SyncedEnd(disk)
      BY DEF LogInv
    <3> QED
      BY <3>1, <3>2
  <2>9. RecordInv'
    BY <1>1, <1>2, <1>4, <2>1, <2>6 DEF Quiet, LogInv, RecordInv
  <2>10. LogInv'
    <3>1. secured' \in Nat /\ secured' <= SyncedEnd(disk')
      BY <1>2, <1>4, <2>7, <2>8
    <3> QED
      BY <2>9, <3>1 DEF LogInv
  <2>11. Abstract!Secure
    <3>1. Stored' = Stored /\ Len(Stored) = End(disk)
      BY <1>2, <2>6, StoredFacts DEF Quiet, Stored
    <3>2. secured' \in secured..Len(Stored)
      BY <1>2, <1>4, <2>8, <3>1
    <3> QED
      BY <3>1, <3>2 DEF Abstract!Secure
  <2> QED
    BY <2>10, <2>11 DEF LogStep, Abstract!LogNext
<1> QED
  BY <1>3, <1>4 DEF Sync

(* A new file is a step of the log. *)
LEMMA LogCreate ==
    ASSUME StoreInv, LogInv, Create
    PROVE  LogInv' /\ LogStep
<1>1. appending = "create" /\ UNCHANGED <<status, handed>>
  BY DEF Create
<1>2. /\ FilesOK(disk) /\ next_seq = End(disk) /\ ~wedged /\ HeadOK(disk, head)
      /\ disk # <<>> => /\ ~Torn(disk[Len(disk)].cells)
                        /\ disk[Len(disk)].synced = Len(disk[Len(disk)].cells)
  BY <1>1 DEF StoreInv, UpOK, WedgeOK, StepOK, TornTail
<1>3. CASE Failed
  BY <1>1, <1>3, LogFailed
<1> DEFINE taken == \E i \in DOMAIN disk : disk[i].first = next_seq
           e == Append(disk, NewFile(disk))
<1>4. CASE ~Failed
  <2>1. /\ disk' = (IF taken THEN disk ELSE e) /\ appending' = "write"
        /\ UNCHANGED <<wedged, secured>>
    BY <1>2, <1>4 DEF Create, NewFile
  <2>2. Quiet(disk, disk')
    <3>1. CASE taken
      BY <2>1, <3>1, QuietSame
    <3>2. CASE ~taken
      <4>1. /\ ShapeOK(disk) /\ disk \in Seq(File) /\ DOMAIN disk = 1..Len(disk)
            /\ Len(disk) \in Nat /\ End(disk) \in Nat
        BY <1>2, EndFacts DEF FilesOK, ShapeOK
      <4>2. disk # <<>> => W(disk, Len(disk)) > 0
        <5> SUFFICES ASSUME disk # <<>>, ~(W(disk, Len(disk)) > 0) PROVE FALSE
          OBVIOUS
        <5>1. Len(disk) \in 1..Len(disk) /\ End(disk) = disk[Len(disk)].first + W(disk, Len(disk))
          BY <4>1, EndFacts
        <5>2. disk[Len(disk)].first \in Nat /\ W(disk, Len(disk)) \in Nat
          BY <4>1, <5>1, FileFacts
        <5>3. disk[Len(disk)].first = End(disk)
          BY <5>1, <5>2
        <5> QED
          BY <1>2, <3>2, <4>1, <5>1, <5>3
      <4>3. /\ FilesOK(e) /\ End(e) = End(disk) /\ Len(e) = Len(disk) + 1
            /\ \A i \in 1..Len(disk) : e[i] = disk[i]
            /\ e[Len(disk) + 1] = NewFile(disk) /\ W(e, Len(disk) + 1) = 0
        BY <1>2, <4>2, NewFileOK
      <4>4. disk' = e
        BY <2>1, <3>2
      <4> HIDE DEF e
      <4>5. Part(disk, e)
        <5> SUFFICES ASSUME NEW i \in 1..Len(e), NEW k \in 1..W(e, i)
                     PROVE  \E j \in 1..Len(disk) : \E l \in 1..W(disk, j) :
                               /\ NumberOf(disk, j, l) = NumberOf(e, i, k)
                               /\ FrameOf(disk, j, l) = FrameOf(e, i, k)
          BY DEF Part
        <5>1. i \in 1..Len(disk) \/ i = Len(disk) + 1
          BY <4>1, <4>3
        <5>2. i # Len(disk) + 1
          BY <4>3
        <5>3. i \in 1..Len(disk) /\ e[i] = disk[i]
          BY <4>3, <5>1, <5>2
        <5>4. /\ k \in 1..W(disk, i) /\ NumberOf(disk, i, k) = NumberOf(e, i, k)
              /\ FrameOf(disk, i, k) = FrameOf(e, i, k)
          BY <5>3 DEF W, NumberOf, FrameOf
        <5> QED
          BY <5>3, <5>4
      <4>6. End(e) <= End(disk)
        BY <4>1, <4>3
      <4>7. StoredIn(e) = StoredIn(disk) /\ \A n : RecordsBelow(disk, n) => RecordsBelow(e, n)
        BY <1>2, <4>3, <4>5, <4>6, StoredPart, PartBelow
      <4>8. SyncedEnd(e) = End(disk)
        <5>1. e # <<>> /\ e[Len(e)] = NewFile(disk)
          BY <4>1, <4>3
        <5>2. SyncedEnd(e) = End(disk) + (0 \div 2)
          BY <5>1 DEF SyncedEnd, NewFile
        <5> QED
          BY <4>1, <5>2
      <4>9. \A n \in Nat : n <= SyncedEnd(disk) => n <= SyncedEnd(e)
        <5>1. SyncedEnd(disk) \in Nat /\ SyncedEnd(disk) <= End(disk)
          BY <1>2, SyncedWithin
        <5> QED
          BY <4>1, <4>8, <5>1
      <4> QED
        BY <4>4, <4>7, <4>9 DEF Quiet
    <3> QED
      BY <3>1, <3>2
  <2>3. secured' \in Nat /\ secured' <= SyncedEnd(disk')
    BY <2>1, <2>2 DEF Quiet, LogInv
  <2>4. RecordInv'
    BY <1>1, <1>2, <2>1, <2>2 DEF Quiet, LogInv, RecordInv
  <2> QED
    BY <2>1, <2>2, <2>3, <2>4, QuietStep DEF LogInv
<1> QED
  BY <1>3, <1>4

(* A write is a step of the log. *)
LEMMA LogWrite ==
    ASSUME StoreInv, LogInv, WriteFrame
    PROVE  LogInv' /\ LogStep
<1>1. /\ appending = "write" /\ appending' = "idle" /\ disk' = Written(CellsOf(Frame))
      /\ UNCHANGED <<status, wedged, handed, secured>>
  BY DEF WriteFrame
<1>2. /\ FilesOK(disk) /\ disk # <<>> /\ handed \in Nat /\ ~wedged
      /\ ~Torn(disk[Len(disk)].cells)
      /\ Frame \in StoredFrame /\ Frame.seq = End(disk) /\ Frame.record = handed
      /\ HeadOK(disk, Frame.prev)
  BY <1>1, AtWrite
<1>3. Grown(disk, disk', Frame) /\ disk'[Len(disk)].synced = disk[Len(disk)].synced
  BY <1>1, <1>2, WrittenFrame
<1>4. Adds(disk, disk', handed)
  BY <1>2, <1>3, AddsGrown
<1>5. /\ handed \in 1..MaxRecords /\ RecordsBelow(disk, handed)
      /\ RecordsBelow(disk, handed + 1) /\ handed < handed + 1
  BY <1>1, <1>2, StoreBounds DEF LogInv, RecordInv
<1>6. RecordsBelow(disk', handed + 1) /\ secured <= SyncedEnd(disk') /\ secured \in Nat
  BY <1>4, <1>5 DEF Adds, LogInv
<1>7. LogInv'
  BY <1>1, <1>2, <1>6 DEF LogInv, RecordInv
<1> QED
  BY <1>1, <1>2, <1>4, <1>5, <1>7, AddsStep

(* What a write leaves in the file: nothing the log sees, or the record. *)
LEMMA PartLogged ==
    ASSUME FilesOK(disk), disk # <<>>, ~Torn(disk[Len(disk)].cells),
           NEW f \in StoredFrame, f.seq = End(disk), HeadOK(disk, f.prev),
           NEW k \in 0..2, NEW e, e = Written(SubSeq(CellsOf(f), 1, k))
    PROVE  /\ k # 2 => Quiet(disk, e)
           /\ k = 2 => Adds(disk, e, f.record)
<1> DEFINE c == CellsOf(f)
<1>1. c \in Seq(Cell) /\ Len(c) = 2
  BY PartsOf
<1>2. /\ SubSeq(c, 1, 0) = <<>> /\ SubSeq(c, 1, 1) = <<c[1]>> /\ SubSeq(c, 1, 2) = c
  BY <1>1, SubPair
<1>3. CASE k = 0
  <2>1. e = disk
    BY <1>2, <1>3, WrittenNone
  <2> QED
    BY <1>3, <2>1, QuietSame
<1>4. CASE k = 1
  <2>1. e = Written(<<c[1]>>)
    BY <1>2, <1>4
  <2>2. /\ Cut(disk, e) /\ W(e, Len(disk)) = W(disk, Len(disk))
        /\ e[Len(disk)].synced = disk[Len(disk)].synced
    BY <2>1, WrittenHalf
  <2>3. disk[Len(disk)].synced \div 2 <= disk[Len(disk)].synced \div 2
    <3>1. disk \in Seq(File) /\ Len(disk) \in 1..Len(disk)
      BY DEF FilesOK, ShapeOK
    <3>2. disk[Len(disk)].synced \in Nat
      BY <3>1, FileFacts
    <3> QED
      BY <3>2
  <2>4. Quiet(disk, e)
    BY <2>2, <2>3, QuietCut
  <2> QED
    BY <1>4, <2>4
<1>5. CASE k = 2
  <2>1. e = Written(c)
    BY <1>2, <1>5
  <2>2. Grown(disk, e, f) /\ e[Len(disk)].synced = disk[Len(disk)].synced
    BY <2>1, WrittenFrame
  <2>3. Adds(disk, e, f.record)
    BY <2>2, AddsGrown
  <2> QED
    BY <1>5, <2>3
<1> QED
  BY <1>3, <1>4, <1>5

(* A write that fails half-way is a step of the log. *)
LEMMA LogWriteFails ==
    ASSUME StoreInv, LogInv, WriteFails
    PROVE  LogInv' /\ LogStep
<1> DEFINE c == CellsOf(Frame)
<1>1. /\ appending = "write" /\ appending' = "idle" /\ wedged' = TRUE
      /\ UNCHANGED <<status, handed, secured>>
  BY DEF WriteFails
<1>2. PICK k \in {0, 1} : /\ disk' = Written(SubSeq(c, 1, k))
                          /\ buffer' = SubSeq(c, k + 1, 2)
  BY DEF WriteFails
<1>3. /\ FilesOK(disk) /\ disk # <<>> /\ handed \in Nat /\ ~Torn(disk[Len(disk)].cells)
      /\ Frame \in StoredFrame /\ Frame.seq = End(disk) /\ Frame.record = handed
      /\ HeadOK(disk, Frame.prev)
  BY <1>1, AtWrite
<1>4. Quiet(disk, disk')
  <2>1. k \in 0..2 /\ k # 2
    BY <1>2
  <2> QED
    BY <1>2, <1>3, <2>1, PartLogged
<1>5. Unwritten' = handed
  <2>1. c \in Seq(Cell) /\ Len(c) = 2 /\ c[2] = [frame |-> Frame, part |-> "body"] /\ c[2] \in Cell
    BY <1>3, PartsOf
  <2>2. SubSeq(c, 1, 2) = c /\ SubSeq(c, 2, 2) = <<c[2]>>
    BY <2>1, SubPair
  <2> HIDE DEF c
  <2>3. buffer'[Len(buffer')] = c[2]
    <3>1. CASE k = 0
      <4>1. buffer' = c
        BY <1>2, <2>2, <3>1
      <4> QED
        BY <2>1, <4>1
    <3>2. CASE k = 1
      <4>1. buffer' = <<c[2]>>
        BY <1>2, <2>2, <3>2
      <4>2. Len(<<c[2]>>) = 1 /\ <<c[2]>>[1] = c[2]
        BY <2>1, PairFacts
      <4> QED
        BY <4>1, <4>2
    <3> QED
      BY <3>1, <3>2
  <2> QED
    BY <1>3, <2>1, <2>3 DEF Unwritten
<1>6. /\ handed \in 1..handed /\ handed \in 0..MaxRecords /\ RecordsBelow(disk, handed)
      /\ RecordsBelow(disk, handed + 1)
  BY <1>1, <1>3 DEF LogInv, RecordInv
<1>7. /\ RecordsBelow(disk', handed) /\ RecordsBelow(disk', handed + 1)
      /\ secured \in Nat /\ secured <= SyncedEnd(disk')
  BY <1>4, <1>6 DEF Quiet, LogInv
<1>8. LogInv'
  BY <1>1, <1>5, <1>6, <1>7 DEF LogInv, RecordInv
<1> QED
  BY <1>1, <1>4, <1>8, QuietStep

(* Going down with quiet files, or with one record added. *)
LEMMA DownLog ==
    ASSUME StoreInv, LogInv, GoDown, secured' = secured,
           \/ Quiet(disk, disk')
           \/ \E r \in 1..handed : Adds(disk, disk', r) /\ RecordsBelow(disk, r)
    PROVE  LogInv' /\ LogStep
<1>1. /\ status' = "down" /\ appending' = "idle" /\ handed' = handed /\ FilesOK(disk)
  BY DEF GoDown, StoreInv
<1>2. handed \in 0..MaxRecords /\ RecordsBelow(disk, handed + 1) /\ secured \in Nat
  BY DEF LogInv, RecordInv
<1>3. CASE Quiet(disk, disk')
  <2>1. RecordsBelow(disk', handed + 1) /\ secured <= SyncedEnd(disk')
    BY <1>2, <1>3 DEF Quiet, LogInv
  <2>2. LogInv'
    BY <1>1, <1>2, <2>1 DEF LogInv, RecordInv
  <2> QED
    BY <1>3, <2>2, QuietStep
<1>4. CASE \E r \in 1..handed : Adds(disk, disk', r) /\ RecordsBelow(disk, r)
  <2>1. PICK r \in 1..handed : Adds(disk, disk', r) /\ RecordsBelow(disk, r)
    BY <1>4
  <2>2. r \in 1..MaxRecords /\ r < handed + 1
    BY <1>2, <2>1, StoreBounds
  <2>3. RecordsBelow(disk', handed + 1) /\ secured <= SyncedEnd(disk')
    BY <1>2, <2>1, <2>2 DEF Adds, LogInv
  <2>4. LogInv'
    BY <1>1, <1>2, <2>3 DEF LogInv, RecordInv
  <2> QED
    BY <1>1, <2>1, <2>2, <2>4, AddsStep
<1> QED
  BY <1>3, <1>4

(* A kill is a step of the log. *)
LEMMA LogKill ==
    ASSUME StoreInv, LogInv, Kill
    PROVE  LogInv' /\ LogStep
<1>1. GoDown /\ secured' = secured /\ FilesOK(disk)
  BY DEF StoreInv, Kill
<1>2. PICK k \in (IF appending = "write" THEN 0..2 ELSE {0}) :
         disk' = IF k = 0 THEN disk ELSE Written(SubSeq(CellsOf(Frame), 1, k))
  BY DEF Kill
<1>3. CASE k = 0
  <2>1. Quiet(disk, disk')
    BY <1>2, <1>3, QuietSame
  <2> QED
    BY <1>1, <2>1, DownLog
<1>4. CASE k # 0
  <2>1. appending = "write" /\ k \in 0..2 /\ disk' = Written(SubSeq(CellsOf(Frame), 1, k))
    BY <1>2, <1>4
  <2>2. /\ disk # <<>> /\ ~Torn(disk[Len(disk)].cells) /\ Frame \in StoredFrame
        /\ Frame.seq = End(disk) /\ HeadOK(disk, Frame.prev) /\ Frame.record = handed
        /\ handed \in Nat
    BY <2>1, AtWrite
  <2>3. (k # 2 => Quiet(disk, disk')) /\ (k = 2 => Adds(disk, disk', handed))
    BY <1>1, <2>1, <2>2, PartLogged
  <2>4. handed \in 1..handed /\ RecordsBelow(disk, handed)
    BY <2>1, <2>2 DEF LogInv, RecordInv
  <2> QED
    BY <1>1, <2>3, <2>4, DownLog
<1> QED
  BY <1>3, <1>4

(* A drop of the store is a step of the log. *)
LEMMA LogDrop ==
    ASSUME StoreInv, LogInv, DropStore
    PROVE  LogInv' /\ LogStep
<1>1. /\ status = "up" /\ GoDown /\ secured' = secured /\ FilesOK(disk)
      /\ UpOK /\ handed \in Nat
  BY DEF StoreInv, DropStore
<1>2. PICK k \in 0..Len(buffer) :
         disk' = IF disk = <<>> THEN disk ELSE Written(SubSeq(buffer, 1, k))
  BY DEF DropStore
<1>3. CASE disk = <<>>
  <2>1. Quiet(disk, disk')
    BY <1>2, <1>3, QuietSame
  <2> QED
    BY <1>1, <2>1, DownLog
<1>4. CASE disk # <<>> /\ ~wedged
  <2>1. buffer = <<>>
    BY <1>1, <1>4 DEF UpOK, WedgeOK
  <2>2. SubSeq(buffer, 1, k) = <<>>
    <3>1. k = 0
      BY <1>2, <2>1
    <3> QED
      BY <2>1, <3>1
  <2>3. disk' = disk
    BY <1>1, <1>2, <1>4, <2>2, WrittenNone
  <2> QED
    BY <1>1, <2>3, QuietSame, DownLog
<1>5. CASE disk # <<>> /\ wedged
  <2> DEFINE F(n) == encode_frame(n, next_seq, head)
  <2>1. PICK n \in 0..handed :
           \/ ~TornTail /\ buffer = CellsOf(F(n))
           \/ /\ TornTail /\ buffer = <<CellsOf(F(n))[2]>>
              /\ disk[Len(disk)].cells[2 * W(disk, Len(disk)) + 1] = CellsOf(F(n))[1]
    BY <1>1, <1>5 DEF UpOK, WedgeOK
  <2> DEFINE f == F(n)
             c == CellsOf(f)
  <2>2. f \in StoredFrame /\ f.seq = End(disk) /\ HeadOK(disk, f.prev) /\ f.record = n
    <3>1. n \in Nat
      BY <1>1, <2>1
    <3> QED
      BY <1>1, <3>1, NextFrame
  <2>3. /\ c \in Seq(Cell) /\ Len(c) = 2 /\ c[2] \in Cell
        /\ c[2] = [frame |-> f, part |-> "body"]
    BY <2>2, PartsOf
  <2>4. n \in 1..handed /\ RecordsBelow(disk, n)
    <3>1. Unwritten \in 1..handed /\ RecordsBelow(disk, Unwritten)
      BY <1>1, <1>5 DEF LogInv, RecordInv
    <3>2. buffer[Len(buffer)] = c[2]
      <4>1. buffer = c \/ buffer = <<c[2]>>
        BY <2>1
      <4> HIDE DEF c
      <4>2. Len(<<c[2]>>) = 1 /\ <<c[2]>>[1] = c[2]
        BY <2>3, PairFacts
      <4> QED
        BY <2>3, <4>1, <4>2
    <3>3. Unwritten = n
      <4> HIDE DEF c, f
      <4> QED
        BY <2>2, <2>3, <3>2 DEF Unwritten
    <3> QED
      BY <3>1, <3>3
  <2>5. CASE ~TornTail
    <3>1. buffer = c
      BY <2>1, <2>5
    <3>2. k \in 0..2 /\ disk' = Written(SubSeq(c, 1, k))
      BY <1>2, <1>5, <2>3, <3>1
    <3>3. (k # 2 => Quiet(disk, disk')) /\ (k = 2 => Adds(disk, disk', n))
      BY <1>1, <1>5, <2>2, <2>5, <3>2, PartLogged DEF TornTail
    <3> QED
      BY <1>1, <2>4, <3>3, DownLog
  <2>6. CASE TornTail
    <3>1. /\ buffer = <<c[2]>>
          /\ disk[Len(disk)].cells[2 * W(disk, Len(disk)) + 1] = c[1]
      BY <2>1, <2>6
    <3> HIDE DEF c
    <3>2. buffer \in Seq(Cell) /\ Len(buffer) = 1
      BY <2>3, <3>1, PairFacts
    <3>3. k \in 0..1
      BY <1>2, <3>2
    <3>4. SubSeq(buffer, 1, 0) = <<>> /\ SubSeq(buffer, 1, 1) = buffer
      BY <3>2
    <3>5. CASE k = 0
      <4>1. disk' = disk
        BY <1>1, <1>2, <1>5, <3>4, <3>5, WrittenNone
      <4> QED
        BY <1>1, <4>1, QuietSame, DownLog
    <3>6. CASE k = 1
      <4>1. disk' = Written(<<c[2]>>)
        BY <1>2, <1>5, <3>1, <3>4, <3>6
      <4>2. Grown(disk, disk', f) /\ disk'[Len(disk)].synced = disk[Len(disk)].synced
        BY <1>1, <1>5, <2>2, <2>6, <3>1, <4>1, WrittenFrame DEF TornTail, c
      <4>3. Adds(disk, disk', n)
        BY <1>1, <2>2, <4>2, AddsGrown
      <4> QED
        BY <1>1, <2>4, <4>3, DownLog
    <3> QED
      BY <3>3, <3>5, <3>6
  <2> QED
    BY <2>5, <2>6
<1> QED
  BY <1>3, <1>4, <1>5

(* Without its last file, of which nothing was synced, a log ends at the   *)
(* end of what was.                                                        *)
LEMMA DroppedEnd ==
    ASSUME NEW d, NEW e, FilesOK(d), e \in Seq(File), FilesOK(e), Len(d) > 0,
           Len(e) = Len(d) - 1, \A i \in 1..Len(e) : e[i] = d[i],
           d[Len(d)].synced = 0
    PROVE  /\ Part(d, e) /\ End(e) = SyncedEnd(d) /\ SyncedEnd(e) = SyncedEnd(d)
<1> DEFINE n == Len(d)
<1>1. /\ ShapeOK(d) /\ d \in Seq(File) /\ n \in Nat /\ n \in 1..n /\ Len(e) = n - 1
      /\ d # <<>> /\ d[n].first \in Nat
  <2>1. ShapeOK(d) /\ d \in Seq(File) /\ n \in Nat /\ n \in 1..n
    BY DEF FilesOK, ShapeOK
  <2> QED
    BY <2>1, FileFacts
<1>2. SyncedEnd(d) = d[n].first
  <2>1. SyncedEnd(d) = d[n].first + (0 \div 2)
    BY <1>1 DEF SyncedEnd
  <2> QED
    BY <1>1, <2>1
<1>3. \A i \in 1..Len(e) : i \in 1..n /\ i < n
  <2> HIDE DEF n
  <2> QED
    BY <1>1
<1>4. Part(d, e)
  <2> SUFFICES ASSUME NEW i \in 1..Len(e), NEW k \in 1..W(e, i)
               PROVE  \E j \in 1..Len(d) : \E l \in 1..W(d, j) :
                         /\ NumberOf(d, j, l) = NumberOf(e, i, k)
                         /\ FrameOf(d, j, l) = FrameOf(e, i, k)
    BY DEF Part
  <2>1. i \in 1..Len(d) /\ e[i] = d[i]
    BY <1>3
  <2>2. /\ k \in 1..W(d, i) /\ NumberOf(d, i, k) = NumberOf(e, i, k)
        /\ FrameOf(d, i, k) = FrameOf(e, i, k)
    BY <2>1 DEF W, NumberOf, FrameOf
  <2> QED
    BY <2>1, <2>2
<1>5. CASE n = 1
  <2>1. e = <<>>
    BY <1>1, <1>5
  <2>2. d[n].first = 0
    BY <1>1, <1>5 DEF ShapeOK, Adjacent
  <2> QED
    BY <1>2, <1>4, <2>1, <2>2 DEF End, SyncedEnd
<1>6. CASE n # 1
  <2>1. n - 1 \in 1..Len(e) /\ e # <<>> /\ n - 1 \in 1..n /\ n - 1 < n
    <3>1. n - 1 \in 1..Len(e)
      BY <1>1, <1>6
    <3>2. e # <<>>
      BY <1>1, <3>1
    <3> QED
      BY <1>3, <3>1, <3>2
  <2>2. d[n].first = d[n - 1].first + W(d, n - 1)
    BY <1>1, <1>6 DEF ShapeOK, Adjacent
  <2>3. e[n - 1] = d[n - 1]
    BY <2>1
  <2>4. End(e) = d[n].first
    <3>1. End(e) = e[Len(e)].first + W(e, Len(e))
      BY <2>1, EndFacts DEF FilesOK
    <3> QED
      BY <1>1, <2>2, <2>3, <3>1 DEF W
  <2>5. e[Len(e)].synced = Len(e[Len(e)].cells)
    <3>1. d[n - 1].synced = Len(d[n - 1].cells)
      BY <1>1, <2>1 DEF ShapeOK, ClosedOK
    <3> QED
      BY <1>1, <2>3, <3>1
  <2>6. SyncedEnd(e) = End(e)
    BY <2>1, <2>5, SyncedAll
  <2> QED
    BY <1>2, <1>4, <2>4, <2>6
<1> QED
  BY <1>5, <1>6

(* A power failure is a step of the log. *)
LEMMA LogPowerFailure ==
    ASSUME StoreInv, LogInv, PowerFailure
    PROVE  LogInv' /\ LogStep
<1>1. /\ GoDown /\ FilesOK(disk) /\ AckOK(disk, acked) /\ disk' \in AfterPowerFailure
      /\ secured' = secured
  BY DEF StoreInv, PowerFailure
<1>2. /\ status' = "down" /\ appending' = "idle" /\ handed' = handed
  BY <1>1 DEF GoDown
<1>3. /\ FilesOK(disk') /\ Part(disk, disk') /\ End(disk') <= End(disk)
      /\ SyncedEnd(disk') = SyncedEnd(disk)
  <2>1. CASE disk = <<>> /\ disk' = <<>>
    <3>1. End(disk) <= End(disk)
      BY <1>1, SyncedWithin
    <3>2. Part(disk, disk)
      BY DEF Part
    <3> QED
      BY <1>1, <2>1, <3>1, <3>2
  <2>2. CASE Cut(disk, disk') /\ disk'[Len(disk)].synced = disk[Len(disk)].synced
    <3>1. FilesOK(disk') /\ Part(disk, disk') /\ End(disk') <= End(disk)
      BY <1>1, <2>2, CutPart
    <3>2. /\ Len(disk') = Len(disk) /\ Len(disk) > 0
          /\ disk'[Len(disk)].first = disk[Len(disk)].first
      BY <2>2 DEF Cut, SameBut
    <3>3. disk # <<>> /\ disk' # <<>>
      BY <3>2
    <3>4. SyncedEnd(disk') = SyncedEnd(disk)
      BY <2>2, <3>2, <3>3 DEF SyncedEnd
    <3> QED
      BY <3>1, <3>4
  <2>3. CASE /\ disk' \in Seq(File) /\ Len(disk) > 0 /\ Len(disk') = Len(disk) - 1
             /\ \A i \in 1..Len(disk') : disk'[i] = disk[i]
             /\ disk[Len(disk)].synced = 0
    <3>1. FilesOK(disk')
      BY <1>1, <2>3, DroppedOK
    <3>2. /\ Part(disk, disk') /\ End(disk') = SyncedEnd(disk)
          /\ SyncedEnd(disk') = SyncedEnd(disk)
      BY <1>1, <2>3, <3>1, DroppedEnd
    <3>3. SyncedEnd(disk) <= End(disk)
      BY <1>1, SyncedWithin
    <3> QED
      BY <3>1, <3>2, <3>3
  <2> QED
    BY <1>1, <2>1, <2>2, <2>3, FailureCuts
<1>4. secured \in Nat /\ secured <= SyncedEnd(disk') /\ secured <= End(disk')
  <2>1. secured \in Nat /\ secured <= SyncedEnd(disk')
    BY <1>3 DEF LogInv
  <2>2. SyncedEnd(disk') \in Nat /\ End(disk') \in Nat /\ SyncedEnd(disk') <= End(disk')
    BY <1>3, SyncedWithin
  <2>3. \A a, b, c \in Nat : a <= b /\ b <= c => a <= c
    OBVIOUS
  <2> QED
    BY <2>1, <2>2, <2>3
<1>5. LogInv'
  <2>1. handed \in 0..MaxRecords /\ RecordsBelow(disk', handed + 1)
    BY <1>3, PartBelow DEF LogInv, RecordInv
  <2> QED
    BY <1>1, <1>2, <1>4, <2>1 DEF LogInv, RecordInv
<1>6. Abstract!LoseTail
  <2>1. Stored' = SubSeq(Stored, 1, End(disk'))
    BY <1>1, <1>3, StoredPart DEF Stored
  <2>2. Len(Stored) = End(disk) /\ End(disk) \in Nat /\ End(disk') \in Nat
    BY <1>1, <1>3, StoredFacts DEF Stored
  <2>3. \A a, b, c \in Nat : a <= b /\ b <= c => b \in a..c
    OBVIOUS
  <2>4. End(disk') \in secured..Len(Stored)
    BY <1>3, <1>4, <2>2, <2>3
  <2> QED
    BY <1>1, <2>1, <2>4 DEF Abstract!LoseTail
<1> QED
  BY <1>5, <1>6 DEF LogStep, Abstract!LogNext

(* Both specifications start alike. *)
LEMMA LogStarts == StoreInit => LogInv /\ Abstract!LogInit
<1> SUFFICES ASSUME StoreInit PROVE LogInv /\ Abstract!LogInit
  OBVIOUS
<1>1. /\ disk = <<>> /\ status = "down" /\ appending = "idle" /\ handed = 0 /\ secured = 0
  BY DEF StoreInit
<1>2. Len(<<>>) = 0 /\ End(<<>>) = 0 /\ SyncedEnd(<<>>) = 0
  BY DEF End, SyncedEnd
<1>3. RecordsBelow(<<>>, 1)
  BY <1>2 DEF RecordsBelow
<1>4. LogInv
  BY <1>1, <1>2, <1>3, StoreBounds DEF LogInv, RecordInv
<1>5. Stored = <<>>
  <2>1. FilesOK(disk)
    BY StoreStarts DEF StoreInv
  <2>2. Stored \in Seq(Nat) /\ Len(Stored) = 0
    BY <1>1, <1>2, <2>1, StoredFacts DEF Stored
  <2> QED
    BY <2>2
<1> QED
  BY <1>1, <1>4, <1>5 DEF Abstract!LogInit

(* Every step is a step of the log. *)
LEMMA LogNextStep == StoreInv /\ LogInv /\ [StoreNext]_storevars => LogInv' /\ LogStep
<1> SUFFICES ASSUME StoreInv, LogInv, [StoreNext]_storevars PROVE LogInv' /\ LogStep
  OBVIOUS
<1>1. CASE open
  BY <1>1, LogOpen
<1>2. CASE append
  BY <1>2, LogAppend
<1>3. CASE Sync
  BY <1>3, LogSync
<1>4. CASE Create
  BY <1>4, LogCreate
<1>5. CASE EncodeFrameFails
  BY <1>5, LogFailed DEF EncodeFrameFails
<1>6. CASE WriteFrame
  BY <1>6, LogWrite
<1>7. CASE WriteFails
  BY <1>7, LogWriteFails
<1>8. CASE DropStore
  BY <1>8, LogDrop
<1>9. CASE Kill
  BY <1>9, LogKill
<1>10. CASE PowerFailure
  BY <1>10, LogPowerFailure
<1>11. CASE UNCHANGED storevars
  <2>1. UNCHANGED <<disk, status, appending, handed, secured, wedged, buffer>>
    BY <1>11 DEF storevars, memory
  <2>2. LogInv'
    BY <2>1 DEF LogInv, RecordInv, Unwritten
  <2> QED
    BY <2>1, <2>2, QuietSame, QuietStep
<1> QED
  BY <1>1, <1>2, <1>3, <1>4, <1>5, <1>6, <1>7, <1>8, <1>9, <1>10, <1>11 DEF StoreNext

(***************************************************************************)
(* The file store implements the append-only log, for every segment size   *)
(* and any number of records and crashes: a reopen finds the records in    *)
(* the order they were handed to append, none twice, none between others,  *)
(* also after a failed write whose rest the BufWriter wrote out on drop;   *)
(* and a power failure takes records off the end only, never one that      *)
(* rotate_if_needed has synced.                                            *)
(***************************************************************************)
THEOREM StoreImplementsLog == StoreSpec => ImplementsLog
<1>1. StoreInit => StoreInv /\ LogInv /\ Abstract!LogInit
  BY StoreStarts, LogStarts
<1>2. StoreInv /\ LogInv /\ [StoreNext]_storevars
        => StoreInv' /\ LogInv' /\ [Abstract!LogNext]_(Abstract!log_vars)
  BY StoreStep, LogNextStep DEF LogStep
<1> QED
  BY <1>1, <1>2, PTL DEF StoreSpec, ImplementsLog, Abstract!LogSpec
=============================================================================
