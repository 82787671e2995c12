---------------------------- MODULE RemoteProofs ----------------------------
(***************************************************************************)
(* What lies behind the decision tap: the gateway's buffer, its clients'   *)
(* cursors, their connections and the legs of the tee, each by an          *)
(* inductive invariant of its own.  The capacities, the numbers of         *)
(* clients, peers, records and requests and the bounds of the model        *)
(* checker are arbitrary.                                                  *)
(***************************************************************************)
EXTENDS DecisionTee, RemoteGateway, RemoteConnections,
        SequenceTheorems, FiniteSetTheorems, TLAPS

-----------------------------------------------------------------------------
(***************************************************************************)
(* The gateway's buffer holds the newest records of its tap under their    *)
(* own numbers.  The inductive invariant adds where the records still in   *)
(* the channel belong: right behind the newest buffered one.               *)
(***************************************************************************)
(* The types the argument needs, without the bounds of the model checker. *)
BufferTypes ==
    /\ sent \in Nat /\ tap \in Seq(Nat)
    /\ next_seq \in Nat \ {0} /\ events \in Seq([seq : Nat, record : Nat])

(* The channel holds the records after the newest one buffered. *)
TapFollowsBuffer ==
    /\ sent = head_seq + Len(tap)
    /\ \A i \in 1..Len(tap) : tap[i] = head_seq + i

BufferInv == BufferTypes /\ TapFollowsBuffer /\ BufferIsNewest

(* EventBuffer::new clamps the capacity to at least one. *)
LEMMA CapIsPositive == cap \in Nat \ {0}
  BY CapsAreNat DEF cap

(* An empty buffer and an empty channel satisfy the invariant. *)
LEMMA InitBufferInv == Init => BufferInv
<1> SUFFICES ASSUME Init PROVE BufferInv
  OBVIOUS
<1>1. /\ tap = <<>> /\ Len(tap) = 0 /\ events = <<>> /\ Len(events) = 0
      /\ sent = 0 /\ next_seq = 1 /\ head_seq = 0
  BY DEF Init, head_seq
<1>2. BufferTypes
  BY <1>1 DEF BufferTypes
<1>3. TapFollowsBuffer /\ BufferIsNewest
  BY <1>1, CapIsPositive DEF TapFollowsBuffer, BufferIsNewest
<1> QED BY <1>2, <1>3 DEF BufferInv

(* A step that moves no record keeps the invariant. *)
LEMMA QuietStep ==
  ASSUME BufferInv, UNCHANGED <<sent, tap, events, next_seq>>
  PROVE  BufferInv'
  BY DEF BufferInv, BufferTypes, TapFollowsBuffer, BufferIsNewest, head_seq

(* A record enters the channel behind the others. *)
LEMMA EmitStep == BufferInv /\ Emit => BufferInv'
<1> SUFFICES ASSUME BufferInv, Emit PROVE BufferInv'
  OBVIOUS
<1>1. /\ sent' = sent + 1 /\ tap' = Append(tap, sent + 1)
      /\ UNCHANGED <<events, next_seq>> /\ head_seq' = head_seq
  BY DEF Emit, buffer, head_seq
<1>2. sent \in Nat /\ tap \in Seq(Nat) /\ head_seq \in Nat /\ Len(tap) \in Nat
  BY DEF BufferInv, BufferTypes, head_seq
<1>3. BufferTypes'
  BY <1>1, <1>2 DEF BufferInv, BufferTypes
<1>4. TapFollowsBuffer'
  <2>1. Len(tap') = Len(tap) + 1 /\ sent = head_seq + Len(tap)
    BY <1>1, <1>2 DEF BufferInv, TapFollowsBuffer
  <2>2. ASSUME NEW i \in 1..Len(tap') PROVE tap'[i] = head_seq + i
    <3>1. CASE i = Len(tap) + 1
      BY <3>1, <2>1, <1>1, <1>2
    <3>2. CASE i \in 1..Len(tap)
      BY <3>2, <1>1, <1>2 DEF BufferInv, TapFollowsBuffer
    <3> QED BY <3>1, <3>2, <2>1, <1>2
  <2> QED BY <2>1, <2>2, <1>1, <1>2 DEF TapFollowsBuffer
<1>5. BufferIsNewest'
  BY <1>1, <1>2, <1>4 DEF BufferInv, BufferIsNewest, TapFollowsBuffer
<1> QED BY <1>3, <1>4, <1>5 DEF BufferInv

(* push_record: the next record gets the next number, the oldest event     *)
(* makes room when the buffer is full.                                     *)
LEMMA BufferRecordStep == BufferInv /\ BufferRecord => BufferInv'
<1> SUFFICES ASSUME BufferInv, BufferRecord PROVE BufferInv'
  OBVIOUS
<1> DEFINE n == Len(events)
           rest == IF n = cap THEN Tail(events) ELSE events
           e == [seq |-> next_seq, record |-> Head(tap)]
<1>1. /\ tap # <<>> /\ tap' = Tail(tap) /\ sent' = sent
      /\ next_seq' = next_seq + 1 /\ events' = Append(rest, e)
  BY DEF BufferRecord, push_record
<1>2. /\ sent \in Nat /\ tap \in Seq(Nat) /\ next_seq \in Nat \ {0}
      /\ events \in Seq([seq : Nat, record : Nat])
      /\ n \in Nat /\ n <= cap /\ cap \in Nat \ {0}
  BY CapIsPositive DEF BufferInv, BufferTypes, BufferIsNewest
<1>3. /\ head_seq = next_seq - 1 /\ head_seq' = next_seq
      /\ sent = head_seq + Len(tap) /\ Len(tap) \in Nat \ {0}
      /\ Head(tap) = next_seq
  <2>1. Len(tap) \in Nat \ {0} /\ Head(tap) = tap[1]
    BY <1>1, <1>2
  <2>2. head_seq = next_seq - 1 /\ head_seq' = next_seq
    BY <1>1, <1>2 DEF head_seq
  <2>3. sent = head_seq + Len(tap) /\ tap[1] = head_seq + 1
    BY <2>1 DEF BufferInv, TapFollowsBuffer
  <2> QED BY <2>1, <2>2, <2>3, <1>2
<1>4. /\ rest \in Seq([seq : Nat, record : Nat])
      /\ Len(rest) = (IF n = cap THEN n - 1 ELSE n)
      /\ \A i \in 1..Len(rest) :
            rest[i] = events[IF n = cap THEN i + 1 ELSE i]
  BY <1>2
<1>5. \A i \in 1..n : events[i].seq = next_seq - 1 - n + i
                      /\ events[i].record = events[i].seq
  BY <1>3 DEF BufferInv, BufferIsNewest
<1>6. e.seq = next_seq /\ e.record = next_seq
      /\ e \in [seq : Nat, record : Nat]
  BY <1>2, <1>3
<1>7. n = (IF next_seq - 1 < cap THEN next_seq - 1 ELSE cap)
  BY <1>3 DEF BufferInv, BufferIsNewest
<1> HIDE DEF n, rest, e
<1>8. /\ events' \in Seq([seq : Nat, record : Nat])
      /\ Len(events') = Len(rest) + 1 /\ events'[Len(rest) + 1] = e
      /\ \A i \in 1..Len(rest) : events'[i] = rest[i]
  BY <1>1, <1>4, <1>6
<1>9. BufferTypes'
  BY <1>1, <1>2, <1>8 DEF BufferTypes
<1>10. TapFollowsBuffer'
  <2>1. Len(tap') = Len(tap) - 1
        /\ \A i \in 1..Len(tap') : tap'[i] = tap[i + 1]
    BY <1>1, <1>2
  <2>2. ASSUME NEW i \in 1..Len(tap') PROVE tap'[i] = head_seq' + i
    <3>1. i + 1 \in 1..Len(tap)
      BY <2>1, <1>3
    <3>2. tap[i + 1] = head_seq + (i + 1)
      BY <3>1 DEF BufferInv, TapFollowsBuffer
    <3> QED BY <3>2, <2>1, <1>3, <1>2
  <2> QED BY <2>1, <2>2, <1>1, <1>2, <1>3 DEF TapFollowsBuffer
<1>11. BufferIsNewest'
  <2>1. Len(events') = (IF next_seq < cap THEN next_seq ELSE cap)
        /\ Len(events') <= cap /\ Len(rest) \in Nat
    BY <1>2, <1>4, <1>7, <1>8
  <2>2. ASSUME NEW i \in 1..Len(events')
        PROVE  events'[i].seq = next_seq - Len(events') + i
               /\ events'[i].record = events'[i].seq
    <3>1. CASE i = Len(rest) + 1
      BY <3>1, <1>2, <1>6, <1>8, <2>1
    <3>2. CASE i \in 1..Len(rest)
      <4> DEFINE j == IF n = cap THEN i + 1 ELSE i
      <4>1. events'[i] = events[j] /\ j \in 1..n
        BY <3>2, <1>2, <1>4, <1>8
      <4>2. next_seq - 1 - n + j = next_seq - Len(events') + i
        BY <3>2, <1>2, <1>4, <1>8
      <4> QED BY <4>1, <4>2, <1>5
    <3> QED BY <3>1, <3>2, <1>8, <2>1
  <2> QED BY <2>1, <2>2, <1>3, <1>10
         DEF BufferIsNewest, TapFollowsBuffer
<1> QED BY <1>9, <1>10, <1>11 DEF BufferInv

(* Every other action leaves the channel's records and the buffer alone. *)
LEMMA StepBufferInv == BufferInv /\ [Next]_vars => BufferInv'
<1> SUFFICES ASSUME BufferInv, [Next]_vars PROVE BufferInv'
  OBVIOUS
<1>1. CASE Emit
  BY <1>1, EmitStep
<1>2. CASE BufferRecord
  BY <1>2, BufferRecordStep
<1>3. CASE DropSenders \/ Cancel \/ StopGateway
  BY <1>3, QuietStep DEF DropSenders, Cancel, StopGateway, channel, buffer
<1>4. CASE ServeRequest \/ Fail
  BY <1>4, QuietStep DEF ServeRequest, Fail, channel, buffer
<1>5. ASSUME NEW c \in Clients, Client(c) PROVE BufferInv'
  <2>1. UNCHANGED <<channel, buffer>>
    BY <1>5 DEF Client, Request, Receive, ReceiveFailure, DiscardLate, Timeout
  <2> QED BY <2>1, QuietStep DEF channel, buffer
<1>6. CASE UNCHANGED vars
  BY <1>6, QuietStep DEF vars, channel, buffer
<1> QED BY <1>1, <1>2, <1>3, <1>4, <1>5, <1>6 DEF Next, Gateway

(***************************************************************************)
(* The buffer always holds the newest min(cap, head_seq) records, each     *)
(* under its own number, so numbers are never reused and what is evicted   *)
(* is always the oldest (EventBuffer::push_record, remote.rs).             *)
(***************************************************************************)
THEOREM BufferAlwaysNewest == Spec => []BufferIsNewest
<1>1. BufferInv => BufferIsNewest
  BY DEF BufferInv
<1> QED BY <1>1, InitBufferInv, StepBufferInv, PTL DEF Spec

-----------------------------------------------------------------------------
(***************************************************************************)
(* The clients' cursors.                                                   *)
(***************************************************************************)
Event == [seq : Nat, record : Nat]

CallTypes ==
    /\ requests \in [Clients -> Nat] /\ DOMAIN call = Clients
    /\ \A c \in Clients : call[c].id \in Nat /\ call[c].id <= requests[c]
    /\ cursor \in [Clients -> Nat] /\ got \in [Clients -> Seq(Event)]
    /\ DOMAIN missed = Clients

(* Message m answers, or asks for, what its client waits for. *)
Awaited(m) == Awaits(m.client) /\ Mine(m.client, m)

(* Everything up to this number may have been evicted. *)
Evicted == head_seq - cap

(* evs goes on after cursor cur: numbers in a row under their records, and *)
(* what lies between is at most lim.                                       *)
Continues(evs, cur, lim) ==
    /\ evs \in Seq(Event)
    /\ evs # <<>> =>
          /\ evs[1].seq > cur
          /\ \A i \in 1..Len(evs) : /\ evs[i].seq = evs[1].seq + i - 1
                                    /\ evs[i].record = evs[i].seq
          /\ \A s \in (cur + 1)..(evs[1].seq - 1) : s <= lim

NetOK(m) ==
    /\ m.client \in Clients /\ m.id \in 1..requests[m.client]
    /\ m.type = "request" /\ Awaited(m) =>
          m.request.last_seq = cursor[m.client]
    /\ m.type = "response" /\ Awaited(m) =>
          Continues(m.reply.events, cursor[m.client], Evicted)

(* The events g and the gaps ms account for 1..cur, the gaps up to lim. *)
Accounts(g, ms, cur, lim) ==
    /\ {g[i].seq : i \in 1..Len(g)} \union ms = 1..cur
    /\ Len(g) + Cardinality(ms) = cur
    /\ \A i \in 1..Len(g) : g[i].record = g[i].seq
    /\ \A s \in ms : s <= lim

CursorInv ==
    /\ CallTypes
    /\ \A m \in net : NetOK(m)
    /\ \A c \in Clients : Accounts(got[c], missed[c], cursor[c], Evicted)

(* A filter that keeps the positions from a on returns the rest from a on. *)
LEMMA PickedSuffix ==
    ASSUME NEW S, NEW s \in Seq(S), NEW a \in 1..(Len(s) + 1)
    PROVE  /\ Picked(s, a..Len(s)) \in Seq(S)
           /\ Len(Picked(s, a..Len(s))) = Len(s) - a + 1
           /\ \A k \in 1..(Len(s) - a + 1) :
                 Picked(s, a..Len(s))[k] = s[a + k - 1]
<1> DEFINE n == Len(s)
           kept == a..n
           f == Picked(s, kept)
<1>1. n \in Nat /\ \A i \in 1..n : s[i] \in S
  OBVIOUS
<1>i. ASSUME NEW b \in Nat, a <= b + 1 PROVE Cardinality(a..b) = b - a + 1
  <2>1. a \in Int /\ b \in Int
    BY <1>1
  <2>2. Cardinality(a..b) = IF a > b THEN 0 ELSE b - a + 1
    BY <2>1, FS_Interval
  <2> QED
    BY <1>i, <2>1, <2>2
<1>2. Cardinality(kept) = n - a + 1
  BY <1>1, <1>i
<1>3. ASSUME NEW k \in 1..(n - a + 1)
      PROVE  (CHOOSE i \in kept : Cardinality({j \in kept : j <= i}) = k) = a + k - 1
  <2>1. ASSUME NEW i \in kept PROVE Cardinality({j \in kept : j <= i}) = i - a + 1
    <3>1. {j \in kept : j <= i} = a..i
      BY <1>1
    <3>2. i \in Nat /\ a <= i + 1
      BY <1>1
    <3> QED
      BY <1>i, <3>1, <3>2
  <2>2. a + k - 1 \in kept
    BY <1>1
  <2>3. \A i \in kept : Cardinality({j \in kept : j <= i}) = k <=> i = a + k - 1
    BY <1>1, <2>1
  <2> HIDE DEF kept
  <2> QED
    BY <2>2, <2>3
<1> HIDE DEF kept
<1>4. f = [k \in 1..(n - a + 1) |-> s[a + k - 1]]
  <2> DEFINE at(k) == CHOOSE i \in kept : Cardinality({j \in kept : j <= i}) = k
  <2>1. f = [k \in 1..(n - a + 1) |-> s[at(k)]]
    BY <1>2 DEF Picked
  <2>2. \A k \in 1..(n - a + 1) : at(k) = a + k - 1
    BY <1>3
  <2> HIDE DEF at, f
  <2> QED
    BY <2>1, <2>2
<1> HIDE DEF f
<1>5. n - a + 1 \in Nat /\ \A k \in 1..(n - a + 1) : s[a + k - 1] \in S
  BY <1>1
<1>6. f \in Seq(S) /\ Len(f) = n - a + 1
  BY <1>4, <1>5
<1> QED
  BY <1>4, <1>6 DEF f, kept

(* The gateway's answer goes on after the cursor it was asked about. *)
LEMMA RespondContinues ==
    ASSUME BufferInv, NEW req, req.last_seq \in Nat
    PROVE  Continues(respond(req).events, req.last_seq, Evicted)
<1> DEFINE n == Len(events)
           cur == req.last_seq
           kept == {i \in DOMAIN events : events[i].seq > cur}
           a == IF cur <= head_seq - n THEN 1 ELSE cur - head_seq + n + 1
<1>1. /\ events \in Seq(Event) /\ n \in Nat /\ DOMAIN events = 1..n
      /\ next_seq \in Nat \ {0} /\ head_seq \in Nat /\ cap \in Nat \ {0}
  BY CapIsPositive DEF BufferInv, BufferTypes, head_seq, Event
<1>2. /\ n = (IF head_seq < cap THEN head_seq ELSE cap)
      /\ \A i \in 1..n : /\ events[i].seq = head_seq - n + i
                         /\ events[i].record = events[i].seq
  BY DEF BufferInv, BufferIsNewest
<1>3. CASE req.kind = "Head"
  <2>1. respond(req).events = <<>>
    BY <1>3 DEF respond
  <2> QED
    BY <2>1 DEF Continues
<1>4. CASE req.kind # "Head" /\ cur >= head_seq
  <2>1. kept = {}
    BY <1>1, <1>2, <1>4
  <2>2. Cardinality(kept) = 0
    BY <2>1, FS_EmptySet
  <2>3. respond(req).events = Picked(events, kept)
    BY <1>4 DEF respond
  <2> HIDE DEF kept
  <2>4. Picked(events, kept) = <<>>
    BY <2>2 DEF Picked
  <2> QED
    BY <2>3, <2>4 DEF Continues
<1>5. CASE req.kind # "Head" /\ cur < head_seq
  <2>1. a \in 1..n /\ kept = a..n
    <3>1. a \in 1..n
      BY SMTT(30), <1>1, <1>2, <1>5
    <3>2. ASSUME NEW i \in 1..n PROVE events[i].seq > cur <=> i >= a
      <4>1. events[i].seq = head_seq - n + i
        BY <1>2
      <4>2. head_seq - n + i > cur <=> i >= a
        BY <1>1, <1>2, <1>5
      <4> QED
        BY <4>1, <4>2
    <3>3. kept = {i \in 1..n : i >= a}
      BY <1>1, <3>2
    <3>4. n \in Nat
      BY <1>1
    <3> HIDE DEF a, n, kept
    <3>5. {i \in 1..n : i >= a} = a..n
      BY <3>1, <3>4
    <3> QED
      BY <3>1, <3>3, <3>5
  <2>2. respond(req).events = Picked(events, kept)
    BY <1>5 DEF respond
  <2> HIDE DEF kept
  <2> DEFINE evs == Picked(events, a..n)
  <2>3. /\ evs \in Seq(Event) /\ Len(evs) = n - a + 1
        /\ \A k \in 1..(n - a + 1) : evs[k] = events[a + k - 1]
    <3>1. a \in 1..(n + 1)
      BY <1>1, <2>1
    <3> HIDE DEF a
    <3> QED
      BY <1>1, <3>1, PickedSuffix
  <2> HIDE DEF evs
  <2>4. \A k \in 1..(n - a + 1) : /\ evs[k].seq = head_seq - n + a + k - 1
                                  /\ evs[k].record = evs[k].seq
    <3> SUFFICES ASSUME NEW k \in 1..(n - a + 1)
                 PROVE  /\ evs[k].seq = head_seq - n + a + k - 1
                        /\ evs[k].record = evs[k].seq
      OBVIOUS
    <3> HIDE DEF a
    <3>1. a + k - 1 \in 1..n
      BY <1>1, <2>1
    <3>2. head_seq - n + (a + k - 1) = head_seq - n + a + k - 1
      BY <1>1, <2>1
    <3> QED
      BY <1>2, <2>3, <3>1, <3>2
  <2>5. evs[1].seq = head_seq - n + a
    <3> HIDE DEF a
    <3> QED
      BY <1>1, <2>1, <2>4
  <2>6. evs[1].seq > cur
    BY <1>1, <2>5
  <2>7. \A s \in (cur + 1)..(evs[1].seq - 1) : s <= Evicted
    BY <1>1, <1>2, <2>5 DEF Evicted
  <2>8. \A i \in 1..Len(evs) : /\ evs[i].seq = evs[1].seq + i - 1
                               /\ evs[i].record = evs[i].seq
    <3> HIDE DEF a
    <3> QED
      BY <1>1, <2>1, <2>3, <2>4, <2>5
  <2> QED
    BY <2>1, <2>2, <2>3, <2>6, <2>7, <2>8 DEF Continues, evs
<1> QED
  BY <1>1, <1>3, <1>4, <1>5

(* What continues the cursor keeps the account. *)
LEMMA AccountsContinue ==
    ASSUME NEW g \in Seq(Event), NEW ms, NEW cur \in Nat, NEW lim \in Int,
           NEW evs, evs # <<>>, Accounts(g, ms, cur, lim), Continues(evs, cur, lim)
    PROVE  /\ evs[Len(evs)].seq \in Nat /\ g \o evs \in Seq(Event)
           /\ Accounts(g \o evs, ms \union ((cur + 1)..(evs[1].seq - 1)),
                       evs[Len(evs)].seq, lim)
<1> DEFINE f == evs[1].seq
           k == Len(evs)
           n == Len(g)
           h == g \o evs
           gap == (cur + 1)..(f - 1)
<1>1. /\ evs \in Seq(Event) /\ k \in Nat \ {0} /\ n \in Nat
      /\ h \in Seq(Event) /\ Len(h) = n + k
      /\ \A i \in 1..n : h[i] = g[i]
      /\ \A i \in 1..k : h[n + i] = evs[i]
  BY DEF Continues
<1>2. f \in Nat /\ f > cur
  <2>1. evs[1] \in Event
    BY <1>1
  <2> QED
    BY <2>1 DEF Continues, Event
<1>3. /\ \A i \in 1..k : evs[i].seq = f + i - 1 /\ evs[i].record = evs[i].seq
      /\ \A s \in gap : s <= lim
  BY DEF Continues
<1>4. evs[k].seq = f + k - 1
  BY <1>1, <1>3
<1> HIDE DEF f, k, h, n
<1>5. {h[i].seq : i \in 1..Len(h)} \union (ms \union gap) = 1..(f + k - 1)
  <2>1. ASSUME NEW i \in 1..Len(h) PROVE h[i].seq \in 1..(f + k - 1)
    <3>1. CASE i \in 1..n
      <4>1. g[i].seq \in 1..cur
        BY <3>1 DEF Accounts, n
      <4> QED
        BY SMTT(30), <1>1, <1>2, <3>1, <4>1
    <3>2. CASE i \in (n + 1)..(n + k)
      <4>1. i - n \in 1..k /\ n + (i - n) = i
        BY <1>1, <3>2
      <4>2. PICK j \in 1..k : n + j = i
        BY <4>1
      <4>3. h[i] = evs[j] /\ evs[j].seq = f + j - 1
        BY <1>1, <1>3, <4>2
      <4>4. f + j - 1 \in 1..(f + k - 1)
        BY <1>1, <1>2
      <4> QED
        BY <4>3, <4>4
    <3> QED
      BY <1>1, <3>1, <3>2
  <2>2. ms \union gap \subseteq 1..(f + k - 1)
    <3>1. ms \subseteq 1..cur
      BY DEF Accounts
    <3> QED
      BY <1>1, <1>2, <3>1
  <2>3. ASSUME NEW x \in 1..(f + k - 1)
        PROVE  x \in {h[i].seq : i \in 1..Len(h)} \union (ms \union gap)
    <3>1. CASE x \in 1..cur
      <4>1. x \in ms \/ \E i \in 1..n : x = g[i].seq
        BY <3>1 DEF Accounts, n
      <4>2. ASSUME NEW i \in 1..n, x = g[i].seq PROVE i \in 1..Len(h) /\ x = h[i].seq
        BY <1>1, <4>2
      <4> QED
        BY <4>1, <4>2
    <3>2. CASE x \in gap
      BY <3>2
    <3>3. CASE x \in f..(f + k - 1)
      <4>1. PICK i \in 1..k : f + i - 1 = x
        <5>1. x - f + 1 \in 1..k /\ f + (x - f + 1) - 1 = x
          BY <1>1, <1>2, <3>3
        <5> QED
          BY <5>1
      <4>2. n + i \in 1..Len(h) /\ h[n + i].seq = x
        <5>1. n + i \in 1..Len(h)
          BY <1>1
        <5>2. h[n + i] = evs[i]
          BY <1>1
        <5>3. evs[i].seq = f + i - 1
          BY <1>3
        <5> QED
          BY <4>1, <5>1, <5>2, <5>3
      <4> QED
        BY <4>2
    <3> QED
      BY <1>1, <1>2, <3>1, <3>2, <3>3
  <2> QED
    BY <2>1, <2>2, <2>3
<1>6. Len(h) + Cardinality(ms \union gap) = f + k - 1
  <2>1. ms \subseteq 1..cur
    BY DEF Accounts
  <2>2. IsFiniteSet(1..cur)
    <3>1. 1 \in Int /\ cur \in Int
      OBVIOUS
    <3> QED
      BY <3>1, FS_Interval
  <2>3. IsFiniteSet(ms) /\ Cardinality(ms) \in Nat
    BY <2>1, <2>2, FS_Subset, FS_CardinalityType
  <2>4. IsFiniteSet(gap) /\ Cardinality(gap) = f - 1 - cur
    <3>1. cur + 1 \in Int /\ f - 1 \in Int
      BY <1>2
    <3>2. /\ IsFiniteSet(gap)
          /\ Cardinality(gap) = IF cur + 1 > f - 1 THEN 0 ELSE f - 1 - (cur + 1) + 1
      BY <3>1, FS_Interval
    <3> QED
      BY <1>2, <3>2
  <2>5. ms \cap gap = {}
    BY <1>2, <2>1
  <2> HIDE DEF gap
  <2>6. Cardinality(ms \union gap)
           = Cardinality(ms) + Cardinality(gap) - Cardinality(ms \cap gap)
    BY <2>3, <2>4, FS_Union
  <2>7. Cardinality(ms \cap gap) = 0
    BY <2>5, FS_EmptySet
  <2>8. n + Cardinality(ms) = cur
    BY DEF Accounts, n
  <2>9. Cardinality(ms \union gap) = Cardinality(ms) + (f - 1 - cur) - 0
    BY <2>4, <2>6, <2>7
  <2>10. n \in Nat /\ k \in Nat /\ Len(h) = n + k
    BY <1>1
  <2> QED
    BY <1>2, <2>3, <2>8, <2>9, <2>10
<1>7. \A i \in 1..Len(h) : h[i].record = h[i].seq
  <2> SUFFICES ASSUME NEW i \in 1..Len(h) PROVE h[i].record = h[i].seq
    OBVIOUS
  <2>1. CASE i \in 1..n
    BY <1>1, <2>1 DEF Accounts, n
  <2>2. CASE i \in (n + 1)..(n + k)
    <3>1. i - n \in 1..k /\ n + (i - n) = i
      BY <1>1, <2>2
    <3> QED
      BY ZenonT(60), <1>1, <1>3, <3>1
  <2> QED
    BY <1>1, <2>1, <2>2
<1>8. \A s \in ms \union gap : s <= lim
  BY <1>3 DEF Accounts
<1>9. f + k - 1 \in Nat
  BY <1>1, <1>2
<1>10. Accounts(h, ms \union gap, f + k - 1, lim)
  BY <1>5, <1>6, <1>7, <1>8 DEF Accounts
<1> QED
  BY <1>1, <1>4, <1>9, <1>10 DEF f, k, h, n

(* More may be evicted later. *)
LEMMA MoreEvicted ==
    ASSUME NEW lim \in Int, NEW more \in Int, lim <= more
    PROVE  /\ \A evs, cur : /\ cur \in Nat /\ Continues(evs, cur, lim)
                            => Continues(evs, cur, more)
           /\ \A g, ms, cur : /\ cur \in Nat /\ Accounts(g, ms, cur, lim)
                              => Accounts(g, ms, cur, more)
<1>1. ASSUME NEW evs, NEW cur \in Nat, Continues(evs, cur, lim)
      PROVE  Continues(evs, cur, more)
  <2>1. ASSUME evs # <<>>, NEW s \in (cur + 1)..(evs[1].seq - 1) PROVE s <= more
    <3>1. s <= lim /\ s \in Int
      BY <1>1, <2>1 DEF Continues
    <3> QED
      BY <3>1
  <2> QED
    BY <1>1, <2>1 DEF Continues
<1>2. ASSUME NEW g, NEW ms, NEW cur \in Nat, Accounts(g, ms, cur, lim)
      PROVE  Accounts(g, ms, cur, more)
  <2>1. ms \subseteq 1..cur
    BY <1>2 DEF Accounts
  <2>2. ASSUME NEW s \in ms PROVE s <= more
    <3>1. s \in Int /\ s <= lim
      BY <1>2, <2>1 DEF Accounts
    <3> QED
      BY <3>1
  <2> QED
    BY <1>2, <2>2 DEF Accounts
<1> QED
  BY <1>1, <1>2

(* Every step keeps the accounts of the cursor and of every reply. *)
LEMMA CursorStep ==
    ASSUME BufferInv, CursorInv, [Next]_vars
    PROVE  CursorInv'
<1> USE DEF channel, buffer, caller, client
<1>1. Evicted \in Int /\ Evicted' \in Int /\ Evicted <= Evicted'
  <2>1. next_seq \in Nat /\ cap \in Nat /\ cap' = cap
    BY CapIsPositive DEF BufferInv, BufferTypes, cap
  <2>2. next_seq' = next_seq \/ next_seq' = next_seq + 1
    BY DEF Next, vars, Emit, DropSenders, Cancel, Gateway, BufferRecord, push_record,
           StopGateway, ServeRequest, Fail, Client, Request, Receive, ReceiveFailure,
           DiscardLate, Timeout
  <2> QED
    BY <2>1, <2>2 DEF Evicted, head_seq
<1>2. /\ requests \in [Clients -> Nat] /\ DOMAIN call = Clients
      /\ \A c \in Clients : call[c].id \in Nat /\ call[c].id <= requests[c]
      /\ cursor \in [Clients -> Nat] /\ got \in [Clients -> Seq(Event)]
      /\ DOMAIN missed = Clients
  BY DEF CursorInv, CallTypes
<1>m. ASSUME NEW m \in net, m.client \in Clients, UNCHANGED <<call, cursor>>,
             requests'[m.client] \in Nat, requests[m.client] <= requests'[m.client]
      PROVE  NetOK(m)'
  <2>1. NetOK(m)
    BY DEF CursorInv
  <2>2. cursor[m.client] \in Nat /\ requests[m.client] \in Nat
    BY <1>2, <1>m
  <2>3. Awaited(m)' <=> Awaited(m)
    BY <1>m DEF Awaited, Awaits, Mine
  <2>4. Continues(m.reply.events, cursor[m.client], Evicted)
           => Continues(m.reply.events, cursor[m.client], Evicted')
    BY <1>1, <2>2, MoreEvicted
  <2>5. m.id \in 1..requests'[m.client]
    BY <1>m, <2>1, <2>2 DEF NetOK
  <2> QED
    BY <1>m, <2>1, <2>3, <2>4, <2>5 DEF NetOK
<1>a. ASSUME NEW c \in Clients
      PROVE  Accounts(got[c], missed[c], cursor[c], Evicted')
  <2>1. Accounts(got[c], missed[c], cursor[c], Evicted) /\ cursor[c] \in Nat
    BY <1>2 DEF CursorInv
  <2> QED
    BY <1>1, <2>1, MoreEvicted
<1>c. \A m \in net : m.client \in Clients /\ m.id \in 1..requests[m.client]
  BY DEF CursorInv, NetOK
<1>q. ASSUME UNCHANGED <<call, requests, cursor, got, missed>>,
             \A m \in net' : m \in net \/ NetOK(m)'
      PROVE  CursorInv'
  <2>1. CallTypes'
    BY <1>q DEF CursorInv, CallTypes
  <2>2. ASSUME NEW m \in net' PROVE NetOK(m)'
    <3>1. CASE m \in net
      <4>1. m.client \in Clients /\ requests'[m.client] \in Nat
            /\ requests[m.client] <= requests'[m.client]
        BY <1>2, <1>c, <1>q, <3>1
      <4> QED
        BY <1>m, <1>q, <3>1, <4>1
    <3> QED
      BY <1>q, <3>1
  <2>3. ASSUME NEW c \in Clients
        PROVE  Accounts(got[c], missed[c], cursor[c], Evicted)'
    BY <1>a, <1>q
  <2> QED
    BY <2>1, <2>2, <2>3 DEF CursorInv
<1>3. CASE Emit \/ DropSenders \/ Cancel \/ BufferRecord \/ StopGateway
           \/ UNCHANGED vars
  <2>1. UNCHANGED <<net, call, requests, cursor, got, missed>>
    BY <1>3 DEF Emit, DropSenders, Cancel, BufferRecord, StopGateway, vars
  <2> QED
    BY <1>q, <2>1
<1>4. CASE ServeRequest
  <2>1. PICK m \in net :
           /\ m.type = "request"
           /\ net' = (net \ {m}) \union
                  {[type |-> "response", client |-> m.client, id |-> m.id,
                    reply |-> respond(m.request)]}
           /\ UNCHANGED <<events, next_seq, call, requests, cursor, got, missed>>
    BY <1>4 DEF ServeRequest
  <2>p. PICK a : a = [type |-> "response", client |-> m.client, id |-> m.id,
                      reply |-> respond(m.request)]
    OBVIOUS
  <2>2. /\ a.type = "response" /\ a.client = m.client /\ a.id = m.id
        /\ a.reply.events = respond(m.request).events /\ net' = (net \ {m}) \union {a}
    BY <2>1, <2>p
  <2>3. m.client \in Clients /\ m.id \in 1..requests[m.client]
        /\ cursor[m.client] \in Nat
    BY <1>2, <1>c
  <2>4. Evicted' = Evicted
    BY <2>1 DEF Evicted, head_seq, cap
  <2>5. ASSUME Awaited(a)'
        PROVE  Continues(a.reply.events, cursor[m.client], Evicted)
    <3>1. Awaited(m)
      BY <2>1, <2>2, <2>5 DEF Awaited, Awaits, Mine
    <3>2. m.request.last_seq = cursor[m.client]
      BY <2>1, <3>1 DEF CursorInv, NetOK
    <3>3. Continues(respond(m.request).events, m.request.last_seq, Evicted)
      BY <2>3, <3>2, RespondContinues
    <3> QED
      BY <2>2, <3>2, <3>3
  <2>6. NetOK(a)'
    BY <2>1, <2>2, <2>3, <2>4, <2>5 DEF NetOK
  <2> QED
    BY <1>q, <2>1, <2>2, <2>6
<1>5. CASE Fail
  <2>1. PICK m \in net :
           /\ net' = (net \ {m}) \union {[type |-> "failure", client |-> m.client,
                                          id |-> m.id]}
           /\ UNCHANGED <<call, requests, cursor, got, missed>>
    BY <1>5 DEF Fail
  <2> DEFINE a == [type |-> "failure", client |-> m.client, id |-> m.id]
  <2>2. /\ a.type = "failure" /\ a.client = m.client /\ a.id = m.id
        /\ net' = (net \ {m}) \union {a}
    BY <2>1
  <2> HIDE DEF a
  <2>3. NetOK(a)'
    BY <1>c, <2>1, <2>2 DEF NetOK
  <2> QED
    BY <1>q, <2>1, <2>2, <2>3
<1>6. ASSUME NEW c \in Clients, NEW kind, Request(c, kind), kind # "none"
      PROVE  CursorInv'
  <2>p. PICK req : req = [kind |-> kind, id |-> requests[c] + 1, last_seq |-> cursor[c]]
    OBVIOUS
  <2>a. PICK a : a = [type |-> "request", client |-> c, id |-> req.id, request |-> req]
    OBVIOUS
  <2>1. /\ requests' = [requests EXCEPT ![c] = requests[c] + 1]
        /\ call' = [call EXCEPT ![c] = req] /\ net' = net \union {a}
        /\ UNCHANGED <<cursor, got, missed>>
    BY <1>6, <2>p, <2>a DEF Request
  <2>2. /\ req.id = requests[c] + 1 /\ req.last_seq = cursor[c] /\ req.kind = kind
        /\ a.type = "request" /\ a.client = c /\ a.id = requests[c] + 1
        /\ a.request.last_seq = cursor[c]
    BY <2>p, <2>a
  <2>3. /\ requests' \in [Clients -> Nat] /\ requests'[c] = requests[c] + 1
        /\ requests[c] \in Nat /\ DOMAIN call' = Clients /\ call'[c] = req
        /\ \A d \in Clients \ {c} : /\ call'[d] = call[d]
                                     /\ requests'[d] = requests[d]
    <3>1. requests[c] \in Nat /\ requests[c] + 1 \in Nat
      BY <1>2
    <3> QED
      BY <1>2, <2>1, <3>1
  <2>4. CallTypes'
    <3>1. ASSUME NEW d \in Clients PROVE call'[d].id \in Nat /\ call'[d].id <= requests'[d]
      <4>1. CASE d = c
        BY <2>2, <2>3, <4>1
      <4>2. CASE d # c
        BY <1>2, <2>3, <4>2
      <4> QED
        BY <4>1, <4>2
    <3> QED
      BY <1>2, <2>1, <2>3, <3>1 DEF CallTypes
  <2>5. NetOK(a)'
    BY <2>1, <2>2, <2>3 DEF NetOK
  <2>6. ASSUME NEW m \in net PROVE NetOK(m)'
    <3>1. NetOK(m) /\ m.client \in Clients /\ m.id \in 1..requests[m.client]
      BY <1>c DEF CursorInv
    <3>2. CASE m.client = c
      <4>1. m.id # call'[c].id
        BY <2>2, <2>3, <3>1, <3>2
      <4>2. ~Awaited(m)'
        BY <3>2, <4>1 DEF Awaited, Mine
      <4>3. m.id \in 1..requests'[m.client]
        BY <2>3, <3>1, <3>2
      <4> QED
        BY <3>1, <4>2, <4>3 DEF NetOK
    <3>3. CASE m.client # c
      <4>1. Awaited(m)' <=> Awaited(m)
        BY <2>3, <3>1, <3>3 DEF Awaited, Awaits, Mine
      <4>2. Continues(m.reply.events, cursor[m.client], Evicted)
               => Continues(m.reply.events, cursor[m.client], Evicted')
        <5>1. cursor[m.client] \in Nat
          BY <1>2, <3>1
        <5> QED
          BY <1>1, <5>1, MoreEvicted
      <4>3. requests'[m.client] = requests[m.client]
        BY <2>3, <3>1, <3>3
      <4> QED
        BY <2>1, <3>1, <4>1, <4>2, <4>3 DEF NetOK
    <3> QED
      BY <3>2, <3>3
  <2>7. ASSUME NEW d \in Clients
        PROVE  Accounts(got[d], missed[d], cursor[d], Evicted)'
    BY <1>a, <2>1
  <2> QED
    BY <2>1, <2>4, <2>5, <2>6, <2>7 DEF CursorInv
<1>7. ASSUME NEW c \in Clients, net' \subseteq net, UNCHANGED requests,
             call' = [call EXCEPT ![c] = NoCall],
             \A d \in Clients \ {c} : cursor'[d] = cursor[d],
             cursor' \in [Clients -> Nat], got' \in [Clients -> Seq(Event)],
             DOMAIN missed' = Clients,
             \A d \in Clients : Accounts(got[d], missed[d], cursor[d], Evicted)'
      PROVE  CursorInv'
  <2>1. /\ DOMAIN call' = Clients /\ call'[c].id = 0 /\ call'[c].kind = "none"
        /\ \A d \in Clients \ {c} : call'[d] = call[d]
    BY <1>2, <1>7 DEF NoCall
  <2>2. CallTypes'
    <3>1. ASSUME NEW d \in Clients PROVE call'[d].id \in Nat /\ call'[d].id <= requests'[d]
      <4>1. CASE d = c
        BY <1>2, <1>7, <2>1, <4>1
      <4>2. CASE d # c
        BY <1>2, <1>7, <2>1, <4>2
      <4> QED
        BY <4>1, <4>2
    <3> QED
      BY <1>2, <1>7, <2>1, <3>1 DEF CallTypes
  <2>3. ASSUME NEW m \in net' PROVE NetOK(m)'
    <3>1. NetOK(m) /\ m.client \in Clients /\ m.id \in 1..requests'[m.client]
      BY <1>c, <1>7 DEF CursorInv
    <3>2. CASE m.client = c
      <4>1. ~Awaited(m)'
        BY <2>1, <3>2 DEF Awaited, Awaits
      <4> QED
        BY <3>1, <4>1 DEF NetOK
    <3>3. CASE m.client # c
      <4>1. Awaited(m)' <=> Awaited(m)
        BY <2>1, <3>1, <3>3 DEF Awaited, Awaits, Mine
      <4>2. Continues(m.reply.events, cursor[m.client], Evicted)
               => Continues(m.reply.events, cursor[m.client], Evicted')
        <5>1. cursor[m.client] \in Nat
          BY <1>2, <3>1
        <5> QED
          BY <1>1, <5>1, MoreEvicted
      <4>3. cursor'[m.client] = cursor[m.client]
        BY <1>7, <3>1, <3>3
      <4> QED
        BY <3>1, <4>1, <4>2, <4>3 DEF NetOK
    <3> QED
      BY <3>2, <3>3
  <2> QED
    BY <1>7, <2>2, <2>3 DEF CursorInv
<1>8. ASSUME NEW c \in Clients, Receive(c) PROVE CursorInv'
  <2>1. PICK m \in net :
           /\ Awaits(c) /\ m.type = "response" /\ Mine(c, m)
           /\ net' = net \ {m} /\ call' = [call EXCEPT ![c] = NoCall]
           /\ UNCHANGED <<requests, events, next_seq>>
           /\ \/ UNCHANGED <<cursor, got, missed>>
              \/ /\ m.reply.events # <<>>
                 /\ got' = [got EXCEPT ![c] = got[c] \o m.reply.events]
                 /\ missed' = [missed EXCEPT ![c] =
                                  missed[c] \union Gap(c, m.reply.events)]
                 /\ cursor' = [cursor EXCEPT ![c] =
                                  m.reply.events[Len(m.reply.events)].seq]
    BY <1>8 DEF Receive
  <2>2. CASE UNCHANGED <<cursor, got, missed>>
    <3>1. \A d \in Clients : Accounts(got[d], missed[d], cursor[d], Evicted)'
      BY <1>a, <2>2
    <3> QED
      BY <1>2, <1>7, <2>1, <2>2, <3>1
  <2>3. CASE ~UNCHANGED <<cursor, got, missed>>
    <3> DEFINE evs == m.reply.events
    <3>1. /\ evs # <<>> /\ got' = [got EXCEPT ![c] = got[c] \o evs]
          /\ missed' = [missed EXCEPT ![c] = missed[c] \union Gap(c, evs)]
          /\ cursor' = [cursor EXCEPT ![c] = evs[Len(evs)].seq]
      BY <2>1, <2>3
    <3>2. Continues(evs, cursor[c], Evicted)
      <4>1. Awaited(m) /\ m.client = c
        BY <2>1 DEF Awaited, Mine
      <4> QED
        BY <2>1, <4>1 DEF CursorInv, NetOK
    <3> HIDE DEF evs
    <3>3. /\ evs[Len(evs)].seq \in Nat /\ got[c] \o evs \in Seq(Event)
          /\ Accounts(got[c] \o evs, missed[c] \union Gap(c, evs),
                      evs[Len(evs)].seq, Evicted)
      <4>1. got[c] \in Seq(Event) /\ cursor[c] \in Nat
        BY <1>2
      <4>2. Accounts(got[c], missed[c], cursor[c], Evicted)
        BY DEF CursorInv
      <4> QED
        BY <1>1, <3>1, <3>2, <4>1, <4>2, AccountsContinue DEF Gap
    <3>4. /\ cursor' \in [Clients -> Nat] /\ got' \in [Clients -> Seq(Event)]
          /\ DOMAIN missed' = Clients
          /\ cursor'[c] = evs[Len(evs)].seq /\ got'[c] = got[c] \o evs
          /\ missed'[c] = missed[c] \union Gap(c, evs)
          /\ \A d \in Clients \ {c} : /\ cursor'[d] = cursor[d] /\ got'[d] = got[d]
                                       /\ missed'[d] = missed[d]
      BY <1>2, <3>1, <3>3
    <3>5. Evicted' = Evicted
      BY <2>1 DEF Evicted, head_seq, cap
    <3>6. ASSUME NEW d \in Clients
          PROVE  Accounts(got'[d], missed'[d], cursor'[d], Evicted')
      <4>1. CASE d = c
        BY <3>3, <3>4, <3>5, <4>1
      <4>2. CASE d # c
        BY <1>a, <3>4, <4>2
      <4> QED
        BY <4>1, <4>2
    <3>7. \A d \in Clients : Accounts(got[d], missed[d], cursor[d], Evicted)'
      BY <3>6
    <3> QED
      BY ZenonT(60), <1>7, <2>1, <3>4, <3>7
  <2> QED
    BY <2>2, <2>3
<1>9. ASSUME NEW c \in Clients, ReceiveFailure(c) \/ Timeout(c) PROVE CursorInv'
  <2>1. /\ net' \subseteq net /\ call' = [call EXCEPT ![c] = NoCall]
        /\ UNCHANGED <<requests, cursor, got, missed>>
    BY <1>9 DEF ReceiveFailure, Timeout
  <2>2. \A d \in Clients : Accounts(got[d], missed[d], cursor[d], Evicted)'
    BY <1>a, <2>1
  <2> QED
    BY <1>2, <1>7, <2>1, <2>2
<1>10. ASSUME NEW c \in Clients, DiscardLate(c) PROVE CursorInv'
  <2>1. net' \subseteq net /\ UNCHANGED <<call, requests, cursor, got, missed>>
    BY <1>10 DEF DiscardLate
  <2> QED
    BY <1>q, <2>1
<1> QED
  BY <1>3, <1>4, <1>5, <1>6, <1>8, <1>9, <1>10 DEF Next, Gateway, Client

(***************************************************************************)
(* A client that keeps its cursor has got every event up to it exactly     *)
(* once or knows that it missed it, and missed only what was evicted:      *)
(* whatever timed out, failed, came late or was reordered, for any number  *)
(* of clients, requests and records and every buffer capacity.             *)
(***************************************************************************)
THEOREM CursorAlwaysAccounts == Spec => []CursorAccounts
<1>1. Init => CursorInv
  <2> SUFFICES ASSUME Init PROVE CursorInv
    OBVIOUS
  <2>1. CallTypes
    BY DEF Init, CallTypes, NoCall
  <2>2. ASSUME NEW c \in Clients PROVE Accounts(got[c], missed[c], cursor[c], Evicted)
    <3>1. got[c] = <<>> /\ missed[c] = {} /\ cursor[c] = 0
      BY DEF Init
    <3>2. Len(got[c]) = 0 /\ Cardinality(missed[c]) = 0
      BY <3>1, FS_EmptySet
    <3> QED
      BY <3>1, <3>2 DEF Accounts
  <2>3. net = {}
    BY DEF Init
  <2> QED
    BY <2>1, <2>2, <2>3 DEF CursorInv
<1>2. BufferInv /\ CursorInv /\ [Next]_vars => CursorInv'
  BY CursorStep
<1>3. CursorInv => CursorAccounts
  BY DEF CursorInv, Accounts, Evicted, CursorAccounts
<1> QED
  BY <1>1, <1>2, <1>3, InitBufferInv, StepBufferInv, PTL DEF Spec

-----------------------------------------------------------------------------
(***************************************************************************)
(* The client's connections.                                               *)
(***************************************************************************)
EventTypes == {"established", "closed", "discovered"}

ConnTypes ==
    /\ open \in [Peers -> Nat]
    /\ swarm_events \in Seq([type : EventTypes, peer : Peers])

(* Event i of the queue says that a connection to p came or went. *)
Moves(i, p) == /\ swarm_events[i].peer = p
               /\ swarm_events[i].type \in {"established", "closed"}

(* The last event about p still queued tells how its connection stands     *)
(* now; without one the client's set does.                                 *)
Tracked(p) ==
    /\ open[p] <= 1
    /\ \A i \in DOMAIN swarm_events :
          Moves(i, p) /\ (\A j \in DOMAIN swarm_events : j > i => ~Moves(j, p)) =>
             (swarm_events[i].type = "established" <=> open[p] > 0)
    /\ (\A i \in DOMAIN swarm_events : ~Moves(i, p)) =>
          (p \in connected <=> open[p] > 0)

ConnInv == ConnTypes /\ \A p \in Peers \ blurred : Tracked(p)

(* An event is raised: about another peer or none, or with the connection. *)
LEMMA RaiseTracks ==
    ASSUME ConnTypes, NEW p \in Peers, NEW q \in Peers, NEW type \in EventTypes,
           Raise(type, q), Tracked(p), UNCHANGED connected,
           \/ q # p /\ open'[p] = open[p]
           \/ type = "discovered" /\ open'[p] = open[p]
           \/ q = p /\ type = "established" /\ open'[p] = 1
           \/ q = p /\ type = "closed" /\ open'[p] = 0
    PROVE  Tracked(p)'
<1> DEFINE e == [type |-> type, peer |-> q]
<1>1. /\ swarm_events' = Append(swarm_events, e)
      /\ swarm_events \in Seq([type : EventTypes, peer : Peers])
      /\ e \in [type : EventTypes, peer : Peers]
  BY DEF Raise, ConnTypes
<1>n. PICK n \in Nat : n = Len(swarm_events)
  BY <1>1
<1>2. /\ DOMAIN swarm_events = 1..n
      /\ DOMAIN swarm_events' = 1..(n + 1)
      /\ \A i \in 1..n : swarm_events'[i] = swarm_events[i]
      /\ swarm_events'[n + 1].type = type /\ swarm_events'[n + 1].peer = q
  BY <1>1, <1>n
<1> HIDE DEF e
<1>3. \A i \in 1..n : Moves(i, p)' <=> Moves(i, p)
  BY <1>2 DEF Moves
<1>4. Moves(n + 1, p)' <=> q = p /\ type \in {"established", "closed"}
  BY <1>2 DEF Moves
<1>5. open[p] \in Nat
  BY DEF ConnTypes
<1>6. CASE ~(q = p /\ type \in {"established", "closed"})
  <2>1. open'[p] = open[p] /\ ~Moves(n + 1, p)'
    BY <1>4, <1>6
  <2>2. ASSUME NEW i \in DOMAIN swarm_events', Moves(i, p)',
               \A j \in DOMAIN swarm_events' : j > i => ~Moves(j, p)'
        PROVE  swarm_events'[i].type = "established" <=> open'[p] > 0
    <3>1. i \in 1..n
      BY <1>2, <2>1, <2>2
    <3>2. \A j \in DOMAIN swarm_events : j > i => ~Moves(j, p)
      BY <1>2, <1>3, <2>2, <3>1
    <3> QED
      BY <1>2, <1>3, <2>1, <2>2, <3>1, <3>2 DEF Tracked
  <2>3. ASSUME \A i \in DOMAIN swarm_events' : ~Moves(i, p)'
        PROVE  p \in connected' <=> open'[p] > 0
    BY <1>2, <1>3, <2>1, <2>3 DEF Tracked
  <2> QED
    BY <2>1, <2>2, <2>3 DEF Tracked
<1>7. CASE q = p /\ type \in {"established", "closed"}
  <2>1. /\ Moves(n + 1, p)' /\ n + 1 \in DOMAIN swarm_events'
        /\ open'[p] \in {0, 1} /\ (type = "established" <=> open'[p] > 0)
    BY <1>2, <1>4, <1>7
  <2>2. ASSUME NEW i \in DOMAIN swarm_events',
               \A j \in DOMAIN swarm_events' : j > i => ~Moves(j, p)'
        PROVE  swarm_events'[i].type = "established" <=> open'[p] > 0
    <3>1. i = n + 1
      BY <1>2, <2>1, <2>2
    <3> QED
      BY <1>2, <2>1, <3>1
  <2> QED
    BY <2>1, <2>2 DEF Tracked
<1> QED
  BY <1>6, <1>7

(* The oldest event is handed out, and the set follows it. *)
LEMMA HandOutTracks ==
    ASSUME ConnTypes, NEW p \in Peers, swarm_events # <<>>,
           swarm_events' = Tail(swarm_events), Tracked(p), open'[p] = open[p],
           Moves(1, p) => (p \in connected' <=> swarm_events[1].type = "established"),
           ~Moves(1, p) => (p \in connected' <=> p \in connected)
    PROVE  Tracked(p)'
<1> DEFINE n == Len(swarm_events)
<1>1. swarm_events \in Seq([type : EventTypes, peer : Peers])
  BY DEF ConnTypes
<1>2. /\ n \in Nat \ {0} /\ DOMAIN swarm_events = 1..n
      /\ DOMAIN swarm_events' = 1..(n - 1)
      /\ \A i \in 1..(n - 1) : swarm_events'[i] = swarm_events[i + 1]
  BY <1>1
<1> HIDE DEF n
<1>3. \A i \in 1..(n - 1) : Moves(i, p)' <=> Moves(i + 1, p)
  BY <1>2 DEF Moves
<1>4. ASSUME NEW i \in DOMAIN swarm_events', Moves(i, p)',
             \A j \in DOMAIN swarm_events' : j > i => ~Moves(j, p)'
      PROVE  swarm_events'[i].type = "established" <=> open'[p] > 0
  <2>1. i + 1 \in DOMAIN swarm_events /\ Moves(i + 1, p)
    BY <1>2, <1>3, <1>4
  <2>2. ASSUME NEW j \in DOMAIN swarm_events, j > i + 1 PROVE ~Moves(j, p)
    <3>1. j - 1 \in 1..(n - 1) /\ j - 1 > i /\ (j - 1) + 1 = j
      BY <1>2, <2>2, <1>4
    <3> QED
      BY <1>2, <1>3, <1>4, <3>1
  <2> QED
    BY <1>2, <2>1, <2>2, <1>4 DEF Tracked
<1>5. ASSUME \A i \in DOMAIN swarm_events' : ~Moves(i, p)'
      PROVE  p \in connected' <=> open'[p] > 0
  <2>1. ASSUME NEW j \in DOMAIN swarm_events, j > 1 PROVE ~Moves(j, p)
    <3>1. j - 1 \in 1..(n - 1) /\ (j - 1) + 1 = j
      BY <1>2, <2>1
    <3> QED
      BY <1>2, <1>3, <1>5, <3>1
  <2>2. 1 \in DOMAIN swarm_events
    BY <1>2
  <2>3. CASE Moves(1, p)
    <3>1. swarm_events[1].type = "established" <=> open[p] > 0
      BY <2>1, <2>2, <2>3 DEF Tracked
    <3> QED
      BY <2>3, <3>1
  <2>4. CASE ~Moves(1, p)
    <3>1. \A j \in DOMAIN swarm_events : ~Moves(j, p)
      BY <1>2, <2>1, <2>4
    <3> QED
      BY <2>4, <3>1 DEF Tracked
  <2> QED
    BY <2>3, <2>4
<1> QED
  BY <1>4, <1>5 DEF Tracked

(* Every step keeps what the last event about a peer says. *)
LEMMA ConnStep == ConnInv /\ [ConnNext]_connvars => ConnInv'
<1> SUFFICES ASSUME ConnInv, [ConnNext]_connvars PROVE ConnInv'
  OBVIOUS
<1> USE DEF network, methods
<1>0. ConnTypes
  BY DEF ConnInv
<1>q. ASSUME UNCHANGED <<open, swarm_events, connected, blurred>> PROVE ConnInv'
  BY <1>q DEF ConnInv, ConnTypes, Tracked, Moves
<1>r. ASSUME NEW type \in EventTypes, NEW q \in Peers, Raise(type, q)
      PROVE  swarm_events' \in Seq([type : EventTypes, peer : Peers])
  <2>1. [type |-> type, peer |-> q] \in [type : EventTypes, peer : Peers]
    BY DEF EventTypes
  <2> QED
    BY <1>0, <1>r, <2>1 DEF ConnTypes, Raise
<1>t. ASSUME swarm_events # <<>>, swarm_events' = Tail(swarm_events),
             UNCHANGED open
      PROVE  ConnTypes'
  BY <1>0, <1>t DEF ConnTypes
<1>h. ASSUME swarm_events # <<>> PROVE Head(swarm_events) = swarm_events[1]
  BY <1>0, <1>h DEF ConnTypes
<1>1. ASSUME NEW q \in Peers, NEW inbound \in BOOLEAN, Established(q, inbound)
      PROVE  ConnInv'
  <2>1. /\ Raise("established", q) /\ UNCHANGED connected
        /\ open' = [open EXCEPT ![q] = @ + 1]
        /\ blurred' = IF open[q] > 0 THEN blurred \union {q} ELSE blurred
        /\ "established" \in EventTypes
    BY <1>1 DEF Established, EventTypes
  <2>2. ConnTypes'
    <3>1. open[q] + 1 \in Nat
      BY <1>0 DEF ConnTypes
    <3> QED
      BY <1>0, <1>r, <2>1, <3>1 DEF ConnTypes
  <2>3. ASSUME NEW p \in Peers \ blurred' PROVE Tracked(p)'
    <3>1. Tracked(p) /\ p \in Peers /\ open[p] \in Nat
      BY <1>0, <2>1 DEF ConnInv, ConnTypes
    <3>2. CASE p = q
      <4>1. open'[p] = 1
        BY <1>0, <2>1, <2>3, <3>1, <3>2 DEF ConnTypes
      <4> QED
        BY <1>0, <2>1, <3>1, <3>2, <4>1, RaiseTracks
    <3>3. CASE p # q
      <4>1. open'[p] = open[p]
        BY <1>0, <2>1, <3>3 DEF ConnTypes
      <4> QED
        BY <1>0, <2>1, <3>1, <3>3, <4>1, RaiseTracks
    <3> QED
      BY <3>2, <3>3
  <2> QED
    BY <2>2, <2>3 DEF ConnInv
<1>2. ASSUME NEW q \in Peers, Closed(q) PROVE ConnInv'
  <2>1. /\ Raise("closed", q) /\ UNCHANGED <<connected, blurred>>
        /\ open' = [open EXCEPT ![q] = @ - 1] /\ open[q] > 0
        /\ "closed" \in EventTypes
    BY <1>2 DEF Closed, EventTypes
  <2>2. ConnTypes'
    <3>1. open[q] - 1 \in Nat
      BY <1>0, <2>1 DEF ConnTypes
    <3> QED
      BY <1>0, <1>r, <2>1, <3>1 DEF ConnTypes
  <2>3. ASSUME NEW p \in Peers \ blurred' PROVE Tracked(p)'
    <3>1. Tracked(p) /\ p \in Peers /\ open[p] \in Nat /\ open[p] <= 1
      BY <1>0, <2>1 DEF ConnInv, ConnTypes, Tracked
    <3>2. CASE p = q
      <4>1. open'[p] = 0
        BY <1>0, <2>1, <3>1, <3>2 DEF ConnTypes
      <4> QED
        BY <1>0, <2>1, <3>1, <3>2, <4>1, RaiseTracks
    <3>3. CASE p # q
      <4>1. open'[p] = open[p]
        BY <1>0, <2>1, <3>3 DEF ConnTypes
      <4> QED
        BY <1>0, <2>1, <3>1, <3>3, <4>1, RaiseTracks
    <3> QED
      BY <3>2, <3>3
  <2> QED
    BY <2>2, <2>3 DEF ConnInv
<1>3. ASSUME NEW q \in Peers, Discovered(q) PROVE ConnInv'
  <2>1. /\ Raise("discovered", q) /\ UNCHANGED <<open, connected, blurred>>
        /\ "discovered" \in EventTypes
    BY <1>3 DEF Discovered, EventTypes
  <2>2. ConnTypes'
    BY <1>0, <1>r, <2>1 DEF ConnTypes
  <2>3. ASSUME NEW p \in Peers \ blurred' PROVE Tracked(p)'
    BY <1>0, <2>1, RaiseTracks DEF ConnInv
  <2> QED
    BY <2>2, <2>3 DEF ConnInv
<1>4. CASE \/ \E p \in Peers : DialFails(p)
           \/ \E p \in Peers, kind \in {"dial", "request"} : Call(kind, p)
           \/ \E kind \in {"discover", "pump"} : Call(kind, "none")
           \/ MethodEnds \/ UNCHANGED connvars
  <2>1. UNCHANGED <<open, swarm_events, connected, blurred>>
    BY <1>4 DEF DialFails, Call, MethodEnds, connvars
  <2> QED
    BY <2>1, <1>q
<1>5. CASE FirstEstablished \/ TrackConnection
  <2>1. /\ swarm_events # <<>> /\ swarm_events' = Tail(swarm_events)
        /\ UNCHANGED <<open, blurred>>
        /\ \/ /\ swarm_events[1].type = "established"
              /\ connected' = connected \union {swarm_events[1].peer}
           \/ /\ swarm_events[1].type = "closed"
              /\ connected' = connected \ {swarm_events[1].peer}
    BY <1>5, <1>h DEF FirstEstablished, Return, TrackConnection
  <2>2. ASSUME NEW p \in Peers \ blurred' PROVE Tracked(p)'
    <3>1. Tracked(p) /\ p \in Peers /\ open'[p] = open[p]
      BY <2>1 DEF ConnInv
    <3>2. /\ Moves(1, p) =>
                (p \in connected' <=> swarm_events[1].type = "established")
          /\ ~Moves(1, p) => (p \in connected' <=> p \in connected)
      BY <2>1 DEF Moves
    <3> QED
      BY <1>0, <2>1, <3>1, <3>2, HandOutTracks
  <2> QED
    BY <1>t, <2>1, <2>2 DEF ConnInv
<1>6. CASE SwallowClosed \/ HandleDiscovered
  <2>1. /\ swarm_events # <<>> /\ swarm_events' = Tail(swarm_events)
        /\ UNCHANGED <<open, connected>>
        /\ \/ blurred' = blurred \union {swarm_events[1].peer}
           \/ blurred' = blurred /\ swarm_events[1].type = "discovered"
    BY <1>6, <1>h DEF SwallowClosed, HandleDiscovered
  <2>2. ASSUME NEW p \in Peers \ blurred' PROVE Tracked(p)'
    <3>1. Tracked(p) /\ p \in Peers /\ open'[p] = open[p] /\ ~Moves(1, p)
      BY <2>1 DEF ConnInv, Moves
    <3> QED
      BY <1>0, <2>1, <3>1, HandOutTracks
  <2> QED
    BY <1>t, <2>1, <2>2 DEF ConnInv
<1> QED
  BY <1>1, <1>2, <1>3, <1>4, <1>5, <1>6 DEF ConnNext

(***************************************************************************)
(* Whatever opens, closes and is discovered while the client's methods     *)
(* run, connected_peers is right about every peer whose events it could    *)
(* follow, once it has looked at all of them: the model checker's bounds   *)
(* on connections and calls play no part.                                  *)
(***************************************************************************)
THEOREM ConnectedAlwaysTracked == ConnSpec => []ConnectedIsTracked
<1>1. ConnInit => ConnInv
  BY DEF ConnInit, ConnInv, ConnTypes, Tracked
<1>2. ConnInv => ConnectedIsTracked
  <2> SUFFICES ASSUME ConnInv, swarm_events = <<>>, NEW p \in Peers \ blurred
               PROVE  p \in connected <=> open[p] > 0
    BY DEF ConnectedIsTracked
  <2>1. DOMAIN swarm_events = {}
    OBVIOUS
  <2> QED
    BY <2>1 DEF ConnInv, Tracked
<1> QED
  BY <1>1, <1>2, ConnStep, PTL DEF ConnSpec

-----------------------------------------------------------------------------
(***************************************************************************)
(* The legs of the decision tee.                                           *)
(***************************************************************************)
TeeTypes ==
    /\ emitted \in Nat /\ teeTap \in Seq(Nat) /\ accepted \in Seq(Nat)
    /\ sink \in [Leg -> Seq(Nat)] /\ taken \in [Leg -> Seq(Nat)]
    /\ bussed \in Seq(Nat)
    /\ tee \in [step : {"recv", "send", "stopped"}, record : Nat, sink : Nat]
    /\ tee.step = "send" => tee.sink \in Leg

(* How many records left the tap, the one in the tee's hand included. *)
Passed == Len(accepted) - Len(teeTap)

TapInv ==
    /\ Ascending(accepted) /\ \A i \in DOMAIN accepted : accepted[i] <= emitted
    /\ Len(teeTap) <= Len(accepted)
    /\ \A i \in DOMAIN teeTap : teeTap[i] = accepted[Passed + i]
    /\ tee.step = "send" => Passed >= 1 /\ tee.record = accepted[Passed]
    /\ tee.step = "stopped" => teeTap = <<>>

(* How many of them the tee has offered to leg l. *)
Done(l) == IF tee.step = "send" /\ tee.sink <= l THEN Passed - 1 ELSE Passed

(* r holds some of the first n records of acc, in their order. *)
Thins(r, acc, n) ==
    Ascending(r) /\ \A i \in DOMAIN r : \E j \in 1..n : r[i] = acc[j]

(* r is where acc begins. *)
Begins(r, acc) == Len(r) <= Len(acc) /\ \A i \in DOMAIN r : r[i] = acc[i]

LegInv(l) ==
    /\ Thins(Received(l), accepted, Done(l))
    /\ l \notin crowded => Begins(Received(l), accepted)
    /\ l \notin crowded /\ (tee.step # "stopped" \/ ~teeCancelled) =>
          Len(Received(l)) = Done(l)

BusInv == Ascending(bussed) /\ ToSet(bussed) \subseteq ToSet(taken[Durable])

(* What is queued behind what was taken: one more, and one taken. *)
LEMMA ConcatAppend ==
    ASSUME NEW S, NEW s \in Seq(S), NEW t \in Seq(S), NEW e \in S
    PROVE  s \o Append(t, e) = Append(s \o t, e)
<1>1. /\ Append(t, e) \in Seq(S) /\ <<e>> \in Seq(S) /\ s \o t \in Seq(S)
  OBVIOUS
<1>2. Append(t, e) = t \o <<e>> /\ Append(s \o t, e) = (s \o t) \o <<e>>
  BY <1>1, AppendIsConcat
<1> QED
  BY <1>1, <1>2, ConcatAssociative

(* Moving the head of one list to the end of another keeps their sum. *)
LEMMA ConcatTake ==
    ASSUME NEW S, NEW s \in Seq(S), NEW t \in Seq(S), t # <<>>
    PROVE  Append(s, Head(t)) \o Tail(t) = s \o t
<1>1. /\ Head(t) \in S /\ Tail(t) \in Seq(S) /\ <<Head(t)>> \in Seq(S)
      /\ t = <<Head(t)>> \o Tail(t)
  OBVIOUS
<1>2. Append(s, Head(t)) = s \o <<Head(t)>>
  BY <1>1, AppendIsConcat
<1> QED
  BY <1>1, <1>2, ConcatAssociative

(* An element in order may be added. *)
LEMMA ThinsAppend ==
    ASSUME NEW acc \in Seq(Nat), Ascending(acc), NEW r \in Seq(Nat),
           NEW n \in 1..Len(acc), Thins(r, acc, n - 1)
    PROVE  Thins(Append(r, acc[n]), acc, n)
<1> DEFINE u == Append(r, acc[n])
<1>1. /\ Len(acc) \in Nat /\ DOMAIN acc = 1..Len(acc) /\ acc[n] \in Nat
      /\ Len(r) \in Nat /\ DOMAIN r = 1..Len(r) /\ \A i \in 1..Len(r) : r[i] \in Nat
  OBVIOUS
<1>2. /\ DOMAIN u = 1..(Len(r) + 1) /\ u[Len(r) + 1] = acc[n]
      /\ \A i \in 1..Len(r) : u[i] = r[i]
  BY <1>1
<1> HIDE DEF u
<1>3. \A i \in 1..Len(r) : r[i] < acc[n]
  <2> SUFFICES ASSUME NEW i \in 1..Len(r) PROVE r[i] < acc[n]
    OBVIOUS
  <2>1. PICK j \in 1..(n - 1) : r[i] = acc[j]
    BY <1>1 DEF Thins
  <2>2. j \in DOMAIN acc /\ n \in DOMAIN acc /\ j < n
    BY <1>1
  <2>3. acc[j] < acc[n]
    BY <2>2 DEF Ascending
  <2> QED
    BY <2>1, <2>3
<1>4. Ascending(u)
  <2> SUFFICES ASSUME NEW i \in DOMAIN u, NEW j \in DOMAIN u, i < j
               PROVE  u[i] < u[j]
    BY DEF Ascending
  <2>1. i \in 1..Len(r)
    BY <1>1, <1>2
  <2>2. CASE j = Len(r) + 1
    BY <1>2, <1>3, <2>1, <2>2
  <2>3. CASE j \in 1..Len(r)
    BY <1>1, <1>2, <2>1, <2>3 DEF Thins, Ascending
  <2> QED
    BY <1>1, <1>2, <2>2, <2>3
<1>5. ASSUME NEW i \in DOMAIN u PROVE \E j \in 1..n : u[i] = acc[j]
  <2>1. CASE i = Len(r) + 1
    BY <1>2, <2>1
  <2>2. CASE i \in 1..Len(r)
    <3>1. PICK j \in 1..(n - 1) : r[i] = acc[j]
      BY <1>1, <2>2 DEF Thins
    <3> QED
      BY <1>1, <1>2, <2>2, <3>1
  <2> QED
    BY <1>1, <1>2, <2>1, <2>2
<1> QED
  BY <1>4, <1>5 DEF Thins, u

(* A list that agrees with the start of another is a prefix of it. *)
LEMMA BeginsIsPrefix ==
    ASSUME NEW acc \in Seq(Nat), NEW r \in Seq(Nat), Begins(r, acc)
    PROVE  IsPrefix(r, acc)
<1> DEFINE u == SubSeq(acc, 1, Len(r))
<1>1. /\ Len(r) \in Nat /\ Len(acc) \in Nat /\ Len(r) <= Len(acc)
      /\ \A i \in 1..Len(r) : r[i] = acc[i] /\ acc[i] \in Nat
  BY DEF Begins
<1>2. /\ u \in Seq(Nat) /\ Len(u) = Len(r)
      /\ \A i \in 1..Len(r) : u[i] = acc[i]
  BY <1>1
<1> HIDE DEF u
<1>3. u = r
  BY <1>1, <1>2, SeqEqual
<1>4. SubSeq(r, 1, Len(r)) = r
  BY SubSeqFull
<1> QED
  BY <1>1, <1>3, <1>4 DEF IsPrefix, u

(* What a leg received: what it has taken, then its sink. *)
LEMMA ReceivedType ==
    ASSUME TeeTypes, NEW l \in Leg
    PROVE  /\ taken[l] \in Seq(Nat) /\ sink[l] \in Seq(Nat)
           /\ Received(l) \in Seq(Nat) /\ Len(Received(l)) \in Nat
           /\ DOMAIN Received(l) = 1..Len(Received(l))
           /\ Len(taken[l]) \in Nat /\ DOMAIN taken[l] = 1..Len(taken[l])
           /\ \A i \in DOMAIN taken[l] : /\ i \in DOMAIN Received(l)
                                          /\ Received(l)[i] = taken[l][i]
           /\ sink[l] # <<>> =>
                 /\ Len(taken[l]) + 1 \in DOMAIN Received(l)
                 /\ Received(l)[Len(taken[l]) + 1] = Head(sink[l])
<1> DEFINE a == taken[l]
           b == sink[l]
           c == Received(l)
<1>1. a \in Seq(Nat) /\ b \in Seq(Nat) /\ c = a \o b
  BY DEF TeeTypes, Received
<1> HIDE DEF a, b, c
<1>2. c \in Seq(Nat) /\ Len(c) = Len(a) + Len(b)
  BY <1>1
<1>3. /\ Len(c) \in Nat /\ DOMAIN c = 1..Len(c)
      /\ Len(a) \in Nat /\ DOMAIN a = 1..Len(a) /\ Len(b) \in Nat
  BY <1>1, <1>2
<1>4. \A i \in DOMAIN a : i \in DOMAIN c /\ c[i] = a[i]
  BY <1>1, <1>2, <1>3
<1>5. b # <<>> => Len(a) + 1 \in DOMAIN c /\ c[Len(a) + 1] = Head(b)
  BY <1>1, <1>2, <1>3
<1> QED
  BY <1>1, <1>2, <1>3, <1>4, <1>5 DEF a, b, c

(* What has passed the tee, and how much of it a leg has been offered. *)
LEMMA PassedType ==
    ASSUME TeeTypes, TapInv
    PROVE  /\ Passed \in Nat /\ Len(teeTap) \in Nat /\ Len(accepted) \in Nat
           /\ Passed <= Len(accepted) /\ Passed + Len(teeTap) = Len(accepted)
           /\ DOMAIN accepted = 1..Len(accepted) /\ DOMAIN teeTap = 1..Len(teeTap)
           /\ \A l \in Leg : Done(l) \in Nat /\ Done(l) <= Passed
  BY DEF TeeTypes, TapInv, Passed, Done, Leg

(* Every step keeps the tee's types. *)
LEMMA TeeTypesStep == TeeTypes /\ [TeeNext]_teevars => TeeTypes'
<1> SUFFICES ASSUME TeeTypes, [TeeNext]_teevars PROVE TeeTypes'
  OBVIOUS
<1> USE DEF tapvars, legvars
<1>0. 1 \in Leg /\ Durable \in Leg /\ Leg \subseteq Nat /\ Legs \in Nat
  BY TeeBounds DEF Leg, Durable
<1>1. CASE EmitDecision
  <2>1. /\ emitted' = emitted + 1
        /\ teeTap' = teeTap \/ teeTap' = Append(teeTap, emitted + 1)
        /\ accepted' = accepted \/ accepted' = Append(accepted, emitted + 1)
        /\ UNCHANGED <<tee, sink, taken, bussed>>
    BY <1>1 DEF EmitDecision
  <2>2. /\ emitted + 1 \in Nat /\ Append(teeTap, emitted + 1) \in Seq(Nat)
        /\ Append(accepted, emitted + 1) \in Seq(Nat)
    BY DEF TeeTypes
  <2> QED
    BY <2>1, <2>2 DEF TeeTypes
<1>2. CASE DropService \/ CancelTee \/ UNCHANGED teevars
  BY <1>2 DEF DropService, CancelTee, teevars, TeeTypes
<1>3. CASE TeeRecv
  <2>1. /\ teeTap # <<>> /\ teeTap' = Tail(teeTap)
        /\ tee' = [step |-> "send", record |-> Head(teeTap), sink |-> 1]
        /\ UNCHANGED <<emitted, accepted, sink, taken, bussed>>
    BY <1>3 DEF TeeRecv
  <2>2. Head(teeTap) \in Nat /\ Tail(teeTap) \in Seq(Nat)
    BY <2>1 DEF TeeTypes
  <2> QED
    BY <1>0, <2>1, <2>2 DEF TeeTypes
<1>4. CASE TeeSend
  <2> DEFINE s == tee.sink
  <2>1. /\ s \in Leg /\ tee.record \in Nat /\ sink[s] \in Seq(Nat)
        /\ tee' = NextSink(s) /\ UNCHANGED <<emitted, teeTap, accepted, taken, bussed>>
        /\ sink' = sink \/ sink' = [sink EXCEPT ![s] = Append(sink[s], tee.record)]
    BY <1>4 DEF TeeSend, TrySend, TeeTypes
  <2>2. Append(sink[s], tee.record) \in Seq(Nat)
    BY <2>1
  <2>3. sink' \in [Leg -> Seq(Nat)]
    BY <2>1, <2>2 DEF TeeTypes
  <2>4. /\ tee' \in [step : {"recv", "send", "stopped"}, record : Nat, sink : Nat]
        /\ tee'.step = "send" => tee'.sink \in Leg
    <3>1. CASE s = Legs
      BY <2>1, <3>1 DEF NextSink
    <3>2. CASE s # Legs
      <4>1. tee' = [tee EXCEPT !.sink = s + 1]
        BY <2>1, <3>2 DEF NextSink
      <4>2. s + 1 \in Leg /\ s + 1 \in Nat
        BY <1>0, <2>1, <3>2 DEF Leg
      <4> QED
        BY <4>1, <4>2 DEF TeeTypes
    <3> QED
      BY <3>1, <3>2
  <2> QED
    BY <2>1, <2>3, <2>4 DEF TeeTypes
<1>5. CASE TeeStop
  <2>1. /\ teeTap' = <<>> /\ tee' = [tee EXCEPT !.step = "stopped"]
        /\ UNCHANGED <<emitted, accepted, sink, taken, bussed>>
    BY <1>5 DEF TeeStop
  <2>2. tee \in [step : {"recv", "send", "stopped"}, record : Nat, sink : Nat]
    BY DEF TeeTypes
  <2>3. /\ tee' \in [step : {"recv", "send", "stopped"}, record : Nat, sink : Nat]
        /\ tee'.step = "stopped"
    BY <2>1, <2>2
  <2>4. teeTap' \in Seq(Nat)
    BY <2>1
  <2> QED
    BY <2>1, <2>3, <2>4 DEF TeeTypes
<1>6. ASSUME NEW l \in Leg, LegTakes(l),
             bussed' \in {bussed, Append(bussed, Head(sink[l]))}
      PROVE  TeeTypes'
  <2>1. /\ sink[l] # <<>> /\ UNCHANGED <<emitted, teeTap, accepted, tee>>
        /\ taken' = [taken EXCEPT ![l] = Append(taken[l], Head(sink[l]))]
        /\ sink' = [sink EXCEPT ![l] = Tail(sink[l])]
    BY <1>6 DEF LegTakes
  <2>2. taken[l] \in Seq(Nat) /\ sink[l] \in Seq(Nat)
    BY ReceivedType
  <2>3. Head(sink[l]) \in Nat /\ Tail(sink[l]) \in Seq(Nat)
    BY <2>1, <2>2
  <2>4. /\ Append(taken[l], Head(sink[l])) \in Seq(Nat)
        /\ Append(bussed, Head(sink[l])) \in Seq(Nat)
    BY <2>2, <2>3 DEF TeeTypes
  <2> QED
    BY <1>6, <2>1, <2>3, <2>4 DEF TeeTypes
<1>7. ASSUME NEW l \in Leg, LegCloses(l) PROVE TeeTypes'
  <2>1. /\ sink' = [sink EXCEPT ![l] = <<>>] /\ <<>> \in Seq(Nat)
        /\ UNCHANGED <<emitted, teeTap, accepted, tee, taken, bussed>>
    BY <1>7 DEF LegCloses
  <2> QED
    BY <2>1 DEF TeeTypes
<1> QED
  BY <1>0, <1>1, <1>2, <1>3, <1>4, <1>5, <1>6, <1>7
     DEF TeeNext, TeeTask, Consume, ForwardDurable

(* Every step keeps the accounts of the tap. *)
LEMMA TapStep == TeeTypes /\ TapInv /\ [TeeNext]_teevars => TapInv'
<1> SUFFICES ASSUME TeeTypes, TapInv, [TeeNext]_teevars PROVE TapInv'
  OBVIOUS
<1> USE DEF tapvars, legvars
<1>0. /\ Passed \in Nat /\ Len(teeTap) \in Nat /\ Len(accepted) \in Nat
      /\ Passed <= Len(accepted) /\ Passed + Len(teeTap) = Len(accepted)
      /\ DOMAIN accepted = 1..Len(accepted) /\ DOMAIN teeTap = 1..Len(teeTap)
  BY PassedType
<1>q. ASSUME UNCHANGED <<emitted, teeTap, accepted, tee>> PROVE TapInv'
  BY <1>q DEF TapInv, Passed
<1>1. CASE EmitDecision
  <2> DEFINE e == emitted + 1
  <2>1. CASE teeTap' = teeTap
    <3>1. accepted' = accepted \/ teeTap' = Append(teeTap, e)
      BY <1>1 DEF EmitDecision
    <3>2. teeTap # Append(teeTap, e)
      BY DEF TeeTypes
    <3>3. emitted' = emitted + 1 /\ UNCHANGED <<accepted, tee, teeTap>>
      BY <1>1, <2>1, <3>1, <3>2 DEF EmitDecision
    <3>4. \A i \in DOMAIN accepted : accepted[i] \in Nat
      BY DEF TeeTypes
    <3> QED
      BY <3>3, <3>4 DEF TapInv, Passed, TeeTypes
  <2>2. CASE teeTap' # teeTap
    <3>1. /\ teeTap' = Append(teeTap, e) /\ accepted' = Append(accepted, e)
          /\ emitted' = e /\ tee' = tee /\ tee.step # "stopped" /\ e \in Nat
      BY <1>1, <2>2 DEF EmitDecision, TeeTypes
    <3> HIDE DEF e
    <3>2. /\ Len(teeTap') = Len(teeTap) + 1 /\ Len(accepted') = Len(accepted) + 1
          /\ DOMAIN accepted' = 1..(Len(accepted) + 1)
          /\ DOMAIN teeTap' = 1..(Len(teeTap) + 1)
          /\ accepted'[Len(accepted) + 1] = e /\ teeTap'[Len(teeTap) + 1] = e
          /\ \A i \in 1..Len(accepted) : /\ accepted'[i] = accepted[i]
                                          /\ accepted[i] \in Nat
          /\ \A i \in 1..Len(teeTap) : teeTap'[i] = teeTap[i]
      BY <3>1 DEF TeeTypes
    <3>3. Passed' = Passed
      BY <1>0, <3>2 DEF Passed
    <3>4. \A i \in 1..Len(accepted) : accepted[i] < e
      <4>1. \A i \in 1..Len(accepted) : accepted[i] <= emitted
        BY <1>0 DEF TapInv
      <4> QED
        BY <3>2, <4>1 DEF TeeTypes, e
    <3>5. /\ \A i \in DOMAIN accepted' : accepted'[i] <= e
      BY <1>0, <3>1, <3>2, <3>4
    <3>6. Ascending(accepted')
      <4> SUFFICES ASSUME NEW i \in DOMAIN accepted', NEW j \in DOMAIN accepted', i < j
                   PROVE  accepted'[i] < accepted'[j]
        BY DEF Ascending
      <4>1. i \in 1..Len(accepted)
        BY <1>0, <3>2
      <4>2. CASE j = Len(accepted) + 1
        BY <3>2, <3>4, <4>1, <4>2
      <4>3. CASE j \in 1..Len(accepted)
        BY <1>0, <3>2, <4>1, <4>3 DEF TapInv, Ascending
      <4> QED
        BY <1>0, <3>2, <4>2, <4>3
    <3>7. ASSUME NEW i \in DOMAIN teeTap' PROVE teeTap'[i] = accepted'[Passed + i]
      <4>1. CASE i = Len(teeTap) + 1
        BY <1>0, <3>2, <4>1
      <4>2. CASE i \in 1..Len(teeTap)
        <5>1. teeTap[i] = accepted[Passed + i]
          BY <1>0, <4>2 DEF TapInv
        <5>2. Passed + i \in 1..Len(accepted)
          BY <1>0, <4>2
        <5> QED
          BY <3>2, <4>2, <5>1, <5>2
      <4> QED
        BY <1>0, <3>2, <4>1, <4>2
    <3>8. tee.step = "send" => Passed >= 1 /\ tee.record = accepted'[Passed]
      BY <1>0, <3>2 DEF TapInv
    <3>9. Len(teeTap') <= Len(accepted')
      BY <1>0, <3>2
    <3> QED
      BY <3>1, <3>3, <3>5, <3>6, <3>7, <3>8, <3>9 DEF TapInv
  <2> QED
    BY <2>1, <2>2
<1>2. CASE DropService \/ CancelTee \/ UNCHANGED teevars
  BY <1>2, <1>q DEF DropService, CancelTee, teevars
<1>3. CASE TeeRecv
  <2>1. /\ teeTap # <<>> /\ teeTap' = Tail(teeTap)
        /\ tee'.step = "send" /\ tee'.record = Head(teeTap)
        /\ UNCHANGED <<emitted, accepted>>
    BY <1>3 DEF TeeRecv
  <2>2. /\ Len(teeTap) \in Nat \ {0} /\ Len(teeTap') = Len(teeTap) - 1
        /\ DOMAIN teeTap' = 1..(Len(teeTap) - 1) /\ Head(teeTap) = teeTap[1]
        /\ \A i \in 1..(Len(teeTap) - 1) : teeTap'[i] = teeTap[i + 1]
    BY <2>1 DEF TeeTypes
  <2>3. Passed' = Passed + 1
    BY <1>0, <2>1, <2>2 DEF Passed
  <2>4. \A i \in 1..Len(teeTap) : teeTap[i] = accepted[Passed + i]
    BY <1>0 DEF TapInv
  <2>5. tee'.record = accepted[Passed + 1]
    BY <2>1, <2>2, <2>4
  <2>6. ASSUME NEW i \in DOMAIN teeTap' PROVE teeTap'[i] = accepted[Passed + 1 + i]
    <3>1. teeTap'[i] = teeTap[i + 1] /\ i + 1 \in 1..Len(teeTap)
      BY <2>2
    <3>2. Passed + (i + 1) = Passed + 1 + i
      BY <1>0, <2>2
    <3> QED
      BY <2>4, <3>1, <3>2
  <2>7. Len(teeTap') <= Len(accepted) /\ Passed + 1 >= 1
    BY <1>0, <2>2
  <2> QED
    BY <2>1, <2>3, <2>5, <2>6, <2>7 DEF TapInv
<1>4. CASE TeeSend
  <2>1. /\ UNCHANGED <<emitted, teeTap, accepted>> /\ tee' = NextSink(tee.sink)
        /\ tee.step = "send" /\ tee \in [step : {"recv", "send", "stopped"},
                                         record : Nat, sink : Nat]
    BY <1>4 DEF TeeSend, TrySend, TeeTypes
  <2>2. tee'.step = "recv" \/ (tee'.step = "send" /\ tee'.record = tee.record)
    BY <2>1 DEF NextSink
  <2> QED
    BY <2>1, <2>2 DEF TapInv, Passed
<1>5. CASE TeeStop
  <2>1. /\ teeTap' = <<>> /\ tee'.step = "stopped" /\ UNCHANGED <<emitted, accepted>>
    BY <1>5 DEF TeeStop, TeeTypes
  <2>2. Len(teeTap') = 0 /\ DOMAIN teeTap' = {}
    BY <2>1
  <2> QED
    BY <1>0, <2>1, <2>2 DEF TapInv
<1>6. ASSUME NEW l \in Leg, LegTakes(l) PROVE TapInv'
  BY <1>6, <1>q DEF LegTakes
<1>7. ASSUME NEW l \in Leg, LegCloses(l) PROVE TapInv'
  BY <1>7, <1>q DEF LegCloses
<1>8. Durable \in Leg
  BY TeeBounds DEF Leg, Durable
<1> QED
  BY <1>8, <1>1, <1>2, <1>3, <1>4, <1>5, <1>6, <1>7
     DEF TeeNext, TeeTask, Consume, ForwardDurable

(* Every step keeps what a leg has received. *)
LEMMA LegStep ==
    ASSUME TeeTypes, TapInv, TapInv', NEW l \in Leg, LegInv(l), [TeeNext]_teevars
    PROVE  LegInv(l)'
<1> USE DEF tapvars, legvars
<1>0. /\ Passed \in Nat /\ Len(teeTap) \in Nat /\ Len(accepted) \in Nat
      /\ Passed <= Len(accepted) /\ Passed + Len(teeTap) = Len(accepted)
      /\ DOMAIN accepted = 1..Len(accepted)
      /\ Done(l) \in Nat /\ Done(l) <= Passed
  BY PassedType
<1>1. /\ taken[l] \in Seq(Nat) /\ sink[l] \in Seq(Nat)
      /\ Received(l) \in Seq(Nat) /\ Len(Received(l)) \in Nat
      /\ DOMAIN Received(l) = 1..Len(Received(l))
      /\ l \in Nat \ {0} /\ l <= Legs /\ Legs \in Nat
  BY ReceivedType, TeeBounds DEF Leg
<1>q. ASSUME UNCHANGED <<teeTap, accepted, tee>>, teeCancelled => teeCancelled',
             Received(l)' = Received(l), l \in crowded => l \in crowded'
      PROVE  LegInv(l)'
  <2>1. Done(l)' = Done(l)
    BY <1>q DEF Done, Passed
  <2> QED
    BY <1>q, <2>1 DEF LegInv
<1>2. CASE EmitDecision
  <2> DEFINE e == emitted + 1
  <2>1. /\ UNCHANGED <<tee, teeCancelled, crowded>> /\ Received(l)' = Received(l)
        /\ \/ teeTap' = teeTap /\ accepted' = accepted
           \/ /\ teeTap' = Append(teeTap, e) /\ accepted' = Append(accepted, e)
              /\ tee.step # "stopped"
    BY <1>2 DEF EmitDecision, Received
  <2>2. CASE teeTap' = teeTap /\ accepted' = accepted
    BY <1>q, <2>1, <2>2
  <2>3. CASE teeTap' = Append(teeTap, e) /\ accepted' = Append(accepted, e)
    <3>1. e \in Nat
      BY DEF TeeTypes
    <3>2. /\ Len(teeTap') = Len(teeTap) + 1 /\ Len(accepted') = Len(accepted) + 1
          /\ \A i \in 1..Len(accepted) : accepted'[i] = accepted[i]
      BY <2>3, <3>1 DEF TeeTypes
    <3>3. Done(l)' = Done(l)
      BY <1>0, <2>1, <3>2 DEF Done, Passed
    <3>4. Thins(Received(l), accepted', Done(l))
      <4>1. ASSUME NEW i \in DOMAIN Received(l)
            PROVE  \E j \in 1..Done(l) : Received(l)[i] = accepted'[j]
        <5>1. PICK j \in 1..Done(l) : Received(l)[i] = accepted[j]
          BY <4>1 DEF LegInv, Thins
        <5>2. j \in 1..Len(accepted)
          BY <1>0
        <5> QED
          BY <3>2, <5>1, <5>2
      <4> QED
        BY <4>1 DEF LegInv, Thins
    <3>5. l \notin crowded => Begins(Received(l), accepted')
      BY <1>0, <1>1, <3>2 DEF LegInv, Begins
    <3> QED
      BY <2>1, <3>3, <3>4, <3>5 DEF LegInv
  <2> QED
    BY <2>1, <2>2, <2>3
<1>3. CASE DropService \/ CancelTee \/ UNCHANGED teevars
  <2>1. /\ UNCHANGED <<teeTap, accepted, tee, sink, taken, crowded>>
        /\ teeCancelled => teeCancelled'
    BY <1>3 DEF DropService, CancelTee, teevars
  <2>2. Received(l)' = Received(l)
    BY <2>1 DEF Received
  <2> QED
    BY <1>q, <2>1, <2>2
<1>4. CASE TeeRecv
  <2>1. /\ teeTap # <<>> /\ teeTap' = Tail(teeTap)
        /\ tee.step = "recv" /\ tee'.step = "send" /\ tee'.sink = 1
        /\ UNCHANGED <<accepted, teeCancelled, crowded>> /\ Received(l)' = Received(l)
    BY <1>4 DEF TeeRecv, Received
  <2>2. Len(teeTap') = Len(teeTap) - 1
    BY <2>1 DEF TeeTypes
  <2>3. Passed' = Passed + 1
    BY <1>0, <2>1, <2>2 DEF Passed
  <2>4. Done(l) = Passed
    BY <2>1 DEF Done
  <2>5. Done(l)' = Passed' - 1
    BY <1>1, <2>1 DEF Done
  <2>6. Done(l)' = Done(l)
    BY <1>0, <2>3, <2>4, <2>5
  <2> QED
    BY <2>1, <2>6 DEF LegInv
<1>5. CASE TeeSend
  <2> DEFINE s == tee.sink
  <2>1. /\ tee.step = "send" /\ s \in Leg /\ tee.record \in Nat
        /\ tee' = NextSink(s) /\ UNCHANGED <<teeTap, accepted, taken, teeCancelled>>
        /\ Passed' = Passed
    BY <1>5 DEF TeeSend, TrySend, TeeTypes, Passed
  <2>2. \/ /\ sink' = [sink EXCEPT ![s] = Append(sink[s], tee.record)]
           /\ crowded' = crowded
        \/ sink' = sink /\ crowded' = crowded \union {s}
    BY <1>5 DEF TeeSend, TrySend
  <2>3. Passed >= 1 /\ tee.record = accepted[Passed] /\ Ascending(accepted)
    BY <2>1 DEF TapInv
  <2>4. /\ s \in Nat /\ s <= Legs
        /\ \/ s = Legs /\ tee'.step = "recv"
           \/ s # Legs /\ tee'.step = "send" /\ tee'.sink = s + 1
    BY <2>1, <1>1 DEF NextSink, Leg, TeeTypes
  <2>5. CASE s # l
    <3>1. Done(l)' = Done(l)
      BY <1>1, <2>1, <2>4, <2>5 DEF Done
    <3>2. Received(l)' = Received(l) /\ (l \in crowded <=> l \in crowded')
      BY <2>1, <2>2, <2>5 DEF Received, TeeTypes
    <3>3. tee.step # "stopped" /\ tee'.step # "stopped"
      BY <2>1, <2>4
    <3> QED
      BY <2>1, <3>1, <3>2, <3>3 DEF LegInv
  <2>6. CASE s = l
    <3>1. Done(l) = Passed - 1 /\ Done(l)' = Passed
      BY <1>1, <2>1, <2>4, <2>6 DEF Done
    <3>2. CASE sink' = sink /\ crowded' = crowded \union {s}
      <4>1. Received(l)' = Received(l) /\ l \in crowded'
        BY <2>1, <2>6, <3>2 DEF Received
      <4>2. Thins(Received(l), accepted, Passed)
        BY <1>0, <3>1 DEF LegInv, Thins
      <4> QED
        BY <2>1, <3>1, <4>1, <4>2 DEF LegInv
    <3>3. CASE /\ sink' = [sink EXCEPT ![s] = Append(sink[s], tee.record)]
               /\ crowded' = crowded
      <4>1. Received(l)' = Append(Received(l), tee.record)
        <5>1. sink'[l] = Append(sink[l], tee.record)
          BY <2>6, <3>3 DEF TeeTypes
        <5>2. taken[l] \o Append(sink[l], tee.record)
                 = Append(taken[l] \o sink[l], tee.record)
          <6>1. tee.record \in Nat
            BY <2>1
          <6>2. \A a, b \in Seq(Nat), e \in Nat : a \o Append(b, e) = Append(a \o b, e)
            BY ConcatAppend
          <6> QED
            BY <1>1, <6>1, <6>2, Zenon
        <5> QED
          BY <2>1, <5>1, <5>2 DEF Received
      <4>2. Thins(Append(Received(l), accepted[Passed]), accepted, Passed)
        <5>1. Thins(Received(l), accepted, Passed - 1) /\ accepted \in Seq(Nat)
          BY <3>1 DEF LegInv, TeeTypes
        <5>2. Passed \in 1..Len(accepted)
          BY <1>0, <2>3
        <5> QED
          BY <1>1, <2>3, <5>1, <5>2, ThinsAppend
      <4>3. ASSUME l \notin crowded
            PROVE  /\ Begins(Append(Received(l), accepted[Passed]), accepted)
                   /\ Len(Append(Received(l), accepted[Passed])) = Passed
        <5>1. Len(Received(l)) = Passed - 1 /\ Begins(Received(l), accepted)
          BY <2>1, <3>1, <4>3 DEF LegInv
        <5>2. /\ Len(Append(Received(l), accepted[Passed])) = Len(Received(l)) + 1
              /\ DOMAIN Append(Received(l), accepted[Passed])
                    = 1..(Len(Received(l)) + 1)
              /\ Append(Received(l), accepted[Passed])[Len(Received(l)) + 1]
                    = accepted[Passed]
              /\ \A i \in 1..Len(Received(l)) :
                    Append(Received(l), accepted[Passed])[i] = Received(l)[i]
          BY <1>1, <2>1, <2>3
        <5> QED
          BY <1>0, <1>1, <2>3, <5>1, <5>2 DEF Begins
      <4> QED
        BY <2>1, <2>3, <3>1, <3>3, <4>1, <4>2, <4>3 DEF LegInv
    <3> QED
      BY <2>2, <3>2, <3>3
  <2> QED
    BY <2>5, <2>6
<1>6. CASE TeeStop
  <2>1. /\ tee.step = "recv" /\ tee'.step = "stopped" /\ teeTap' = <<>>
        /\ teeCancelled \/ teeTap = <<>>
        /\ UNCHANGED <<accepted, teeCancelled, crowded>> /\ Received(l)' = Received(l)
    BY <1>6 DEF TeeStop, Received, TeeTypes
  <2>2. Len(teeTap') = 0 /\ Passed' = Len(accepted) /\ (teeTap = <<>> => Len(teeTap) = 0)
    BY <1>0, <2>1 DEF Passed
  <2>3. Done(l) = Passed /\ Done(l)' = Len(accepted)
    BY <2>1, <2>2 DEF Done
  <2>4. Thins(Received(l), accepted, Len(accepted))
    BY <1>0, <2>3 DEF LegInv, Thins
  <2>5. ~teeCancelled => Len(accepted) = Passed
    BY <1>0, <2>1, <2>2
  <2> QED
    BY <2>1, <2>3, <2>4, <2>5 DEF LegInv
<1>7. ASSUME NEW k \in Leg, LegTakes(k) PROVE LegInv(l)'
  <2>1. /\ sink[k] # <<>> /\ UNCHANGED <<teeTap, accepted, tee, teeCancelled, crowded>>
        /\ taken' = [taken EXCEPT ![k] = Append(taken[k], Head(sink[k]))]
        /\ sink' = [sink EXCEPT ![k] = Tail(sink[k])]
    BY <1>7 DEF LegTakes
  <2>2. Received(l)' = Received(l)
    <3>1. CASE k # l
      BY <2>1, <3>1 DEF Received, TeeTypes
    <3>2. CASE k = l
      <4>1. taken'[l] = Append(taken[l], Head(sink[l])) /\ sink'[l] = Tail(sink[l])
        BY <2>1, <3>2 DEF TeeTypes
      <4>2. Append(taken[l], Head(sink[l])) \o Tail(sink[l]) = taken[l] \o sink[l]
        BY <1>1, <2>1, <3>2, ConcatTake
      <4> QED
        BY <4>1, <4>2 DEF Received
    <3> QED
      BY <3>1, <3>2
  <2> QED
    BY <1>q, <2>1, <2>2
<1>8. ASSUME NEW k \in Leg, LegCloses(k) PROVE LegInv(l)'
  <2>1. /\ sink' = [sink EXCEPT ![k] = <<>>] /\ crowded' = crowded \union {k}
        /\ UNCHANGED <<teeTap, accepted, tee, teeCancelled, taken>>
    BY <1>8 DEF LegCloses
  <2>2. CASE k # l
    <3>1. Received(l)' = Received(l)
      BY <2>1, <2>2 DEF Received, TeeTypes
    <3> QED
      BY <1>q, <2>1, <3>1
  <2>3. CASE k = l
    <3>1. Received(l)' = taken[l] /\ l \in crowded'
      BY <1>1, <2>1, <2>3 DEF Received, TeeTypes
    <3>2. Done(l)' = Done(l)
      BY <2>1 DEF Done, Passed
    <3>3. /\ DOMAIN taken[l] = 1..Len(taken[l]) /\ Len(taken[l]) \in Nat
          /\ \A i \in DOMAIN taken[l] : /\ i \in DOMAIN Received(l)
                                         /\ Received(l)[i] = taken[l][i]
      BY ReceivedType
    <3>4. Thins(taken[l], accepted, Done(l))
      BY <3>3 DEF LegInv, Thins, Ascending
    <3> QED
      BY <2>1, <3>1, <3>2, <3>4 DEF LegInv
  <2> QED
    BY <2>2, <2>3
<1>9. Durable \in Leg
  BY TeeBounds DEF Leg, Durable
<1> QED
  BY <1>9, <1>2, <1>3, <1>4, <1>5, <1>6, <1>7, <1>8
     DEF TeeNext, TeeTask, Consume, ForwardDurable

(* Every step keeps what was published on the bus. *)
LEMMA BusStep ==
    ASSUME TeeTypes, LegInv(Durable), BusInv, [TeeNext]_teevars
    PROVE  BusInv'
<1> USE DEF tapvars, legvars
<1>0. Durable \in Leg
  BY TeeBounds DEF Leg, Durable
<1>1. taken[Durable] \in Seq(Nat) /\ sink[Durable] \in Seq(Nat) /\ bussed \in Seq(Nat)
  BY <1>0, ReceivedType DEF TeeTypes
<1>2. CASE UNCHANGED <<bussed, taken>>
  BY <1>2 DEF BusInv
<1>3. ASSUME NEW l \in Leg, Consume(l) PROVE BusInv'
  <2>1. bussed' = bussed /\ taken'[Durable] = taken[Durable]
    BY <1>0, <1>3 DEF Consume, LegTakes, TeeTypes
  <2> QED
    BY <2>1 DEF BusInv
<1>4. CASE ForwardDurable
  <2> DEFINE h == Head(sink[Durable])
             n == Len(taken[Durable])
  <2>1. /\ sink[Durable] # <<>> /\ taken'[Durable] = Append(taken[Durable], h)
        /\ bussed' \in {bussed, Append(bussed, h)} /\ h \in Nat
    BY <1>0, <1>1, <1>4 DEF ForwardDurable, LegTakes, TeeTypes
  <2>2. /\ n \in Nat /\ DOMAIN taken[Durable] = 1..n
        /\ \A i \in 1..n : i \in DOMAIN Received(Durable)
                            /\ Received(Durable)[i] = taken[Durable][i]
        /\ n + 1 \in DOMAIN Received(Durable) /\ Received(Durable)[n + 1] = h
    BY <1>0, <2>1, ReceivedType
  <2>3. /\ DOMAIN taken'[Durable] = 1..(n + 1) /\ taken'[Durable][n + 1] = h
        /\ \A i \in 1..n : taken'[Durable][i] = taken[Durable][i]
    BY <1>1, <2>1
  <2>4. Ascending(Received(Durable))
    BY DEF LegInv, Thins
  <2> HIDE DEF h, n
  <2>5. \A i \in 1..n : taken[Durable][i] < h
    BY <2>2, <2>4 DEF Ascending
  <2>6. h \in ToSet(taken'[Durable]) /\ ToSet(taken[Durable]) \subseteq ToSet(taken'[Durable])
    BY <2>2, <2>3 DEF ToSet
  <2>7. CASE bussed' = bussed
    BY <2>6, <2>7 DEF BusInv
  <2>8. CASE bussed' = Append(bussed, h)
    <3> DEFINE m == Len(bussed)
    <3>1. /\ m \in Nat /\ DOMAIN bussed = 1..m /\ DOMAIN bussed' = 1..(m + 1)
          /\ bussed'[m + 1] = h /\ \A i \in 1..m : bussed'[i] = bussed[i]
      BY <1>1, <2>1, <2>8
    <3> HIDE DEF m
    <3>2. \A i \in 1..m : bussed[i] \in ToSet(taken[Durable])
      BY <3>1 DEF BusInv, ToSet
    <3>3. \A i \in 1..m : bussed[i] < h
      BY <2>2, <2>5, <3>2 DEF ToSet
    <3>4. Ascending(bussed')
      <4> SUFFICES ASSUME NEW i \in DOMAIN bussed', NEW j \in DOMAIN bussed', i < j
                   PROVE  bussed'[i] < bussed'[j]
        BY DEF Ascending
      <4>1. i \in 1..m
        BY <3>1
      <4>2. CASE j = m + 1
        BY <3>1, <3>3, <4>1, <4>2
      <4>3. CASE j \in 1..m
        BY <3>1, <4>1, <4>3 DEF BusInv, Ascending
      <4> QED
        BY <3>1, <4>2, <4>3
    <3>5. ToSet(bussed') \subseteq ToSet(taken'[Durable])
      <4> SUFFICES ASSUME NEW i \in 1..(m + 1) PROVE bussed'[i] \in ToSet(taken'[Durable])
        BY <3>1 DEF ToSet
      <4>1. CASE i = m + 1
        BY <2>6, <3>1, <4>1
      <4>2. CASE i \in 1..m
        BY <2>6, <3>1, <3>2, <4>2
      <4> QED
        BY <3>1, <4>1, <4>2
    <3> QED
      BY <3>4, <3>5 DEF BusInv
  <2> QED
    BY <2>1, <2>7, <2>8
<1> QED
  BY <1>2, <1>3, <1>4 DEF TeeNext, TeeTask, EmitDecision, DropService, CancelTee, TeeRecv,
     TeeSend, TeeStop, LegCloses, teevars

(***************************************************************************)
(* However slow, closed or crowded the other legs are, each leg gets the   *)
(* accepted records at most once and in order, one that was never full or  *)
(* closed gets all the tee is done with, and a tee that ended with its tap *)
(* is done with all: for any number of legs, any capacities and any number *)
(* of decisions.                                                           *)
(***************************************************************************)
THEOREM LegsAlwaysIndependent == TeeSpec => []LegsAreIndependent
<1> DEFINE I == TeeTypes /\ TapInv /\ BusInv /\ \A l \in Leg : LegInv(l)
<1>0. Durable \in Leg
  BY TeeBounds DEF Leg, Durable
<1>1. TeeInit => I
  <2> SUFFICES ASSUME TeeInit PROVE I
    OBVIOUS
  <2>1. TeeTypes
    BY DEF TeeInit, TeeTypes
  <2>2. /\ DOMAIN accepted = {} /\ DOMAIN teeTap = {} /\ Len(accepted) = 0
        /\ Len(teeTap) = 0 /\ DOMAIN bussed = {} /\ tee.step = "recv"
    BY DEF TeeInit
  <2>3. TapInv /\ BusInv
    BY <2>2 DEF TapInv, BusInv, Ascending, ToSet
  <2>4. ASSUME NEW l \in Leg PROVE LegInv(l)
    <3>1. Received(l) = <<>>
      BY DEF TeeInit, Received
    <3>2. Len(Received(l)) = 0 /\ DOMAIN Received(l) = {}
      BY <3>1
    <3>3. Done(l) = 0
      BY <2>2 DEF Done, Passed
    <3> QED
      BY <2>2, <3>2, <3>3 DEF LegInv, Thins, Begins, Ascending
  <2> QED
    BY <2>1, <2>3, <2>4
<1>2. I /\ [TeeNext]_teevars => I'
  <2> SUFFICES ASSUME I, [TeeNext]_teevars PROVE I'
    OBVIOUS
  <2>1. TeeTypes' /\ TapInv'
    BY TeeTypesStep, TapStep
  <2>2. ASSUME NEW l \in Leg PROVE LegInv(l)'
    BY <2>1, LegStep
  <2>3. BusInv'
    BY <1>0, BusStep
  <2> QED
    BY <2>1, <2>2, <2>3
<1>3. I => LegsAreIndependent
  <2> SUFFICES ASSUME I, NEW l \in Leg
               PROVE  /\ Ascending(Received(l)) /\ ToSet(Received(l)) \subseteq ToSet(accepted)
                      /\ l \notin crowded => IsPrefix(Received(l), accepted)
                      /\ l \notin crowded /\ tee.step = "stopped" /\ ~teeCancelled =>
                            Received(l) = accepted
                      /\ Ascending(bussed) /\ ToSet(bussed) \subseteq ToSet(taken[Durable])
    BY DEF LegsAreIndependent
  <2>1. /\ Passed \in Nat /\ Len(accepted) \in Nat /\ Passed <= Len(accepted)
        /\ Passed + Len(teeTap) = Len(accepted)
        /\ DOMAIN accepted = 1..Len(accepted) /\ Done(l) \in Nat /\ Done(l) <= Passed
        /\ Received(l) \in Seq(Nat) /\ Len(Received(l)) \in Nat /\ accepted \in Seq(Nat)
        /\ DOMAIN Received(l) = 1..Len(Received(l))
    BY PassedType, ReceivedType DEF TeeTypes
  <2>2. Ascending(Received(l)) /\ ToSet(Received(l)) \subseteq ToSet(accepted)
    <3>1. \A i \in DOMAIN Received(l) : \E j \in 1..Len(accepted) : Received(l)[i] = accepted[j]
      BY <2>1 DEF LegInv, Thins
    <3>2. Ascending(Received(l))
      BY DEF LegInv, Thins
    <3>3. ASSUME NEW x \in ToSet(Received(l)) PROVE x \in ToSet(accepted)
      <4>1. PICK i \in DOMAIN Received(l) : x = Received(l)[i]
        BY <3>3 DEF ToSet
      <4> QED
        BY <2>1, <3>1, <4>1 DEF ToSet
    <3> QED
      BY <3>2, <3>3
  <2>3. ASSUME l \notin crowded PROVE IsPrefix(Received(l), accepted)
    <3>1. Begins(Received(l), accepted)
      BY <2>3 DEF LegInv
    <3> QED
      BY <2>1, <3>1, BeginsIsPrefix
  <2>4. ASSUME l \notin crowded, tee.step = "stopped", ~teeCancelled
        PROVE  Received(l) = accepted
    <3>1. Begins(Received(l), accepted) /\ Len(Received(l)) = Done(l)
      BY <2>4 DEF LegInv
    <3>2. teeTap = <<>>
      BY <2>4 DEF TapInv
    <3>3. Done(l) = Len(accepted)
      BY <2>1, <2>4, <3>2 DEF Done
    <3> QED
      BY <2>1, <3>1, <3>3, SeqEqual DEF Begins
  <2>5. Ascending(bussed) /\ ToSet(bussed) \subseteq ToSet(taken[Durable])
    BY DEF BusInv
  <2> QED
    BY <2>2, <2>3, <2>4, <2>5
<1> QED
  BY <1>1, <1>2, <1>3, PTL DEF TeeSpec

=============================================================================
