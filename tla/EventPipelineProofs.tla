------------------------ MODULE EventPipelineProofs -------------------------
(***************************************************************************)
(* Proofs about EventPipeline: delivery to the store and to the bus is at  *)
(* most once and in order, nothing is lost without a cancel, a drop or a   *)
(* failure, and a decision's parent is the event it counted last.  On the  *)
(* way back, the replay of a stream returns the events of the live log.    *)
(***************************************************************************)
EXTENDS EventPipeline, CancelDrain, StreamReplay, DataLemmas

-----------------------------------------------------------------------------
(***************************************************************************)
(* Types.                                                                  *)
(***************************************************************************)
Items == [stream : Streams, n : Nat, len : Nat]

OwnItems(s) == {x \in Items : x.stream = s}

FwdSteps == {"recv", "forward", "publish", "stopped"}

TypeInv ==
    /\ logged \in Nat /\ decided \in Nat /\ cancelled \in BOOLEAN
    /\ \A s \in Streams : tap[s] \in Seq(OwnItems(s))
    /\ \A s \in Streams : stream[s] \in Seq(OwnItems(s))
    /\ DOMAIN tap = Streams /\ DOMAIN stream = Streams
    /\ tapOpen \in [Streams -> BOOLEAN]
    /\ fwd \in [Streams -> [step : FwdSteps, item : Items \cup {NoItem},
                            remaining : Nat]]
    /\ \A s \in Streams : fwd[s].step \in {"forward", "publish"} =>
                             fwd[s].item \in OwnItems(s)
    /\ queue \in Seq(Items)
    /\ writer \in [step : {"recv", "append", "ending", "stopped"},
                   item : Items \cup {NoItem}]
    /\ writer.step = "append" => writer.item \in Items
    /\ writer.step # "append" => writer.item = NoItem
    /\ wedged \in [Streams -> BOOLEAN] /\ gap \in [Streams -> BOOLEAN]
    /\ bus \in Seq(OwnItems("Decisions"))

(* The types hold at the start. *)
LEMMA TypeInit == Init => TypeInv
<1> SUFFICES ASSUME Init PROVE TypeInv
  OBVIOUS
<1>1. /\ \A s \in Streams : tap[s] \in Seq(OwnItems(s))
      /\ \A s \in Streams : stream[s] \in Seq(OwnItems(s))
      /\ DOMAIN tap = Streams /\ DOMAIN stream = Streams
  BY DEF Init
<1>2. Uncounted \in Nat
  BY PipelineBounds DEF Uncounted
<1>3. /\ fwd \in [Streams -> [step : FwdSteps, item : Items \cup {NoItem},
                              remaining : Nat]]
      /\ \A s \in Streams : fwd[s].step = "recv"
  BY <1>2 DEF Init, FwdSteps
<1>4. /\ queue \in Seq(Items) /\ bus \in Seq(OwnItems("Decisions"))
      /\ writer = [step |-> "recv", item |-> NoItem]
  BY DEF Init
<1>5. /\ tapOpen \in [Streams -> BOOLEAN]
      /\ wedged \in [Streams -> BOOLEAN] /\ gap \in [Streams -> BOOLEAN]
      /\ logged \in Nat /\ decided \in Nat /\ cancelled \in BOOLEAN
  BY DEF Init
<1> QED
  BY <1>1, <1>3, <1>4, <1>5 DEF TypeInv

(* A send into the tap keeps the taps typed. *)
LEMMA EmitType ==
    ASSUME TypeInv, NEW s \in Streams, NEW x \in OwnItems(s), try_emit(s, x)
    PROVE  /\ \A r \in Streams : tap'[r] \in Seq(OwnItems(r))
           /\ DOMAIN tap' = Streams /\ gap' \in [Streams -> BOOLEAN]
<1>1. Append(tap[s], x) \in Seq(OwnItems(s))
  BY AppendFacts DEF TypeInv
<1>2. gap' \in [Streams -> BOOLEAN]
  BY DEF try_emit, TypeInv
<1> QED
  BY <1>1, <1>2 DEF try_emit, TypeInv

(* Every step keeps the types. *)
LEMMA TypeStep == TypeInv /\ [Next]_vars => TypeInv'
<1> SUFFICES ASSUME TypeInv, [Next]_vars PROVE TypeInv'
  OBVIOUS
<1> USE DEF producers, store, history
<1>1. CASE LogEvent
  <2>1. Item("Topology", logged + 1, 0) \in OwnItems("Topology")
    BY DEF Item, OwnItems, Items, Streams, TypeInv
  <2>2. /\ \A r \in Streams : tap'[r] \in Seq(OwnItems(r))
        /\ DOMAIN tap' = Streams /\ gap' \in [Streams -> BOOLEAN]
    BY <1>1, <2>1, EmitType DEF LogEvent, Streams
  <2> QED
    BY <1>1, <2>2 DEF LogEvent, TypeInv
<1>2. CASE Decide
  <2>1. PICK len \in 0..logged : try_emit("Decisions", Item("Decisions", decided + 1, len))
    BY <1>2 DEF Decide
  <2>2. Item("Decisions", decided + 1, len) \in OwnItems("Decisions")
    BY DEF Item, OwnItems, Items, Streams, TypeInv
  <2>3. /\ \A r \in Streams : tap'[r] \in Seq(OwnItems(r))
        /\ DOMAIN tap' = Streams /\ gap' \in [Streams -> BOOLEAN]
    BY <2>1, <2>2, EmitType DEF Streams
  <2> QED
    BY <1>2, <2>3 DEF Decide, TypeInv
<1>3. ASSUME NEW s \in Streams, DropTap(s) PROVE TypeInv'
  BY <1>3 DEF DropTap, TypeInv
<1>4. CASE Cancel
  BY <1>4 DEF Cancel, TypeInv
<1>5. CASE ObserveCancel
  <2>1. Len(tap["Decisions"]) \in Nat
    BY DEF TypeInv, Streams
  <2> QED
    BY SMTT(30), <1>5, <2>1 DEF ObserveCancel, TypeInv, Streams
<1>6. ASSUME NEW s \in Streams, Take(s) PROVE TypeInv'
  <2>1. Head(tap[s]) \in OwnItems(s) /\ Tail(tap[s]) \in Seq(OwnItems(s))
    BY <1>6, TailFacts DEF Take, TypeInv
  <2>2. Head(tap[s]) \in Items
    BY <2>1 DEF OwnItems
  <2>3. (IF Counts(s) THEN fwd[s].remaining - 1 ELSE fwd[s].remaining) \in Nat
    BY <1>6 DEF Take, Counts, TypeInv
  <2> DEFINE f == [step |-> "forward", item |-> Head(tap[s]),
                   remaining |-> IF Counts(s) THEN fwd[s].remaining - 1
                                              ELSE fwd[s].remaining]
  <2>4. f \in [step : FwdSteps, item : Items \cup {NoItem}, remaining : Nat]
        /\ f.item = Head(tap[s]) /\ f.step = "forward"
    BY <2>2, <2>3 DEF FwdSteps
  <2>5. fwd' = [fwd EXCEPT ![s] = f] /\ tap' = [tap EXCEPT ![s] = Tail(tap[s])]
    BY <1>6 DEF Take
  <2> HIDE DEF f
  <2>6. UNCHANGED <<logged, decided, tapOpen, cancelled, queue, writer, stream,
                    wedged, bus, gap>>
    BY <1>6 DEF Take
  <2> QED
    BY <2>1, <2>4, <2>5, <2>6 DEF TypeInv
<1>7. ASSUME NEW s \in Streams, StopForwarder(s) PROVE TypeInv'
  <2>1. <<>> \in Seq(OwnItems(s))
    OBVIOUS
  <2> QED
    BY ZenonT(60), <1>7, <2>1 DEF StopForwarder, TypeInv, FwdSteps
<1>8. ASSUME NEW s \in Streams, AfterSend(s)
      PROVE  /\ fwd' \in [Streams -> [step : FwdSteps, item : Items \cup {NoItem},
                                      remaining : Nat]]
             /\ \A r \in Streams : fwd'[r].step = "forward" =>
                                      r # s /\ fwd'[r] = fwd[r]
             /\ \A r \in Streams : fwd'[r].step = "publish" =>
                \/ r = s /\ fwd'[r].item = fwd[r].item
                \/ fwd'[r] = fwd[r]
  <2> DEFINE F == [step : FwdSteps, item : Items \cup {NoItem}, remaining : Nat]
  <2>1. PICK f : /\ fwd' = [fwd EXCEPT ![s] = f] /\ f \in F
                 /\ \/ f.step = "recv"
                    \/ f.step = "publish" /\ f.item = fwd[s].item
    <3>1. fwd[s] \in F /\ NoItem \in Items \cup {NoItem}
      BY DEF TypeInv
    <3>2. CASE s = "Decisions" /\ Bus
      <4> DEFINE g == [fwd[s] EXCEPT !.step = "publish"]
      <4>1. g \in F /\ g.step = "publish" /\ g.item = fwd[s].item
        BY <3>1 DEF FwdSteps
      <4>2. fwd' = [fwd EXCEPT ![s] = g]
        BY <1>8, <3>2 DEF AfterSend
      <4> HIDE DEF F, g
      <4> QED
        BY <4>1, <4>2
    <3>3. CASE ~(s = "Decisions" /\ Bus)
      <4> DEFINE g == [fwd[s] EXCEPT !.step = "recv", !.item = NoItem]
      <4>1. g \in F /\ g.step = "recv"
        BY <3>1 DEF FwdSteps
      <4>2. fwd' = [fwd EXCEPT ![s] = g]
        BY <1>8, <3>3 DEF AfterSend
      <4> HIDE DEF F, g
      <4> QED
        BY <4>1, <4>2
    <3> QED
      BY <3>2, <3>3
  <2>2. fwd \in [Streams -> F]
    BY DEF TypeInv
  <2> HIDE DEF F
  <2>3. /\ fwd' \in [Streams -> F] /\ fwd'[s] = f
        /\ \A r \in Streams : r # s => fwd'[r] = fwd[r]
    BY <2>1, <2>2
  <2> QED
    BY <2>1, <2>3 DEF F
<1>9. ASSUME NEW s \in Streams, Forward(s) PROVE TypeInv'
  <2>1. fwd[s].item \in Items
    BY <1>9 DEF Forward, TypeInv, OwnItems
  <2>2. Append(queue, fwd[s].item) \in Seq(Items)
    BY <2>1, AppendFacts DEF TypeInv
  <2> QED
    BY <1>8, <1>9, <2>2 DEF Forward, TypeInv
<1>10. ASSUME NEW s \in Streams, SendClosed(s) \/ EncodeFails(s) PROVE TypeInv'
  BY <1>8, <1>10 DEF SendClosed, EncodeFails, TypeInv
<1>11. CASE Publish
  <2>1. "Decisions" \in Streams
    BY DEF Streams
  <2>2. fwd["Decisions"].item \in OwnItems("Decisions")
    BY <1>11, <2>1 DEF Publish, TypeInv
  <2>3. Append(bus, fwd["Decisions"].item) \in Seq(OwnItems("Decisions"))
    BY <2>2, AppendFacts DEF TypeInv
  <2>4. bus' \in Seq(OwnItems("Decisions"))
    BY <1>11, <2>3 DEF Publish, TypeInv
  <2> DEFINE F == [step : FwdSteps, item : Items \cup {NoItem}, remaining : Nat]
             f == [fwd["Decisions"] EXCEPT !.step = "recv", !.item = NoItem]
  <2>5. fwd \in [Streams -> F] /\ f \in F /\ f.step = "recv"
    BY ZenonT(60), <2>1 DEF TypeInv, FwdSteps
  <2>6. fwd' = [fwd EXCEPT !["Decisions"] = f]
    BY <1>11 DEF Publish
  <2> HIDE DEF F, f
  <2>7. /\ fwd' \in [Streams -> F]
        /\ \A r \in Streams : fwd'[r].step \in {"forward", "publish"} =>
                                 fwd'[r] = fwd[r]
    BY <2>1, <2>5, <2>6
  <2>8. UNCHANGED <<logged, decided, tap, tapOpen, cancelled, queue, writer,
                    stream, wedged, gap>>
    BY <1>11 DEF Publish
  <2> QED
    BY <2>4, <2>7, <2>8 DEF TypeInv, F
<1>12. CASE WriterTake
  <2>1. Head(queue) \in Items /\ Tail(queue) \in Seq(Items)
    BY <1>12, TailFacts DEF WriterTake, TypeInv
  <2> QED
    BY <1>12, <2>1 DEF WriterTake, TypeInv
<1>13. CASE offload_append
  <2> DEFINE i == writer.item
  <2>1. i \in OwnItems(i.stream) /\ i.stream \in Streams
    BY <1>13 DEF offload_append, TypeInv, OwnItems, Items
  <2>2. Append(stream[i.stream], i) \in Seq(OwnItems(i.stream))
    BY <2>1, AppendFacts DEF TypeInv
  <2>3. writer' = [step |-> "recv", item |-> NoItem]
    BY <1>13 DEF offload_append
  <2>4. /\ UNCHANGED <<logged, decided, tap, tapOpen, fwd, cancelled, queue, bus>>
        /\ \/ stream' = [stream EXCEPT ![i.stream] = Append(stream[i.stream], i)]
           \/ stream' = stream
        /\ wedged' \in {wedged, [wedged EXCEPT ![i.stream] = TRUE]}
        /\ gap' \in {gap, [gap EXCEPT ![i.stream] = TRUE]}
    BY <1>13 DEF offload_append
  <2>5. wedged' \in [Streams -> BOOLEAN] /\ gap' \in [Streams -> BOOLEAN]
    BY <2>4 DEF TypeInv
  <2>6. DOMAIN stream' = Streams /\ \A r \in Streams : stream'[r] \in Seq(OwnItems(r))
    BY <2>1, <2>2, <2>4 DEF TypeInv
  <2>7. /\ writer' \in [step : {"recv", "append", "ending", "stopped"},
                        item : Items \cup {NoItem}]
        /\ writer'.step = "recv" /\ writer'.item = NoItem
    BY <2>3
  <2> QED
    BY <2>4, <2>5, <2>6, <2>7 DEF TypeInv
<1>14. CASE WriterEnds \/ CloseWriter
  <2>1. <<>> \in Seq(Items)
    OBVIOUS
  <2> QED
    BY <1>14, <2>1 DEF WriterEnds, CloseWriter, TypeInv
<1>15. CASE UNCHANGED vars
  BY <1>15 DEF vars, TypeInv
<1> QED
  BY <1>1, <1>2, <1>3, <1>4, <1>5, <1>6, <1>7, <1>9, <1>10, <1>11, <1>12, <1>13,
     <1>14, <1>15 DEF Next, Forwarder, Writer

-----------------------------------------------------------------------------
(***************************************************************************)
(* Where the items of a stream are on their way to the store, and how each *)
(* step moves them.                                                        *)
(***************************************************************************)
InWriter(s) == {x \in {writer.item} : writer.step = "append" /\ x.stream = s}
InQueue(s)  == {x \in Range(queue) : x.stream = s}
InFwd(s)    == {x \in {fwd[s].item} : fwd[s].step = "forward"}
InTap(s)    == Range(tap[s])
Pending(s)  == InWriter(s) \cup InQueue(s) \cup InFwd(s) \cup InTap(s)

(* A send puts the item at the end of its tap, or leaves a gap. *)
LEMMA EmitMoves ==
    ASSUME TypeInv, NEW r \in Streams, NEW x \in OwnItems(r), try_emit(r, x),
           UNCHANGED <<stream, fwd, queue, writer>>, NEW s \in Streams
    PROVE  /\ UNCHANGED stream[s]
           /\ InWriter(s)' = InWriter(s) /\ InQueue(s)' = InQueue(s)
           /\ InFwd(s)' = InFwd(s)
           /\ \/ /\ tap'[s] = Append(tap[s], x) /\ InTap(s)' = InTap(s) \cup {x}
                 /\ s = r /\ ~Stopped(s) /\ gap'[s] = gap[s]
              \/ tap'[s] = tap[s] /\ InTap(s)' = InTap(s) /\ (s = r => gap'[s])
<1>1. /\ UNCHANGED stream[s]
      /\ InWriter(s)' = InWriter(s) /\ InQueue(s)' = InQueue(s)
      /\ InFwd(s)' = InFwd(s)
  BY DEF InWriter, InQueue, InFwd
<1>2. \/ /\ tap'[s] = Append(tap[s], x) /\ s = r /\ ~Stopped(s)
         /\ gap'[s] = gap[s]
      \/ tap'[s] = tap[s] /\ (s = r => gap'[s])
  BY DEF try_emit, TypeInv
<1>3. s = r => Range(Append(tap[s], x)) = Range(tap[s]) \cup {x}
  BY AppendFacts DEF TypeInv
<1> QED
  BY <1>1, <1>2, <1>3 DEF InTap

(* The forwarder of one stream at a time. *)
LEMMA TakeMoves ==
    ASSUME TypeInv, NEW r \in Streams, Take(r), NEW s \in Streams
    PROVE  /\ UNCHANGED stream[s] /\ InWriter(s)' = InWriter(s)
           /\ InQueue(s)' = InQueue(s)
           /\ s # r => InFwd(s)' = InFwd(s) /\ tap'[s] = tap[s]
           /\ s = r => /\ tap[s] # <<>> /\ tap'[s] = Tail(tap[s])
                       /\ InFwd(s) = {} /\ InFwd(s)' = {Head(tap[s])}
                       /\ InTap(s) = {Head(tap[s])} \cup InTap(s)'
<1> USE DEF producers, store, history
<1>1. /\ UNCHANGED stream[s] /\ InWriter(s)' = InWriter(s)
      /\ InQueue(s)' = InQueue(s)
  BY DEF Take, InWriter, InQueue
<1>2. s # r => InFwd(s)' = InFwd(s) /\ tap'[s] = tap[s]
  BY DEF Take, InFwd, TypeInv
<1>3. ASSUME s = r
      PROVE  /\ tap[s] # <<>> /\ tap'[s] = Tail(tap[s])
             /\ InFwd(s) = {} /\ InFwd(s)' = {Head(tap[s])}
  <2>1. tap[s] # <<>> /\ tap'[s] = Tail(tap[s]) /\ InFwd(s) = {}
    BY <1>3 DEF Take, InFwd, TypeInv
  <2>2. fwd'[s].step = "forward" /\ fwd'[s].item = Head(tap[s])
    BY <1>3 DEF Take, TypeInv
  <2> QED
    BY <2>1, <2>2 DEF InFwd
<1>4. ASSUME s = r, NEW t, t = tap[s]
      PROVE  Range(t) = {Head(t)} \cup Range(Tail(t))
  <2>1. t \in Seq(OwnItems(s)) /\ t # <<>>
    BY <1>3, <1>4 DEF TypeInv
  <2>2. /\ Head(t) = t[1] /\ Len(t) \in Nat /\ DOMAIN t = 1..Len(t)
        /\ DOMAIN Tail(t) = 1..(Len(t) - 1)
        /\ \A i \in DOMAIN Tail(t) : Tail(t)[i] = t[i + 1]
        /\ Head(t) \in Range(t) /\ Range(Tail(t)) \subseteq Range(t)
    BY <2>1, TailFacts
  <2> DEFINE h == Head(t)
             u == Tail(t)
  <2> HIDE DEF h, u
  <2>3. ASSUME NEW x \in Range(t) PROVE x = h \/ x \in Range(u)
    <3>1. PICK i \in 1..Len(t) : x = t[i]
      BY <2>2, <2>3 DEF Range
    <3>2. CASE i = 1
      BY <2>2, <3>1, <3>2 DEF h
    <3>3. CASE i > 1
      <4>1. i - 1 \in DOMAIN u /\ u[i - 1] = t[i]
        BY <2>2, <3>1, <3>3 DEF u
      <4> QED
        BY <3>1, <4>1 DEF Range
    <3> QED
      BY <3>1, <3>2, <3>3
  <2> QED
    BY <2>2, <2>3 DEF h, u
<1> QED
  BY <1>1, <1>2, <1>3, <1>4 DEF InTap

(* A forwarder that stops empties its tap. *)
LEMMA StopMoves ==
    ASSUME TypeInv, NEW r \in Streams, StopForwarder(r), NEW s \in Streams
    PROVE  /\ UNCHANGED stream[s] /\ InWriter(s)' = InWriter(s)
           /\ InQueue(s)' = InQueue(s) /\ InFwd(s)' = InFwd(s)
           /\ s # r => tap'[s] = tap[s] /\ (Stopped(s)' <=> Stopped(s))
           /\ s = r => tap'[s] = <<>> /\ InTap(s)' = {} /\ Stopped(s)'
                       /\ InFwd(s) = {}
<1> USE DEF producers, store, history
<1>1. /\ UNCHANGED stream[s] /\ InWriter(s)' = InWriter(s)
      /\ InQueue(s)' = InQueue(s)
  BY DEF StopForwarder, InWriter, InQueue
<1>2. s # r => tap'[s] = tap[s] /\ fwd'[s] = fwd[s]
  BY DEF StopForwarder, TypeInv
<1>3. s = r => tap'[s] = <<>> /\ fwd'[s].step = "stopped" /\ fwd[s].step = "recv"
  BY DEF StopForwarder, TypeInv
<1>4. s = r => Range(tap'[s]) = {}
  BY <1>3 DEF Range
<1> QED
  BY <1>1, <1>2, <1>3, <1>4 DEF InFwd, InTap, Stopped

(* After a send, successful or not, the forwarder holds nothing to send. *)
LEMMA SentMoves ==
    ASSUME TypeInv, NEW r \in Streams, AfterSend(r), fwd[r].step = "forward",
           NEW s \in Streams
    PROVE  /\ InFwd(r)' = {} /\ InFwd(r) = {fwd[r].item}
           /\ s # r => fwd'[s] = fwd[s]
           /\ Stopped(s)' <=> Stopped(s)
<1>1. s # r => fwd'[s] = fwd[s]
  BY DEF AfterSend, TypeInv
<1>2. fwd'[r].step \in {"recv", "publish"}
  BY DEF AfterSend, TypeInv
<1> QED
  BY <1>1, <1>2 DEF InFwd, Stopped

(* A forward moves the forwarder's item to the end of the queue. *)
LEMMA ForwardMoves ==
    ASSUME TypeInv, NEW r \in Streams, Forward(r), NEW s \in Streams
    PROVE  /\ UNCHANGED <<stream[s], tap[s]>> /\ InWriter(s)' = InWriter(s)
           /\ s # r => InFwd(s)' = InFwd(s) /\ InQueue(s)' = InQueue(s)
           /\ s = r => /\ InFwd(s) = {fwd[r].item} /\ InFwd(s)' = {}
                       /\ InQueue(s)' = InQueue(s) \cup {fwd[r].item}
           /\ fwd[r].item \in OwnItems(r)
           /\ queue' = Append(queue, fwd[r].item)
<1> USE DEF producers, store, history
<1>1. /\ UNCHANGED <<stream[s], tap[s]>> /\ InWriter(s)' = InWriter(s)
      /\ queue' = Append(queue, fwd[r].item)
      /\ AfterSend(r) /\ fwd[r].step = "forward"
  BY DEF Forward, InWriter
<1>2. fwd[r].item \in OwnItems(r)
  BY <1>1 DEF TypeInv
<1>3. Range(queue') = Range(queue) \cup {fwd[r].item}
  BY <1>1, <1>2, AppendFacts DEF TypeInv, OwnItems
<1>4. fwd[r].item.stream = r
  BY <1>2 DEF OwnItems
<1>5. /\ InFwd(r)' = {} /\ InFwd(r) = {fwd[r].item}
      /\ s # r => fwd'[s] = fwd[s]
  BY <1>1, SentMoves
<1> QED
  BY <1>1, <1>2, <1>3, <1>4, <1>5 DEF InFwd, InQueue

(* A closed queue or a failed encoding loses the forwarder's item only. *)
LEMMA DroppedMoves ==
    ASSUME TypeInv, NEW r \in Streams, SendClosed(r) \/ EncodeFails(r),
           NEW s \in Streams
    PROVE  /\ UNCHANGED <<stream[s], tap[s]>> /\ InWriter(s)' = InWriter(s)
           /\ InQueue(s)' = InQueue(s)
           /\ s # r => InFwd(s)' = InFwd(s)
           /\ s = r => InFwd(s)' = {}
           /\ Stopped(s)' <=> Stopped(s)
<1> USE DEF producers, store, history
<1>1. /\ UNCHANGED <<stream[s], tap[s]>> /\ InWriter(s)' = InWriter(s)
      /\ InQueue(s)' = InQueue(s) /\ AfterSend(r) /\ fwd[r].step = "forward"
  BY DEF SendClosed, EncodeFails, InWriter, InQueue
<1> QED
  BY <1>1, SentMoves DEF InFwd

(* The writer takes the head of the queue. *)
LEMMA WriterTakeMoves ==
    ASSUME TypeInv, WriterTake, NEW s \in Streams
    PROVE  /\ UNCHANGED <<stream[s], tap[s]>> /\ InFwd(s)' = InFwd(s)
           /\ queue \in Seq(Items) /\ queue # <<>> /\ queue' = Tail(queue)
           /\ InWriter(s) = {}
           /\ InWriter(s)' = {x \in {Head(queue)} : x.stream = s}
           /\ InQueue(s) = InQueue(s)' \cup InWriter(s)'
<1> USE DEF producers, store, history
<1>1. /\ UNCHANGED <<stream[s], tap[s]>> /\ InFwd(s)' = InFwd(s)
      /\ queue \in Seq(Items) /\ queue # <<>> /\ queue' = Tail(queue)
      /\ writer.step = "recv" /\ writer' = [step |-> "append", item |-> Head(queue)]
  BY DEF WriterTake, InFwd, TypeInv
<1>2. InWriter(s) = {} /\ InWriter(s)' = {x \in {Head(queue)} : x.stream = s}
  BY <1>1 DEF InWriter
<1>3. Range(queue) = {Head(queue)} \cup Range(Tail(queue))
  <2> DEFINE h == Head(queue)
             u == Tail(queue)
  <2>2. /\ h = queue[1] /\ Len(queue) \in Nat /\ DOMAIN queue = 1..Len(queue)
        /\ DOMAIN u = 1..(Len(queue) - 1)
        /\ \A i \in DOMAIN u : u[i] = queue[i + 1]
        /\ h \in Range(queue) /\ Range(u) \subseteq Range(queue)
    BY <1>1, TailFacts
  <2> HIDE DEF h, u
  <2>3. ASSUME NEW x \in Range(queue) PROVE x = h \/ x \in Range(u)
    <3>1. PICK i \in 1..Len(queue) : x = queue[i]
      BY <2>2, <2>3 DEF Range
    <3>2. CASE i = 1
      BY <2>2, <3>1, <3>2
    <3>3. CASE i > 1
      <4>1. i - 1 \in DOMAIN u /\ u[i - 1] = queue[i]
        BY <2>2, <3>1, <3>3
      <4> QED
        BY <3>1, <4>1 DEF Range
    <3> QED
      BY <3>1, <3>2, <3>3
  <2> QED
    BY <2>2, <2>3 DEF h, u
<1>4. InQueue(s) = InQueue(s)' \cup InWriter(s)'
  BY <1>1, <1>2, <1>3 DEF InQueue
<1> QED
  BY <1>1, <1>2, <1>4

(* An append ends the stream with the item, leaves a gap, or wedges it. *)
LEMMA AppendMoves ==
    ASSUME TypeInv, offload_append, NEW s \in Streams
    PROVE  /\ tap'[s] = tap[s] /\ InFwd(s)' = InFwd(s) /\ InQueue(s)' = InQueue(s)
           /\ writer.item \in Items /\ InWriter(s)' = {}
           /\ writer.item.stream # s => /\ stream'[s] = stream[s] /\ InWriter(s) = {}
                                        /\ wedged'[s] = wedged[s] /\ gap'[s] = gap[s]
           /\ writer.item.stream = s =>
                 /\ InWriter(s) = {writer.item}
                 /\ \/ /\ stream'[s] = Append(stream[s], writer.item)
                       /\ wedged[s] = FALSE /\ wedged'[s] = FALSE /\ gap'[s] = gap[s]
                    \/ stream'[s] = stream[s] /\ gap'[s] = TRUE
                    \/ stream'[s] = stream[s] /\ wedged'[s] = TRUE /\ gap'[s] = gap[s]
<1> USE DEF producers, store, history
<1>1. /\ tap'[s] = tap[s] /\ InFwd(s)' = InFwd(s) /\ InQueue(s)' = InQueue(s)
      /\ writer.step = "append" /\ writer' = [step |-> "recv", item |-> NoItem]
  BY DEF offload_append, InFwd, InQueue
<1>2. writer.item \in Items /\ InWriter(s)' = {}
  BY <1>1 DEF InWriter, TypeInv
<1>3. ASSUME writer.item.stream # s
      PROVE  stream'[s] = stream[s] /\ wedged'[s] = wedged[s] /\ gap'[s] = gap[s]
  BY <1>3 DEF offload_append, TypeInv
<1>4. ASSUME writer.item.stream = s
      PROVE  \/ /\ stream'[s] = Append(stream[s], writer.item)
                /\ wedged[s] = FALSE /\ wedged'[s] = FALSE /\ gap'[s] = gap[s]
             \/ stream'[s] = stream[s] /\ gap'[s] = TRUE
             \/ stream'[s] = stream[s] /\ wedged'[s] = TRUE /\ gap'[s] = gap[s]
  BY <1>4 DEF offload_append, TypeInv
<1>5. /\ writer.item.stream # s => InWriter(s) = {}
      /\ writer.item.stream = s => InWriter(s) = {writer.item}
  BY <1>1 DEF InWriter
<1> QED
  BY <1>1, <1>2, <1>3, <1>4, <1>5

-----------------------------------------------------------------------------
(***************************************************************************)
(* Order: within a stage the items of a stream are in order, and what is   *)
(* further on its way came earlier.                                        *)
(***************************************************************************)
Below(A, B) == \A a \in A, b \in B : a.n < b.n

QueueOrdered(s) ==
    \A i, j \in DOMAIN queue :
       i < j /\ queue[i].stream = s /\ queue[j].stream = s =>
          queue[i].n < queue[j].n

OrderInv(s) ==
    /\ Increasing(stream[s]) /\ Increasing(tap[s]) /\ QueueOrdered(s)
    /\ Below(Range(stream[s]), Pending(s))
    /\ Below(InWriter(s), InQueue(s) \cup InFwd(s) \cup InTap(s))
    /\ Below(InQueue(s), InFwd(s) \cup InTap(s))
    /\ Below(InFwd(s), InTap(s))
    /\ \A x \in Range(stream[s]) \cup Pending(s) : x.n \in 1..Produced(s)

(* Appending a larger element keeps a sequence in order. *)
LEMMA AppendIncreasing ==
    ASSUME NEW S, NEW t \in Seq(S), NEW x \in S, Increasing(t),
           \A y \in Range(t) : y.n < x.n
    PROVE  Increasing(Append(t, x))
<1> DEFINE u == Append(t, x)
<1>1. /\ Len(t) \in Nat /\ DOMAIN t = 1..Len(t) /\ DOMAIN u = 1..(Len(t) + 1)
      /\ \A i \in 1..Len(t) : u[i] = t[i]
      /\ u[Len(t) + 1] = x
  BY AppendFacts
<1> HIDE DEF u
<1>2. \A i \in 1..Len(t) : t[i].n < x.n
  BY <1>1 DEF Range
<1>3. ASSUME NEW i \in DOMAIN u, NEW j \in DOMAIN u, i < j PROVE u[i].n < u[j].n
  <2>1. i \in 1..Len(t)
    BY <1>1, <1>3
  <2>2. CASE j = Len(t) + 1
    BY <1>1, <1>2, <2>1, <2>2
  <2>3. CASE j \in 1..Len(t)
    BY <1>1, <1>3, <2>1, <2>3 DEF Increasing
  <2> QED
    BY <1>1, <2>2, <2>3
<1> QED
  BY <1>3 DEF Increasing, u

(* The head of a sequence in order is smaller than the rest. *)
LEMMA TailIncreasing ==
    ASSUME NEW S, NEW t \in Seq(S), t # <<>>, Increasing(t)
    PROVE  Increasing(Tail(t)) /\ \A y \in Range(Tail(t)) : Head(t).n < y.n
<1> DEFINE u == Tail(t)
           h == Head(t)
<1>1. /\ h = t[1] /\ 1 \in DOMAIN t /\ Len(t) \in Nat /\ DOMAIN t = 1..Len(t)
      /\ DOMAIN u = 1..(Len(t) - 1)
      /\ \A i \in DOMAIN u : i + 1 \in DOMAIN t /\ u[i] = t[i + 1]
  BY TailFacts
<1> HIDE DEF u, h
<1>2. Increasing(u)
  BY <1>1 DEF Increasing
<1>3. \A i \in DOMAIN u : h.n < u[i].n
  BY <1>1 DEF Increasing
<1> QED
  BY <1>2, <1>3 DEF u, h, Range

(* Every step keeps the order of the places. *)
LEMMA OrderStep ==
    ASSUME TypeInv, NEW s \in Streams, OrderInv(s), [Next]_vars
    PROVE  OrderInv(s)'
<1> USE DEF producers, store, history
<1>0. /\ tap[s] \in Seq(OwnItems(s)) /\ stream[s] \in Seq(OwnItems(s))
      /\ queue \in Seq(Items) /\ Produced(s) \in Nat
  BY DEF TypeInv, Produced
<1>q. ASSUME UNCHANGED <<stream[s], tap[s], queue>>, Produced(s)' = Produced(s),
             InWriter(s)' \subseteq InWriter(s), InFwd(s)' \subseteq InFwd(s)
      PROVE  OrderInv(s)'
  <2>1. InQueue(s)' = InQueue(s) /\ InTap(s)' = InTap(s)
    BY <1>q DEF InQueue, InTap
  <2> QED
    BY <1>q, <2>1 DEF OrderInv, QueueOrdered, Below, Pending
<1>e. ASSUME NEW r \in Streams, NEW x \in OwnItems(r), try_emit(r, x),
             UNCHANGED <<stream, fwd, queue, writer>>,
             s = r => x.n = Produced(s) + 1 /\ Produced(s)' = Produced(s) + 1,
             s # r => Produced(s)' = Produced(s)
      PROVE  OrderInv(s)'
  <2>1. /\ UNCHANGED stream[s]
        /\ InWriter(s)' = InWriter(s) /\ InQueue(s)' = InQueue(s)
        /\ InFwd(s)' = InFwd(s)
        /\ \/ /\ tap'[s] = Append(tap[s], x) /\ InTap(s)' = InTap(s) \cup {x}
              /\ s = r
           \/ tap'[s] = tap[s] /\ InTap(s)' = InTap(s)
    BY <1>e, EmitMoves
  <2>2. \A y \in Range(stream[s]) \cup Pending(s) :
           y.n \in 1..Produced(s) /\ (s = r => y.n < x.n)
    BY <1>0, <1>e DEF OrderInv
  <2>3. Increasing(tap[s])'
    <3>1. s = r => Increasing(Append(tap[s], x))
      BY <1>0, <2>2, AppendIncreasing DEF OrderInv, Pending, InTap
    <3> QED
      BY <2>1, <3>1 DEF OrderInv
  <2>4. \A y \in Range(stream[s])' \cup Pending(s)' : y.n \in 1..Produced(s)'
    BY <1>0, <1>e, <2>1, <2>2 DEF Pending
  <2> QED
    BY <1>e, <2>1, <2>2, <2>3, <2>4 DEF OrderInv, QueueOrdered, Below, Pending
<1>1. CASE LogEvent
  <2> DEFINE x == Item("Topology", logged + 1, 0)
  <2>1. x \in OwnItems("Topology") /\ x.n = logged + 1 /\ "Topology" \in Streams
    BY DEF Item, OwnItems, Items, Streams, TypeInv
  <2>2. /\ s = "Topology" => Produced(s) = logged /\ Produced(s)' = logged + 1
        /\ s # "Topology" => Produced(s)' = Produced(s)
    BY <1>1 DEF LogEvent, Produced
  <2>3. try_emit("Topology", x) /\ UNCHANGED <<stream, fwd, queue, writer>>
    BY <1>1 DEF LogEvent
  <2> HIDE DEF x
  <2> QED
    BY <1>e, <2>1, <2>2, <2>3
<1>2. CASE Decide
  <2>1. PICK len \in 0..logged :
            try_emit("Decisions", Item("Decisions", decided + 1, len))
    BY <1>2 DEF Decide
  <2> DEFINE x == Item("Decisions", decided + 1, len)
  <2>2. x \in OwnItems("Decisions") /\ x.n = decided + 1 /\ "Decisions" \in Streams
    BY DEF Item, OwnItems, Items, Streams, TypeInv
  <2>3. /\ s = "Decisions" => Produced(s) = decided /\ Produced(s)' = decided + 1
        /\ s # "Decisions" => Produced(s)' = Produced(s)
    BY <1>2 DEF Decide, Produced, Streams
  <2>4. try_emit("Decisions", x) /\ UNCHANGED <<stream, fwd, queue, writer>>
    BY <1>2, <2>1 DEF Decide
  <2> HIDE DEF x
  <2> QED
    BY <1>e, <2>2, <2>3, <2>4
<1>3. ASSUME NEW r \in Streams, DropTap(r) PROVE OrderInv(s)'
  BY <1>3, <1>q DEF DropTap, Produced, InWriter, InFwd
<1>4. CASE Cancel
  BY <1>4, <1>q DEF Cancel, Produced, InWriter, InFwd
<1>5. CASE ObserveCancel \/ Publish
  <2>1. UNCHANGED <<stream[s], tap[s], queue, writer, logged, decided>>
    BY <1>5 DEF ObserveCancel, Publish
  <2>2. \/ fwd'[s].step = fwd[s].step /\ fwd'[s].item = fwd[s].item
        \/ fwd'[s].step # "forward"
    <3>1. CASE ObserveCancel
      BY <3>1 DEF ObserveCancel, TypeInv
    <3>2. CASE Publish /\ s = "Decisions"
      BY <3>2 DEF Publish, TypeInv
    <3>3. CASE Publish /\ s # "Decisions"
      BY <3>3 DEF Publish, TypeInv
    <3> QED
      BY <1>5, <3>1, <3>2, <3>3
  <2> QED
    BY <2>1, <2>2, <1>q DEF Produced, InWriter, InFwd
<1>6. ASSUME NEW r \in Streams, Take(r) PROVE OrderInv(s)'
  <2>1. /\ UNCHANGED stream[s] /\ InWriter(s)' = InWriter(s)
        /\ InQueue(s)' = InQueue(s)
        /\ s # r => InFwd(s)' = InFwd(s) /\ tap'[s] = tap[s]
        /\ s = r => /\ tap[s] # <<>> /\ tap'[s] = Tail(tap[s])
                    /\ InFwd(s) = {} /\ InFwd(s)' = {Head(tap[s])}
                    /\ InTap(s) = {Head(tap[s])} \cup InTap(s)'
    BY <1>6, TakeMoves
  <2>2. UNCHANGED queue /\ Produced(s)' = Produced(s)
    BY <1>6 DEF Take, Produced
  <2>3. CASE s # r
    BY <1>q, <2>1, <2>2, <2>3
  <2>4. CASE s = r
    <3>1. Increasing(Tail(tap[s])) /\ \A y \in Range(Tail(tap[s])) : Head(tap[s]).n < y.n
      BY <1>0, <2>1, <2>4, TailIncreasing DEF OrderInv
    <3>2. Below(InFwd(s)', InTap(s)')
      BY <2>1, <2>4, <3>1 DEF Below, InTap
    <3>3. Pending(s)' = Pending(s)
      BY <2>1, <2>4 DEF Pending
    <3>4. InFwd(s)' \cup InTap(s)' = InFwd(s) \cup InTap(s)
      BY <2>1, <2>4
    <3>5. Increasing(tap[s])' /\ QueueOrdered(s)'
      BY <2>1, <2>2, <2>4, <3>1 DEF OrderInv, QueueOrdered
    <3> QED
      BY <2>1, <2>2, <3>2, <3>3, <3>4, <3>5 DEF OrderInv, Below
  <2> QED
    BY <2>3, <2>4
<1>7. ASSUME NEW r \in Streams, StopForwarder(r) PROVE OrderInv(s)'
  <2>1. /\ UNCHANGED stream[s] /\ InWriter(s)' = InWriter(s)
        /\ InQueue(s)' = InQueue(s) /\ InFwd(s)' = InFwd(s)
        /\ s # r => tap'[s] = tap[s]
        /\ s = r => tap'[s] = <<>> /\ InTap(s)' = {}
    BY <1>7, StopMoves
  <2>2. UNCHANGED queue /\ Produced(s)' = Produced(s)
    BY <1>7 DEF StopForwarder, Produced
  <2>3. CASE s # r
    BY <1>q, <2>1, <2>2, <2>3
  <2>4. CASE s = r
    <3>1. Increasing(tap[s])'
      BY <2>1, <2>4 DEF Increasing
    <3> QED
      BY <2>1, <2>2, <2>4, <3>1 DEF OrderInv, QueueOrdered, Below, Pending
  <2> QED
    BY <2>3, <2>4
<1>8. ASSUME NEW r \in Streams, Forward(r) PROVE OrderInv(s)'
  <2> DEFINE x == fwd[r].item
             q == Append(queue, x)
  <2>1. /\ UNCHANGED <<stream[s], tap[s]>> /\ InWriter(s)' = InWriter(s)
        /\ s # r => InFwd(s)' = InFwd(s) /\ InQueue(s)' = InQueue(s)
        /\ s = r => /\ InFwd(s) = {x} /\ InFwd(s)' = {}
                    /\ InQueue(s)' = InQueue(s) \cup {x}
        /\ x \in OwnItems(r)
        /\ queue' = q
    BY <1>8, ForwardMoves
  <2>2. Produced(s)' = Produced(s) /\ x \in Items /\ x.stream = r
    BY <1>8, <2>1 DEF Forward, Produced, OwnItems
  <2>3. /\ Len(queue) \in Nat /\ DOMAIN queue = 1..Len(queue)
        /\ DOMAIN q = 1..(Len(queue) + 1)
        /\ \A i \in 1..Len(queue) : q[i] = queue[i]
        /\ q[Len(queue) + 1] = x
    BY <1>0, <2>2, AppendFacts
  <2>4. s = r => \A i \in DOMAIN queue : queue[i].stream = s => queue[i].n < x.n
    <3>1. \A i \in DOMAIN queue : queue[i].stream = s => queue[i] \in InQueue(s)
      BY DEF InQueue, Range
    <3> QED
      BY <2>1, <3>1 DEF OrderInv, Below
  <2> HIDE DEF x, q
  <2>5. QueueOrdered(s)'
    <3> SUFFICES ASSUME NEW i \in DOMAIN q, NEW j \in DOMAIN q, i < j,
                        q[i].stream = s, q[j].stream = s
                 PROVE  q[i].n < q[j].n
      BY <2>1 DEF QueueOrdered
    <3>1. i \in DOMAIN queue /\ q[i] = queue[i]
      BY <2>3
    <3>2. CASE j = Len(queue) + 1
      BY <2>2, <2>3, <2>4, <3>1, <3>2
    <3>3. CASE j \in DOMAIN queue
      BY <2>3, <3>1, <3>3 DEF OrderInv, QueueOrdered
    <3> QED
      BY <2>3, <3>2, <3>3
  <2>6. Pending(s)' = Pending(s)
    <3>1. InTap(s)' = InTap(s)
      BY <2>1 DEF InTap
    <3> QED
      BY <2>1, <3>1 DEF Pending
  <2>7. InTap(s)' = InTap(s)
    BY <2>1 DEF InTap
  <2>8. CASE s = r
    BY <2>1, <2>2, <2>5, <2>6, <2>7, <2>8 DEF OrderInv, Below
  <2>9. CASE s # r
    BY <2>1, <2>2, <2>5, <2>6, <2>7, <2>9 DEF OrderInv, Below
  <2> QED
    BY <2>8, <2>9
<1>9. ASSUME NEW r \in Streams, SendClosed(r) \/ EncodeFails(r)
      PROVE  OrderInv(s)'
  <2>1. /\ UNCHANGED <<stream[s], tap[s]>> /\ InWriter(s)' = InWriter(s)
        /\ InFwd(s)' \subseteq InFwd(s)
    BY <1>9, DroppedMoves
  <2>2. UNCHANGED queue /\ Produced(s)' = Produced(s)
    BY <1>9 DEF SendClosed, EncodeFails, Produced
  <2> QED
    BY <1>q, <2>1, <2>2
<1>10. CASE WriterTake
  <2>1. /\ UNCHANGED <<stream[s], tap[s]>> /\ InFwd(s)' = InFwd(s)
        /\ queue # <<>> /\ queue' = Tail(queue)
        /\ InWriter(s) = {}
        /\ InWriter(s)' = {x \in {Head(queue)} : x.stream = s}
        /\ InQueue(s) = InQueue(s)' \cup InWriter(s)'
    BY <1>10, WriterTakeMoves
  <2>2. Produced(s)' = Produced(s) /\ InTap(s)' = InTap(s)
    BY <1>10, <2>1 DEF WriterTake, Produced, InTap
  <2> DEFINE h == Head(queue)
             u == Tail(queue)
  <2>3. /\ h = queue[1] /\ 1 \in DOMAIN queue
        /\ Len(queue) \in Nat /\ DOMAIN queue = 1..Len(queue)
        /\ DOMAIN u = 1..(Len(queue) - 1)
        /\ \A i \in DOMAIN u : i + 1 \in DOMAIN queue /\ u[i] = queue[i + 1]
    BY <1>0, <2>1, TailFacts
  <2>4. queue' = u /\ InWriter(s)' = {x \in {h} : x.stream = s}
    BY <2>1
  <2> HIDE DEF h, u
  <2>5. QueueOrdered(s)'
    BY <2>3, <2>4 DEF OrderInv, QueueOrdered
  <2>6. Below(InWriter(s)', InQueue(s)')
    <3>1. h.stream = s => \A i \in DOMAIN u : u[i].stream = s => h.n < u[i].n
      BY <2>3 DEF OrderInv, QueueOrdered
    <3> QED
      BY <2>4, <3>1 DEF Below, InQueue, Range
  <2>7. Pending(s)' = Pending(s)
    BY <2>1, <2>2 DEF Pending
  <2> QED
    BY <2>1, <2>2, <2>5, <2>6, <2>7 DEF OrderInv, Below
<1>11. CASE offload_append
  <2> DEFINE x == writer.item
  <2>1. /\ tap'[s] = tap[s] /\ InFwd(s)' = InFwd(s) /\ InQueue(s)' = InQueue(s)
        /\ x \in Items /\ InWriter(s)' = {}
        /\ x.stream # s => /\ stream'[s] = stream[s] /\ InWriter(s) = {}
        /\ x.stream = s =>
              /\ InWriter(s) = {x}
              /\ stream'[s] = Append(stream[s], x) \/ stream'[s] = stream[s]
    BY <1>11, AppendMoves
  <2>2. /\ Produced(s)' = Produced(s) /\ InTap(s)' = InTap(s) /\ queue' = queue
        /\ QueueOrdered(s)'
    BY <1>11, <2>1 DEF offload_append, Produced, InTap, OrderInv, QueueOrdered
  <2>3. ASSUME stream'[s] # stream[s]
        PROVE  /\ x \in OwnItems(s) /\ stream'[s] = Append(stream[s], x)
               /\ InWriter(s) = {x}
    BY <2>1, <2>3 DEF OwnItems
  <2> HIDE DEF x
  <2>4. ASSUME stream'[s] # stream[s]
        PROVE  /\ Increasing(stream[s])'
               /\ Range(stream[s])' = Range(stream[s]) \cup InWriter(s)
    <3>1. \A y \in Range(stream[s]) : y.n < x.n
      BY <2>3, <2>4 DEF OrderInv, Below, Pending
    <3>2. Increasing(Append(stream[s], x))
      BY <1>0, <2>3, <2>4, <3>1, AppendIncreasing DEF OrderInv
    <3>3. Range(Append(stream[s], x)) = Range(stream[s]) \cup {x}
      BY <1>0, <2>3, <2>4, AppendFacts
    <3> QED
      BY <2>3, <2>4, <3>2, <3>3
  <2>5. CASE stream'[s] = stream[s]
    BY <2>1, <2>2, <2>5 DEF OrderInv, Below, Pending
  <2>6. CASE stream'[s] # stream[s]
    BY <2>1, <2>2, <2>4, <2>6 DEF OrderInv, Below, Pending
  <2> QED
    BY <2>5, <2>6
<1>12. CASE WriterEnds
  BY <1>12, <1>q DEF WriterEnds, Produced, InWriter, InFwd, TypeInv
<1>13. CASE CloseWriter
  <2>1. /\ UNCHANGED <<stream[s], tap[s]>> /\ InFwd(s)' = InFwd(s)
        /\ InWriter(s)' = {} /\ queue' = <<>> /\ Produced(s)' = Produced(s)
        /\ InTap(s)' = InTap(s)
    BY <1>13 DEF CloseWriter, Produced, InWriter, InFwd, InTap, TypeInv
  <2>2. InQueue(s)' = {} /\ QueueOrdered(s)'
    BY <2>1 DEF InQueue, Range, QueueOrdered
  <2> QED
    BY <2>1, <2>2 DEF OrderInv, Below, Pending
<1>14. CASE UNCHANGED vars
  BY <1>14, <1>q DEF vars, Produced, InWriter, InFwd
<1> QED
  BY <1>1, <1>2, <1>3, <1>4, <1>5, <1>6, <1>7, <1>8, <1>9, <1>10, <1>11, <1>12,
     <1>13, <1>14 DEF Next, Forwarder, Writer

-----------------------------------------------------------------------------
(***************************************************************************)
(* The writer ends by itself only after its senders, and an ended          *)
(* forwarder stays so; a counted drain means a cancel.                     *)
(***************************************************************************)
StopInv ==
    /\ fwd["Decisions"].remaining # Uncounted => cancelled
    /\ writer.step \in {"ending", "stopped"} /\ ~cancelled =>
          queue = <<>> /\ \A s \in Streams : Stopped(s)

(* Every step keeps who may have stopped. *)
LEMMA StopStep ==
    ASSUME TypeInv, StopInv, [Next]_vars
    PROVE  StopInv'
<1> USE DEF producers, store, history
<1>0. "Decisions" \in Streams
  BY DEF Streams
<1>q. ASSUME UNCHANGED <<queue, fwd>>, cancelled => cancelled',
             writer'.step = writer.step \/ writer'.step \in {"recv", "append"}
      PROVE  StopInv'
  BY <1>q DEF StopInv, Stopped
<1>1. CASE LogEvent \/ Decide
  BY <1>1, <1>q DEF LogEvent, Decide
<1>2. ASSUME NEW s \in Streams, DropTap(s) PROVE StopInv'
  BY <1>2, <1>q DEF DropTap
<1>3. CASE Cancel
  BY <1>3, <1>q DEF Cancel
<1>4. CASE ObserveCancel
  BY <1>4 DEF ObserveCancel, StopInv
<1>5. ASSUME NEW s \in Streams, Take(s) PROVE StopInv'
  <2>1. fwd[s].step = "recv" /\ UNCHANGED <<cancelled, queue, writer>>
    BY <1>5 DEF Take
  <2>2. writer.step \in {"ending", "stopped"} => cancelled
    BY <2>1 DEF StopInv, Stopped
  <2>3. fwd'["Decisions"].remaining # Uncounted => cancelled
    <3>1. CASE s = "Decisions"
      <4>1. fwd'["Decisions"].remaining = IF Counts("Decisions")
                 THEN fwd["Decisions"].remaining - 1 ELSE fwd["Decisions"].remaining
        BY <1>5, <3>1, <1>0 DEF Take, TypeInv
      <4> QED
        BY <4>1 DEF Counts, StopInv
    <3>2. CASE s # "Decisions"
      BY <1>5, <3>2, <1>0 DEF Take, TypeInv, StopInv
    <3> QED
      BY <3>1, <3>2
  <2> QED
    BY <2>1, <2>2, <2>3 DEF StopInv
<1>6. ASSUME NEW s \in Streams, StopForwarder(s) PROVE StopInv'
  <2>1. fwd[s].step = "recv" /\ UNCHANGED <<cancelled, queue, writer>>
    BY <1>6 DEF StopForwarder
  <2>2. writer.step \in {"ending", "stopped"} => cancelled
    BY <2>1 DEF StopInv, Stopped
  <2>3. fwd'["Decisions"].remaining = fwd["Decisions"].remaining
    BY <1>6, <1>0 DEF StopForwarder, TypeInv
  <2> QED
    BY <2>1, <2>2, <2>3 DEF StopInv
<1>7. ASSUME NEW s \in Streams, Forward(s) \/ SendClosed(s) \/ EncodeFails(s)
      PROVE  StopInv'
  <2>1. fwd[s].step = "forward" /\ AfterSend(s) /\ UNCHANGED <<cancelled, writer>>
    BY <1>7 DEF Forward, SendClosed, EncodeFails
  <2>2. writer.step \in {"ending", "stopped"} => cancelled
    BY <2>1 DEF StopInv, Stopped
  <2>3. fwd'["Decisions"].remaining = fwd["Decisions"].remaining
    BY <2>1, <1>0 DEF AfterSend, TypeInv
  <2> QED
    BY <2>1, <2>2, <2>3 DEF StopInv
<1>8. CASE Publish
  <2>1. fwd["Decisions"].step = "publish" /\ UNCHANGED <<cancelled, queue, writer>>
    BY <1>8 DEF Publish
  <2>2. writer.step \in {"ending", "stopped"} => cancelled
    BY <2>1, <1>0 DEF StopInv, Stopped
  <2>3. fwd'["Decisions"].remaining = fwd["Decisions"].remaining
    BY <1>8, <1>0 DEF Publish, TypeInv
  <2> QED
    BY <2>1, <2>2, <2>3 DEF StopInv
<1>9. CASE WriterTake
  BY <1>9 DEF WriterTake, StopInv
<1>10. CASE offload_append
  BY <1>10 DEF offload_append, StopInv
<1>11. CASE WriterEnds
  BY <1>11 DEF WriterEnds, StopInv, Stopped
<1>12. CASE CloseWriter
  BY <1>12 DEF CloseWriter, StopInv, Stopped
<1>13. CASE UNCHANGED vars
  BY <1>13, <1>q DEF vars
<1> QED
  BY <1>1, <1>2, <1>3, <1>4, <1>5, <1>6, <1>7, <1>8, <1>9, <1>10, <1>11, <1>12,
     <1>13 DEF Next, Forwarder, Writer

(* A forwarder that ended took the rest of its tap with it. *)
EmptyInv == \A s \in Streams : Stopped(s) => tap[s] = <<>>

(* Every step keeps what a stopped task left empty. *)
LEMMA EmptyStep ==
    ASSUME TypeInv, EmptyInv, [Next]_vars
    PROVE  EmptyInv'
<1> USE DEF producers, store, history
<1>0. "Decisions" \in Streams /\ "Topology" \in Streams
  BY DEF Streams
<1>q. ASSUME UNCHANGED <<tap, fwd>> PROVE EmptyInv'
  BY <1>q DEF EmptyInv, Stopped
<1>r. ASSUME NEW s \in Streams, UNCHANGED tap, ~Stopped(s)',
             \A r \in Streams \ {s} : fwd'[r] = fwd[r]
      PROVE  EmptyInv'
  BY <1>r DEF EmptyInv, Stopped
<1>e. ASSUME NEW s \in Streams, NEW x, try_emit(s, x), UNCHANGED fwd
      PROVE  EmptyInv'
  <2>1. \A r \in Streams : Stopped(r) => tap'[r] = tap[r]
    BY <1>e DEF try_emit, TypeInv
  <2> QED
    BY <1>e, <2>1 DEF EmptyInv, Stopped
<1>1. CASE LogEvent
  BY <1>0, <1>1, <1>e DEF LogEvent
<1>2. CASE Decide
  BY <1>0, <1>2, <1>e DEF Decide
<1>3. ASSUME NEW s \in Streams, DropTap(s) PROVE EmptyInv'
  BY <1>3, <1>q DEF DropTap
<1>4. CASE Cancel \/ Writer
  BY <1>4, <1>q DEF Cancel, Writer, WriterTake, offload_append, WriterEnds,
                    CloseWriter
<1>5. CASE ObserveCancel
  <2>1. /\ UNCHANGED tap /\ ~Stopped("Decisions")'
        /\ \A r \in Streams \ {"Decisions"} : fwd'[r] = fwd[r]
    BY <1>0, <1>5 DEF ObserveCancel, Stopped, TypeInv
  <2> QED
    BY <1>0, <1>r, <2>1
<1>6. ASSUME NEW s \in Streams, Take(s) PROVE EmptyInv'
  <2>1. /\ \A r \in Streams \ {s} : fwd'[r] = fwd[r] /\ tap'[r] = tap[r]
        /\ fwd'[s].step = "forward"
    BY <1>6 DEF Take, TypeInv
  <2> QED
    BY <2>1 DEF EmptyInv, Stopped
<1>7. ASSUME NEW s \in Streams, StopForwarder(s) PROVE EmptyInv'
  <2>1. /\ \A r \in Streams \ {s} : fwd'[r] = fwd[r] /\ tap'[r] = tap[r]
        /\ tap'[s] = <<>>
    BY <1>7 DEF StopForwarder, TypeInv
  <2> QED
    BY <2>1 DEF EmptyInv, Stopped
<1>8. ASSUME NEW s \in Streams, Forward(s) \/ SendClosed(s) \/ EncodeFails(s)
      PROVE  EmptyInv'
  <2>1. AfterSend(s) /\ UNCHANGED tap
    BY <1>8 DEF Forward, SendClosed, EncodeFails
  <2>2. ~Stopped(s)' /\ \A r \in Streams \ {s} : fwd'[r] = fwd[r]
    BY <2>1 DEF AfterSend, Stopped, TypeInv
  <2> QED
    BY <1>r, <2>1, <2>2
<1>9. CASE Publish
  <2>1. /\ UNCHANGED tap /\ ~Stopped("Decisions")'
        /\ \A r \in Streams \ {"Decisions"} : fwd'[r] = fwd[r]
    BY <1>0, <1>9 DEF Publish, Stopped, TypeInv
  <2> QED
    BY <1>0, <1>r, <2>1
<1>10. CASE UNCHANGED vars
  BY <1>10, <1>q DEF vars
<1> QED
  BY <1>1, <1>2, <1>3, <1>4, <1>5, <1>6, <1>7, <1>8, <1>9, <1>10
     DEF Next, Forwarder

-----------------------------------------------------------------------------
(***************************************************************************)
(* Completeness.  While nothing was lost or wedged, the items on their     *)
(* way continue the store's stream without a hole, and up to the last one  *)
(* produced as long as the stages are alive or the end came in order.      *)
(***************************************************************************)
Covered(s, m) ==
    \A k \in (Len(stream[s]) + 1)..m : \E y \in Pending(s) : y.n = k

Intact(s) == ~cancelled \/ (writer.step # "stopped" /\ ~Stopped(s))

CountInv(s) ==
    /\ ~gap[s] => \A i \in DOMAIN stream[s] : stream[s][i].n = i
    /\ ~gap[s] /\ ~wedged[s] /\ writer.step # "stopped" =>
          \A x \in Pending(s) : Covered(s, x.n)
    /\ ~gap[s] /\ ~wedged[s] /\ Intact(s) => Covered(s, Produced(s))

(* Every step keeps the numbers without a gap. *)
LEMMA CountStep ==
    ASSUME TypeInv, StopInv, NEW s \in Streams, OrderInv(s), CountInv(s),
           [Next]_vars
    PROVE  CountInv(s)'
<1> USE DEF producers, store, history
<1>0. /\ tap[s] \in Seq(OwnItems(s)) /\ stream[s] \in Seq(OwnItems(s))
      /\ queue \in Seq(Items) /\ Produced(s) \in Nat /\ Len(stream[s]) \in Nat
  BY DEF TypeInv, Produced
<1>q. ASSUME UNCHANGED stream[s], Produced(s)' = Produced(s),
             Pending(s)' = Pending(s),
             gap'[s] = gap[s] \/ gap'[s], wedged'[s] = wedged[s],
             writer.step = "stopped" => writer'.step = "stopped",
             Intact(s)' => Intact(s)
      PROVE  CountInv(s)'
  BY <1>q DEF CountInv, Covered
<1>e. ASSUME NEW r \in Streams, NEW x \in OwnItems(r), try_emit(r, x),
             UNCHANGED <<stream, wedged, fwd, queue, writer, cancelled>>,
             s = r => x.n = Produced(s) + 1 /\ Produced(s)' = Produced(s) + 1,
             s # r => Produced(s)' = Produced(s)
      PROVE  CountInv(s)'
  <2>1. /\ UNCHANGED stream[s]
        /\ InWriter(s)' = InWriter(s) /\ InQueue(s)' = InQueue(s)
        /\ InFwd(s)' = InFwd(s)
        /\ \/ /\ InTap(s)' = InTap(s) \cup {x}
              /\ s = r /\ ~Stopped(s) /\ gap'[s] = gap[s]
           \/ InTap(s)' = InTap(s) /\ (s = r => gap'[s])
    BY <1>e, EmitMoves
  <2>2. Intact(s)' = Intact(s)
    BY <1>e DEF Intact, Stopped
  <2>3. CASE s # r
    <3>1. gap'[s] = gap[s]
      BY <1>e, <2>3 DEF try_emit, TypeInv
    <3> QED
      BY <1>e, <1>q, <2>1, <2>2, <2>3, <3>1 DEF Pending
  <2>4. CASE s = r /\ InTap(s)' = InTap(s) /\ gap'[s]
    BY <2>4 DEF CountInv
  <2>5. CASE s = r /\ InTap(s)' = InTap(s) \cup {x} /\ ~Stopped(s)
             /\ gap'[s] = gap[s]
    <3>1. Pending(s)' = Pending(s) \cup {x}
      BY <2>1, <2>5 DEF Pending
    <3>2. Produced(s)' = Produced(s) + 1 /\ x.n = Produced(s) + 1
      BY <1>e, <2>5
    <3>3. ASSUME ~gap[s], ~wedged[s], Intact(s),
                 NEW k \in (Len(stream[s]) + 1)..(Produced(s) + 1)
          PROVE  \E y \in Pending(s)' : y.n = k
      <4>1. Covered(s, Produced(s))
        BY <3>3 DEF CountInv
      <4>2. CASE k = Produced(s) + 1
        BY <3>1, <3>2, <4>2
      <4>3. CASE k # Produced(s) + 1
        BY <1>0, <3>1, <4>1, <4>3 DEF Covered
      <4> QED
        BY <4>2, <4>3
    <3>4. ASSUME ~gap[s], ~wedged[s], Intact(s),
                 NEW y \in Pending(s)', NEW k \in (Len(stream[s]) + 1)..y.n
          PROVE  \E z \in Pending(s)' : z.n = k
      <4>1. y.n \in 1..(Produced(s) + 1)
        BY <1>0, <3>1, <3>2 DEF OrderInv
      <4> QED
        BY <1>0, <3>3, <3>4, <4>1
    <3>5. writer.step # "stopped" => Intact(s)
      BY <2>5 DEF Intact
    <3>6. stream'[s] = stream[s] /\ UNCHANGED <<writer, wedged>>
      BY <1>e
    <3> QED
      BY <2>2, <2>5, <3>2, <3>3, <3>4, <3>5, <3>6 DEF CountInv, Covered
  <2> QED
    BY <2>1, <2>3, <2>4, <2>5
<1>1. CASE LogEvent
  <2> DEFINE x == Item("Topology", logged + 1, 0)
  <2>1. x \in OwnItems("Topology") /\ x.n = logged + 1 /\ "Topology" \in Streams
    BY DEF Item, OwnItems, Items, Streams, TypeInv
  <2>2. /\ s = "Topology" => Produced(s) = logged /\ Produced(s)' = logged + 1
        /\ s # "Topology" => Produced(s)' = Produced(s)
    BY <1>1 DEF LogEvent, Produced
  <2>3. try_emit("Topology", x)
        /\ UNCHANGED <<stream, wedged, fwd, queue, writer, cancelled>>
    BY <1>1 DEF LogEvent
  <2> HIDE DEF x
  <2> QED
    BY <1>e, <2>1, <2>2, <2>3
<1>2. CASE Decide
  <2>1. PICK len \in 0..logged :
            try_emit("Decisions", Item("Decisions", decided + 1, len))
    BY <1>2 DEF Decide
  <2> DEFINE x == Item("Decisions", decided + 1, len)
  <2>2. x \in OwnItems("Decisions") /\ x.n = decided + 1 /\ "Decisions" \in Streams
    BY DEF Item, OwnItems, Items, Streams, TypeInv
  <2>3. /\ s = "Decisions" => Produced(s) = decided /\ Produced(s)' = decided + 1
        /\ s # "Decisions" => Produced(s)' = Produced(s)
    BY <1>2 DEF Decide, Produced, Streams
  <2>4. try_emit("Decisions", x)
        /\ UNCHANGED <<stream, wedged, fwd, queue, writer, cancelled>>
    BY <1>2, <2>1 DEF Decide
  <2> HIDE DEF x
  <2> QED
    BY <1>e, <2>2, <2>3, <2>4
<1>3. ASSUME NEW r \in Streams, DropTap(r) PROVE CountInv(s)'
  <2>1. Pending(s)' = Pending(s)
    BY <1>3 DEF DropTap, Pending, InWriter, InQueue, InFwd, InTap
  <2> QED
    BY <1>3, <2>1, <1>q DEF DropTap, Produced, Intact, Stopped
<1>4. CASE Cancel
  <2>1. Pending(s)' = Pending(s)
    BY <1>4 DEF Cancel, Pending, InWriter, InQueue, InFwd, InTap
  <2> QED
    BY <1>4, <2>1, <1>q DEF Cancel, Produced, Intact
<1>5. CASE ObserveCancel \/ Publish
  <2>1. UNCHANGED <<stream, wedged, gap, tap, queue, writer, logged, decided,
                    cancelled>>
    BY <1>5 DEF ObserveCancel, Publish
  <2>2. \/ fwd'[s].step = fwd[s].step /\ fwd'[s].item = fwd[s].item
        \/ fwd[s].step = "publish" /\ fwd'[s].step = "recv"
    <3>1. CASE ObserveCancel
      BY <3>1 DEF ObserveCancel, TypeInv
    <3>2. CASE Publish /\ s = "Decisions"
      BY <3>2 DEF Publish, TypeInv
    <3>3. CASE Publish /\ s # "Decisions"
      BY <3>3 DEF Publish, TypeInv
    <3> QED
      BY <1>5, <3>1, <3>2, <3>3
  <2>3. Pending(s)' = Pending(s)
    BY <2>1, <2>2 DEF Pending, InWriter, InQueue, InFwd, InTap
  <2> QED
    BY <2>1, <2>2, <2>3, <1>q DEF Produced, Intact, Stopped
<1>6. ASSUME NEW r \in Streams, Take(r) PROVE CountInv(s)'
  <2>1. /\ InWriter(s)' = InWriter(s) /\ InQueue(s)' = InQueue(s)
        /\ s # r => InFwd(s)' = InFwd(s) /\ tap'[s] = tap[s]
        /\ s = r => /\ InFwd(s) = {} /\ InFwd(s)' = {Head(tap[s])}
                    /\ InTap(s) = {Head(tap[s])} \cup InTap(s)'
    BY <1>6, TakeMoves
  <2>2. Pending(s)' = Pending(s)
    BY <2>1 DEF Pending, InTap
  <2>3. Intact(s)' => Intact(s)
    <3>1. (s = r => fwd[s].step = "recv") /\ (s # r => fwd'[s] = fwd[s])
      BY <1>6 DEF Take, TypeInv
    <3> QED
      BY <1>6, <3>1 DEF Take, Intact, Stopped
  <2> QED
    BY <1>6, <1>q, <2>2, <2>3 DEF Take, Produced
<1>7. ASSUME NEW r \in Streams, StopForwarder(r) PROVE CountInv(s)'
  <2>1. /\ UNCHANGED stream[s] /\ InWriter(s)' = InWriter(s)
        /\ InQueue(s)' = InQueue(s) /\ InFwd(s)' = InFwd(s)
        /\ s # r => tap'[s] = tap[s] /\ (Stopped(s)' <=> Stopped(s))
        /\ s = r => tap'[s] = <<>> /\ InTap(s)' = {} /\ Stopped(s)'
                    /\ InFwd(s) = {}
    BY <1>7, StopMoves
  <2>2. /\ UNCHANGED <<queue, writer, wedged, gap, cancelled>>
        /\ Produced(s)' = Produced(s)
    BY <1>7 DEF StopForwarder, Produced
  <2>3. CASE s # r
    <3>1. Pending(s)' = Pending(s)
      BY <2>1, <2>3 DEF Pending, InTap
    <3> QED
      BY <1>q, <2>1, <2>2, <2>3, <3>1 DEF Intact
  <2>4. CASE s = r
    <3>1. Pending(s)' = InWriter(s) \cup InQueue(s)
      BY <2>1, <2>4 DEF Pending
    <3>2. ASSUME ~gap[s], ~wedged[s], writer.step # "stopped",
                 NEW x \in Pending(s)', NEW k \in (Len(stream[s]) + 1)..x.n
          PROVE  \E y \in Pending(s)' : y.n = k
      <4>1. x \in Pending(s)
        BY <3>1 DEF Pending
      <4>2. PICK y \in Pending(s) : y.n = k
        BY <3>2, <4>1 DEF CountInv, Covered
      <4>3. x.n \in Nat /\ y.n \in Nat
        BY <4>1 DEF OrderInv
      <4>4. y \notin InTap(s)
        BY <3>1, <3>2, <4>2, <4>3 DEF OrderInv, Below
      <4>5. y \in Pending(s)'
        BY <2>1, <2>4, <3>1, <4>4 DEF Pending
      <4> QED
        BY <4>2, <4>5
    <3>3. ASSUME ~cancelled PROVE Pending(s)' = Pending(s)
      <4>1. ~Counts(s)
        BY <3>3 DEF StopInv, Counts
      <4>2. tap[s] = <<>>
        BY <1>7, <2>4, <3>3, <4>1 DEF StopForwarder
      <4>3. InTap(s) = {}
        BY <4>2 DEF InTap, Range
      <4> QED
        BY <2>1, <2>4, <3>1, <4>3 DEF Pending
    <3>4. Intact(s)' => ~cancelled /\ Intact(s)
      BY <2>1, <2>2, <2>4 DEF Intact
    <3> QED
      BY <2>1, <2>2, <3>2, <3>3, <3>4 DEF CountInv, Covered
  <2> QED
    BY <2>3, <2>4
<1>8. ASSUME NEW r \in Streams, Forward(r) PROVE CountInv(s)'
  <2>1. /\ UNCHANGED <<stream[s], tap[s]>> /\ InWriter(s)' = InWriter(s)
        /\ s # r => InFwd(s)' = InFwd(s) /\ InQueue(s)' = InQueue(s)
        /\ s = r => /\ InFwd(s) = {fwd[r].item} /\ InFwd(s)' = {}
                    /\ InQueue(s)' = InQueue(s) \cup {fwd[r].item}
    BY <1>8, ForwardMoves
  <2>2. Pending(s)' = Pending(s)
    BY <2>1 DEF Pending, InTap
  <2>3. Stopped(s)' <=> Stopped(s)
    BY <1>8, SentMoves DEF Forward
  <2> QED
    BY <1>8, <1>q, <2>2, <2>3 DEF Forward, Produced, Intact
<1>9. ASSUME NEW r \in Streams, SendClosed(r) \/ EncodeFails(r)
      PROVE  CountInv(s)'
  <2>1. /\ UNCHANGED <<stream[s], tap[s]>> /\ InWriter(s)' = InWriter(s)
        /\ InQueue(s)' = InQueue(s)
        /\ s # r => InFwd(s)' = InFwd(s)
        /\ Stopped(s)' <=> Stopped(s)
    BY <1>9, DroppedMoves
  <2>2. /\ UNCHANGED <<writer, wedged, cancelled>> /\ Produced(s)' = Produced(s)
        /\ fwd[r].step = "forward" /\ (s # r => gap'[s] = gap[s])
    BY <1>9 DEF SendClosed, EncodeFails, Produced, TypeInv
  <2>3. CASE s # r
    <3>1. Pending(s)' = Pending(s)
      BY <2>1, <2>3 DEF Pending, InTap
    <3> QED
      BY <1>q, <2>1, <2>2, <2>3, <3>1 DEF Intact
  <2>4. CASE s = r /\ EncodeFails(r)
    <3>1. gap'[s]
      BY <2>4 DEF EncodeFails, TypeInv
    <3> QED
      BY <3>1 DEF CountInv
  <2>5. CASE s = r /\ SendClosed(r)
    <3>1. writer.step = "stopped" /\ gap' = gap
      BY <2>5 DEF SendClosed
    <3>2. cancelled
      BY <2>2, <3>1 DEF StopInv, Stopped
    <3>3. ~Intact(s)' /\ writer'.step = "stopped"
      BY <2>2, <3>1, <3>2 DEF Intact
    <3> QED
      BY <2>1, <3>1, <3>3 DEF CountInv
  <2> QED
    BY <1>9, <2>3, <2>4, <2>5
<1>10. CASE WriterTake
  <2>1. /\ UNCHANGED <<stream[s], tap[s]>> /\ InFwd(s)' = InFwd(s)
        /\ InWriter(s) = {}
        /\ InQueue(s) = InQueue(s)' \cup InWriter(s)'
    BY <1>10, WriterTakeMoves
  <2>2. Pending(s)' = Pending(s)
    BY <2>1 DEF Pending, InTap
  <2>3. UNCHANGED <<wedged, gap, cancelled, fwd, logged, decided>> /\ writer.step = "recv"
    BY <1>10 DEF WriterTake
  <2> QED
    BY <1>q, <2>1, <2>2, <2>3 DEF Produced, Intact, Stopped
<1>11. CASE offload_append
  <2> DEFINE x == writer.item
  <2>1. /\ tap'[s] = tap[s] /\ InFwd(s)' = InFwd(s) /\ InQueue(s)' = InQueue(s)
        /\ x \in Items /\ InWriter(s)' = {}
        /\ x.stream # s => /\ stream'[s] = stream[s] /\ InWriter(s) = {}
                           /\ wedged'[s] = wedged[s] /\ gap'[s] = gap[s]
        /\ x.stream = s =>
              /\ InWriter(s) = {x}
              /\ \/ /\ stream'[s] = Append(stream[s], x)
                    /\ wedged[s] = FALSE /\ wedged'[s] = FALSE /\ gap'[s] = gap[s]
                 \/ stream'[s] = stream[s] /\ gap'[s] = TRUE
                 \/ stream'[s] = stream[s] /\ wedged'[s] = TRUE /\ gap'[s] = gap[s]
    BY <1>11, AppendMoves
  <2>2. /\ Produced(s)' = Produced(s) /\ InTap(s)' = InTap(s)
        /\ UNCHANGED <<cancelled, fwd>> /\ writer.step = "append"
        /\ writer'.step = "recv"
    BY <1>11, <2>1 DEF offload_append, Produced, InTap
  <2>i. Intact(s)' => Intact(s)
    BY <2>2 DEF Intact, Stopped
  <2> HIDE DEF x
  <2>3. CASE x.stream # s
    <3>1. Pending(s)' = Pending(s)
      BY <2>1, <2>2, <2>3 DEF Pending
    <3> QED
      BY <1>q, <2>1, <2>2, <2>3, <2>i, <3>1
  <2>4. CASE x.stream = s /\ wedged'[s] = TRUE /\ stream'[s] = stream[s]
             /\ gap'[s] = gap[s]
    BY <2>2, <2>4 DEF CountInv
  <2>g. CASE gap'[s] = TRUE
    BY <2>g DEF CountInv
  <2>5. CASE /\ x.stream = s /\ stream'[s] = Append(stream[s], x)
             /\ wedged[s] = FALSE /\ wedged'[s] = FALSE /\ gap'[s] = gap[s]
    <3> DEFINE t == Append(stream[s], x)
    <3>1. /\ DOMAIN stream[s] = 1..Len(stream[s]) /\ Len(t) = Len(stream[s]) + 1
          /\ DOMAIN t = 1..(Len(stream[s]) + 1)
          /\ \A i \in 1..Len(stream[s]) : t[i] = stream[s][i]
          /\ t[Len(stream[s]) + 1] = x
      <4>1. x \in OwnItems(s)
        BY <2>1, <2>5 DEF OwnItems
      <4> QED
        BY <1>0, <4>1, AppendFacts
    <3>2. stream'[s] = t
      BY <2>5
    <3> HIDE DEF t
    <3>3. x \in Pending(s) /\ Pending(s) = {x} \cup Pending(s)' /\ x.n \in Nat
          /\ x.n >= 1
      BY <2>1, <2>2, <2>5 DEF Pending, OrderInv
    <3>4. \A y \in Pending(s)' : x.n < y.n /\ y.n \in Nat
      BY <2>1, <2>2, <2>5, <3>3 DEF OrderInv, Below, Pending
    <3>5. ASSUME ~gap[s] PROVE x.n = Len(stream[s]) + 1
      <4>1. Len(stream[s]) + 1 <= x.n
        <5>1. CASE Len(stream[s]) = 0
          BY <3>3, <5>1
        <5>2. CASE Len(stream[s]) > 0
          <6>1. Len(stream[s]) \in DOMAIN stream[s]
            BY <1>0, <3>1, <5>2
          <6>2. stream[s][Len(stream[s])].n = Len(stream[s])
            BY <3>5, <6>1 DEF CountInv
          <6>3. stream[s][Len(stream[s])] \in Range(stream[s])
            BY <6>1 DEF Range
          <6>4. stream[s][Len(stream[s])].n < x.n
            BY <3>3, <6>3 DEF OrderInv, Below
          <6> QED
            BY <1>0, <3>3, <6>2, <6>4
        <5> QED
          BY <1>0, <5>1, <5>2
      <4>2. Covered(s, x.n)
        BY <2>2, <2>5, <3>3, <3>5 DEF CountInv
      <4>3. PICK y \in Pending(s) : y.n = Len(stream[s]) + 1
        BY <1>0, <3>3, <4>1, <4>2 DEF Covered
      <4> QED
        BY <1>0, <3>3, <3>4, <4>1, <4>3
    <3>6. ASSUME ~gap[s], NEW m \in Nat, Covered(s, m),
                 NEW k \in (Len(stream[s]) + 1 + 1)..m
          PROVE  \E y \in Pending(s)' : y.n = k
      <4>0. k \in (Len(stream[s]) + 1)..m
        BY <1>0, <3>6
      <4>1. PICK y \in Pending(s) : y.n = k
        BY <3>6, <4>0 DEF Covered
      <4> QED
        BY <1>0, <3>3, <3>5, <3>6, <4>1
    <3>7. ~gap[s] => \A i \in DOMAIN t : t[i].n = i
      BY <1>0, <3>1, <3>5 DEF CountInv
    <3>8. ~gap[s] => \A y \in Pending(s)' :
                        \A k \in (Len(t) + 1)..y.n : \E z \in Pending(s)' : z.n = k
      <4>1. ASSUME ~gap[s], NEW y \in Pending(s)' PROVE Covered(s, y.n)
        BY <2>2, <2>5, <3>3, <4>1 DEF CountInv
      <4> QED
        BY <3>1, <3>4, <3>6, <4>1
    <3>9. ~gap[s] /\ Intact(s) =>
             \A k \in (Len(t) + 1)..Produced(s) : \E z \in Pending(s)' : z.n = k
      <4>1. ASSUME ~gap[s], Intact(s) PROVE Covered(s, Produced(s))
        BY <2>5, <4>1 DEF CountInv
      <4> QED
        BY <1>0, <3>1, <3>6, <4>1
    <3> QED
      BY <2>2, <2>5, <2>i, <3>2, <3>7, <3>8, <3>9 DEF CountInv, Covered
  <2> QED
    BY <2>1, <2>3, <2>4, <2>5, <2>g
<1>12. CASE WriterEnds
  <2>1. /\ UNCHANGED <<stream, wedged, gap, tap, queue, fwd, logged, decided, cancelled>>
        /\ writer.step = "recv" /\ writer'.step = "ending"
    BY <1>12 DEF WriterEnds, TypeInv
  <2>2. Pending(s)' = Pending(s)
    BY <2>1 DEF Pending, InWriter, InQueue, InFwd, InTap
  <2> QED
    BY <1>q, <2>1, <2>2 DEF Produced, Intact, Stopped
<1>13. CASE CloseWriter
  <2>1. /\ UNCHANGED <<stream, wedged, gap, tap, fwd, logged, decided, cancelled>>
        /\ writer.step = "ending" /\ writer'.step = "stopped" /\ queue' = <<>>
    BY <1>13 DEF CloseWriter, TypeInv
  <2>2. ~cancelled => queue = <<>>
    BY <2>1 DEF StopInv
  <2>3. ~cancelled => Pending(s)' = Pending(s)
    BY <2>1, <2>2 DEF Pending, InWriter, InQueue, InFwd, InTap
  <2>4. Intact(s)' => ~cancelled /\ Intact(s)
    BY <2>1 DEF Intact
  <2>5. Produced(s)' = Produced(s)
    BY <2>1 DEF Produced
  <2> QED
    BY <2>1, <2>3, <2>4, <2>5 DEF CountInv, Covered
<1>14. CASE UNCHANGED vars
  <2>1. Pending(s)' = Pending(s)
    BY <1>14 DEF vars, Pending, InWriter, InQueue, InFwd, InTap
  <2> QED
    BY <1>14, <2>1, <1>q DEF vars, Produced, Intact, Stopped
<1> QED
  BY <1>1, <1>2, <1>3, <1>4, <1>5, <1>6, <1>7, <1>8, <1>9, <1>10, <1>11, <1>12,
     <1>13, <1>14 DEF Next, Forwarder, Writer

-----------------------------------------------------------------------------
(***************************************************************************)
(* What the writer had accepted when the token was cancelled is appended,  *)
(* failed, or still before it until the writer has emptied its channel.    *)
(***************************************************************************)
Settled(i) == i \in failed \/ i \in Range(stream[i.stream])

Before(i) == /\ writer.step \in {"recv", "append"}
             /\ i = writer.item \/ i \in Range(queue)

AcceptedInv ==
    /\ atCancel \subseteq Items \cup {NoItem}
    /\ \A i \in atCancel \ {NoItem} : Settled(i) \/ Before(i)

(* Every step keeps what the writer had accepted at the cancel. *)
LEMMA AcceptedStep ==
    ASSUME TypeInv, StopInv, AcceptedInv, [Next]_vars
    PROVE  AcceptedInv'
<1> USE DEF producers, store, history
<1>q. ASSUME UNCHANGED <<atCancel, failed, stream, writer>>,
             Range(queue) \subseteq Range(queue')
      PROVE  AcceptedInv'
  BY <1>q DEF AcceptedInv, Settled, Before
<1>1. CASE LogEvent \/ Decide
  BY <1>1, <1>q DEF LogEvent, Decide, try_emit
<1>2. ASSUME NEW s \in Streams, DropTap(s) \/ Take(s) \/ StopForwarder(s)
      PROVE  AcceptedInv'
  BY <1>2, <1>q DEF DropTap, Take, StopForwarder
<1>3. CASE Cancel
  <2>1. /\ atCancel' = Range(queue) \cup {writer.item} /\ ~cancelled
        /\ UNCHANGED <<queue, writer, stream, failed>>
    BY <1>3 DEF Cancel
  <2>2. Range(queue) \subseteq Items
    BY DEF TypeInv, Range
  <2>3. writer.item \in Items \cup {NoItem}
    BY DEF TypeInv
  <2>4. ASSUME NEW i \in atCancel', i # NoItem PROVE Before(i)'
    <3>1. i = writer.item \/ i \in Range(queue)
      BY <2>1, <2>4
    <3>2. CASE writer.step \in {"ending", "stopped"}
      <4>1. queue = <<>> /\ writer.item = NoItem
        BY <2>1, <3>2 DEF StopInv, TypeInv
      <4>2. Range(queue) = {}
        BY <4>1 DEF Range
      <4> QED
        BY <2>4, <3>1, <4>1, <4>2
    <3>3. CASE writer.step \in {"recv", "append"}
      BY <2>1, <3>1, <3>3 DEF Before
    <3> QED
      BY <3>2, <3>3 DEF TypeInv
  <2> QED
    BY <2>1, <2>2, <2>3, <2>4 DEF AcceptedInv
<1>4. CASE ObserveCancel \/ Publish
  BY <1>4, <1>q DEF ObserveCancel, Publish
<1>5. ASSUME NEW s \in Streams, Forward(s) PROVE AcceptedInv'
  <2>1. fwd[s].item \in Items /\ queue' = Append(queue, fwd[s].item)
    BY <1>5, ForwardMoves DEF OwnItems
  <2>2. Range(queue) \subseteq Range(queue')
    BY <2>1, AppendFacts DEF TypeInv
  <2> QED
    BY <1>5, <2>2, <1>q DEF Forward
<1>6. ASSUME NEW s \in Streams, SendClosed(s) \/ EncodeFails(s)
      PROVE  AcceptedInv'
  BY <1>6, <1>q DEF SendClosed, EncodeFails
<1>7. CASE WriterTake
  <2>1. /\ queue \in Seq(Items) /\ queue # <<>> /\ queue' = Tail(queue)
        /\ writer.item = NoItem
        /\ writer'.step = "append" /\ writer'.item = Head(queue)
        /\ UNCHANGED <<atCancel, failed, stream>>
    BY <1>7 DEF WriterTake, TypeInv
  <2>2. \A i \in Range(queue) : i = Head(queue) \/ i \in Range(Tail(queue))
    <3> SUFFICES ASSUME NEW i \in Range(queue)
                 PROVE  i = Head(queue) \/ i \in Range(Tail(queue))
      OBVIOUS
    <3>1. i \in Items
      BY <2>1 DEF Range
    <3>2. i.stream \in Streams
      BY <3>1 DEF Items
    <3>3. /\ InQueue(i.stream) = InQueue(i.stream)' \cup InWriter(i.stream)'
          /\ InWriter(i.stream)' \subseteq {Head(queue)}
      BY <1>7, <3>2, WriterTakeMoves
    <3>4. i \in InQueue(i.stream)
      BY DEF InQueue
    <3> QED
      BY <2>1, <3>3, <3>4 DEF InQueue
  <2> QED
    BY <2>1, <2>2 DEF AcceptedInv, Settled, Before
<1>8. CASE offload_append
  <2> DEFINE x == writer.item
  <2>1. /\ UNCHANGED <<atCancel, queue>> /\ writer.step = "append"
        /\ writer'.step = "recv" /\ x \in Items /\ x.stream \in Streams
    BY <1>8 DEF offload_append, TypeInv, Items
  <2>2. \/ /\ stream' = [stream EXCEPT ![x.stream] = Append(stream[x.stream], x)]
           /\ failed' = failed
        \/ stream' = stream /\ failed' = failed \cup {x}
    BY <1>8 DEF offload_append
  <2> HIDE DEF x
  <2>3. Range(Append(stream[x.stream], x)) = Range(stream[x.stream]) \cup {x}
    <3>1. x \in OwnItems(x.stream)
      BY <2>1 DEF OwnItems
    <3>2. stream[x.stream] \in Seq(OwnItems(x.stream))
      BY <2>1 DEF TypeInv
    <3> QED
      BY <3>1, <3>2, AppendFacts
  <2>4. /\ \A r \in Streams : Range(stream[r]) \subseteq Range(stream'[r])
        /\ failed \subseteq failed'
        /\ x \in failed' \/ x \in Range(stream'[x.stream])
    BY <2>1, <2>2, <2>3 DEF TypeInv
  <2>5. \A i \in atCancel \ {NoItem} : i.stream \in Streams
    BY DEF AcceptedInv, Items
  <2> QED
    BY <2>1, <2>4, <2>5 DEF AcceptedInv, Settled, Before, x
<1>9. CASE WriterEnds
  <2>1. /\ queue = <<>> /\ writer.item = NoItem
        /\ UNCHANGED <<atCancel, failed, stream>>
    BY <1>9 DEF WriterEnds, TypeInv
  <2>2. Range(queue) = {}
    BY <2>1 DEF Range
  <2> QED
    BY <2>1, <2>2 DEF AcceptedInv, Settled, Before
<1>10. CASE CloseWriter
  BY <1>10 DEF CloseWriter, AcceptedInv, Settled, Before
<1>11. CASE UNCHANGED vars
  BY <1>11, <1>q DEF vars
<1> QED
  BY <1>1, <1>2, <1>3, <1>4, <1>5, <1>6, <1>7, <1>8, <1>9, <1>10, <1>11
     DEF Next, Forwarder, Writer

-----------------------------------------------------------------------------
(***************************************************************************)
(* The bus gets a decision after the store's channel did: what it got came *)
(* before what the forwarder holds and what is still in the tap.           *)
(***************************************************************************)
Held == {x \in {fwd["Decisions"].item} :
            fwd["Decisions"].step \in {"forward", "publish"}}

BusInv ==
    /\ Increasing(bus)
    /\ Below(Range(bus), Held \cup InTap("Decisions"))
    /\ Below(Held, InTap("Decisions"))
    /\ \A x \in Range(bus) \cup Held : x.n \in 1..decided

(* Every step keeps the order on the bus. *)
LEMMA BusStep ==
    ASSUME TypeInv, OrderInv("Decisions"), BusInv, [Next]_vars
    PROVE  BusInv'
<1> USE DEF producers, store, history
<1>0. /\ "Decisions" \in Streams /\ tap["Decisions"] \in Seq(OwnItems("Decisions"))
      /\ decided \in Nat
  BY DEF Streams, TypeInv
<1>q. ASSUME bus' = bus, Held' \subseteq Held,
             InTap("Decisions")' \subseteq InTap("Decisions"), decided' = decided
      PROVE  BusInv'
  BY <1>q DEF BusInv, Below
<1>1. CASE LogEvent
  <2>1. /\ bus' = bus /\ fwd' = fwd /\ decided' = decided
        /\ tap'["Decisions"] = tap["Decisions"]
    BY <1>1, <1>0 DEF LogEvent, try_emit, TypeInv
  <2> QED
    BY <2>1, <1>q DEF Held, InTap
<1>2. CASE Decide
  <2>1. PICK len \in 0..logged :
            try_emit("Decisions", Item("Decisions", decided + 1, len))
    BY <1>2 DEF Decide
  <2> DEFINE x == Item("Decisions", decided + 1, len)
  <2>2. x \in OwnItems("Decisions") /\ x.n = decided + 1
    BY DEF Item, OwnItems, Items, Streams, TypeInv
  <2>3. /\ try_emit("Decisions", x) /\ UNCHANGED <<stream, fwd, queue, writer, bus>>
        /\ decided' = decided + 1
    BY <1>2, <2>1 DEF Decide
  <2> HIDE DEF x
  <2>4. InTap("Decisions")' \subseteq InTap("Decisions") \cup {x}
    BY <1>0, <2>2, <2>3, EmitMoves
  <2>5. \A y \in Range(bus) \cup Held : y.n \in 1..decided'
    BY <1>0, <2>3 DEF BusInv
  <2>6. \A y \in Range(bus) \cup Held : y.n < x.n
    BY <1>0, <2>2 DEF BusInv
  <2>7. Held' = Held
    BY <2>3 DEF Held
  <2> QED
    BY <2>3, <2>4, <2>5, <2>6, <2>7 DEF BusInv, Below
<1>3. ASSUME NEW s \in Streams, DropTap(s) PROVE BusInv'
  BY <1>3, <1>q DEF DropTap, Held, InTap
<1>4. CASE Cancel
  BY <1>4, <1>q DEF Cancel, Held, InTap
<1>5. CASE ObserveCancel
  <2>1. /\ bus' = bus /\ tap' = tap /\ decided' = decided
        /\ fwd'["Decisions"].step = fwd["Decisions"].step
        /\ fwd'["Decisions"].item = fwd["Decisions"].item
    BY <1>5, <1>0 DEF ObserveCancel, TypeInv
  <2> QED
    BY <2>1, <1>q DEF Held, InTap
<1>6. ASSUME NEW s \in Streams, Take(s) PROVE BusInv'
  <2>1. bus' = bus /\ decided' = decided
    BY <1>6 DEF Take
  <2>2. CASE s # "Decisions"
    <3>1. fwd'["Decisions"] = fwd["Decisions"] /\ tap'["Decisions"] = tap["Decisions"]
      BY <1>6, <2>2, <1>0 DEF Take, TypeInv
    <3> QED
      BY <2>1, <3>1, <1>q DEF Held, InTap
  <2>3. CASE s = "Decisions"
    <3> DEFINE h == Head(tap["Decisions"])
    <3>1. /\ tap["Decisions"] # <<>> /\ tap'["Decisions"] = Tail(tap["Decisions"])
          /\ InTap("Decisions") = {h} \cup InTap("Decisions")'
      BY <1>0, <1>6, <2>3, TakeMoves
    <3>2. Held' = {h}
      BY <1>0, <1>6, <2>3 DEF Take, Held, TypeInv
    <3>3. \A y \in InTap("Decisions")' : h.n < y.n
      BY <1>0, <3>1, TailIncreasing DEF OrderInv, InTap
    <3>4. h.n \in 1..decided
      <4>1. h \in Pending("Decisions")
        BY <3>1 DEF Pending
      <4> QED
        BY <4>1 DEF OrderInv, Produced
    <3> HIDE DEF h
    <3> QED
      BY <2>1, <3>1, <3>2, <3>3, <3>4 DEF BusInv, Below
  <2> QED
    BY <2>2, <2>3
<1>7. ASSUME NEW s \in Streams, StopForwarder(s) PROVE BusInv'
  <2>1. bus' = bus /\ decided' = decided
    BY <1>7 DEF StopForwarder
  <2>2. InTap("Decisions")' \subseteq InTap("Decisions")
    BY <1>0, <1>7, StopMoves DEF InTap
  <2>3. \/ fwd'["Decisions"] = fwd["Decisions"]
        \/ fwd'["Decisions"].step = "stopped"
    BY <1>0, <1>7 DEF StopForwarder, TypeInv
  <2> QED
    BY <2>1, <2>2, <2>3, <1>q DEF Held
<1>8. ASSUME NEW s \in Streams, Forward(s) \/ SendClosed(s) \/ EncodeFails(s)
      PROVE  BusInv'
  <2>1. /\ bus' = bus /\ decided' = decided /\ tap' = tap /\ AfterSend(s)
        /\ fwd[s].step = "forward"
    BY <1>8 DEF Forward, SendClosed, EncodeFails
  <2>2. \/ fwd'["Decisions"] = fwd["Decisions"]
        \/ fwd'["Decisions"].step = "recv"
        \/ /\ fwd'["Decisions"].item = fwd["Decisions"].item
           /\ fwd["Decisions"].step = "forward"
    <3>1. CASE s # "Decisions"
      BY <1>0, <2>1, <3>1 DEF AfterSend, TypeInv
    <3>2. CASE s = "Decisions" /\ Bus
      BY <1>0, <2>1, <3>2 DEF AfterSend, TypeInv
    <3>3. CASE s = "Decisions" /\ ~Bus
      BY <1>0, <2>1, <3>3 DEF AfterSend, TypeInv
    <3> QED
      BY <3>1, <3>2, <3>3
  <2> QED
    BY <2>1, <2>2, <1>q DEF Held, InTap
<1>9. CASE Publish
  <2> DEFINE x == fwd["Decisions"].item
  <2>1. /\ fwd["Decisions"].step = "publish" /\ tap' = tap /\ decided' = decided
        /\ bus' = bus \/ bus' = Append(bus, x)
        /\ x \in OwnItems("Decisions") /\ bus \in Seq(OwnItems("Decisions"))
    BY <1>0, <1>9 DEF Publish, TypeInv
  <2>2. Held' = {} /\ Held = {x} /\ InTap("Decisions")' = InTap("Decisions")
    BY <1>0, <1>9, <2>1 DEF Publish, Held, InTap, TypeInv
  <2> HIDE DEF x
  <2>3. CASE bus' = bus
    BY <2>1, <2>2, <2>3, <1>q
  <2>4. CASE bus' = Append(bus, x)
    <3>1. Increasing(Append(bus, x))
      BY <2>1, <2>2, AppendIncreasing DEF BusInv, Below
    <3>2. Range(Append(bus, x)) = Range(bus) \cup {x}
      BY <2>1, AppendFacts
    <3> QED
      BY <2>1, <2>2, <2>4, <3>1, <3>2 DEF BusInv, Below
  <2> QED
    BY <2>1, <2>3, <2>4
<1>10. CASE WriterTake \/ WriterEnds \/ CloseWriter
  BY <1>10, <1>q DEF WriterTake, WriterEnds, CloseWriter, Held, InTap
<1>11. CASE offload_append
  BY <1>11, <1>q DEF offload_append, Held, InTap
<1>12. CASE UNCHANGED vars
  BY <1>12, <1>q DEF vars, Held, InTap
<1> QED
  BY <1>1, <1>2, <1>3, <1>4, <1>5, <1>6, <1>7, <1>8, <1>9, <1>10, <1>11, <1>12
     DEF Next, Forwarder, Writer

-----------------------------------------------------------------------------
(***************************************************************************)
(* For any channel capacities, any number of events and decisions, with    *)
(* or without the bus, failures and a cancel at any moment: the store's    *)
(* streams and the bus get every item at most once and in order; if every  *)
(* task ended without a cancel, the store holds everything its tap and     *)
(* encoder let through and whose append did not fail; when the writer has  *)
(* stopped, what it had accepted before the cancel is stored or its append *)
(* failed; and as long as the topology tap dropped nothing and no topology *)
(* append failed before its write, a stored decision's parent is the event *)
(* it had counted last.                                                    *)
(***************************************************************************)
THEOREM AlwaysDeliveredOnceInOrder == Spec => []DeliveredOnceInOrder
<1> DEFINE I == /\ TypeInv /\ StopInv /\ EmptyInv /\ AcceptedInv /\ BusInv
                /\ \A s \in Streams : OrderInv(s) /\ CountInv(s)
<1>1. Init => I
  <2> SUFFICES ASSUME Init PROVE I
    OBVIOUS
  <2>1. /\ \A s \in Streams : Range(stream[s]) = {} /\ Range(tap[s]) = {}
        /\ \A s \in Streams : DOMAIN stream[s] = {} /\ DOMAIN tap[s] = {}
        /\ Range(queue) = {} /\ DOMAIN queue = {} /\ Range(bus) = {}
        /\ DOMAIN bus = {} /\ \A s \in Streams : Len(stream[s]) = 0
    BY DEF Init, Range
  <2>2. /\ writer.step = "recv" /\ \A s \in Streams : fwd[s].step = "recv"
        /\ fwd["Decisions"].remaining = Uncounted /\ atCancel = {}
        /\ \A s \in Streams : Produced(s) = 0
    BY DEF Init, Streams, Produced
  <2>3. "Decisions" \in Streams
    BY DEF Streams
  <2>4. \A s \in Streams : /\ InWriter(s) = {} /\ InQueue(s) = {} /\ InFwd(s) = {}
                           /\ InTap(s) = {} /\ Pending(s) = {}
    BY <2>1, <2>2 DEF InWriter, InQueue, InFwd, InTap, Pending
  <2>5. StopInv /\ EmptyInv /\ AcceptedInv
    BY <2>2 DEF StopInv, EmptyInv, Stopped, AcceptedInv
  <2>6. BusInv
    BY <2>1, <2>2, <2>3, <2>4 DEF BusInv, Held, Below, Increasing
  <2>7. \A s \in Streams : OrderInv(s) /\ CountInv(s)
    BY <2>1, <2>2, <2>4 DEF OrderInv, CountInv, QueueOrdered, Below, Increasing,
                            Covered
  <2> QED
    BY TypeInit, <2>5, <2>6, <2>7
<1>2. I /\ [Next]_vars => I'
  <2> SUFFICES ASSUME I, [Next]_vars PROVE I'
    OBVIOUS
  <2>1. "Decisions" \in Streams
    BY DEF Streams
  <2>2. TypeInv' /\ StopInv' /\ EmptyInv' /\ AcceptedInv' /\ BusInv'
    BY <2>1, TypeStep, StopStep, EmptyStep, AcceptedStep, BusStep
  <2>3. ASSUME NEW s \in Streams PROVE OrderInv(s)' /\ CountInv(s)'
    BY OrderStep, CountStep
  <2> QED
    BY <2>2, <2>3
<1>3. I => DeliveredOnceInOrder
  <2> SUFFICES ASSUME I PROVE DeliveredOnceInOrder
    OBVIOUS
  <2>1. (\A s \in Streams : Increasing(stream[s])) /\ Increasing(bus)
    BY DEF OrderInv, BusInv
  <2>2. ASSUME AllStopped, ~cancelled, NEW s \in Streams, ~gap[s], ~wedged[s]
        PROVE  Len(stream[s]) = Produced(s)
    <3>0. /\ Len(stream[s]) \in Nat /\ Produced(s) \in Nat
          /\ DOMAIN stream[s] = 1..Len(stream[s])
      BY DEF TypeInv, Produced
    <3>1. queue = <<>> /\ writer.step = "stopped" /\ fwd[s].step = "stopped"
      BY <2>2 DEF StopInv, AllStopped, Stopped
    <3>2. \A k \in (Len(stream[s]) + 1)..Produced(s) : k \in {y.n : y \in InTap(s)}
      <4>1. InQueue(s) = {} /\ InWriter(s) = {} /\ InFwd(s) = {}
        BY <3>1 DEF InQueue, InWriter, InFwd, Range
      <4>2. Covered(s, Produced(s))
        BY <2>2 DEF CountInv, Intact
      <4> QED
        BY <4>1, <4>2 DEF Covered, Pending
    <3>3. Len(stream[s]) <= Produced(s)
      <4>1. CASE Len(stream[s]) = 0
        BY <3>0, <4>1
      <4>2. CASE Len(stream[s]) > 0
        <5>1. Len(stream[s]) \in DOMAIN stream[s]
          BY <3>0, <4>2
        <5>2. stream[s][Len(stream[s])].n = Len(stream[s])
          BY <2>2, <5>1 DEF CountInv
        <5>3. stream[s][Len(stream[s])] \in Range(stream[s])
          BY <5>1 DEF Range
        <5>4. \A y \in Range(stream[s]) : y.n \in 1..Produced(s)
          BY DEF OrderInv
        <5> QED
          BY <3>0, <5>2, <5>3, <5>4
      <4> QED
        BY <3>0, <4>1, <4>2
    <3>4. InTap(s) = {}
      <4>1. tap[s] = <<>>
        BY <3>1 DEF EmptyInv, Stopped
      <4> QED
        BY <4>1 DEF InTap, Range
    <3> QED
      BY <3>0, <3>2, <3>3, <3>4
  <2>3. ASSUME writer.step = "stopped", NEW i \in atCancel \ {NoItem}
        PROVE  i \in failed \/ i \in Range(stream[i.stream])
    BY <2>3 DEF AcceptedInv, Before, Settled
  <2>4. ASSUME ~gap["Topology"], NEW d \in Range(stream["Decisions"])
        PROVE  ParentExact(d)
    <3>1. "Topology" \in Streams /\ "Decisions" \in Streams
      BY DEF Streams
    <3>2. d \in Items /\ d.len \in Nat
      <4>1. stream["Decisions"] \in Seq(OwnItems("Decisions"))
        BY <3>1 DEF TypeInv
      <4>2. d \in OwnItems("Decisions")
        BY <4>1 DEF Range
      <4> QED
        BY <4>2 DEF OwnItems, Items
    <3>3. /\ DOMAIN stream["Topology"] = 1..Len(stream["Topology"])
          /\ Len(stream["Topology"]) \in Nat
      BY <3>1 DEF TypeInv
    <3>4. \A i \in DOMAIN stream["Topology"] : stream["Topology"][i].n = i
      BY <2>4, <3>1 DEF CountInv
    <3> QED
      BY <3>2, <3>3, <3>4 DEF ParentExact, ParentSeq
  <2> QED
    BY <2>1, <2>2, <2>3, <2>4 DEF DeliveredOnceInOrder
<1> QED
  BY <1>1, <1>2, <1>3, PTL DEF Spec

-----------------------------------------------------------------------------
(***************************************************************************)
(* CancelDrain yields after the cancel no more than was buffered when it   *)
(* saw it, for every channel capacity and whatever the senders send.       *)
(***************************************************************************)

(***************************************************************************)
(* What the count stands for: the items taken and the items still owed     *)
(* never exceed what was buffered at the cancel.                           *)
(***************************************************************************)
DrainCountInv ==
    /\ after \in Nat /\ remaining \in Int /\ bufferedThen \in Int
    /\ buffered \in Nat
    /\ bufferedThen < 0 => after = 0
    /\ bufferedThen >= 0 => remaining >= 0 /\ remaining + after <= bufferedThen

(* Nothing was taken or counted before the cancel. *)
LEMMA InitDrainCount == DrainInit => DrainCountInv
  BY DEF DrainInit, DrainCountInv

(* Each item taken after the cancel takes one off the count. *)
LEMMA DrainCountStep ==
  ASSUME Counted, Cap \in Nat
  PROVE  DrainCountInv /\ [DrainNext]_drainvars => DrainCountInv'
<1> SUFFICES ASSUME DrainCountInv, [DrainNext]_drainvars PROVE DrainCountInv'
  OBVIOUS
<1>1. CASE Send
  BY <1>1 DEF DrainCountInv, Send
<1>2. CASE DropSender \/ CancelToken \/ HandOn \/ UNCHANGED drainvars
  BY <1>2 DEF DrainCountInv, DropSender, CancelToken, HandOn, drainvars
<1>3. CASE Receive
  <2>1. bufferedThen < 0 /\ UNCHANGED <<remaining, bufferedThen>>
        /\ buffered' \in Nat /\ after' = 0
    BY <1>3 DEF DrainCountInv, Receive, TakeItem, Taken, Stop
  <2> QED BY <2>1 DEF DrainCountInv
<1>4. CASE Observe
  <2>1. bufferedThen' = buffered /\ remaining' = buffered /\ after = 0
        /\ UNCHANGED <<buffered, after>>
    BY <1>4 DEF DrainCountInv, Observe
  <2> QED BY <2>1 DEF DrainCountInv
<1>5. CASE DrainOne
  <2>1. bufferedThen >= 0 /\ UNCHANGED bufferedThen
        /\ remaining >= 0 /\ remaining + after <= bufferedThen
    BY <1>5 DEF DrainCountInv, DrainOne
  <2>2. CASE buffered = 0 \/ remaining = 0
    <3>1. UNCHANGED <<buffered, after>>
          /\ remaining' = (IF remaining > 0 THEN remaining - 1 ELSE remaining)
      BY <1>5, <2>2 DEF DrainOne, Stop
    <3> QED BY <2>1, <3>1 DEF DrainCountInv
  <2>3. CASE buffered # 0 /\ remaining # 0
    <3>1. buffered' = buffered - 1 /\ remaining' = remaining - 1
          /\ after' = (IF after <= Cap THEN after + 1 ELSE after)
      BY <1>5, <2>1, <2>3 DEF DrainOne, TakeItem, Taken, DrainCountInv
    <3> QED BY <2>1, <2>3, <3>1 DEF DrainCountInv
  <2> QED BY <2>2, <2>3
<1> QED BY <1>1, <1>2, <1>3, <1>4, <1>5 DEF DrainNext, Task

(***************************************************************************)
(* CancelDrain::next: the drain is bounded by what was buffered when the   *)
(* cancel was seen (core/drain.rs), so a busy producer cannot extend it.   *)
(***************************************************************************)
THEOREM CountedDrainIsBounded ==
  ASSUME Counted, Cap \in Nat
  PROVE  DrainSpec => []YieldsOnlyBuffered
<1>1. DrainCountInv => YieldsOnlyBuffered
  BY DEF DrainCountInv, YieldsOnlyBuffered
<1> QED BY <1>1, InitDrainCount, DrainCountStep, PTL DEF DrainSpec

-----------------------------------------------------------------------------
(***************************************************************************)
(* What the replay of a stream gives from a sequence number on: its first  *)
(* undecodable record, or else every event.                                *)
(***************************************************************************)
Undecodable(records, from) ==
    {j \in DOMAIN records : j > from /\ DecodeRecord(records[j]).err # "none"}

Replayed(records, from) ==
    LET broken == Undecodable(records, from)
    IN  IF broken = {}
        THEN Ok([k \in 1 .. Len(records) - from |-> DecodeRecord(records[from + k]).val])
        ELSE DecodeRecord(records[Min(broken)])

(* The loop, as the equation its recursion solves. *)
Reads(records, loop) ==
    loop = [cursor \in Nat |->
              LET batch  == read_from(records, cursor, REPLAY_BATCH)
                  events == DecodeBatch(batch)
              IN  IF batch = <<>> \/ events.err # "none" THEN events
                  ELSE LET rest == loop[cursor + Len(batch)]
                       IN  IF rest.err # "none" THEN rest
                           ELSE Ok(events.val \o rest.val)]

(* The replay's own definition, with the recursion named. *)
LEMMA ReplayIsLoop ==
    ASSUME NEW records, NEW from
    PROVE  replay_into_event_log(records, from) = (CHOOSE loop : Reads(records, loop))[from]
BY Zenon DEF replay_into_event_log, Reads

(* The least number of a set of naturals. *)
LEMMA MinOf ==
    ASSUME NEW S \in SUBSET Nat, S # {}
    PROVE  Min(S) \in S /\ \A x \in S : Min(S) <= x
<1>1. \E x \in S : \A y \in S : x <= y
  BY LeastNat
<1> QED
  BY <1>1 DEF Min

(* A least element is the least number. *)
LEMMA MinIs ==
    ASSUME NEW S \in SUBSET Nat, NEW m \in S, \A x \in S : m <= x
    PROVE  Min(S) = m
<1>1. Min(S) \in S /\ Min(S) <= m
  BY MinOf
<1>2. m <= Min(S) /\ m \in Nat /\ Min(S) \in Nat
  BY <1>1
<1> DEFINE k == Min(S)
<1> HIDE DEF k
<1>3. k <= m /\ m <= k /\ m \in Nat /\ k \in Nat
  BY <1>1, <1>2 DEF k
<1> QED
  BY <1>3 DEF k

(* The elements of a list after the first a, up to the b-th. *)
LEMMA Window ==
    ASSUME NEW R, NEW s \in Seq(R), NEW a \in Nat, NEW b \in Nat, b <= Len(s)
    PROVE  LET w == SubSeq(s, a + 1, b)
               l == IF a >= b THEN 0 ELSE b - a
           IN  /\ w \in Seq(R) /\ Len(w) = l /\ DOMAIN w = 1 .. l /\ l \in Nat
               /\ \A k \in 1 .. l : a + k \in DOMAIN s /\ w[k] = s[a + k]
<1>1. a + 1 \in Nat /\ a + 1 \in Int /\ b \in Int /\ Len(s) \in Nat /\ DOMAIN s = 1 .. Len(s)
  OBVIOUS
<1>2. \A i \in a + 1 .. b : i \in 1 .. Len(s) /\ s[i] \in R
  BY <1>1
<1> QED
  BY <1>1, <1>2

(* A function without arguments is the empty list. *)
LEMMA EmptyList ==
    ASSUME NEW f, DOMAIN f = {}, f = [k \in DOMAIN f |-> f[k]]
    PROVE  f = <<>>
OBVIOUS

(* read_from: up to a batch of records from the cursor on. *)
LEMMA ReadFacts ==
    ASSUME NEW records, NEW R, records \in Seq(R), NEW cursor \in Nat
    PROVE  LET batch == read_from(records, cursor, REPLAY_BATCH)
               n     == Len(records)
               l     == IF cursor >= n THEN 0
                        ELSE IF cursor + REPLAY_BATCH <= n THEN REPLAY_BATCH ELSE n - cursor
           IN  /\ batch \in Seq(R) /\ Len(batch) = l /\ DOMAIN batch = 1 .. l /\ l \in Nat
               /\ \A k \in 1 .. l : cursor + k \in DOMAIN records /\ batch[k] = records[cursor + k]
               /\ cursor < n => l > 0 /\ cursor + l <= n
               /\ batch = <<>> <=> cursor >= n
<1> DEFINE n == Len(records)
           top == IF cursor + REPLAY_BATCH <= n THEN cursor + REPLAY_BATCH ELSE n
           batch == read_from(records, cursor, REPLAY_BATCH)
           l == IF cursor >= n THEN 0
                ELSE IF cursor + REPLAY_BATCH <= n THEN REPLAY_BATCH ELSE n - cursor
<1>1. n \in Nat /\ REPLAY_BATCH \in Nat \ {0}
  BY ReplayBounds
<1>2. Min({cursor + REPLAY_BATCH, n}) = top
  BY <1>1, MinIs
<1>3. batch = SubSeq(records, cursor + 1, top)
  BY <1>2 DEF read_from
<1>4. /\ batch \in Seq(R) /\ Len(batch) = l /\ DOMAIN batch = 1 .. l /\ l \in Nat
      /\ \A k \in 1 .. l : cursor + k \in DOMAIN records /\ batch[k] = records[cursor + k]
  <2>1. top \in Nat /\ top <= n /\ l = IF cursor >= top THEN 0 ELSE top - cursor
    BY <1>1
  <2> HIDE DEF top, l, batch
  <2> QED
    BY <1>3, <2>1, Window
<1>5. cursor < n => l > 0 /\ cursor + l <= n
  BY <1>1
<1>6. batch = <<>> <=> cursor >= n
  BY <1>1, <1>4, <1>5
<1> QED
  BY <1>4, <1>5, <1>6

(* A record decodes to an event or to an error, and an error has none. *)
LEMMA OkFacts ==
    /\ \A x : Ok(x).err = "none" /\ Ok(x).val = x
    /\ \A e : Err(e).err = e
    /\ \A x, y : x = y => Ok(x) = Ok(y)
BY DEF Ok, Err

(* Two lists one after the other. *)
LEMMA ConcatFacts ==
    ASSUME NEW A, NEW s \in Seq(A), NEW u \in Seq(A)
    PROVE  /\ s \o u \in Seq(A) /\ Len(s \o u) = Len(s) + Len(u)
           /\ \A k \in 1 .. Len(s) : (s \o u)[k] = s[k]
           /\ \A k \in 1 .. Len(u) : (s \o u)[Len(s) + k] = u[k]
OBVIOUS

(* DecodeBatch is the replay of the batch alone: what it gives is what the *)
(* records has at the same places.                                          *)
LEMMA BatchFacts ==
    ASSUME NEW records, NEW R, records \in Seq(R), NEW cursor \in Nat, cursor < Len(records)
    PROVE  LET batch  == read_from(records, cursor, REPLAY_BATCH)
               l      == Len(batch)
               broken == {j \in cursor + 1 .. cursor + l : DecodeRecord(records[j]).err # "none"}
           IN  DecodeBatch(batch) =
                 IF broken = {} THEN Ok([k \in 1 .. l |-> DecodeRecord(records[cursor + k]).val])
                 ELSE DecodeRecord(records[Min(broken)])
<1> DEFINE batch == read_from(records, cursor, REPLAY_BATCH)
           l == Len(batch)
           D(j) == DecodeRecord(records[j])
           broken == {j \in cursor + 1 .. cursor + l : D(j).err # "none"}
           dec == [i \in DOMAIN batch |-> DecodeRecord(batch[i])]
           bad == {i \in DOMAIN batch : dec[i].err # "none"}
<1>1. /\ DOMAIN batch = 1 .. l /\ l \in Nat
      /\ \A k \in 1 .. l : batch[k] = records[cursor + k]
  BY ZenonT(60), ReadFacts
<1> HIDE DEF batch, l
<1>2. \A k \in 1 .. l : dec[k] = D(cursor + k)
  BY <1>1
<1>3. DOMAIN dec = 1 .. l
  BY <1>1
<1> HIDE DEF D, dec
<1>4. bad \subseteq 1 .. l /\ \A k \in 1 .. l : k \in bad <=> cursor + k \in broken
  BY <1>1, <1>2
<1>5. \A j \in broken : j - cursor \in 1 .. l /\ j = cursor + (j - cursor)
  BY <1>1
<1>6. CASE bad = {}
  <2>1. broken = {}
    BY <1>4, <1>5, <1>6
  <2>2. DecodeBatch(batch) = Ok([i \in DOMAIN batch |-> dec[i].val])
    BY <1>6 DEF DecodeBatch, dec
  <2>3. [i \in DOMAIN batch |-> dec[i].val] = [k \in 1 .. l |-> D(cursor + k).val]
    BY <1>1, <1>2
  <2> QED
    BY <2>1, <2>2, <2>3 DEF batch, l, D
<1>7. CASE bad # {}
  <2>1. DecodeBatch(batch) = dec[Min(bad)]
    BY <1>7 DEF DecodeBatch, dec
  <2>2. /\ bad \in SUBSET Nat /\ broken \in SUBSET Nat
    BY <1>1, <1>4
  <2> DEFINE m == Min(bad)
  <2>3. m \in bad /\ \A x \in bad : m <= x
    BY <1>7, <2>2, MinOf
  <2> HIDE DEF m
  <2>4. m \in 1 .. l /\ m \in Nat /\ cursor + m \in broken
    BY <1>4, <2>2, <2>3
  <2>5. \A j \in broken : cursor + m <= j
    <3> SUFFICES ASSUME NEW j \in broken PROVE cursor + m <= j
      OBVIOUS
    <3>1. j - cursor \in bad /\ j \in Nat
      BY <1>4, <1>5, <2>2
    <3>2. m <= j - cursor
      BY <2>3, <3>1
    <3> QED
      BY <2>4, <3>1, <3>2
  <2> HIDE DEF broken, bad
  <2>6. Min(broken) = cursor + m
    BY <2>2, <2>4, <2>5, MinIs
  <2>7. broken # {}
    BY <2>4
  <2> QED
    BY <1>2, <2>1, <2>4, <2>6, <2>7 DEF batch, l, D, broken, m
<1> QED
  BY <1>6, <1>7

(* One turn of the loop, with the rest of the records replayed. *)
LEMMA LoopTurn ==
    ASSUME NEW records, NEW R, records \in Seq(R), NEW cursor \in Nat
    PROVE  LET batch  == read_from(records, cursor, REPLAY_BATCH)
               events == DecodeBatch(batch)
               rest   == Replayed(records, cursor + Len(batch))
           IN  Replayed(records, cursor) =
                 IF batch = <<>> \/ events.err # "none" THEN events
                 ELSE IF rest.err # "none" THEN rest
                 ELSE Ok(events.val \o rest.val)
<1> DEFINE n == Len(records)
           batch == read_from(records, cursor, REPLAY_BATCH)
           l == Len(batch)
           D(j) == DecodeRecord(records[j])
           all == Undecodable(records, cursor)
           late == Undecodable(records, cursor + l)
           early == {j \in cursor + 1 .. cursor + l : D(j).err # "none"}
           events == DecodeBatch(batch)
           rest == Replayed(records, cursor + l)
<1>1. /\ n \in Nat /\ DOMAIN records = 1 .. n /\ l \in Nat
      /\ cursor < n => l > 0 /\ cursor + l <= n
      /\ batch = <<>> <=> cursor >= n
      /\ DOMAIN batch = 1 .. l
  <2>1. n \in Nat /\ DOMAIN records = 1 .. n
    OBVIOUS
  <2>2. /\ l \in Nat /\ DOMAIN batch = 1 .. l
        /\ cursor < n => l > 0 /\ cursor + l <= n
        /\ batch = <<>> <=> cursor >= n
    BY ReadFacts
  <2> QED
    BY <2>1, <2>2
<1>2. CASE cursor >= n
  <2>1. all = {}
    BY <1>1, <1>2 DEF Undecodable
  <2>2. Replayed(records, cursor) = Ok([k \in 1 .. n - cursor |-> D(cursor + k).val])
    BY <2>1 DEF Replayed
  <2>3. [k \in 1 .. n - cursor |-> D(cursor + k).val] = <<>>
    <3> DEFINE none == [k \in 1 .. n - cursor |-> D(cursor + k).val]
    <3>1. 1 .. n - cursor = {}
      BY <1>1, <1>2
    <3>2. DOMAIN none = {} /\ none = [k \in DOMAIN none |-> none[k]]
      BY <3>1, Zenon
    <3> HIDE DEF none
    <3>3. none = <<>>
      BY <3>2, EmptyList
    <3> QED
      BY <3>3 DEF none
  <2>4. batch = <<>>
    BY <1>1, <1>2
  <2>5. events = Ok(<<>>)
    <3> DEFINE dec == [i \in DOMAIN batch |-> DecodeRecord(batch[i])]
    <3>1. DOMAIN batch = {}
      BY <2>4
    <3>2. {i \in DOMAIN batch : dec[i].err # "none"} = {}
      BY <3>1
    <3>3. events = Ok([i \in DOMAIN batch |-> dec[i].val])
      BY <3>2 DEF DecodeBatch
    <3>4. [i \in DOMAIN batch |-> dec[i].val] = <<>>
      BY <3>1
    <3> QED
      BY <3>3, <3>4
  <2> QED
    BY <2>2, <2>3, <2>4, <2>5
<1>3. CASE cursor < n
  <2>1. l > 0 /\ cursor + l <= n /\ batch # <<>>
    BY <1>1, <1>3
  <2>2. events = IF early = {} THEN Ok([k \in 1 .. l |-> D(cursor + k).val])
                 ELSE D(Min(early))
    BY <1>3, BatchFacts
  <2> HIDE DEF batch, l, D, events
  <2>3. /\ all = {j \in 1 .. n : j > cursor /\ D(j).err # "none"}
        /\ late = {j \in 1 .. n : j > cursor + l /\ D(j).err # "none"}
    BY <1>1 DEF Undecodable, D
  <2>4. all = early \cup late /\ early \in SUBSET Nat /\ late \in SUBSET Nat
        /\ \A x \in early : \A y \in late : x <= y
    BY <1>1, <2>1, <2>3
  <2> HIDE DEF all, late, early
  <2>5. CASE early # {}
    <3>1. Min(early) \in early /\ \A x \in early : Min(early) <= x
      BY <2>4, <2>5, MinOf
    <3>2. Min(all) = Min(early)
      <4> DEFINE m == Min(early)
      <4>1. m \in all /\ \A x \in all : m <= x
        BY <2>4, <3>1
      <4> HIDE DEF m
      <4> QED
        BY <2>4, <4>1, MinIs DEF m
    <3>3. D(Min(early)).err # "none"
      BY <3>1 DEF early
    <3>4. Replayed(records, cursor) = D(Min(all))
      BY <2>4, <2>5 DEF Replayed, all, D
    <3> QED
      BY <2>2, <2>5, <3>2, <3>3, <3>4 DEF batch, events
  <2>6. CASE early = {}
    <3>1. all = late /\ events = Ok([k \in 1 .. l |-> D(cursor + k).val])
      BY <2>2, <2>4, <2>6
    <3>2. events.err = "none" /\ events.val = [k \in 1 .. l |-> D(cursor + k).val]
      BY <3>1, OkFacts
    <3>3. CASE late # {}
      <4>1. rest = D(Min(late)) /\ Replayed(records, cursor) = D(Min(late))
        BY <3>1, <3>3 DEF Replayed, all, late, D
      <4>2. Min(late) \in late
        BY <2>4, <3>3, MinOf
      <4>3. rest.err # "none"
        BY <4>1, <4>2 DEF late, Undecodable, D
      <4> QED
        BY <2>1, <3>2, <4>1, <4>3 DEF batch, l, events
    <3>4. CASE late = {}
      <4> DEFINE s == [k \in 1 .. l |-> D(cursor + k).val]
                 u == [k \in 1 .. n - (cursor + l) |-> D(cursor + l + k).val]
                 w == [k \in 1 .. n - cursor |-> D(cursor + k).val]
      <4>1. rest = Ok(u) /\ Replayed(records, cursor) = Ok(w)
        BY <3>1, <3>4 DEF Replayed, all, late, D, n
      <4>2. rest.err = "none" /\ rest.val = u
        BY <4>1, OkFacts
      <4>3. s \o u = w
        <5>1. n - cursor \in Nat /\ n - (cursor + l) \in Nat
          BY <1>1, <1>3, <2>1
        <5>2. s \in Seq({D(j).val : j \in Nat}) /\ u \in Seq({D(j).val : j \in Nat})
              /\ Len(s) = l /\ Len(u) = n - (cursor + l)
          BY <1>1, <5>1
        <5>3. Len(s \o u) = n - cursor
          BY <1>1, <5>1, <5>2
        <5>4. \A k \in 1 .. n - cursor : (s \o u)[k] = w[k]
          <6> SUFFICES ASSUME NEW k \in 1 .. n - cursor PROVE (s \o u)[k] = w[k]
            OBVIOUS
          <6>1. CASE k <= l
            BY <1>1, <5>1, <5>2, <6>1
          <6>2. CASE k > l
            <7>1. k - l \in 1 .. n - (cursor + l) /\ cursor + l + (k - l) = cursor + k
              BY <1>1, <5>1, <6>2
            <7>2. (s \o u)[k] = u[k - l]
              <8> DEFINE A == {D(j).val : j \in Nat}
              <8>1. s \in Seq(A) /\ u \in Seq(A) /\ Len(s) = l
                BY <5>2
              <8>2. k - l \in 1 .. Len(u)
                BY <5>2, <7>1
              <8> HIDE DEF s, u, A
              <8>3. (s \o u)[Len(s) + (k - l)] = u[k - l]
                BY <8>1, <8>2, ConcatFacts
              <8>4. Len(s) + (k - l) = k
                BY <1>1, <5>1, <8>1
              <8> QED
                BY <8>3, <8>4
            <7> QED
              BY <7>1, <7>2
          <6> QED
            BY <1>1, <6>1, <6>2
        <5>5. s \o u \in Seq({D(j).val : j \in Nat}) /\ w \in Seq({D(j).val : j \in Nat})
              /\ Len(w) = n - cursor
          <6>1. w \in Seq({D(j).val : j \in Nat}) /\ Len(w) = n - cursor
            BY <1>1, <5>1
          <6> HIDE DEF s, u, w
          <6> QED
            BY <5>2, <6>1
        <5> DEFINE A == {D(j).val : j \in Nat}
                   v == s \o u
                   m == n - cursor
        <5> HIDE DEF s, u, w, A, m, v
        <5>6. /\ v \in Seq(A) /\ w \in Seq(A) /\ Len(v) = m /\ Len(w) = m
              /\ \A k \in 1 .. m : v[k] = w[k]
          BY <5>3, <5>4, <5>5 DEF A, m, v
        <5>7. v = w
          BY <5>6
        <5> QED
          BY <5>7 DEF v
      <4> HIDE DEF s, u, w
      <4>4. Replayed(records, cursor) = Ok(events.val \o rest.val)
        BY <3>2, <4>1, <4>2, <4>3 DEF s
      <4> QED
        BY <2>1, <3>2, <4>2, <4>4 DEF batch, l, events
    <3> QED
      BY <3>3, <3>4
  <2> QED
    BY <2>5, <2>6
<1> QED
  BY <1>1, <1>2, <1>3

(* replay_into_event_log gives the first undecodable record from the       *)
(* sequence number on, or every event: for every records and batch size.    *)
LEMMA ReplayReads ==
    ASSUME NEW records, NEW R, records \in Seq(R), NEW from \in Nat
    PROVE  replay_into_event_log(records, from) = Replayed(records, from)
<1> DEFINE n == Len(records)
           B(c) == read_from(records, c, REPLAY_BATCH)
           E(c) == DecodeBatch(B(c))
           G == [c \in Nat |-> Replayed(records, c)]
           Turn(f, c) == IF B(c) = <<>> \/ E(c).err # "none" THEN E(c)
                         ELSE IF f[c + Len(B(c))].err # "none" THEN f[c + Len(B(c))]
                         ELSE Ok(E(c).val \o f[c + Len(B(c))].val)
<1>1. n \in Nat /\ \A c \in Nat : Len(B(c)) \in Nat
                     /\ (B(c) # <<>> => Len(B(c)) > 0 /\ c + Len(B(c)) <= n)
  <2>1. n \in Nat
    OBVIOUS
  <2> SUFFICES ASSUME NEW c \in Nat
               PROVE  Len(B(c)) \in Nat /\ (B(c) # <<>> => Len(B(c)) > 0 /\ c + Len(B(c)) <= n)
    BY <2>1
  <2>2. B(c) = <<>> <=> c >= Len(records)
    BY ReadFacts
  <2>3. /\ Len(B(c)) \in Nat
        /\ c < Len(records) => Len(B(c)) > 0 /\ c + Len(B(c)) <= Len(records)
    BY ReadFacts
  <2> HIDE DEF B
  <2> QED
    BY <2>1, <2>2, <2>3
<1>2. \A f : Reads(records, f) <=> f = [c \in Nat |-> Turn(f, c)]
  BY DEF Reads
<1>3. \A c \in Nat : G[c] = Turn(G, c)
  <2> SUFFICES ASSUME NEW c \in Nat PROVE G[c] = Turn(G, c)
    OBVIOUS
  <2>1. c + Len(B(c)) \in Nat
    BY <1>1
  <2>2. G[c] = Replayed(records, c) /\ G[c + Len(B(c))] = Replayed(records, c + Len(B(c)))
    BY <2>1
  <2> HIDE DEF G
  <2>3. Replayed(records, c) =
          IF B(c) = <<>> \/ E(c).err # "none" THEN E(c)
          ELSE IF Replayed(records, c + Len(B(c))).err # "none"
               THEN Replayed(records, c + Len(B(c)))
          ELSE Ok(E(c).val \o Replayed(records, c + Len(B(c))).val)
    BY LoopTurn
  <2> HIDE DEF B, E
  <2> QED
    BY <2>2, <2>3
<1>4. Reads(records, G)
  <2>1. G = [c \in Nat |-> Turn(G, c)]
    <3> HIDE DEF Turn
    <3> QED
      BY <1>3 DEF G
  <2> QED
    BY <1>2, <2>1
<1> DEFINE loop == CHOOSE f : Reads(records, f)
<1>5. Reads(records, loop)
  BY <1>4
<1> HIDE DEF loop
<1>6. \A c \in Nat : loop[c] = Turn(loop, c)
  <2>1. loop = [c \in Nat |-> Turn(loop, c)]
    BY <1>2, <1>5
  <2> HIDE DEF Turn
  <2> QED
    BY <2>1
<1> HIDE DEF G, B, E, n
<1> DEFINE Bad == {k \in Nat : \E c \in Nat : c + k = n /\ loop[c] # G[c]}
<1>7. ASSUME NEW c \in Nat, B(c) = <<>> PROVE loop[c] = G[c]
  BY <1>3, <1>6, <1>7
<1>8. ASSUME NEW c \in Nat, B(c) # <<>>, loop[c + Len(B(c))] = G[c + Len(B(c))]
      PROVE  loop[c] = G[c]
  <2>1. loop[c] = Turn(loop, c) /\ G[c] = Turn(G, c)
    BY <1>3, <1>6
  <2> QED
    BY <1>8, <2>1
<1> HIDE DEF Turn
<1>9. Bad = {}
  <2> SUFFICES ASSUME Bad # {} PROVE FALSE
    OBVIOUS
  <2>1. PICK k \in Bad : \A j \in Bad : k <= j
    BY LeastNat
  <2>2. PICK c \in Nat : c + k = n /\ loop[c] # G[c]
    OBVIOUS
  <2> DEFINE l == Len(B(c))
  <2>3. B(c) # <<>> /\ loop[c + l] # G[c + l]
    BY <1>7, <1>8, <2>2
  <2>4. l \in Nat /\ l > 0 /\ c + l <= n
    BY <1>1, <2>3
  <2> HIDE DEF l
  <2>5. k - l \in Nat /\ c + l \in Nat /\ (c + l) + (k - l) = n
    BY <1>1, <2>2, <2>4
  <2>6. k - l \in Bad
    BY <2>3, <2>5
  <2>7. k \in Nat /\ k <= k - l
    BY <2>1, <2>6
  <2> QED
    BY <2>4, <2>7
<1>10. loop[from] = G[from]
  <2>1. CASE from <= n
    <3>1. n - from \in Nat /\ from + (n - from) = n
      BY <1>1, <2>1
    <3> QED
      BY <1>9, <3>1
  <2>2. CASE from > n
    <3>1. B(from) = <<>>
      <4>1. ~(Len(B(from)) > 0 /\ from + Len(B(from)) <= n)
        BY <1>1, <2>2
      <4> QED
        BY <1>1, <4>1
    <3> QED
      BY <1>7, <3>1
  <2> QED
    BY <1>1, <2>1, <2>2
<1> QED
  BY <1>10, ReplayIsLoop DEF loop, G

-----------------------------------------------------------------------------
(***************************************************************************)
(* Records.  An event is a record with a type and the weights of its type. *)
(***************************************************************************)
IsEvent(e) ==
    /\ e = [k \in DOMAIN e |-> e[k]]
    /\ "type" \in DOMAIN e
    /\ WeightFields(e.type) \subseteq DOMAIN e

(* Names of fields do not overlap. *)
LEMMA FieldFacts ==
    ASSUME NEW e
    PROVE  /\ IndexFields(e) \cap WeightFields(e.type) = {}
           /\ VectorFields(e) \cap WeightFields(e.type) = {}
           /\ "type" \notin IndexFields(e) \cup VectorFields(e) \cup WeightFields(e.type)
           /\ IndexFields(e) \cup VectorFields(e) \subseteq DOMAIN e
<1>1. WeightFields(e.type) \subseteq {"weight", "old", "new"}
  BY DEF WeightFields
<1> QED
  BY <1>1 DEF IndexFields, VectorFields

(* from_event keeps the fields, and the indices as they are. *)
LEMMA MirrorFacts ==
    ASSUME NEW x, IsEvent(x.event)
    PROVE  LET e == x.event
               m == from_event(x).mirror
           IN  /\ DOMAIN m = DOMAIN e /\ m.type = e.type
               /\ \A k \in DOMAIN e : m[k] = IF k \in WeightFields(e.type) THEN {e[k]} ELSE e[k]
               /\ from_event(x).timestamp = x.ts
               /\ IndexFields(m) = IndexFields(e) /\ VectorFields(m) = VectorFields(e)
               /\ \A k \in IndexFields(e) \cup VectorFields(e) : m[k] = e[k]
               /\ IndicesFit(m) <=> IndicesFit(e)
               /\ WeightsConvert(m)
<1> DEFINE e == x.event
           m == from_event(x).mirror
<1>1. /\ DOMAIN m = DOMAIN e /\ from_event(x).timestamp = x.ts
      /\ \A k \in DOMAIN e : m[k] = IF k \in WeightFields(e.type) THEN {e[k]} ELSE e[k]
  BY DEF from_event, Projection, Some
<1>2. m.type = e.type
  BY <1>1, FieldFacts DEF IsEvent
<1> HIDE DEF m, e
<1>3. IndexFields(m) = IndexFields(e) /\ VectorFields(m) = VectorFields(e)
  BY <1>1, <1>2 DEF IndexFields, VectorFields
<1>4. \A k \in IndexFields(e) \cup VectorFields(e) : m[k] = e[k]
  BY <1>1, FieldFacts
<1>5. IndicesFit(m) <=> IndicesFit(e)
  BY <1>3, <1>4 DEF IndicesFit
<1>6. WeightsConvert(m)
  <2> SUFFICES ASSUME NEW k \in WeightFields(e.type) PROVE m[k] # NoProjection
    BY <1>2 DEF WeightsConvert
  <2>1. k \in DOMAIN e
    BY DEF IsEvent, e
  <2> QED
    BY <1>1, <2>1 DEF NoProjection, None
<1> QED
  BY <1>1, <1>2, <1>3, <1>4, <1>5, <1>6 DEF m, e

(* What the forwarder wrote comes back as it was. *)
LEMMA RecordReads ==
    ASSUME NEW x, IsEvent(x.event), IndicesFit(x.event)
    PROVE  DecodeRecord(Record(x)) = Ok([ts |-> x.ts, event |-> x.event])
<1> DEFINE e == x.event
           w == from_event(x)
           m == w.mirror
           back == [k \in DOMAIN m |-> IF k \in WeightFields(m.type) THEN Unproject(m[k]) ELSE m[k]]
<1>1. Record(x).version = WIRE_TOPOLOGY_SCHEMA_VERSION /\ Record(x).payload = "Plain"
      /\ Record(x).cbor = {w}
  BY DEF Record, Some
<1>2. /\ DOMAIN m = DOMAIN e /\ m.type = e.type /\ w.timestamp = x.ts
      /\ \A k \in DOMAIN e : m[k] = IF k \in WeightFields(e.type) THEN {e[k]} ELSE e[k]
      /\ IndicesFit(m) /\ WeightsConvert(m)
  BY MirrorFacts
<1>3. DecodeRecord(Record(x)) = try_into_event(w)
  <2>1. ~(Record(x).version > WIRE_TOPOLOGY_SCHEMA_VERSION)
    BY <1>1 DEF WIRE_TOPOLOGY_SCHEMA_VERSION
  <2>2. Record(x).cbor # None /\ (CHOOSE u \in Record(x).cbor : TRUE) = w
    BY <1>1 DEF None
  <2> QED
    BY <1>1, <2>1, <2>2 DEF DecodeRecord
<1>4. try_into_event(w) = Ok([ts |-> x.ts, event |-> back])
  BY <1>2 DEF try_into_event
<1>5. back = e
  <2> HIDE DEF m
  <2>1. \A k \in DOMAIN e : back[k] = e[k]
    <3> SUFFICES ASSUME NEW k \in DOMAIN e PROVE back[k] = e[k]
      OBVIOUS
    <3>1. CASE k \in WeightFields(e.type)
      <4>1. back[k] = Unproject({e[k]})
        BY <1>2, <3>1
      <4> QED
        BY <4>1 DEF Unproject
    <3>2. CASE k \notin WeightFields(e.type)
      BY <1>2, <3>2
    <3> QED
      BY <3>1, <3>2
  <2>2. back = [k \in DOMAIN e |-> back[k]]
    BY <1>2
  <2> HIDE DEF back
  <2> QED
    BY <2>1, <2>2 DEF IsEvent
<1> QED
  BY <1>3, <1>4, <1>5

(* A field of the mirror that the reader cannot represent. *)
LEMMA BadField ==
    ASSUME NEW x, IsEvent(x.event), NEW k, NEW v,
           \/ k \in WeightFields(x.event.type) /\ v = NoProjection
           \/ k \in IndexFields(x.event) /\ v = UsizeMax + 1
           \/ k \in VectorFields(x.event) /\ v = <<0, UsizeMax + 1>>
    PROVE  LET r == WithMirror(Record(x), {k}, v)
           IN  DecodeRecord(r) = Err(ErrorOf(r))
<1> DEFINE e == x.event
           w == from_event(x)
           m == w.mirror
           r == WithMirror(Record(x), {k}, v)
           d == [i \in DOMAIN m |-> IF i \in {k} THEN v ELSE m[i]]
           u == [w EXCEPT !.mirror = d]
<1>1. r.version = WIRE_TOPOLOGY_SCHEMA_VERSION /\ r.payload = "Plain" /\ r.cbor = {u}
  BY DEF Record, Some, WithMirror
<1>2. u.mirror = d
  BY DEF from_event
<1>3. /\ DOMAIN m = DOMAIN e /\ m.type = e.type
      /\ IndexFields(m) = IndexFields(e) /\ VectorFields(m) = VectorFields(e)
  BY MirrorFacts
<1>4. k \in DOMAIN e /\ k # "type" /\ "type" \in DOMAIN e
  BY FieldFacts DEF IsEvent
<1> HIDE DEF m, u
<1>5. DOMAIN d = DOMAIN e /\ d.type = e.type /\ d[k] = v
  BY <1>3, <1>4
<1>6. IndexFields(d) = IndexFields(e) /\ VectorFields(d) = VectorFields(e)
  <2> HIDE DEF d
  <2> QED
    BY <1>5 DEF IndexFields, VectorFields
<1> HIDE DEF d
<1>7. ~(IndicesFit(d) /\ WeightsConvert(d))
  <2>1. CASE k \in WeightFields(e.type) /\ v = NoProjection
    BY <1>5, <2>1 DEF WeightsConvert
  <2>2. CASE k \in IndexFields(e) /\ v = UsizeMax + 1
    <3>1. ~(v <= UsizeMax)
      BY <2>2, ReplayBounds
    <3> QED
      BY <1>5, <1>6, <2>2, <3>1 DEF IndicesFit
  <2>3. CASE k \in VectorFields(e) /\ v = <<0, UsizeMax + 1>>
    <3>1. UsizeMax + 1 \in Range(v) /\ ~(UsizeMax + 1 <= UsizeMax)
      <4>1. 2 \in DOMAIN v /\ v[2] = UsizeMax + 1
        BY <2>3
      <4> QED
        BY <4>1, ReplayBounds DEF Range
    <3> QED
      BY <1>5, <1>6, <2>3, <3>1 DEF IndicesFit
  <2> QED
    BY <2>1, <2>2, <2>3
<1>8. try_into_event(u) = Err("Decode")
  BY <1>2, <1>7 DEF try_into_event
<1> HIDE DEF r
<1>9. DecodeRecord(r) = try_into_event(u)
  <2>1. ~(r.version > WIRE_TOPOLOGY_SCHEMA_VERSION)
    BY <1>1 DEF WIRE_TOPOLOGY_SCHEMA_VERSION
  <2>2. r.cbor # None /\ (CHOOSE q \in r.cbor : TRUE) = u
    BY <1>1 DEF None
  <2> QED
    BY <1>1, <2>1, <2>2 DEF DecodeRecord
<1>10. ErrorOf(r) = "Decode"
  BY <1>1 DEF ErrorOf, WIRE_TOPOLOGY_SCHEMA_VERSION
<1> QED
  BY <1>8, <1>9, <1>10 DEF r

(* A record of another build, sealed, cut or out of range is an error. *)
LEMMA DamageReads ==
    ASSUME NEW i \in DOMAIN log, IsEvent(log[i].event), NEW r \in Damaged(i)
    PROVE  DecodeRecord(r) = Err(ErrorOf(r)) /\ ErrorOf(r) # "none"
<1> DEFINE x == log[i]
           R == Record(x)
           e == log[i].event
<1>1. ErrorOf(r) # "none"
  BY DEF ErrorOf
<1>2. R.version = 1 /\ R.payload = "Plain" /\ R = [version |-> 1, payload |-> "Plain", cbor |-> R.cbor]
  BY DEF Record, WIRE_TOPOLOGY_SCHEMA_VERSION
<1>3. \/ r \in {[R EXCEPT !.version = @ + 1], [R EXCEPT !.payload = "Sealed"], [R EXCEPT !.cbor = None]}
      \/ \E k \in WeightFields(e.type) : r = WithMirror(R, {k}, NoProjection)
      \/ \E k \in IndexFields(e) : r = WithMirror(R, {k}, UsizeMax + 1)
      \/ \E k \in VectorFields(e) : r = WithMirror(R, {k}, <<0, UsizeMax + 1>>)
  BY DEF Damaged
<1> HIDE DEF R
<1>4. CASE r = [R EXCEPT !.version = @ + 1]
  <2>1. r.version = 2
    BY <1>2, <1>4
  <2> QED
    BY <1>1, <2>1 DEF DecodeRecord, ErrorOf, WIRE_TOPOLOGY_SCHEMA_VERSION
<1>5. CASE r = [R EXCEPT !.payload = "Sealed"] \/ r = [R EXCEPT !.cbor = None]
  <2>1. r.version = 1 /\ (r.payload = "Sealed" \/ r.cbor = None)
    BY <1>2, <1>5
  <2> QED
    BY <1>1, <2>1 DEF DecodeRecord, ErrorOf, WIRE_TOPOLOGY_SCHEMA_VERSION
<1>6. CASE \/ \E k \in WeightFields(e.type) : r = WithMirror(R, {k}, NoProjection)
           \/ \E k \in IndexFields(e) : r = WithMirror(R, {k}, UsizeMax + 1)
           \/ \E k \in VectorFields(e) : r = WithMirror(R, {k}, <<0, UsizeMax + 1>>)
  <2>1. PICK k, v : /\ r = WithMirror(R, {k}, v)
                    /\ \/ k \in WeightFields(e.type) /\ v = NoProjection
                       \/ k \in IndexFields(e) /\ v = UsizeMax + 1
                       \/ k \in VectorFields(e) /\ v = <<0, UsizeMax + 1>>
    BY <1>6
  <2> QED
    BY <1>1, <2>1, BadField DEF R
<1> QED
  BY <1>3, <1>4, <1>5, <1>6

EventsInLog == (\E S : log \in Seq(S)) /\ \A i \in DOMAIN log : IsEvent(log[i].event)
ReaderFits == \A i \in DOMAIN log : IndicesFit(log[i].event)

(* What is left of a list after a place. *)
LEMMA SuffixFacts ==
    ASSUME NEW A, NEW s \in Seq(A), NEW a \in Nat, a <= Len(s)
    PROVE  LET t == SubSeq(s, a + 1, Len(s))
           IN  /\ t \in Seq(A) /\ Len(t) = Len(s) - a /\ DOMAIN t = 1 .. Len(s) - a
               /\ \A k \in 1 .. Len(s) - a : t[k] = s[a + k]
<1> DEFINE n == Len(s)
           t == SubSeq(s, a + 1, n)
<1>1. n \in Nat
  OBVIOUS
<1>2. t \in Seq(A)
  BY <1>1
<1>3. Len(t) = n - a
  BY <1>1
<1>4. DOMAIN t = 1 .. n - a
  BY <1>1, <1>2, <1>3
<1>5. \A k \in 1 .. n - a : t[k] = s[a + k]
  <2> SUFFICES ASSUME NEW k \in 1 .. n - a PROVE t[k] = s[a + k]
    OBVIOUS
  <2> QED
    BY <1>1
<1> QED
  BY <1>2, <1>3, <1>4, <1>5

(* A records whose records after a place are those of the log. *)
LEMMA TailReads ==
    ASSUME EventsInLog, ReaderFits, NEW records, NEW R, records \in Seq(R),
           Len(records) = Len(log), NEW from \in Nat,
           \A j \in DOMAIN log : j > from => records[j] = Record(log[j])
    PROVE  LET live == [i \in 1 .. Len(log) |-> [ts |-> log[i].ts, event |-> log[i].event]]
           IN  replay_into_event_log(records, from) = Ok(SubSeq(live, from + 1, Len(log)))
<1> DEFINE n == Len(log)
           L(i) == [ts |-> log[i].ts, event |-> log[i].event]
           live == [i \in 1 .. n |-> L(i)]
<1>1. n \in Nat /\ DOMAIN log = 1 .. n /\ DOMAIN records = 1 .. n
  BY DEF EventsInLog
<1>2. ASSUME NEW j \in 1 .. n, j > from PROVE DecodeRecord(records[j]) = Ok(L(j))
  BY <1>1, <1>2, RecordReads DEF EventsInLog, ReaderFits
<1>3. Undecodable(records, from) = {}
  <2> HIDE DEF L
  <2>1. \A j \in 1 .. n : j > from => DecodeRecord(records[j]).err = "none"
    BY <1>2, OkFacts
  <2> QED
    BY <1>1, <2>1 DEF Undecodable
<1> DEFINE s == [k \in 1 .. n - from |-> DecodeRecord(records[from + k]).val]
<1>4. replay_into_event_log(records, from) = Ok(s)
  BY <1>3, ReplayReads DEF Replayed
<1>5. s = SubSeq(live, from + 1, n)
  <2>1. \A k \in 1 .. n - from : s[k] = L(from + k)
    <3> SUFFICES ASSUME NEW k \in 1 .. n - from PROVE s[k] = L(from + k)
      OBVIOUS
    <3>1. from + k \in 1 .. n /\ from + k > from
      BY <1>1
    <3> HIDE DEF L
    <3> QED
      BY <1>2, <3>1, OkFacts
  <2>2. s = [k \in 1 .. n - from |-> L(from + k)]
    BY <2>1
  <2> HIDE DEF s, L
  <2>3. SubSeq(live, from + 1, n) = [k \in 1 .. n - from |-> L(from + k)]
    <3>1. CASE from <= n
      <4>1. live \in Seq({L(i) : i \in 1 .. n}) /\ Len(live) = n
        BY <1>1
      <4>2. \A k \in 1 .. n - from : from + k \in 1 .. n /\ live[from + k] = L(from + k)
        BY <1>1, <3>1
      <4> DEFINE A == {L(i) : i \in 1 .. n}
                 w == live
      <4> HIDE DEF live, A, w
      <4>3. w \in Seq(A) /\ Len(w) = n /\ from <= Len(w) /\ from \in Nat
        BY <1>1, <3>1, <4>1 DEF A, w
      <4>4. /\ SubSeq(w, from + 1, Len(w)) \in Seq(A)
            /\ Len(SubSeq(w, from + 1, Len(w))) = Len(w) - from
            /\ DOMAIN SubSeq(w, from + 1, Len(w)) = 1 .. Len(w) - from
            /\ \A k \in 1 .. Len(w) - from : SubSeq(w, from + 1, Len(w))[k] = w[from + k]
        BY <4>3, SuffixFacts
      <4> DEFINE t == SubSeq(w, from + 1, Len(w))
                 u == [k \in 1 .. n - from |-> L(from + k)]
      <4>5. t = [k \in 1 .. n - from |-> t[k]]
        <5> HIDE DEF u
        <5> QED
          BY <4>3, <4>4
      <4>6. \A k \in 1 .. n - from : t[k] = L(from + k)
        BY <4>2, <4>3, <4>4 DEF w
      <4>7. t = u
        <5> HIDE DEF t
        <5> QED
          BY <4>5, <4>6
      <4> QED
        BY <4>3, <4>7 DEF w
    <3>2. CASE from > n
      <4>1. 1 .. n - from = {}
        BY <1>1, <3>2
      <4>2. [k \in 1 .. n - from |-> L(from + k)] = <<>>
        BY <4>1
      <4>3. live \in Seq({L(i) : i \in 1 .. n}) /\ Len(live) = n
        BY <1>1
      <4>4. SubSeq(live, from + 1, n) = <<>>
        <5> HIDE DEF live
        <5> QED
          BY <1>1, <3>2, <4>3
      <4> QED
        BY <4>2, <4>4
    <3> QED
      BY <1>1, <3>1, <3>2
  <2> QED
    BY <2>2, <2>3
<1> QED
  BY <1>4, <1>5

(* Events that fit the reader come back, and one that does not is refused. *)
LEMMA ParityHolds ==
    ASSUME EventsInLog, ReaderFits
    PROVE  ReplayParity
<1> DEFINE n == Len(log)
           live == [i \in 1 .. n |-> [ts |-> log[i].ts, event |-> log[i].event]]
           After(k) == Ok(SubSeq(live, k + 1, n))
<1>1. n \in Nat /\ DOMAIN log = 1 .. n
  BY DEF EventsInLog
<1>2. /\ Stream \in Seq({Record(log[i]) : i \in 1 .. n}) /\ Len(Stream) = n /\ DOMAIN Stream = 1 .. n
      /\ \A j \in 1 .. n : Stream[j] = Record(log[j])
  BY <1>1 DEF Stream
<1> HIDE DEF n
<1>3. ASSUME NEW from \in 0 .. (n + 1)
      PROVE  replay_into_event_log(Stream, from) = After(from)
  <2>1. from \in Nat /\ \A j \in DOMAIN log : j > from => Stream[j] = Record(log[j])
    BY <1>1, <1>2
  <2> QED
    BY <1>2, <2>1, TailReads DEF n
<1>4. ASSUME NEW i \in DOMAIN log, NEW r \in Damaged(i)
      PROVE  /\ replay_into_event_log([Stream EXCEPT ![i] = r], i - 1) = Err(ErrorOf(r))
             /\ replay_into_event_log([Stream EXCEPT ![i] = r], i) = After(i)
  <2> DEFINE records == [Stream EXCEPT ![i] = r]
             R == {Record(log[j]) : j \in 1 .. n} \cup {r}
  <2>1. i \in Nat /\ i - 1 \in Nat /\ i \in 1 .. n
    BY <1>1
  <2>2. /\ records \in Seq(R) /\ Len(records) = n /\ DOMAIN records = 1 .. n
        /\ records[i] = r
        /\ \A j \in 1 .. n : j # i => records[j] = Record(log[j])
    <3> DEFINE t == [j \in 1 .. n |-> IF j = i THEN r ELSE Record(log[j])]
    <3>1. records = t
      BY <1>2
    <3>2. t \in Seq(R) /\ Len(t) = n
      BY <1>1
    <3> HIDE DEF records
    <3> QED
      BY <2>1, <3>1, <3>2
  <2> HIDE DEF records, R
  <2>3. replay_into_event_log(records, i) = After(i)
    <3>1. \A j \in DOMAIN log : j > i => records[j] = Record(log[j])
      BY <1>1, <2>1, <2>2
    <3> QED
      BY <2>1, <2>2, <3>1, TailReads DEF n
  <2>4. DecodeRecord(r) = Err(ErrorOf(r)) /\ ErrorOf(r) # "none"
    BY DamageReads DEF EventsInLog
  <2>5. Undecodable(records, i - 1) # {} /\ Min(Undecodable(records, i - 1)) = i
    <3> DEFINE U == Undecodable(records, i - 1)
    <3>1. i \in U
      BY <2>1, <2>2, <2>4, OkFacts DEF Undecodable
    <3>2. U \in SUBSET Nat /\ \A x \in U : i <= x
      BY <1>1, <2>1, <2>2 DEF Undecodable
    <3> HIDE DEF U
    <3> QED
      BY <3>1, <3>2, MinIs DEF U
  <2>6. replay_into_event_log(records, i - 1) = DecodeRecord(r)
    BY <2>1, <2>2, <2>5, ReplayReads DEF Replayed
  <2> QED
    BY <2>3, <2>4, <2>6 DEF records
<1> QED
  BY <1>3, <1>4 DEF ReplayParity, n

(* Every mutation records an event of this shape. *)
LEMMA OutcomeIsEvent ==
    ASSUME NEW g, NEW r, NEW o \in Outcomes(g, r)
    PROVE  IsEvent(o.event)
<1> DEFINE e == o.event
<1> USE DEF IsEvent, WeightFields, Recorded, When
<1>1. CASE r.op = "add_vertex"
  BY <1>1 DEF Outcomes, add_vertex
<1>2. CASE r.op = "remove_vertex"
  BY <1>2 DEF Outcomes, remove_vertex
<1>3. CASE r.op = "update_vertex_weight"
  BY <1>3 DEF Outcomes, update_vertex_weight
<1>4. CASE r.op = "add_hyperedge"
  BY <1>4 DEF Outcomes, add_hyperedge
<1>5. CASE r.op = "remove_hyperedge"
  BY <1>5 DEF Outcomes, remove_hyperedge
<1>6. CASE r.op = "update_hyperedge_weight"
  BY <1>6 DEF Outcomes, update_hyperedge_weight
<1>7. CASE r.op = "update_hyperedge_vertices"
  BY <1>7 DEF Outcomes, update_hyperedge_vertices, UpdatedMembers
<1>8. CASE r.op = "join_coalition"
  BY <1>8 DEF Outcomes, join_coalition, UpdatedMembers
<1>9. CASE r.op = "leave_coalition"
  BY <1>9 DEF Outcomes, leave_coalition, UpdatedMembers
<1>10. CASE r.op = "reverse_hyperedge"
  BY <1>10 DEF Outcomes, reverse_hyperedge
<1>11. CASE r.op = "join_hyperedges"
  BY <1>11 DEF Outcomes, join_hyperedges
<1>12. CASE r.op = "contract_hyperedge_vertices"
  BY <1>12 DEF Outcomes, contract_hyperedge_vertices
<1>13. CASE r.op = "clear_hyperedges"
  BY <1>13 DEF Outcomes, clear_hyperedges
<1>14. CASE r.op = "clear"
  BY <1>14 DEF Outcomes, clear
<1> QED
  BY <1>1, <1>2, <1>3, <1>4, <1>5, <1>6, <1>7, <1>8, <1>9, <1>10, <1>11, <1>12, <1>13, <1>14
     DEF Outcomes

(* One more event in the log. *)
LEMMA EventAppended ==
    ASSUME EventsInLog, NEW x, IsEvent(x.event), log' = Append(log, x)
    PROVE  EventsInLog'
<1>1. PICK S : log \in Seq(S)
  BY DEF EventsInLog
<1> DEFINE T == S \cup {x}
<1>2. log \in Seq(T) /\ x \in T
  BY <1>1
<1> HIDE DEF T
<1>3. /\ log' \in Seq(T) /\ DOMAIN log = 1 .. Len(log) /\ DOMAIN log' = 1 .. (Len(log) + 1)
      /\ Len(log) \in Nat
      /\ \A i \in 1 .. Len(log) : log'[i] = log[i]
      /\ log'[Len(log) + 1] = x
  BY <1>2, AppendFacts
<1>4. ASSUME NEW i \in 1 .. (Len(log) + 1) PROVE IsEvent(log'[i].event)
  <2>1. CASE i \in 1 .. Len(log)
    BY <1>3, <2>1 DEF EventsInLog
  <2>2. CASE i = Len(log) + 1
    BY <1>3, <2>2
  <2> QED
    BY <1>3, <2>1, <2>2
<1> QED
  BY <1>3, <1>4 DEF EventsInLog

RecordedInv == lost \/ EventsInLog

(* Until a task is dropped, only events are recorded. *)
LEMMA RecordedStep == RecordedInv /\ [Recorder!Next]_Recorder!vars => RecordedInv'
<1> SUFFICES ASSUME RecordedInv, [Recorder!Next]_Recorder!vars PROVE RecordedInv'
  OBVIOUS
<1>1. CASE UNCHANGED Recorder!vars
  BY <1>1 DEF Recorder!vars, RecordedInv, EventsInLog
<1>2. ASSUME NEW t, NEW v, NEW c, NEW r, Recorder!Mutate(t, v, c, r)
      PROVE  RecordedInv'
  <2>1. PICK o \in Outcomes(graph, r) : log' = Append(log, Recorder!Entry(t, v, c, o.event))
    BY <1>2 DEF Recorder!Mutate, Recorder!Append1
  <2>2. lost' = lost /\ Recorder!Entry(t, v, c, o.event).event = o.event
    BY <1>2 DEF Recorder!Mutate, Recorder!Entry
  <2>3. IsEvent(o.event)
    BY OutcomeIsEvent
  <2> QED
    BY <2>1, <2>2, <2>3, EventAppended DEF RecordedInv
<1>3. ASSUME NEW t, NEW v, NEW c, NEW id, Recorder!Mark(t, v, c, id)
      PROVE  RecordedInv'
  <2> DEFINE e == [type |-> "SnapshotMarker", id |-> id]
  <2>1. log' = Append(log, Recorder!Entry(t, v, c, e)) /\ lost' = lost
    BY <1>3 DEF Recorder!Mark, Recorder!Append1
  <2>2. Recorder!Entry(t, v, c, e).event = e
    BY DEF Recorder!Entry
  <2>3. IsEvent(e)
    BY DEF IsEvent, WeightFields
  <2> QED
    BY <2>1, <2>2, <2>3, EventAppended DEF RecordedInv
<1>4. ASSUME NEW t, NEW v, NEW c, Recorder!RecordAfterLoss(t, v, c)
      PROVE  RecordedInv'
  BY <1>4 DEF Recorder!RecordAfterLoss, RecordedInv
<1>5. CASE Recorder!Lose
  BY <1>5 DEF Recorder!Lose, RecordedInv
<1> QED
  BY <1>1, <1>2, <1>3, <1>4, <1>5 DEF Recorder!Next

(***************************************************************************)
(* replay_into_event_log (replay.rs:27-95) returns the events of the live  *)
(* log, in the same order and unaltered, from any sequence number and for  *)
(* every batch size; and a record this reader cannot represent fails the   *)
(* replay exactly when it lies in the part asked for.  The condition is    *)
(* the reader's: its indices are as wide as those of the log it replays.   *)
(* After a shutdown dropped a task the atomic specification says nothing   *)
(* of what is recorded.                                                    *)
(***************************************************************************)
THEOREM ReplayAlwaysReturnsTheLog ==
    Recorder!Spec => [](~lost /\ ReaderFits => ReplayParity)
<1>1. Recorder!Init => RecordedInv
  <2> SUFFICES ASSUME Recorder!Init PROVE EventsInLog
    BY DEF RecordedInv
  <2>1. log = <<>>
    BY DEF Recorder!Init
  <2>2. log \in Seq({}) /\ DOMAIN log = {}
    BY <2>1
  <2> QED
    BY <2>2 DEF EventsInLog
<1>2. RecordedInv => (~lost /\ ReaderFits => ReplayParity)
  BY ParityHolds DEF RecordedInv
<1> QED
  BY <1>1, <1>2, RecordedStep, PTL DEF Recorder!Spec
=============================================================================
