----------------------- MODULE CoalitionServiceProofs -----------------------
(***************************************************************************)
(* Proofs about CoalitionService: whatever the callers, the other holders  *)
(* of the graph, the tap's consumer, a cancelled token and a panicking     *)
(* policy do between the awaits of a command, the service's end is visible *)
(* to its callers, the answer, the trace and the log of a decision agree,  *)
(* and a join or leave moves its own agent alone.                          *)
(***************************************************************************)
EXTENDS CoalitionService, DataLemmas

-----------------------------------------------------------------------------
(***************************************************************************)
(* Types.  A member list may hold anything, so work is typed field by      *)
(* field.                                                                  *)
(***************************************************************************)
Idling  == {"select", "refusing", "stopped"}
Working == {"position", "agent", "members", "weights", "consult", "apply",
            "record", "emit", "read", "reply", "panicking"}
Ending  == {"panic_reply", "ending"}

Results == {"none", "acted", "declined", "error", "poisoned", "members"}
Answers == Results \cup {"gone", "abandoned", "cancelled", "panicked",
                         "reply_dropped"}

Entries == [by : Calls \cup {NoCall}, ts : Nat]
Records == [call : Calls, act : BOOLEAN, len : Nat, ts : Nat]

TypeInv ==
    /\ step \in Idling \cup Working \cup Ending
    /\ cur \in Calls \cup {NoCall} /\ (cur = NoCall <=> step \in Idling)
    /\ DOMAIN work = {"result", "len", "ts", "consulted", "left"}
    /\ work.result \in Results /\ work.len \in Nat /\ work.ts \in Nat
    /\ clock \in Nat /\ log \in Seq(Entries)
    /\ client \in [Calls -> {"idle", "sending", "waiting", "done"}]
    /\ answer \in [Calls -> Answers]
    /\ queue \in Seq(Calls) /\ served \in Seq(Calls)
    /\ tap \in Seq(Records) /\ taken \in Seq(Records)
    /\ closed \in BOOLEAN /\ cancelled \in BOOLEAN /\ panicked \in BOOLEAN
    /\ tapOpen \in BOOLEAN

(* The types hold at the start. *)
LEMMA TypeInit == Init => TypeInv
<1> SUFFICES ASSUME Init PROVE TypeInv
  OBVIOUS
<1>1. tapOpen \in BOOLEAN
  BY DEF Init
<1>2. /\ DOMAIN work = {"result", "len", "ts", "consulted", "left"}
      /\ work.result \in Results /\ work.len \in Nat /\ work.ts \in Nat
  BY DEF Init, NoWork, Results
<1>3. step \in Idling /\ cur = NoCall
  BY DEF Init, Idling
<1>4. /\ client \in [Calls -> {"idle", "sending", "waiting", "done"}]
      /\ answer \in [Calls -> Answers]
  BY DEF Init, Answers, Results
<1>5. /\ clock \in Nat /\ log \in Seq(Entries)
      /\ queue \in Seq(Calls) /\ served \in Seq(Calls)
      /\ tap \in Seq(Records) /\ taken \in Seq(Records)
  BY DEF Init
<1>6. closed \in BOOLEAN /\ cancelled \in BOOLEAN /\ panicked \in BOOLEAN
  BY DEF Init
<1> QED
  BY <1>1, <1>2, <1>3, <1>4, <1>5, <1>6 DEF TypeInv

(* The steps of one command's work, which only the graph's other holders,  *)
(* the tap and the log see.                                                *)
Work == decision_position \/ Manager \/ Emit \/ ReadMembers \/ SetPanicked

(* What they leave alone, and where they lead. *)
LEMMA WorkStays ==
    ASSUME TypeInv, Work
    PROVE  /\ UNCHANGED <<queue, closed, served, client, handles, answer, cur,
                          cancelled, taken, tapOpen>>
           /\ step \in Working /\ step # "reply"
           /\ step' \in Working \cup {"panic_reply"}
           /\ step' = "panic_reply" => panicked' = TRUE
           /\ panicked' = panicked \/ panicked' = TRUE
           /\ cur \in Calls
<1> USE DEF Idle, Goto, Fails, topology, task, channel, callers, taps, signals,
            TypeInv, Idling, Working, Ending
<1>1. CASE decision_position
  BY <1>1 DEF decision_position
<1>2. CASE get_agent \/ coalition_members \/ agent_weights \/ WeightsRead
  BY <1>2 DEF get_agent, coalition_members, agent_weights, WeightsRead
<1>3. CASE Consult \/ Apply \/ Record
  BY <1>3 DEF Consult, Apply, Record
<1>4. CASE Emit \/ ReadMembers \/ SetPanicked
  BY <1>4 DEF Emit, ReadMembers, SetPanicked
<1> QED
  BY <1>1, <1>2, <1>3, <1>4 DEF Work, Manager

(* What a command's work does to the log, the tap and its locals. *)
LEMMA WorkTypes ==
    ASSUME TypeInv, Work
    PROVE  /\ DOMAIN work' = {"result", "len", "ts", "consulted", "left"}
           /\ work'.result \in Results /\ work'.len \in Nat /\ work'.ts \in Nat
           /\ clock' \in Nat /\ log' \in Seq(Entries) /\ tap' \in Seq(Records)
<1> USE DEF Idle, Goto, Fails, topology, task, channel, callers, taps, signals,
            TypeInv, Results
<1>1. CASE decision_position
  BY <1>1 DEF decision_position
<1>2. CASE get_agent \/ agent_weights \/ WeightsRead
  BY <1>2 DEF get_agent, agent_weights, WeightsRead
<1>3. CASE coalition_members
  BY <1>3 DEF coalition_members
<1>4. CASE Consult \/ Apply
  BY <1>4 DEF Consult, Apply, Decided
<1>5. CASE Record
  <2>1. [by |-> cur, ts |-> clock] \in Entries
    BY DEF Entries
  <2> QED
    BY <1>5, <2>1, AppendFacts DEF Record
<1>6. CASE Emit
  <2>1. cur \in Calls
    BY <1>6, WorkStays DEF Work
  <2>2. Trace \in Records
    BY <2>1 DEF Trace, Records
  <2>3. Append(tap, Trace) \in Seq(Records)
    BY <2>2, AppendFacts
  <2> QED
    BY <1>6, <2>3 DEF Emit
<1>7. CASE ReadMembers \/ SetPanicked
  BY <1>7 DEF ReadMembers, SetPanicked
<1> QED
  BY <1>1, <1>2, <1>3, <1>4, <1>5, <1>6, <1>7 DEF Work, Manager

(* Every step keeps the types. *)
LEMMA TypeStep == TypeInv /\ [Next]_vars => TypeInv'
<1> SUFFICES ASSUME TypeInv, [Next]_vars PROVE TypeInv'
  OBVIOUS
<1> USE DEF Goto, topology, task, channel, callers, taps, signals
<1>1. CASE Work
  BY <1>1, WorkStays, WorkTypes, NoCallIsNoCall
     DEF TypeInv, Idling, Working, Ending
<1>2. CASE Receive
  <2>1. Head(queue) \in Calls /\ Tail(queue) \in Seq(Calls)
    BY <1>2, TailFacts DEF Receive, TypeInv
  <2>2. Append(served, Head(queue)) \in Seq(Calls)
    BY <2>1, AppendFacts DEF TypeInv
  <2> QED
    BY <1>2, <2>1, <2>2, NoCallIsNoCall
       DEF Receive, TypeInv, FirstStep, NoWork, Idling, Working, Ending, Results
<1>3. CASE HandlesGone \/ refuse_queued \/ RefusedAll
  BY <1>3 DEF HandlesGone, refuse_queued, RefusedAll, TypeInv, Idling
<1>4. CASE RefuseOne
  <2>1. Tail(queue) \in Seq(Calls)
    BY <1>4, TailFacts DEF RefuseOne, TypeInv
  <2> QED
    BY <1>4, <2>1 DEF RefuseOne, Told, TypeInv, Answers
<1>5. CASE Reply
  BY <1>5 DEF Reply, Told, TypeInv, NoWork, Idling, Answers, Results
<1>6. CASE PanicReply
  BY <1>6 DEF PanicReply, Told, TypeInv, Idling, Ending, Answers
<1>7. CASE End
  BY <1>7 DEF End, TypeInv, NoWork, Idling, Answers, Results
<1>8. ASSUME NEW c \in Calls,
             request(c) \/ Enqueue(c) \/ SendGone(c) \/ Resume(c)
             \/ Abandon(c) \/ DropHandle(c)
      PROVE  TypeInv'
  <2>1. Append(queue, c) \in Seq(Calls)
    BY AppendFacts DEF TypeInv
  <2> QED
    BY <1>8, <2>1 DEF request, Enqueue, SendGone, Resume, Abandon, DropHandle,
                      Told, TypeInv, Answers
<1>9. ASSUME NEW r \in OtherRequests, OtherApply(r) PROVE TypeInv'
  BY <1>9 DEF OtherApply, TypeInv
<1>10. CASE OtherRecord
  <2>1. [by |-> NoCall, ts |-> 0] \in Entries
    BY DEF Entries
  <2>2. Append(log, [by |-> NoCall, ts |-> 0]) \in Seq(Entries)
    BY <2>1, AppendFacts DEF TypeInv
  <2> QED
    BY <1>10, <2>2 DEF OtherRecord, TypeInv
<1>11. CASE TakeTap
  <2>1. Head(tap) \in Records /\ Tail(tap) \in Seq(Records)
    BY <1>11, TailFacts DEF TakeTap, TypeInv
  <2>2. Append(taken, Head(tap)) \in Seq(Records)
    BY <2>1, AppendFacts DEF TypeInv
  <2> QED
    BY <1>11, <2>1, <2>2 DEF TakeTap, TypeInv
<1>12. CASE CloseTap \/ Cancel
  <2>1. <<>> \in Seq(Records)
    OBVIOUS
  <2> QED
    BY <1>12, <2>1 DEF CloseTap, Cancel, TypeInv
<1>13. CASE UNCHANGED vars
  BY <1>13 DEF vars, TypeInv
<1> QED
  BY <1>1, <1>2, <1>3, <1>4, <1>5, <1>6, <1>7, <1>8, <1>9, <1>10, <1>11, <1>12,
     <1>13 DEF Next, Serve, Work

-----------------------------------------------------------------------------
(***************************************************************************)
(* A command is queued at most once and taken from the queue at most once, *)
(* a command not yet sent is in no list, and a command is unanswered from  *)
(* the moment it is sent until the service answers it, unless its caller   *)
(* dropped the future.                                                     *)
(***************************************************************************)
Unanswered == {"none", "abandoned"}

ChannelInv ==
    /\ \A i, j \in DOMAIN served : served[i] = served[j] => i = j
    /\ \A i, j \in DOMAIN queue : queue[i] = queue[j] => i = j
    /\ \A c \in Calls : c \in Range(queue) => c \notin Range(served)
    /\ \A c \in Calls : client[c] \in {"idle", "sending"} =>
          /\ answer[c] = "none"
          /\ c \notin Range(served) /\ c \notin Range(queue)
    /\ \A c \in Calls : c \in Range(queue) => answer[c] \in Unanswered

CurrentInv ==
    cur # NoCall => /\ served # <<>> /\ cur = served[Len(served)]
                    /\ step # "ending" => answer[cur] \in Unanswered

(* The call in service is one of those served, so somebody was served. *)
LEMMA ServedLast ==
    ASSUME TypeInv, CurrentInv, cur # NoCall
    PROVE  cur \in Calls /\ Len(served) \in DOMAIN served /\ cur \in Range(served)
<1>1. Len(served) \in DOMAIN served
  BY DEF TypeInv, CurrentInv
<1> QED
  BY <1>1 DEF TypeInv, CurrentInv, Range

(* Every step keeps the channel, and the call in service the last one served. *)
LEMMA ChannelStep ==
    ASSUME TypeInv, ChannelInv, CurrentInv, [Next]_vars
    PROVE  ChannelInv' /\ CurrentInv'
<1> USE DEF topology, task, channel, callers, taps, signals
<1>0. ASSUME UNCHANGED <<queue, served, client, answer, cur>>,
             cur # NoCall => step # "ending" \/ step' = "ending"
      PROVE  ChannelInv' /\ CurrentInv'
  BY <1>0 DEF ChannelInv, CurrentInv
<1>1. CASE Work
  BY <1>0, <1>1, WorkStays DEF Working
<1>2. CASE Receive
  <2> DEFINE q == Tail(queue)
             c == Head(queue)
             s == Append(served, c)
  <2>1. /\ queue \in Seq(Calls) /\ queue # <<>> /\ served \in Seq(Calls)
        /\ UNCHANGED <<client, answer>>
        /\ queue' = q /\ served' = s /\ cur' = c
    BY <1>2 DEF Receive, TypeInv
  <2>2. /\ c = queue[1] /\ c \in Calls /\ 1 \in DOMAIN queue
        /\ DOMAIN q = 1..(Len(queue) - 1) /\ Len(queue) \in Nat
        /\ DOMAIN queue = 1..Len(queue)
        /\ \A i \in DOMAIN q : i + 1 \in DOMAIN queue /\ q[i] = queue[i + 1]
        /\ c \in Range(queue) /\ Range(q) \subseteq Range(queue)
    BY <2>1, TailFacts
  <2>3. /\ Len(served) \in Nat /\ Len(s) = Len(served) + 1
        /\ DOMAIN served = 1..Len(served) /\ DOMAIN s = 1..(Len(served) + 1)
        /\ \A i \in 1..Len(served) : s[i] = served[i]
        /\ s[Len(served) + 1] = c
        /\ Range(s) = Range(served) \cup {c}
    BY <2>1, <2>2, AppendFacts
  <2> HIDE DEF q, c, s
  <2>4. c \notin Range(served) /\ answer[c] \in Unanswered
    BY <2>2 DEF ChannelInv
  <2>5. \A i \in DOMAIN served : served[i] # c
    BY <2>4 DEF Range
  <2>6. \A i, j \in DOMAIN s : s[i] = s[j] => i = j
    BY <2>3, <2>5 DEF ChannelInv
  <2>7. \A i, j \in DOMAIN q : q[i] = q[j] => i = j
    BY <2>2 DEF ChannelInv
  <2>8. c \notin Range(q)
    <3>1. \A i \in DOMAIN q : q[i] # c
      BY <2>2 DEF ChannelInv
    <3> QED
      BY <3>1 DEF Range
  <2>9. \A d \in Calls : d \in Range(q) => d \notin Range(s)
    BY <2>2, <2>3, <2>8 DEF ChannelInv
  <2>10. ChannelInv'
    BY <2>1, <2>2, <2>3, <2>6, <2>7, <2>9 DEF ChannelInv
  <2>11. CurrentInv'
    <3>1. s # <<>> /\ c = s[Len(s)]
      BY <2>3
    <3> QED
      BY <2>1, <2>4, <3>1 DEF CurrentInv
  <2> QED
    BY <2>10, <2>11
<1>3. CASE HandlesGone \/ refuse_queued \/ RefusedAll
  BY <1>0, <1>3, NoCallIsNoCall
     DEF HandlesGone, refuse_queued, RefusedAll, TypeInv, Idling
<1>4. CASE RefuseOne
  <2> DEFINE q == Tail(queue)
             c == Head(queue)
  <2>1. /\ queue \in Seq(Calls) /\ queue # <<>>
        /\ UNCHANGED <<client, served, cur, step>>
        /\ queue' = q /\ answer' = Told(c, "cancelled") /\ cur = NoCall
    BY <1>4 DEF RefuseOne, TypeInv, Idling
  <2>2. /\ c = queue[1] /\ c \in Calls /\ 1 \in DOMAIN queue
        /\ DOMAIN q = 1..(Len(queue) - 1) /\ Len(queue) \in Nat
        /\ DOMAIN queue = 1..Len(queue)
        /\ \A i \in DOMAIN q : i + 1 \in DOMAIN queue /\ q[i] = queue[i + 1]
        /\ c \in Range(queue) /\ Range(q) \subseteq Range(queue)
    BY <2>1, TailFacts
  <2> HIDE DEF q, c
  <2>3. \A i, j \in DOMAIN q : q[i] = q[j] => i = j
    BY <2>2 DEF ChannelInv
  <2>4. c \notin Range(q)
    <3>1. \A i \in DOMAIN q : q[i] # c
      BY <2>2 DEF ChannelInv
    <3> QED
      BY <3>1 DEF Range
  <2>5. \A d \in Calls : d # c => answer'[d] = answer[d]
    BY <2>1, <2>2 DEF Told, TypeInv
  <2>6. client[c] \notin {"idle", "sending"}
    BY <2>2 DEF ChannelInv
  <2> QED
    BY <2>1, <2>2, <2>3, <2>4, <2>5, <2>6 DEF ChannelInv, CurrentInv
<1>5. CASE Reply \/ PanicReply
  <2>1. /\ UNCHANGED <<queue, served, client>> /\ cur \in Calls
        /\ \A d \in Calls : d # cur => answer'[d] = answer[d]
        /\ cur' = NoCall \/ (cur' = cur /\ step' = "ending")
    BY <1>5, NoCallIsNoCall
       DEF Reply, PanicReply, Goto, Told, TypeInv, Idling
  <2>2. cur \in Range(served)
    BY <2>1, ServedLast, NoCallIsNoCall
  <2>3. cur \notin Range(queue) /\ client[cur] \notin {"idle", "sending"}
    BY <2>1, <2>2 DEF ChannelInv
  <2> QED
    BY <2>1, <2>3 DEF ChannelInv, CurrentInv
<1>6. CASE End
  <2>1. /\ UNCHANGED <<served, client>> /\ cur' = NoCall
        /\ queue' = <<>>
        /\ \A d \in Calls : d \notin Range(queue) => answer'[d] = answer[d]
    BY <1>6 DEF End
  <2>2. Range(queue') = {} /\ DOMAIN queue' = {}
    BY <2>1 DEF Range
  <2> QED
    BY <2>1, <2>2 DEF ChannelInv, CurrentInv
<1>7. ASSUME NEW c \in Calls, request(c) PROVE ChannelInv' /\ CurrentInv'
  BY <1>7 DEF request, TypeInv, ChannelInv, CurrentInv
<1>8. ASSUME NEW c \in Calls, Enqueue(c) PROVE ChannelInv' /\ CurrentInv'
  <2> DEFINE q == Append(queue, c)
  <2>1. /\ client[c] = "sending" /\ queue' = q /\ queue \in Seq(Calls)
        /\ client' = [client EXCEPT ![c] = "waiting"]
        /\ UNCHANGED <<served, answer, cur, step>>
    BY <1>8 DEF Enqueue, TypeInv
  <2>2. /\ Len(queue) \in Nat
        /\ DOMAIN queue = 1..Len(queue) /\ DOMAIN q = 1..(Len(queue) + 1)
        /\ \A i \in 1..Len(queue) : q[i] = queue[i]
        /\ q[Len(queue) + 1] = c
        /\ Range(q) = Range(queue) \cup {c}
    BY <2>1, AppendFacts
  <2> HIDE DEF q
  <2>3. answer[c] = "none" /\ c \notin Range(served) /\ c \notin Range(queue)
    BY <2>1 DEF ChannelInv
  <2>4. \A i \in DOMAIN queue : queue[i] # c
    BY <2>3 DEF Range
  <2>5. \A i, j \in DOMAIN q : q[i] = q[j] => i = j
    BY <2>2, <2>4 DEF ChannelInv
  <2>6. \A d \in Calls : d # c => client'[d] = client[d]
    BY <2>1 DEF TypeInv
  <2>7. client'[c] = "waiting"
    BY <2>1 DEF TypeInv
  <2> QED
    BY <2>1, <2>2, <2>3, <2>5, <2>6, <2>7
       DEF ChannelInv, CurrentInv, Unanswered
<1>9. ASSUME NEW c \in Calls, SendGone(c) \/ Resume(c) \/ Abandon(c)
      PROVE  ChannelInv' /\ CurrentInv'
  <2>1. /\ UNCHANGED <<queue, served, cur, step>> /\ client'[c] = "done"
        /\ \A d \in Calls : d # c => /\ client'[d] = client[d]
                                    /\ answer'[d] = answer[d]
        /\ \/ client[c] = "sending"
           \/ answer'[c] = answer[c]
           \/ answer'[c] = "abandoned"
    BY <1>9 DEF SendGone, Resume, Abandon, Told, TypeInv
  <2>2. cur # NoCall => cur \in Range(served) /\ cur \in Calls
    BY ServedLast
  <2>3. client[c] = "sending" => c \notin Range(queue) /\ c \notin Range(served)
    BY DEF ChannelInv
  <2> QED
    BY <2>1, <2>2, <2>3 DEF ChannelInv, CurrentInv, Unanswered
<1>10. ASSUME NEW c \in Calls, DropHandle(c) PROVE ChannelInv' /\ CurrentInv'
  BY <1>0, <1>10 DEF DropHandle
<1>11. ASSUME NEW r \in OtherRequests, OtherApply(r)
       PROVE  ChannelInv' /\ CurrentInv'
  BY <1>0, <1>11 DEF OtherApply
<1>12. CASE OtherRecord \/ TakeTap \/ CloseTap \/ Cancel \/ UNCHANGED vars
  BY <1>0, <1>12 DEF OtherRecord, TakeTap, CloseTap, Cancel, vars
<1> QED
  BY <1>1, <1>2, <1>3, <1>4, <1>5, <1>6, <1>7, <1>8, <1>9, <1>10, <1>11, <1>12
     DEF Next, Serve, Work

-----------------------------------------------------------------------------
(***************************************************************************)
(* The end of the service is visible: the flag is stored before the caller *)
(* is answered and before the receiver is dropped.                         *)
(***************************************************************************)
EndInv == EndIsVisible /\ (step \in Ending => panicked)

(* Every step keeps the end of the service visible. *)
LEMMA EndStep ==
    ASSUME TypeInv, ChannelInv, CurrentInv, EndInv, [Next]_vars
    PROVE  EndInv'
<1> USE DEF topology, task, channel, callers, taps, signals
<1>0. ASSUME UNCHANGED <<answer, served, closed, handles>>,
             panicked => panicked', cancelled => cancelled',
             step' \in Ending => panicked'
      PROVE  EndInv'
  BY <1>0 DEF EndInv, EndIsVisible
<1>1. CASE Work
  BY <1>0, <1>1, WorkStays DEF Working, Ending
<1>2. CASE Receive
  <2>1. /\ queue \in Seq(Calls) /\ queue # <<>> /\ served \in Seq(Calls)
        /\ UNCHANGED <<answer, closed, handles, panicked, cancelled>>
        /\ served' = Append(served, Head(queue)) /\ step' \notin Ending
    BY <1>2 DEF Receive, FirstStep, Ending, TypeInv
  <2>2. Head(queue) \in Calls /\ answer[Head(queue)] \in Unanswered
    BY <2>1, TailFacts DEF ChannelInv
  <2>3. Range(served') = Range(served) \cup {Head(queue)}
    BY <2>1, <2>2, AppendFacts
  <2> QED
    BY <2>1, <2>2, <2>3 DEF EndInv, EndIsVisible, Unanswered
<1>3. CASE HandlesGone \/ refuse_queued \/ RefusedAll
  BY <1>3 DEF HandlesGone, refuse_queued, RefusedAll, EndInv, EndIsVisible,
              Ending
<1>4. CASE RefuseOne
  <2>1. Head(queue) \in Calls /\ Head(queue) \in Range(queue)
    BY <1>4, TailFacts DEF RefuseOne, TypeInv
  <2>2. Head(queue) \notin Range(served)
    BY <2>1 DEF ChannelInv
  <2>3. \A c \in Calls : \/ answer'[c] = answer[c]
                         \/ c = Head(queue) /\ answer'[c] = "cancelled"
    BY <1>4, <2>1 DEF RefuseOne, Told, TypeInv
  <2>4. UNCHANGED <<served, closed, handles, panicked, cancelled, step>>
    BY <1>4 DEF RefuseOne
  <2> QED
    BY <2>2, <2>3, <2>4 DEF EndInv, EndIsVisible
<1>5. CASE Reply
  <2>1. /\ \A c \in Calls : answer'[c] = answer[c] \/ answer'[c] \in Results
        /\ UNCHANGED <<served, closed, handles, panicked, cancelled>>
        /\ step' \notin Ending
    BY <1>5 DEF Reply, Told, TypeInv, Ending
  <2> QED
    BY <2>1 DEF EndInv, EndIsVisible, Results
<1>6. CASE PanicReply
  <2>1. /\ \A c \in Calls : answer'[c] = answer[c] \/ answer'[c] = "panicked"
        /\ UNCHANGED <<served, closed, handles, panicked, cancelled>>
        /\ panicked
    BY <1>6 DEF PanicReply, Told, TypeInv, EndInv, Ending
  <2> QED
    BY <2>1 DEF EndInv, EndIsVisible
<1>7. CASE End
  <2>1. \A c \in Calls : \/ answer'[c] = answer[c]
                         \/ c \in Range(queue) /\ answer'[c] = "reply_dropped"
    BY <1>7 DEF End
  <2>3. /\ UNCHANGED <<served, handles, panicked, cancelled>>
        /\ panicked /\ closed' = TRUE /\ step' \notin Ending
    BY <1>7 DEF End, EndInv, Ending
  <2>2. \A c \in Calls : c \in Range(queue) => c \notin Range(served)
    BY DEF ChannelInv
  <2> QED
    BY <2>1, <2>2, <2>3 DEF EndInv, EndIsVisible
<1>8. ASSUME NEW c \in Calls, SendGone(c) PROVE EndInv'
  <2>1. \A d \in Calls : \/ answer'[d] = answer[d]
                         \/ d = c /\ answer'[d] = "gone"
    BY <1>8 DEF SendGone, Told, TypeInv
  <2>3. /\ UNCHANGED <<served, closed, handles, panicked, cancelled, step>>
        /\ closed /\ client[c] = "sending"
    BY <1>8 DEF SendGone
  <2>2. c \notin Range(served)
    BY <2>3 DEF ChannelInv
  <2> QED
    BY <2>1, <2>2, <2>3 DEF EndInv, EndIsVisible
<1>9. ASSUME NEW c \in Calls, Abandon(c) PROVE EndInv'
  <2>1. /\ \A d \in Calls : answer'[d] = answer[d] \/ answer'[d] = "abandoned"
        /\ UNCHANGED <<served, closed, handles, panicked, cancelled, step>>
    BY <1>9 DEF Abandon, TypeInv
  <2> QED
    BY <2>1 DEF EndInv, EndIsVisible
<1>10. ASSUME NEW c \in Calls, DropHandle(c) PROVE EndInv'
  BY <1>10 DEF DropHandle, EndInv, EndIsVisible
<1>11. ASSUME NEW c \in Calls, request(c) \/ Enqueue(c) \/ Resume(c)
       PROVE  EndInv'
  BY <1>0, <1>11 DEF request, Enqueue, Resume, EndInv
<1>12. ASSUME NEW r \in OtherRequests, OtherApply(r) PROVE EndInv'
  BY <1>0, <1>12 DEF OtherApply, EndInv
<1>13. CASE OtherRecord \/ TakeTap \/ CloseTap \/ Cancel \/ UNCHANGED vars
  BY <1>0, <1>13 DEF OtherRecord, TakeTap, CloseTap, Cancel, vars, EndInv
<1> QED
  BY <1>1, <1>2, <1>3, <1>4, <1>5, <1>6, <1>7, <1>8, <1>9, <1>10, <1>11, <1>12,
     <1>13 DEF Next, Serve, Work

(***************************************************************************)
(* In every execution of the coalition service, with any number of         *)
(* callers, any channel capacity and any other holders of the graph: a     *)
(* caller told Panicked, or whose reply was dropped, reads panicked() as   *)
(* true; a send fails only on a closed channel; a command refused after a  *)
(* cancel, dropped with the receiver or refused by the channel was never   *)
(* started; and a closed channel without the flag means a cancelled token  *)
(* or no handle left.                                                      *)
(***************************************************************************)
THEOREM EndAlwaysVisible == Spec => []EndIsVisible
<1> DEFINE I == TypeInv /\ ChannelInv /\ CurrentInv /\ EndInv
<1>1. Init => I
  <2> SUFFICES ASSUME Init PROVE ChannelInv /\ CurrentInv /\ EndInv
    BY TypeInit
  <2>1. Range(served) = {} /\ Range(queue) = {} /\ DOMAIN served = {}
        /\ DOMAIN queue = {}
    BY DEF Init, Range
  <2>2. /\ \A c \in Calls : answer[c] = "none"
        /\ cur = NoCall /\ closed = FALSE /\ step = "select"
    BY DEF Init
  <2> QED
    BY <2>1, <2>2 DEF ChannelInv, CurrentInv, EndInv, EndIsVisible, Ending,
                      Unanswered
<1>2. I /\ [Next]_vars => I'
  BY TypeStep, ChannelStep, EndStep
<1>3. I => EndIsVisible
  BY DEF EndInv
<1> QED
  BY <1>1, <1>2, <1>3, PTL DEF Spec

-----------------------------------------------------------------------------
(***************************************************************************)
(* The answer and the log.  A command's event is appended once, by the     *)
(* service, between the policy's decision to act and the reply.            *)
(***************************************************************************)
LogInv ==
    /\ \A c \in Calls : \A i, j \in EventsOf(c) : i = j
    /\ \A c \in Calls : EventsOf(c) # {} => c \in Range(served)
    /\ \A c \in Calls : answer[c] = "acted" => EventsOf(c) # {}
    /\ \A c \in Calls : answer[c] \notin {"none", "acted", "abandoned"} =>
                           EventsOf(c) = {}
    /\ cur # NoCall => (EventsOf(cur) # {} <=> /\ step \in {"emit", "reply"}
                                               /\ work.result = "acted")
    /\ step \in {"apply", "record"} => work.result = "acted"
    /\ step = "emit" => work.result \in Decided

(* One entry more in the log is one event more of the command that made    *)
(* it, and none of any other.                                              *)
LEMMA OneMoreEvent ==
    ASSUME TypeInv, NEW e \in Entries, log' = Append(log, e)
    PROVE  /\ Len(log) \in Nat /\ Len(log') = Len(log) + 1
           /\ \A i \in 1..Len(log) : log'[i] = log[i]
           /\ log'[Len(log) + 1] = e
           /\ \A c \in Calls : c # e.by => EventsOf(c)' = EventsOf(c)
           /\ \A c \in Calls : c = e.by =>
                 EventsOf(c)' = EventsOf(c) \cup {Len(log) + 1}
<1> DEFINE l == Append(log, e)
<1>1. /\ Len(log) \in Nat /\ Len(l) = Len(log) + 1
      /\ DOMAIN log = 1..Len(log) /\ DOMAIN l = 1..(Len(log) + 1)
      /\ \A i \in 1..Len(log) : l[i] = log[i]
      /\ l[Len(log) + 1] = e
  BY AppendFacts DEF TypeInv
<1>2. log' = l
  OBVIOUS
<1> HIDE DEF l
<1>3. ASSUME NEW c \in Calls
      PROVE  /\ c # e.by => EventsOf(c)' = EventsOf(c)
             /\ c = e.by => EventsOf(c)' = EventsOf(c) \cup {Len(log) + 1}
  BY <1>1, <1>2 DEF EventsOf
<1> QED
  BY <1>1, <1>2, <1>3

(* What a step of a command's work other than Record does to the result. *)
LEMMA WorkResult ==
    ASSUME TypeInv, LogInv, Work, ~Record
    PROVE  /\ log' = log /\ clock' = clock
           /\ step # "record"
           /\ step' \in {"apply", "record"} => work'.result = "acted"
           /\ step' = "emit" => work'.result = "declined" /\ step # "emit"
           /\ step' = "reply" => \/ work'.result \notin Decided /\ step # "emit"
                                 \/ step = "emit" /\ work' = work
<1> USE DEF Idle, Goto, Fails, topology, task, channel, callers, taps, signals,
            TypeInv, Results, Decided
<1>1. CASE decision_position
  BY <1>1 DEF decision_position
<1>2. CASE get_agent \/ agent_weights \/ WeightsRead
  BY <1>2 DEF get_agent, agent_weights, WeightsRead
<1>3. CASE coalition_members
  BY <1>3 DEF coalition_members
<1>4. CASE Consult
  BY <1>4 DEF Consult
<1>5. CASE Apply
  BY <1>5 DEF Apply, LogInv
<1>6. CASE Emit \/ ReadMembers \/ SetPanicked
  BY <1>6 DEF Emit, ReadMembers, SetPanicked
<1> QED
  BY <1>1, <1>2, <1>3, <1>4, <1>5, <1>6 DEF Work, Manager

(* Every step keeps the answers in step with the log. *)
LEMMA LogStep ==
    ASSUME TypeInv, ChannelInv, CurrentInv, LogInv, [Next]_vars
    PROVE  LogInv'
<1> USE DEF topology, task, channel, callers, taps, signals
<1>0. ASSUME log' = log PROVE \A c \in Calls : EventsOf(c)' = EventsOf(c)
  BY <1>0 DEF EventsOf
<1>q. ASSUME UNCHANGED <<log, answer, served, cur, step, work>> PROVE LogInv'
  BY <1>q, <1>0 DEF LogInv, EventsOf
<1>t. ASSUME NEW c \in Calls, c \notin Range(served),
             UNCHANGED <<log, served, cur, step, work>>,
             \A d \in Calls : d # c => answer'[d] = answer[d],
             answer'[c] # "acted"
      PROVE  LogInv'
  <2>1. EventsOf(c) = {} /\ \A d \in Calls : EventsOf(d)' = EventsOf(d)
    BY <1>t, <1>0 DEF LogInv
  <2>2. cur # NoCall => cur \in Calls
    BY DEF TypeInv
  <2>3. cur # NoCall => EventsOf(cur)' = EventsOf(cur)
    BY <1>t DEF EventsOf
  <2> QED
    BY <1>t, <2>1, <2>2, <2>3 DEF LogInv
<1>1. CASE Work /\ ~Record
  <2>1. /\ UNCHANGED <<log, answer, served, cur>> /\ cur \in Calls
        /\ step \in Working
    BY <1>1, WorkStays, WorkResult
  <2>2. \A c \in Calls : EventsOf(c)' = EventsOf(c)
    BY <2>1, <1>0
  <2>3. EventsOf(cur)' = EventsOf(cur)
    BY <2>1 DEF EventsOf
  <2>4. EventsOf(cur) # {} <=> /\ step \in {"emit", "reply"}
                               /\ work.result = "acted"
    BY <2>1, NoCallIsNoCall DEF LogInv
  <2>5. EventsOf(cur) # {} <=> /\ step' \in {"emit", "reply"}
                               /\ work'.result = "acted"
    <3>1. CASE step = "emit"
      <4>1. Emit
        BY <1>1, <3>1 DEF Work, Manager, decision_position, get_agent,
              coalition_members, agent_weights, WeightsRead, Consult, Apply,
              ReadMembers, SetPanicked
      <4> QED
        BY <4>1, <3>1, <2>4 DEF Emit, Goto
    <3>2. CASE step # "emit"
      <4>1. step # "reply"
        BY <1>1, WorkStays
      <4> QED
        BY <1>1, <2>4, <3>2, <4>1, WorkResult DEF Decided
    <3> QED
      BY <3>1, <3>2
  <2>6. /\ step' \in {"apply", "record"} => work'.result = "acted"
        /\ step' = "emit" => work'.result \in Decided
    BY <1>1, WorkResult DEF Decided
  <2> QED
    BY <2>1, <2>2, <2>3, <2>5, <2>6 DEF LogInv
<1>2. CASE Record
  <2> DEFINE e == [by |-> cur, ts |-> clock]
  <2>1. /\ log' = Append(log, e) /\ UNCHANGED <<answer, served, cur, work>>
        /\ step = "record" /\ step' = "emit"
        /\ cur \in Calls /\ e \in Entries
    BY <1>2 DEF Record, Goto, TypeInv, Entries, Idling
  <2>2. /\ \A c \in Calls : c # cur => EventsOf(c)' = EventsOf(c)
        /\ EventsOf(cur)' = EventsOf(cur) \cup {Len(log) + 1}
    <3>1. e.by = cur
      OBVIOUS
    <3>2. /\ \A c \in Calls : c # e.by => EventsOf(c)' = EventsOf(c)
          /\ \A c \in Calls : c = e.by =>
                EventsOf(c)' = EventsOf(c) \cup {Len(log) + 1}
      BY <2>1, OneMoreEvent
    <3>3. \A c \in Calls : c = cur => EventsOf(cur)' = EventsOf(c)'
      BY <2>1 DEF EventsOf
    <3> QED
      BY <2>1, <3>1, <3>2, <3>3
  <2>3. EventsOf(cur) = {} /\ work.result = "acted"
    BY <2>1, NoCallIsNoCall DEF LogInv
  <2>4. \A c \in Calls : c = cur => EventsOf(c)' = {Len(log) + 1}
    <3>1. \A c \in Calls : c = cur => EventsOf(c)' = EventsOf(cur)'
      BY <2>1 DEF EventsOf
    <3> QED
      BY <3>1, <2>2, <2>3
  <2>5. answer[cur] \in Unanswered /\ cur \in Range(served)
    BY <2>1, ServedLast, NoCallIsNoCall DEF CurrentInv
  <2> QED
    BY <2>1, <2>2, <2>3, <2>4, <2>5 DEF LogInv, Unanswered, Decided
<1>3. CASE Receive
  <2>1. /\ queue \in Seq(Calls) /\ queue # <<>> /\ served \in Seq(Calls)
        /\ UNCHANGED <<log, answer>> /\ cur' = Head(queue)
        /\ served' = Append(served, Head(queue))
        /\ step' \in {"read", "position"}
    BY <1>3 DEF Receive, FirstStep, TypeInv
  <2>2. Head(queue) \in Calls /\ Head(queue) \notin Range(served)
    BY <2>1, TailFacts DEF ChannelInv
  <2>3. Range(served') = Range(served) \cup {Head(queue)}
    BY <2>1, <2>2, AppendFacts
  <2>4. \A c \in Calls : EventsOf(c)' = EventsOf(c)
    BY <2>1, <1>0
  <2>5. EventsOf(cur)' = {}
    <3>1. EventsOf(Head(queue)) = {}
      BY <2>2 DEF LogInv
    <3> QED
      BY <2>1, <3>1 DEF EventsOf
  <2> QED
    BY <2>1, <2>3, <2>4, <2>5 DEF LogInv
<1>4. CASE HandlesGone \/ refuse_queued \/ RefusedAll
  <2>1. /\ UNCHANGED <<log, answer, served, cur>> /\ cur = NoCall
        /\ step' \in Idling
    BY <1>4 DEF HandlesGone, refuse_queued, RefusedAll, TypeInv, Idling
  <2> QED
    BY <2>1, <1>0 DEF LogInv, Idling
<1>5. CASE RefuseOne
  <2>1. Head(queue) \in Calls /\ Head(queue) \in Range(queue)
    BY <1>5, TailFacts DEF RefuseOne, TypeInv
  <2>2. Head(queue) \notin Range(served) /\ answer[Head(queue)] \in Unanswered
    BY <2>1 DEF ChannelInv
  <2>3. /\ \A d \in Calls : d # Head(queue) => answer'[d] = answer[d]
        /\ answer'[Head(queue)] # "acted"
    BY <1>5, <2>1, <2>2 DEF RefuseOne, Told, TypeInv, Unanswered
  <2>4. UNCHANGED <<log, served, cur, step, work>>
    BY <1>5 DEF RefuseOne
  <2> QED
    BY <1>t, <2>1, <2>2, <2>3, <2>4
<1>6. CASE Reply
  <2>1. /\ UNCHANGED <<log, served>> /\ cur \in Calls /\ cur' = NoCall
        /\ step = "reply" /\ step' = "select"
    BY <1>6 DEF Reply, TypeInv, Idling
  <2>2. /\ \A d \in Calls : d # cur => answer'[d] = answer[d]
        /\ answer'[cur] = IF answer[cur] = "none" THEN work.result ELSE answer[cur]
    BY <1>6, <2>1 DEF Reply, Told, TypeInv
  <2>3. answer[cur] \in Unanswered /\ (EventsOf(cur) # {} <=> work.result = "acted")
    BY <2>1, NoCallIsNoCall DEF CurrentInv, LogInv
  <2>4. \A c \in Calls : EventsOf(c)' = EventsOf(c)
    BY <2>1, <1>0
  <2> QED
    BY <2>1, <2>2, <2>3, <2>4 DEF LogInv, Unanswered
<1>7. CASE PanicReply
  <2>1. /\ UNCHANGED <<log, served, cur, work>> /\ cur \in Calls
        /\ step = "panic_reply" /\ step' = "ending"
    BY <1>7 DEF PanicReply, Goto, TypeInv, Idling
  <2>2. /\ \A d \in Calls : d # cur => answer'[d] = answer[d]
        /\ answer'[cur] \in {"panicked", "abandoned"}
    BY <1>7, <2>1, NoCallIsNoCall
       DEF PanicReply, Told, TypeInv, CurrentInv, Unanswered
  <2>3. EventsOf(cur) = {}
    BY <2>1, NoCallIsNoCall DEF LogInv
  <2>4. \A c \in Calls : EventsOf(c)' = EventsOf(c)
    BY <2>1, <1>0
  <2>5. EventsOf(cur)' = EventsOf(cur)
    BY <2>1 DEF EventsOf
  <2> QED
    BY <2>1, <2>2, <2>3, <2>4, <2>5 DEF LogInv
<1>8. CASE End
  <2>1. /\ UNCHANGED <<log, served>> /\ cur' = NoCall /\ step' = "stopped"
    BY <1>8 DEF End
  <2>2. \A c \in Calls : \/ answer'[c] = answer[c]
                         \/ c \in Range(queue) /\ answer'[c] = "reply_dropped"
    BY <1>8 DEF End
  <2>3. \A c \in Calls : c \in Range(queue) => EventsOf(c) = {}
    BY DEF ChannelInv, LogInv
  <2>4. \A c \in Calls : EventsOf(c)' = EventsOf(c)
    BY <2>1, <1>0
  <2> QED
    BY <2>1, <2>2, <2>3, <2>4 DEF LogInv
<1>9. ASSUME NEW c \in Calls, SendGone(c) PROVE LogInv'
  <2>1. client[c] = "sending" /\ UNCHANGED <<log, served, cur, step, work>>
    BY <1>9 DEF SendGone
  <2>2. c \notin Range(served) /\ answer[c] = "none"
    BY <2>1 DEF ChannelInv
  <2>3. /\ \A d \in Calls : d # c => answer'[d] = answer[d]
        /\ answer'[c] # "acted"
    BY <1>9, <2>2 DEF SendGone, Told, TypeInv
  <2> QED
    BY <1>t, <2>1, <2>2, <2>3
<1>10. ASSUME NEW c \in Calls, Abandon(c) PROVE LogInv'
  <2>1. UNCHANGED <<log, served, cur, step, work>>
    BY <1>10 DEF Abandon
  <2>2. /\ \A d \in Calls : d # c => answer'[d] = answer[d]
        /\ answer'[c] = "abandoned"
    BY <1>10 DEF Abandon, TypeInv
  <2>3. /\ \A d \in Calls : EventsOf(d)' = EventsOf(d)
        /\ EventsOf(cur)' = EventsOf(cur)
    BY <1>0, <2>1 DEF EventsOf
  <2> QED
    BY <2>1, <2>2, <2>3 DEF LogInv
<1>11. ASSUME NEW c \in Calls,
              request(c) \/ Enqueue(c) \/ Resume(c) \/ DropHandle(c)
       PROVE  LogInv'
  BY <1>q, <1>11 DEF request, Enqueue, Resume, DropHandle
<1>12. ASSUME NEW r \in OtherRequests, OtherApply(r) PROVE LogInv'
  BY <1>q, <1>12 DEF OtherApply
<1>13. CASE OtherRecord
  <2> DEFINE e == [by |-> NoCall, ts |-> 0]
  <2>1. /\ log' = Append(log, e) /\ e \in Entries /\ e.by = NoCall
        /\ UNCHANGED <<answer, served, cur, step, work>>
    BY <1>13 DEF OtherRecord, Entries
  <2>2. \A c \in Calls : EventsOf(c)' = EventsOf(c)
    BY <2>1, OneMoreEvent, NoCallIsNoCall
  <2>3. cur \in Calls => EventsOf(cur)' = EventsOf(cur)
    <3>1. \A c \in Calls : c = cur => EventsOf(cur)' = EventsOf(c)'
      BY <2>1 DEF EventsOf
    <3> QED
      BY <2>2, <3>1
  <2>4. cur # NoCall => cur \in Calls
    BY DEF TypeInv
  <2> HIDE DEF e
  <2> QED
    BY <2>1, <2>2, <2>3, <2>4 DEF LogInv
<1>14. CASE TakeTap \/ CloseTap \/ Cancel \/ UNCHANGED vars
  BY <1>q, <1>14 DEF TakeTap, CloseTap, Cancel, vars
<1> QED
  BY <1>1, <1>2, <1>3, <1>4, <1>5, <1>6, <1>7, <1>8, <1>9, <1>10, <1>11, <1>12,
     <1>13, <1>14 DEF Next, Serve, Work

-----------------------------------------------------------------------------
(***************************************************************************)
(* The trace and the log.  The position a command reads before it asks the *)
(* manager stays right while other holders append, and the command's own   *)
(* event is the first after it that is not theirs.                         *)
(***************************************************************************)
Traces == taken \o tap

(* TracesMatchDecisions' PointsBefore, by name. *)
Points(t) ==
    /\ t.len <= Len(log)
    /\ t.act => \E i \in EventsOf(t.call) :
                  /\ i > t.len /\ log[i].ts = t.ts
                  /\ \A j \in (t.len + 1)..(i - 1) : log[j].by = NoCall

Placed == {"agent", "members", "weights", "consult", "apply", "record"}

PositionInv ==
    /\ step \in Placed =>
          /\ work.len <= Len(log) /\ work.ts = clock
          /\ \A j \in (work.len + 1)..Len(log) : log[j].by = NoCall
    /\ step = "emit" => Points(Trace)

Told1(t) == Unanswered \cup (IF t.act THEN {"acted"} ELSE {"declined"})

TraceOK(t) ==
    /\ t.call \in Range(served)
    /\ t.call = cur => /\ step = "reply" /\ work.result \in Decided
                       /\ t.act <=> work.result = "acted"
    /\ Points(t)
    /\ answer[t.call] \in Told1(t)

OrderInv ==
    \A i, j \in DOMAIN Traces : i < j =>
       \A a, b \in DOMAIN served :
          served[a] = Traces[i].call /\ served[b] = Traces[j].call => a < b

TraceInv == OrderInv /\ \A t \in Range(Traces) : TraceOK(t)

(* What a trace says of the log stays true as the log grows. *)
LEMMA PointsStay ==
    ASSUME TypeInv, NEW t \in Records, Points(t),
           log' = log \/ \E e \in Entries : log' = Append(log, e)
    PROVE  Points(t)'
<1>1. CASE log' = log
  BY <1>1 DEF Points, EventsOf
<1>2. ASSUME NEW e \in Entries, log' = Append(log, e) PROVE Points(t)'
  <2>1. /\ Len(log) \in Nat /\ Len(log') = Len(log) + 1
        /\ \A i \in 1..Len(log) : log'[i] = log[i]
        /\ \A c \in Calls : EventsOf(c) \subseteq EventsOf(c)'
    BY <1>2, OneMoreEvent
  <2>2. t.len \in Nat /\ t.call \in Calls
    BY DEF Records
  <2>3. \A c \in Calls : EventsOf(c) \subseteq 1..Len(log)
    BY DEF EventsOf, TypeInv
  <2>4. t.len <= Len(log')
    BY <2>1, <2>2 DEF Points
  <2>5. ASSUME t.act
        PROVE  \E i \in EventsOf(t.call)' :
                  /\ i > t.len /\ log'[i].ts = t.ts
                  /\ \A j \in (t.len + 1)..(i - 1) : log'[j].by = NoCall
    <3>1. PICK i \in EventsOf(t.call) :
             /\ i > t.len /\ log[i].ts = t.ts
             /\ \A j \in (t.len + 1)..(i - 1) : log[j].by = NoCall
      BY <2>5 DEF Points
    <3>2. i \in 1..Len(log) /\ i \in EventsOf(t.call)'
      BY <2>1, <2>2, <2>3, <3>1
    <3>3. ASSUME NEW j \in (t.len + 1)..(i - 1) PROVE log'[j].by = NoCall
      BY <2>1, <2>2, <3>1, <3>2, <3>3
    <3> QED
      BY <2>1, <3>1, <3>2, <3>3
  <2> QED
    BY <2>4, <2>5 DEF Points
<1> QED
  BY <1>1, <1>2

(* The log grows by one entry or not at all. *)
LEMMA LogGrows ==
    ASSUME TypeInv, [Next]_vars
    PROVE  \/ log' = log
           \/ OtherRecord /\ \E e \in Entries : log' = Append(log, e)
           \/ Record /\ \E e \in Entries : log' = Append(log, e)
<1> USE DEF topology, task, channel, callers, taps, signals
<1>1. CASE OtherRecord
  <2>1. [by |-> NoCall, ts |-> 0] \in Entries
    BY DEF Entries
  <2> QED
    BY <1>1, <2>1 DEF OtherRecord
<1>2. CASE Record
  <2>1. [by |-> cur, ts |-> clock] \in Entries
    BY DEF Entries, TypeInv
  <2> QED
    BY <1>2, <2>1 DEF Record
<1>3. CASE decision_position \/ get_agent \/ coalition_members \/ agent_weights
           \/ WeightsRead \/ Consult \/ Apply \/ Emit \/ ReadMembers
  BY <1>3 DEF decision_position, get_agent, coalition_members, agent_weights,
              WeightsRead, Consult, Apply, Emit, ReadMembers, Idle
<1>4. CASE Receive \/ HandlesGone \/ refuse_queued \/ RefuseOne \/ RefusedAll
           \/ Reply \/ SetPanicked \/ PanicReply \/ End
  BY <1>4 DEF Receive, HandlesGone, refuse_queued, RefuseOne, RefusedAll, Reply,
              SetPanicked, PanicReply, End
<1>5. ASSUME NEW c \in Calls,
             request(c) \/ Enqueue(c) \/ SendGone(c) \/ Resume(c)
             \/ Abandon(c) \/ DropHandle(c)
      PROVE  log' = log
  BY <1>5 DEF request, Enqueue, SendGone, Resume, Abandon, DropHandle
<1>6. ASSUME NEW r \in OtherRequests, OtherApply(r) PROVE log' = log
  BY <1>6 DEF OtherApply
<1>7. CASE TakeTap \/ CloseTap \/ Cancel \/ UNCHANGED vars
  BY <1>7 DEF TakeTap, CloseTap, Cancel, vars
<1> QED
  BY <1>1, <1>2, <1>3, <1>4, <1>5, <1>6, <1>7 DEF Next, Serve, Manager

(* A step that leaves the command's locals alone keeps its position. *)
LEMMA PositionStays ==
    ASSUME TypeInv, PositionInv, UNCHANGED <<step, cur, work, clock>>,
           \/ log' = log
           \/ \E e \in Entries : e.by = NoCall /\ log' = Append(log, e),
           step = "emit" => cur \in Calls
    PROVE  PositionInv'
<1>1. ASSUME step \in Placed
      PROVE  /\ work.len <= Len(log')
             /\ \A j \in (work.len + 1)..Len(log') : log'[j].by = NoCall
  <2>1. CASE log' = log
    BY <1>1, <2>1 DEF PositionInv
  <2>2. ASSUME NEW e \in Entries, e.by = NoCall, log' = Append(log, e)
        PROVE  /\ work.len <= Len(log')
               /\ \A j \in (work.len + 1)..Len(log') : log'[j].by = NoCall
    <3>1. /\ Len(log) \in Nat /\ Len(log') = Len(log) + 1
          /\ \A i \in 1..Len(log) : log'[i] = log[i]
          /\ log'[Len(log) + 1] = e
      BY <2>2, OneMoreEvent
    <3>2. /\ work.len \in Nat /\ work.len <= Len(log)
          /\ \A j \in (work.len + 1)..Len(log) : log[j].by = NoCall
      BY <1>1 DEF PositionInv, TypeInv
    <3>3. ASSUME NEW j \in (work.len + 1)..(Len(log) + 1)
          PROVE  log'[j].by = NoCall
      BY <2>2, <3>1, <3>2, <3>3
    <3> QED
      BY <3>1, <3>2, <3>3
  <2> QED
    BY <2>1, <2>2
<1>2. ASSUME step = "emit" PROVE Points(Trace)'
  <2>1. PICK t : t = Trace
    OBVIOUS
  <2>2. t \in Records
    BY <1>2, <2>1 DEF Trace, Records, TypeInv
  <2>3. Points(t)
    BY <1>2, <2>1 DEF PositionInv
  <2>4. Points(t)'
    BY <2>2, <2>3, PointsStay
  <2>5. Trace' = t
    BY <2>1 DEF Trace
  <2> QED
    BY <2>4, <2>5 DEF Points, EventsOf
<1> QED
  BY <1>1, <1>2 DEF PositionInv

(* Every step keeps the position taken as the end of what commands logged. *)
LEMMA PositionStep ==
    ASSUME TypeInv, CurrentInv, LogInv, PositionInv, [Next]_vars
    PROVE  PositionInv'
<1> USE DEF topology, task, channel, callers, taps, signals
<1>0. step = "emit" => cur \in Calls
  BY DEF TypeInv, Idling
<1>e. ASSUME step' \notin Placed \cup {"emit"} PROVE PositionInv'
  BY <1>e DEF PositionInv
<1>1. CASE decision_position
  <2>1. /\ step' \in {"agent", "members"} /\ UNCHANGED <<log, clock>>
        /\ work'.len = Len(log) /\ work'.ts = clock
    BY <1>1 DEF decision_position, Idle, TypeInv
  <2>2. Len(log) \in Nat
    BY DEF TypeInv
  <2> QED
    BY <2>1, <2>2 DEF PositionInv
<1>2. CASE get_agent \/ coalition_members \/ agent_weights \/ WeightsRead
           \/ Consult \/ Apply
  <2>1. /\ step \in Placed /\ UNCHANGED <<log, clock, cur>>
        /\ work'.len = work.len /\ work'.ts = work.ts
    <3>1. CASE get_agent \/ agent_weights \/ WeightsRead
      BY <3>1 DEF get_agent, agent_weights, WeightsRead, Idle, Goto, Fails,
                  Placed, TypeInv
    <3>2. CASE coalition_members
      BY <3>2 DEF coalition_members, Idle, Fails, Placed, TypeInv
    <3>3. CASE Consult \/ Apply
      BY <3>3 DEF Consult, Apply, Idle, Goto, Fails, Placed, TypeInv
    <3> QED
      BY <1>2, <3>1, <3>2, <3>3
  <2>2. /\ work.len <= Len(log) /\ work.ts = clock
        /\ \A j \in (work.len + 1)..Len(log) : log[j].by = NoCall
    BY <2>1 DEF PositionInv
  <2>3. ~Record /\ Work
    BY <1>2, <2>1 DEF Record, get_agent, coalition_members, agent_weights,
                      WeightsRead, Consult, Apply, Work, Manager
  <2>4. step' = "emit" => work'.result = "declined"
    BY <2>3, WorkResult
  <2>5. step' = "emit" => Points(Trace)'
    <3>1. step' = "emit" => Trace'.act = FALSE /\ Trace'.len = work.len
      BY <2>1, <2>4 DEF Trace
    <3> QED
      BY <2>1, <2>2, <3>1 DEF Points
  <2> QED
    BY <2>1, <2>2, <2>5 DEF PositionInv
<1>3. CASE Record
  <2> DEFINE e == [by |-> cur, ts |-> clock]
             n == Len(log) + 1
  <2>1. /\ log' = Append(log, e) /\ UNCHANGED <<cur, work>>
        /\ step = "record" /\ step' = "emit"
        /\ cur \in Calls /\ e \in Entries /\ e.by = cur /\ e.ts = clock
    BY <1>3 DEF Record, Goto, TypeInv, Entries, Idling
  <2>2. /\ work.len <= Len(log) /\ work.ts = clock /\ work.len \in Nat
        /\ \A j \in (work.len + 1)..Len(log) : log[j].by = NoCall
    BY <2>1 DEF PositionInv, Placed, TypeInv
  <2>3. /\ Len(log) \in Nat /\ Len(log') = n
        /\ \A i \in 1..Len(log) : log'[i] = log[i]
        /\ log'[n] = e
        /\ \A c \in Calls : c = e.by => n \in EventsOf(c)'
    BY <2>1, OneMoreEvent
  <2> HIDE DEF e
  <2>4. /\ Trace' = Trace /\ Trace.call = cur
        /\ Trace.len = work.len /\ Trace.ts = work.ts
    BY <2>1 DEF Trace
  <2>5. n \in EventsOf(Trace.call)'
    <3>1. \A c \in Calls : c = cur => EventsOf(Trace.call)' = EventsOf(c)'
      BY <2>1, <2>4 DEF EventsOf
    <3> QED
      BY <2>1, <2>3, <3>1
  <2>6. /\ n > Trace'.len /\ log'[n].ts = Trace'.ts /\ Trace'.len <= Len(log')
        /\ \A j \in (Trace'.len + 1)..(n - 1) : log'[j].by = NoCall
    BY <2>1, <2>2, <2>3, <2>4
  <2>7. Points(Trace)'
    BY <2>5, <2>6 DEF Points
  <2> QED
    BY <2>1, <2>7 DEF PositionInv, Placed
<1>4. CASE Emit \/ ReadMembers \/ SetPanicked \/ Reply \/ PanicReply \/ End
  BY <1>4, <1>e DEF Emit, ReadMembers, SetPanicked, Reply, PanicReply, End, Goto,
                    Fails, Placed
<1>5. CASE Receive \/ HandlesGone \/ refuse_queued \/ RefusedAll
  BY <1>5, <1>e DEF Receive, FirstStep, HandlesGone, refuse_queued, RefusedAll,
                    Placed
<1>6. CASE RefuseOne
  BY <1>6, <1>0, PositionStays DEF RefuseOne
<1>7. ASSUME NEW c \in Calls,
             request(c) \/ Enqueue(c) \/ SendGone(c) \/ Resume(c)
             \/ Abandon(c) \/ DropHandle(c)
      PROVE  PositionInv'
  BY <1>7, <1>0, PositionStays DEF request, Enqueue, SendGone, Resume, Abandon,
                                   DropHandle
<1>8. ASSUME NEW r \in OtherRequests, OtherApply(r) PROVE PositionInv'
  BY <1>8, <1>0, PositionStays DEF OtherApply
<1>9. CASE OtherRecord
  <2>1. [by |-> NoCall, ts |-> 0] \in Entries /\ [by |-> NoCall, ts |-> 0].by = NoCall
    BY DEF Entries
  <2> QED
    BY <1>9, <2>1, <1>0, PositionStays DEF OtherRecord
<1>10. CASE TakeTap \/ CloseTap \/ Cancel \/ UNCHANGED vars
  BY <1>10, <1>0, PositionStays DEF TakeTap, CloseTap, Cancel, vars
<1> QED
  BY <1>1, <1>2, <1>3, <1>4, <1>5, <1>6, <1>7, <1>8, <1>9, <1>10
     DEF Next, Serve, Manager

-----------------------------------------------------------------------------
(***************************************************************************)
(* The tap.  What was sent on it and not dropped with it is a sequence     *)
(* that only Emit extends, at its end, and only CloseTap cuts.             *)
(***************************************************************************)
LEMMA TracesMove ==
    ASSUME TypeInv, [Next]_vars
    PROVE  \/ /\ DOMAIN Traces' \subseteq DOMAIN Traces
              /\ \A i \in DOMAIN Traces' : Traces'[i] = Traces[i]
           \/ Emit /\ Traces \in Seq(Records) /\ Traces' = Append(Traces, Trace)
<1> USE DEF topology, task, channel, callers, taps, signals
<1>0. Traces \in Seq(Records)
  BY DEF Traces, TypeInv
<1>u. ASSUME UNCHANGED <<tap, taken>> PROVE Traces' = Traces
  BY <1>u DEF Traces
<1>1. CASE TakeTap
  <2>1. taken' = Append(taken, Head(tap)) /\ tap' = Tail(tap) /\ tap # <<>>
        /\ tap \in Seq(Records) /\ taken \in Seq(Records)
    BY <1>1 DEF TakeTap, TypeInv
  <2>2. Append(taken, Head(tap)) \o Tail(tap) = taken \o tap
    BY <2>1
  <2> QED
    BY <2>1, <2>2 DEF Traces
<1>2. CASE CloseTap
  <2>1. taken' = taken /\ tap' = <<>>
        /\ tap \in Seq(Records) /\ taken \in Seq(Records)
    BY <1>2 DEF CloseTap, TypeInv
  <2>2. Traces' = taken
    BY <2>1 DEF Traces
  <2>3. DOMAIN taken \subseteq DOMAIN Traces
        /\ \A i \in DOMAIN taken : Traces[i] = taken[i]
    BY <2>1 DEF Traces
  <2> QED
    BY <2>2, <2>3
<1>3. CASE Emit
  <2>1. cur \in Calls
    BY <1>3, WorkStays DEF Work
  <2>2. Trace \in Records
    BY <2>1 DEF Trace, Records, TypeInv
  <2>3. CASE tap' = tap
    BY <1>3, <2>3, <1>u DEF Emit
  <2>4. CASE tap' = Append(tap, Trace)
    <3>1. taken \o Append(tap, Trace) = Append(taken \o tap, Trace)
      <4>1. PICK t \in Records : t = Trace
        BY <2>2
      <4>2. taken \o Append(tap, t) = Append(taken \o tap, t)
        BY SMTT(30) DEF TypeInv
      <4> QED
        BY <4>1, <4>2
    <3>2. taken' = taken
      BY <1>3 DEF Emit
    <3>3. Traces' = Append(Traces, Trace)
      BY <2>4, <3>1, <3>2 DEF Traces
    <3> QED
      BY <1>3, <3>3, <1>0
  <2> QED
    BY <1>3, <2>3, <2>4 DEF Emit
<1>4. CASE decision_position \/ Manager \/ ReadMembers \/ SetPanicked
  <2>1. CASE decision_position \/ ReadMembers \/ SetPanicked
    BY <2>1, <1>u DEF decision_position, ReadMembers, SetPanicked, Idle
  <2>2. CASE Manager
    BY <2>2, <1>u DEF Manager, get_agent, coalition_members, agent_weights,
                      WeightsRead, Consult, Apply, Record, Idle
  <2> QED
    BY <1>4, <2>1, <2>2
<1>5. CASE Receive \/ HandlesGone \/ refuse_queued \/ RefuseOne \/ RefusedAll
           \/ Reply \/ PanicReply \/ End
  BY <1>5, <1>u DEF Receive, HandlesGone, refuse_queued, RefuseOne, RefusedAll,
                    Reply, PanicReply, End
<1>6. ASSUME NEW c \in Calls,
             request(c) \/ Enqueue(c) \/ SendGone(c) \/ Resume(c)
             \/ Abandon(c) \/ DropHandle(c)
      PROVE  Traces' = Traces
  BY <1>6, <1>u DEF request, Enqueue, SendGone, Resume, Abandon, DropHandle
<1>7. ASSUME NEW r \in OtherRequests, OtherApply(r) PROVE Traces' = Traces
  BY <1>7, <1>u DEF OtherApply
<1>8. CASE OtherRecord \/ Cancel \/ UNCHANGED vars
  BY <1>8, <1>u DEF OtherRecord, Cancel, vars
<1> QED
  BY <1>1, <1>2, <1>3, <1>4, <1>5, <1>6, <1>7, <1>8 DEF Next, Serve

(* A record that is right stays right, whatever happens next. *)
LEMMA TraceStays ==
    ASSUME TypeInv, ChannelInv, CurrentInv, [Next]_vars,
           NEW t \in Records, TraceOK(t)
    PROVE  TraceOK(t)'
<1> USE DEF topology, task, channel, callers, taps, signals
<1>0. Points(t)' /\ t.call \in Calls /\ t.call \in Range(served)
  BY LogGrows, PointsStay DEF TraceOK, Records
<1>a. ASSUME UNCHANGED <<served, cur, step, work, answer>> PROVE TraceOK(t)'
  BY <1>a, <1>0 DEF TraceOK, Told1
<1>1. CASE Work
  <2>1. /\ UNCHANGED <<served, cur, answer>> /\ step # "reply"
    BY <1>1, WorkStays
  <2> QED
    BY <2>1, <1>0 DEF TraceOK, Told1
<1>2. CASE Receive
  <2>1. /\ queue \in Seq(Calls) /\ queue # <<>> /\ served \in Seq(Calls)
        /\ UNCHANGED answer /\ cur' = Head(queue)
        /\ served' = Append(served, Head(queue))
    BY <1>2 DEF Receive, TypeInv
  <2>2. Head(queue) \in Calls /\ Head(queue) \notin Range(served)
    BY <2>1, TailFacts DEF ChannelInv
  <2>3. Range(served') = Range(served) \cup {Head(queue)}
    BY <2>1, <2>2, AppendFacts
  <2> QED
    BY <2>1, <2>2, <2>3, <1>0 DEF TraceOK, Told1
<1>3. CASE HandlesGone \/ refuse_queued \/ RefusedAll
  <2>1. UNCHANGED <<served, cur, answer>> /\ cur = NoCall
    BY <1>3 DEF HandlesGone, refuse_queued, RefusedAll, TypeInv, Idling
  <2> QED
    BY <2>1, <1>0, NoCallIsNoCall DEF TraceOK, Told1
<1>4. CASE RefuseOne
  <2>1. Head(queue) \in Calls /\ Head(queue) \in Range(queue)
    BY <1>4, TailFacts DEF RefuseOne, TypeInv
  <2>2. t.call # Head(queue)
    BY <1>0, <2>1 DEF ChannelInv
  <2>3. answer'[t.call] = answer[t.call]
    BY <1>0, <1>4, <2>1, <2>2 DEF RefuseOne, Told, TypeInv
  <2>4. UNCHANGED <<served, cur, step, work>>
    BY <1>4 DEF RefuseOne
  <2> QED
    BY <2>3, <2>4, <1>0 DEF TraceOK, Told1
<1>5. CASE Reply
  <2>1. /\ UNCHANGED served /\ cur \in Calls /\ cur' = NoCall
    BY <1>5 DEF Reply, TypeInv, Idling
  <2>2. CASE t.call = cur
    <3>1. answer'[cur] = IF answer[cur] = "none" THEN work.result ELSE answer[cur]
      BY <1>5, <2>1 DEF Reply, Told, TypeInv
    <3>2. /\ work.result \in Decided /\ (t.act <=> work.result = "acted")
          /\ answer[cur] \in Told1(t)
      BY <2>2 DEF TraceOK
    <3>3. answer'[cur] \in Told1(t)
      BY <3>1, <3>2 DEF Told1, Decided
    <3> QED
      BY <2>1, <2>2, <3>3, <1>0, NoCallIsNoCall DEF TraceOK, Told1
  <2>3. CASE t.call # cur
    <3>1. answer'[t.call] = answer[t.call]
      BY <1>5, <2>1, <2>3, <1>0 DEF Reply, Told, TypeInv
    <3> QED
      BY <2>1, <3>1, <1>0, NoCallIsNoCall DEF TraceOK, Told1
  <2> QED
    BY <2>2, <2>3
<1>6. CASE PanicReply
  <2>1. /\ UNCHANGED <<served, cur>> /\ t.call # cur /\ cur \in Calls
    BY <1>6 DEF PanicReply, Goto, TypeInv, Idling, TraceOK
  <2>2. answer'[t.call] = answer[t.call]
    BY <1>6, <2>1, <1>0 DEF PanicReply, Told, TypeInv
  <2> QED
    BY <2>1, <2>2, <1>0 DEF TraceOK, Told1
<1>7. CASE End
  <2>1. t.call \notin Range(queue)
    BY <1>0 DEF ChannelInv
  <2>2. answer'[t.call] = answer[t.call] /\ UNCHANGED served /\ cur' = NoCall
    BY <1>7, <2>1, <1>0 DEF End
  <2> QED
    BY <2>2, <1>0, NoCallIsNoCall DEF TraceOK, Told1
<1>8. ASSUME NEW c \in Calls, SendGone(c) \/ Abandon(c) PROVE TraceOK(t)'
  <2>1. UNCHANGED <<served, cur, step, work>>
    BY <1>8 DEF SendGone, Abandon
  <2>2. \/ answer'[t.call] = answer[t.call]
        \/ answer'[t.call] = "abandoned"
        \/ client[t.call] = "sending"
    BY <1>8, <1>0 DEF SendGone, Abandon, Told, TypeInv
  <2>3. client[t.call] # "sending"
    BY <1>0 DEF ChannelInv
  <2> QED
    BY <2>1, <2>2, <2>3, <1>0 DEF TraceOK, Told1, Unanswered
<1>9. ASSUME NEW c \in Calls,
             request(c) \/ Enqueue(c) \/ Resume(c) \/ DropHandle(c)
      PROVE  TraceOK(t)'
  BY <1>9, <1>a DEF request, Enqueue, Resume, DropHandle
<1>10. ASSUME NEW r \in OtherRequests, OtherApply(r) PROVE TraceOK(t)'
  BY <1>10, <1>a DEF OtherApply
<1>11. CASE OtherRecord \/ TakeTap \/ CloseTap \/ Cancel \/ UNCHANGED vars
  BY <1>11, <1>a DEF OtherRecord, TakeTap, CloseTap, Cancel, vars
<1> QED
  BY <1>1, <1>2, <1>3, <1>4, <1>5, <1>6, <1>7, <1>8, <1>9, <1>10, <1>11
     DEF Next, Serve, Work

(* The list of commands taken grows at its end, by commands not in it. *)
LEMMA ServedGrows ==
    ASSUME TypeInv, ChannelInv, [Next]_vars
    PROVE  /\ \A a \in DOMAIN served : a \in DOMAIN served' /\ served'[a] = served[a]
           /\ \A a \in DOMAIN served' : a \in DOMAIN served
                                        \/ served'[a] \notin Range(served)
<1> USE DEF topology, task, channel, callers, taps, signals
<1>1. CASE Receive
  <2>1. /\ queue \in Seq(Calls) /\ queue # <<>> /\ served \in Seq(Calls)
        /\ served' = Append(served, Head(queue))
    BY <1>1 DEF Receive, TypeInv
  <2>2. Head(queue) \in Calls /\ Head(queue) \notin Range(served)
    BY <2>1, TailFacts DEF ChannelInv
  <2> DEFINE s == Append(served, Head(queue))
  <2>3. /\ Len(served) \in Nat
        /\ DOMAIN served = 1..Len(served) /\ DOMAIN s = 1..(Len(served) + 1)
        /\ \A i \in 1..Len(served) : s[i] = served[i]
        /\ s[Len(served) + 1] = Head(queue)
    BY <2>1, <2>2, AppendFacts
  <2>4. served' = s
    BY <2>1
  <2> HIDE DEF s
  <2> QED
    BY <2>2, <2>3, <2>4
<1>2. CASE Work
  BY <1>2, WorkStays
<1>3. CASE HandlesGone \/ refuse_queued \/ RefuseOne \/ RefusedAll
           \/ Reply \/ PanicReply \/ End
  BY <1>3 DEF HandlesGone, refuse_queued, RefuseOne, RefusedAll, Reply,
              PanicReply, End
<1>4. ASSUME NEW c \in Calls,
             request(c) \/ Enqueue(c) \/ SendGone(c) \/ Resume(c)
             \/ Abandon(c) \/ DropHandle(c)
      PROVE  served' = served
  BY <1>4 DEF request, Enqueue, SendGone, Resume, Abandon, DropHandle
<1>5. ASSUME NEW r \in OtherRequests, OtherApply(r) PROVE served' = served
  BY <1>5 DEF OtherApply
<1>6. CASE OtherRecord \/ TakeTap \/ CloseTap \/ Cancel \/ UNCHANGED vars
  BY <1>6 DEF OtherRecord, TakeTap, CloseTap, Cancel, vars
<1> QED
  BY <1>1, <1>2, <1>3, <1>4, <1>5, <1>6 DEF Next, Serve, Work

(* Every step keeps the traces in the order of service, and pointing at events. *)
LEMMA TraceStep ==
    ASSUME TypeInv, ChannelInv, CurrentInv, PositionInv, LogInv, TraceInv,
           [Next]_vars
    PROVE  TraceInv'
<1>0. Traces \in Seq(Records) /\ DOMAIN Traces = 1..Len(Traces)
      /\ Len(Traces) \in Nat /\ \A i \in DOMAIN Traces : Traces[i] \in Records
  <2>1. Traces \in Seq(Records)
    BY DEF Traces, TypeInv
  <2> QED
    BY <2>1
<1>1. \A i \in DOMAIN Traces : TraceOK(Traces[i])
  BY DEF TraceInv, Range
<1>2. ASSUME NEW i \in DOMAIN Traces, NEW j \in DOMAIN Traces, i < j,
             NEW a \in DOMAIN served', NEW b \in DOMAIN served',
             served'[a] = Traces[i].call, served'[b] = Traces[j].call
      PROVE  a < b
  <2>1. Traces[i].call \in Range(served) /\ Traces[j].call \in Range(served)
    BY <1>1 DEF TraceOK
  <2>2. /\ a \in DOMAIN served /\ served[a] = served'[a]
        /\ b \in DOMAIN served /\ served[b] = served'[b]
    BY <1>2, <2>1, ServedGrows
  <2> QED
    BY <1>2, <2>2 DEF TraceInv, OrderInv
<1>3. \A t \in Range(Traces) : TraceOK(t)'
  <2> SUFFICES ASSUME NEW t \in Range(Traces) PROVE TraceOK(t)'
    OBVIOUS
  <2>1. t \in Records /\ TraceOK(t)
    BY <1>0 DEF TraceInv, Range
  <2> QED
    BY <2>1, TraceStays
<1>4. CASE /\ DOMAIN Traces' \subseteq DOMAIN Traces
           /\ \A i \in DOMAIN Traces' : Traces'[i] = Traces[i]
  <2>1. Range(Traces') \subseteq Range(Traces)
    BY <1>4 DEF Range
  <2>2. OrderInv'
    BY <1>2, <1>4 DEF OrderInv
  <2>3. \A t \in Range(Traces') : TraceOK(t)'
    BY <1>3, <2>1
  <2> QED
    BY <2>2, <2>3 DEF TraceInv
<1>5. CASE Emit /\ Traces' = Append(Traces, Trace)
  <2>1. /\ step = "emit" /\ step' = "reply"
        /\ UNCHANGED <<cur, work, log, answer, served>>
        /\ cur \in Calls
    BY <1>5 DEF Emit, Goto, TypeInv, Idling, topology, channel
  <2>2. PICK r : r = Trace
    OBVIOUS
  <2>3. r \in Records /\ r.call = cur /\ (r.act <=> work.result = "acted")
    BY <2>1, <2>2 DEF Trace, Records, TypeInv
  <2>4. /\ Len(served) \in DOMAIN served /\ cur \in Range(served)
        /\ cur = served[Len(served)] /\ answer[cur] \in Unanswered
    BY <2>1, NoCallIsNoCall, ServedLast DEF CurrentInv
  <2>5. TraceOK(r)'
    <3>1. Points(r)
      BY <2>1, <2>2 DEF PositionInv
    <3>2. Points(r)'
      BY <2>1, <2>3, <3>1, PointsStay
    <3>3. work.result \in Decided
      BY <2>1 DEF LogInv
    <3> QED
      BY <2>1, <2>3, <2>4, <3>2, <3>3 DEF TraceOK, Told1
  <2> DEFINE T == Append(Traces, r)
  <2>6. /\ DOMAIN T = 1..(Len(Traces) + 1)
        /\ \A i \in 1..Len(Traces) : T[i] = Traces[i]
        /\ T[Len(Traces) + 1] = r
        /\ Range(T) = Range(Traces) \cup {r}
    BY <1>0, <2>3, AppendFacts
  <2>7. Traces' = T
    BY <1>5, <2>2
  <2> HIDE DEF T
  <2>8. ASSUME NEW i \in DOMAIN T, NEW j \in DOMAIN T, i < j,
               NEW a \in DOMAIN served', NEW b \in DOMAIN served',
               served'[a] = T[i].call, served'[b] = T[j].call
        PROVE  a < b
    <3>1. i \in DOMAIN Traces /\ T[i] = Traces[i]
      BY <1>0, <2>6, <2>8
    <3>2. CASE j \in DOMAIN Traces
      BY <1>0, <1>2, <2>6, <2>8, <3>1, <3>2
    <3>3. CASE j = Len(Traces) + 1
      <4>1. served[b] = cur /\ served[a] # cur
        <5>1. Traces[i].call # cur
          BY <1>1, <2>1, <3>1 DEF TraceOK
        <5> QED
          BY <2>1, <2>3, <2>6, <2>8, <3>1, <3>3, <5>1
      <4>2. b = Len(served) /\ a # Len(served)
        BY <2>1, <2>4, <2>8, <4>1 DEF ChannelInv
      <4>3. a \in 1..Len(served) /\ Len(served) \in Nat
        BY <2>1, <2>8 DEF TypeInv
      <4> QED
        BY <4>2, <4>3
    <3> QED
      BY <1>0, <2>6, <3>2, <3>3
  <2>9. OrderInv'
    BY <2>7, <2>8 DEF OrderInv
  <2>10. \A t \in Range(Traces') : TraceOK(t)'
    BY <1>3, <2>5, <2>6, <2>7
  <2> QED
    BY <2>9, <2>10 DEF TraceInv
<1> QED
  BY <1>4, <1>5, TracesMove

-----------------------------------------------------------------------------
(* A set any two members of which are equal has at most one. *)
LEMMA AtMostOne ==
    ASSUME NEW S, \A i, j \in S : i = j
    PROVE  Cardinality(S) <= 1
<1>1. CASE S = {}
  BY <1>1, FS_EmptySet
<1>2. ASSUME NEW i \in S PROVE Cardinality(S) <= 1
  <2>1. S = {i}
    OBVIOUS
  <2> QED
    <3>1. Cardinality({i}) = 1
      BY FS_Singleton
    <3> QED
      BY <2>1, <3>1
<1> QED
  BY <1>1, <1>2

(***************************************************************************)
(* In every execution of the coalition service, the three accounts of a    *)
(* decision agree.  A caller is told that the policy acted only if the     *)
(* log holds the command's event, which it holds at most once, and never   *)
(* after any other answer.  A trace's position lies before that event with *)
(* only other holders' events in between, its timestamp is the event's,    *)
(* its verdict is the caller's, and the traces come in the order the       *)
(* service took the commands: for any number of commands, mutations of     *)
(* other holders at every await, capacities of the channel and the tap,    *)
(* and with the tap's consumer, the token and a panic in between.          *)
(***************************************************************************)
THEOREM AccountsAlwaysAgree == Spec => []AccountsAgree
<1> DEFINE I == /\ TypeInv /\ ChannelInv /\ CurrentInv
                /\ LogInv /\ PositionInv /\ TraceInv
<1>1. Init => I
  <2> SUFFICES ASSUME Init PROVE I
    OBVIOUS
  <2>1. /\ Range(served) = {} /\ Range(queue) = {} /\ DOMAIN served = {}
        /\ DOMAIN queue = {} /\ \A c \in Calls : EventsOf(c) = {}
    BY DEF Init, Range, EventsOf
  <2>2. /\ \A c \in Calls : answer[c] = "none"
        /\ cur = NoCall /\ step = "select"
    BY DEF Init
  <2>3. ChannelInv /\ CurrentInv /\ LogInv /\ PositionInv
    BY <2>1, <2>2 DEF ChannelInv, CurrentInv, Unanswered, LogInv, PositionInv,
                      Placed
  <2>4. TraceInv
    <3>1. Traces = <<>>
      BY DEF Init, Traces
    <3> QED
      BY <3>1 DEF TraceInv, OrderInv, Range
  <2> QED
    BY TypeInit, <2>3, <2>4
<1>2. I /\ [Next]_vars => I'
  BY TypeStep, ChannelStep, LogStep, PositionStep, TraceStep
<1>3. I => AccountsAgree
  <2> SUFFICES ASSUME I PROVE AccountsAgree
    OBVIOUS
  <2>1. AnswersMatchLog
    BY AtMostOne DEF LogInv, AnswersMatchLog
  <2> DEFINE Place(c) == CHOOSE i \in DOMAIN served : served[i] = c
  <2>2. \A t \in Range(Traces) :
           Place(t.call) \in DOMAIN served /\ served[Place(t.call)] = t.call
    BY DEF TraceInv, TraceOK, Range
  <2>3. \A i \in DOMAIN Traces : Traces[i] \in Range(Traces)
    BY DEF Range
  <2> HIDE DEF Place
  <2>4. \A i, j \in DOMAIN Traces :
           i < j => Place(Traces[i].call) < Place(Traces[j].call)
    BY <2>2, <2>3 DEF TraceInv, OrderInv
  <2>5. \A t \in Range(Traces) : Points(t) /\ answer[t.call] \in Told1(t)
    BY DEF TraceInv, TraceOK
  <2>6. TracesMatchDecisions
    BY <2>4, <2>5 DEF TracesMatchDecisions, Traces, Place, Points, Told1,
                      Unanswered
  <2> QED
    BY <2>1, <2>6 DEF AccountsAgree
<1> QED
  BY <1>1, <1>2, <1>3, PTL DEF Spec

-----------------------------------------------------------------------------
(***************************************************************************)
(* What joining hyperedges yields.                                         *)
(***************************************************************************)

(* A list of lists over a set flattens to a list over it. *)
LEMMA FlattenType ==
    ASSUME NEW S, NEW n \in Nat, NEW ss, ss = [i \in 1..n |-> ss[i]],
           \A i \in 1..n : ss[i] \in Seq(S)
    PROVE  SE!FlattenSeq(ss) \in Seq(S)
<1> DEFINE E(f, i) == IF i = 1 THEN ss[i] ELSE f[i - 1] \o ss[i]
           Upto(f, m) == f = [i \in 1..m |-> E(f, i)]
           flat == CHOOSE f : Upto(f, n)
<1>0. ss \in Seq(Seq(S)) /\ Len(ss) = n
  <2>1. ss \in [1..n -> Seq(S)]
    OBVIOUS
  <2> QED
    BY <2>1
<1>1. SE!FlattenSeq(ss) = IF n = 0 THEN ss ELSE flat[n]
  BY <1>0 DEF SE!FlattenSeq
<1>2. \E f : Upto(f, n)
  <2> DEFINE P(m) == \E f : Upto(f, m)
             T == {m \in 0..n : ~P(m)}
  <2> SUFFICES ASSUME ~P(n) PROVE FALSE
    OBVIOUS
  <2> HIDE DEF P
  <2>1. PICK m \in T : \A y \in T : m <= y
    <3>1. T \subseteq Nat /\ T # {}
      OBVIOUS
    <3> QED
      BY <3>1, LeastNat
  <2>2. m # 0
    <3> DEFINE f == [i \in {} |-> 0]
    <3>1. 1..0 = {}
      OBVIOUS
    <3>2. Upto(f, 0)
      BY <3>1
    <3>3. P(0)
      BY <3>2 DEF P
    <3> QED
      BY <2>1, <3>3
  <2>3. m \in 1..n /\ m - 1 \in 0..n /\ ~(m <= m - 1) /\ m \in Nat
    BY <2>2
  <2>4. PICK f : Upto(f, m - 1)
    <3>1. P(m - 1)
      BY <2>1, <2>3
    <3> QED
      BY <3>1 DEF P
  <2> DEFINE g == [i \in 1..m |-> IF i < m THEN f[i] ELSE E(f, i)]
  <2>5. ASSUME NEW i \in 1..m PROVE g[i] = E(g, i)
    <3>0. i \in Nat /\ 1 <= i /\ i <= m /\ m \in Nat
      BY <2>3
    <3>1. \A j \in 1..m : j < m => g[j] = f[j]
      OBVIOUS
    <3>2. i # 1 => g[i - 1] = f[i - 1]
      <4>1. i # 1 => i - 1 \in 1..m /\ i - 1 < m
        BY <3>0
      <4> QED
        BY <3>1, <4>1
    <3>3. E(g, i) = E(f, i)
      <4> HIDE DEF g
      <4> QED
        BY <3>2
    <3>4. CASE i < m
      <4>1. i \in 1..(m - 1)
        BY <3>0, <3>4
      <4> HIDE DEF E, g
      <4>2. f[i] = E(f, i)
        BY <2>4, <4>1
      <4> QED
        BY <3>1, <3>3, <3>4, <4>2
    <3>5. CASE ~(i < m)
      <4> HIDE DEF E
      <4>1. g[i] = E(f, i)
        BY <3>5
      <4> QED
        BY <3>3, <4>1
    <3> QED
      BY <3>4, <3>5
  <2>6. g = [i \in 1..m |-> g[i]]
    OBVIOUS
  <2> HIDE DEF g, E
  <2>7. Upto(g, m)
    BY <2>5, <2>6
  <2>8. P(m)
    BY <2>7 DEF P
  <2> QED
    BY <2>1, <2>8
<1>3. Upto(flat, n)
  BY <1>2
<1> HIDE DEF flat
<1>4. ASSUME n # 0 PROVE flat[n] \in Seq(S)
  <2> DEFINE T == {m \in 1..n : flat[m] \notin Seq(S)}
  <2> SUFFICES ASSUME n \in T PROVE FALSE
    BY <1>4
  <2>1. PICK m \in T : \A y \in T : m <= y
    <3>1. T \subseteq Nat /\ T # {}
      OBVIOUS
    <3> QED
      BY <3>1, LeastNat
  <2>2. flat[m] = E(flat, m) /\ ss[m] \in Seq(S)
    BY <1>3
  <2>3. CASE m = 1
    BY <2>1, <2>2, <2>3
  <2>4. CASE m # 1
    <3>1. m - 1 \in 1..n /\ ~(m <= m - 1)
      BY <2>4
    <3>2. flat[m - 1] \in Seq(S)
      BY <2>1, <3>1
    <3>3. flat[m] = flat[m - 1] \o ss[m]
      BY <2>2, <2>4
    <3>4. flat[m - 1] \o ss[m] \in Seq(S)
      BY <2>2, <3>2
    <3> QED
      BY <3>3, <3>4
  <2> QED
    BY <2>3, <2>4
<1>5. n = 0 => ss \in Seq(S)
  <2>1. n = 0 => ss = <<>>
    BY <1>0
  <2> QED
    BY <2>1
<1> QED
  BY <1>1, <1>4, <1>5

-----------------------------------------------------------------------------
(***************************************************************************)
(* The graph.  Every mutation, the service's or another holder's, leaves   *)
(* it a graph whose member lists hold indices.                             *)
(***************************************************************************)
TypedGraph(g) == IsGraph(g) /\ ListsIndices(g)

(* Changing the members of a hyperedge changes nothing else. *)
LEMMA SetMembersFacts ==
    ASSUME NEW g, TypedGraph(g), NEW h \in DOMAIN g.edges, NEW vs \in Seq(Nat)
    PROVE  /\ TypedGraph(GraphSetMembers(g, h, vs))
           /\ GraphSetMembers(g, h, vs).verts = g.verts
           /\ DOMAIN GraphSetMembers(g, h, vs).edges = DOMAIN g.edges
           /\ GraphSetMembers(g, h, vs).edges[h].members = vs
           /\ \A k \in DOMAIN g.edges \ {h} :
                 GraphSetMembers(g, h, vs).edges[k] = g.edges[k]
<1> DEFINE e == [g.edges EXCEPT ![h].members = vs]
           n == GraphSetMembers(g, h, vs)
<1>1. n = Graph(g.verts, e, g.nextV, g.nextE)
  <2>1. n = [g EXCEPT !.edges = e]
    BY DEF GraphSetMembers
  <2> HIDE DEF n, e
  <2> QED
    BY <2>1 DEF TypedGraph, IsGraph, Graph
<1>2. n.edges = e /\ n.verts = g.verts /\ IsGraph(n)
  BY <1>1 DEF Graph, IsGraph
<1>3. DOMAIN e = DOMAIN g.edges /\ \A k \in DOMAIN g.edges \ {h} : e[k] = g.edges[k]
  OBVIOUS
<1>4. e[h] = [members |-> vs, weight |-> g.edges[h].weight]
  <2>1. e[h] = [g.edges[h] EXCEPT !.members = vs]
    OBVIOUS
  <2>2. g.edges[h] = [members |-> g.edges[h].members,
                      weight |-> g.edges[h].weight]
    BY DEF TypedGraph, ListsIndices
  <2> QED
    BY <2>1, <2>2
<1> HIDE DEF e, n
<1>5. e[h].members = vs /\ e[h] = [members |-> e[h].members, weight |-> e[h].weight]
  BY <1>4
<1>6. \A k \in DOMAIN g.edges \ {h} :
         /\ e[k] = [members |-> e[k].members, weight |-> e[k].weight]
         /\ e[k].members \in Seq(Nat)
  BY <1>3 DEF TypedGraph, ListsIndices
<1>7. ListsIndices(n)
  BY <1>2, <1>3, <1>5, <1>6 DEF ListsIndices
<1> QED
  BY <1>2, <1>3, <1>5, <1>7 DEF TypedGraph, n

(* Removing hyperedges leaves a graph. *)
LEMMA RemoveHyperedgesTyped ==
    ASSUME NEW g, TypedGraph(g), NEW hs
    PROVE  TypedGraph(GraphRemoveHyperedges(g, hs))
<1> DEFINE n == GraphRemoveHyperedges(g, hs)
           e == [h \in DOMAIN g.edges \ hs |-> g.edges[h]]
<1>1. n = Graph(g.verts, Drop(g.edges, hs), g.nextV, g.nextE)
  BY DEF TypedGraph, IsGraph, Graph, GraphRemoveHyperedges
<1>2. Drop(g.edges, hs) = e
  BY DEF Drop, Restrict
<1>3. n.edges = e /\ IsGraph(n)
  BY <1>1, <1>2 DEF Graph, IsGraph
<1> HIDE DEF n
<1> QED
  BY <1>3 DEF TypedGraph, ListsIndices, n

(* join_coalition and leave_coalition: the new list, and who is on it. *)
LEMMA JoinedList ==
    ASSUME NEW old \in Seq(Nat), NEW v \in Nat
    PROVE  LET new == IF v \in Range(old) THEN old ELSE Append(old, v)
           IN  new \in Seq(Nat) /\ Range(new) = Range(old) \cup {v}
<1>1. /\ Append(old, v) \in Seq(Nat)
      /\ Range(Append(old, v)) = Range(old) \cup {v}
  BY AppendFacts
<1> QED
  BY <1>1

(* The members without a vertex. *)
LEMMA LeftList ==
    ASSUME NEW old \in Seq(Nat), NEW v
    PROVE  LET left == Picked(old, {i \in DOMAIN old : old[i] # v})
           IN  left \in Seq(Nat) /\ Range(left) = Range(old) \ {v}
<1> DEFINE K == {i \in DOMAIN old : old[i] # v}
<1>1. DOMAIN old = 1..Len(old)
  OBVIOUS
<1>2. K \in SUBSET (1..Len(old))
  BY <1>1
<1>3. {old[i] : i \in K} = Range(old) \ {v}
  BY DEF Range
<1> HIDE DEF K
<1>4. Picked(old, K) \in Seq(Nat) /\ Range(Picked(old, K)) = {old[i] : i \in K}
  BY <1>2, PickedFacts
<1> QED
  BY <1>3, <1>4 DEF K

(* The members after a contraction. *)
LEMMA ContractedList ==
    ASSUME NEW old \in Seq(Nat), NEW vs, NEW v \in Nat
    PROVE  ContractedMembers(old, vs, v) \in Seq(Nat)
<1> DEFINE moved == [i \in 1..Len(old) |-> IF old[i] \in Range(vs) THEN v ELSE old[i]]
           First(i) == \A j \in 1..(i - 1) : moved[j] # moved[i]
           K == {i \in 1..Len(old) : First(i)}
<1>1. moved \in Seq(Nat) /\ Len(moved) = Len(old)
  <2>1. Len(old) \in Nat /\ \A i \in 1..Len(old) : old[i] \in Nat
    OBVIOUS
  <2>2. moved \in [1..Len(old) -> Nat]
    BY <2>1
  <2> QED
    BY <2>1, <2>2
<1>2. ContractedMembers(old, vs, v) = Picked(moved, K)
  BY DEF ContractedMembers
<1> HIDE DEF moved, First
<1>3. K \in SUBSET (1..Len(moved))
  BY <1>1
<1> HIDE DEF K
<1> QED
  BY <1>1, <1>2, <1>3, PickedFacts

(* The members in reverse. *)
LEMMA ReversedList ==
    ASSUME NEW old \in Seq(Nat)
    PROVE  SE!Reverse(old) \in Seq(Nat)
<1>1. Len(old) \in Nat /\ \A i \in 1..Len(old) : old[i] \in Nat
  OBVIOUS
<1>2. ASSUME NEW i \in 1..Len(old) PROVE (Len(old) - i) + 1 \in 1..Len(old)
  BY <1>1
<1>3. SE!Reverse(old) = [i \in 1..Len(old) |-> old[(Len(old) - i) + 1]]
  BY DEF SE!Reverse
<1>4. SE!Reverse(old) \in [1..Len(old) -> Nat]
  BY <1>1, <1>2, <1>3
<1> QED
  BY <1>1, <1>4

(* The members of joined hyperedges. *)
LEMMA JoinedHyperedgesList ==
    ASSUME NEW g, TypedGraph(g), NEW hs \in Seq(Nat),
           Range(hs) \subseteq DOMAIN g.edges
    PROVE  JoinedMembers(g, hs) \in Seq(Nat)
<1> DEFINE ss == [i \in 1..Len(hs) |-> g.edges[hs[i]].members]
<1>1. Len(hs) \in Nat /\ DOMAIN hs = 1..Len(hs)
  OBVIOUS
<1>2. ASSUME NEW i \in 1..Len(hs) PROVE ss[i] \in Seq(Nat)
  <2>1. hs[i] \in DOMAIN g.edges
    BY <1>1 DEF Range
  <2> QED
    BY <2>1 DEF TypedGraph, ListsIndices
<1>3. ss = [i \in 1..Len(hs) |-> ss[i]]
  OBVIOUS
<1>4. JoinedMembers(g, hs) = SE!FlattenSeq(ss)
  BY DEF JoinedMembers
<1> HIDE DEF ss
<1> QED
  BY <1>1, <1>2, <1>3, <1>4, FlattenType

(* The methods' outcomes leave a typed graph one. *)
LEMMA OutcomeTyped ==
    ASSUME NEW g, NEW r, TypedGraph(g), PassesIndices(r), NEW o \in Outcomes(g, r)
    PROVE  TypedGraph(o.graph)
<1> USE DEF When, Recorded
<1>0. g = Graph(g.verts, g.edges, g.nextV, g.nextE) /\ ListsIndices(g)
  BY DEF TypedGraph, IsGraph
<1>1. ASSUME NEW n, n.edges = g.edges, IsGraph(n)
      PROVE  TypedGraph(n)
  BY <1>0, <1>1 DEF TypedGraph, ListsIndices
<1>2. CASE r.op = "add_vertex"
  <2>1. o.graph = GraphAddVertex(g, r.weight)
    BY <1>2 DEF Outcomes, add_vertex
  <2>2. o.graph.edges = g.edges /\ IsGraph(o.graph)
    BY <1>0, <2>1 DEF GraphAddVertex, IsGraph, Graph
  <2> QED
    BY <1>1, <2>2
<1>3. CASE r.op = "remove_vertex"
  <2>1. o.graph = [g EXCEPT !.verts = Drop(@, {r.v})]
    BY <1>3 DEF Outcomes, remove_vertex, GraphRemoveVertex
  <2>2. o.graph.edges = g.edges /\ IsGraph(o.graph)
    BY <1>0, <2>1 DEF IsGraph, Graph
  <2> QED
    BY <1>1, <2>2
<1>4. CASE r.op = "update_vertex_weight"
  <2> DEFINE vs == [g.verts EXCEPT ![r.v] = r.weight]
  <2>1. o.graph = [g EXCEPT !.verts = vs]
    BY <1>4 DEF Outcomes, update_vertex_weight
  <2> HIDE DEF vs
  <2>2. o.graph.edges = g.edges /\ IsGraph(o.graph)
    BY <1>0, <2>1 DEF IsGraph, Graph
  <2> QED
    BY <1>1, <2>2
<1>5. CASE r.op = "add_hyperedge"
  <2> DEFINE x == [members |-> r.members, weight |-> r.weight]
             e == Put(g.edges, g.nextE, x)
  <2>1. o.graph = GraphAddHyperedge(g, r.members, r.weight)
    BY <1>5 DEF Outcomes, add_hyperedge
  <2>2. o.graph.edges = e /\ IsGraph(o.graph)
    BY <2>1 DEF GraphAddHyperedge, IsGraph, Graph
  <2>3. DOMAIN e = DOMAIN g.edges \cup {g.nextE}
    BY DEF Put
  <2>4. \A h \in DOMAIN e : e[h] = x \/ (h \in DOMAIN g.edges /\ e[h] = g.edges[h])
    BY DEF Put
  <2>5. x = [members |-> x.members, weight |-> x.weight] /\ x.members \in Seq(Nat)
    BY <1>5 DEF PassesIndices
  <2> HIDE DEF e, x
  <2> QED
    BY <1>0, <2>2, <2>3, <2>4, <2>5 DEF TypedGraph, ListsIndices
<1>6. CASE r.op = "remove_hyperedge"
  <2>1. o.graph = GraphRemoveHyperedges(g, {r.h})
    BY <1>6 DEF Outcomes, remove_hyperedge
  <2> QED
    BY <2>1, RemoveHyperedgesTyped
<1>7. CASE r.op = "update_hyperedge_weight"
  <2> DEFINE e == [g.edges EXCEPT ![r.h].weight = r.weight]
  <2>1. o.graph = [g EXCEPT !.edges = e] /\ r.h \in DOMAIN g.edges
    BY <1>7 DEF Outcomes, update_hyperedge_weight
  <2>2. DOMAIN e = DOMAIN g.edges
        /\ \A h \in DOMAIN g.edges : h # r.h => e[h] = g.edges[h]
    OBVIOUS
  <2>3. e[r.h] = [members |-> g.edges[r.h].members, weight |-> r.weight]
    <3>1. e[r.h] = [g.edges[r.h] EXCEPT !.weight = r.weight]
      BY <2>1
    <3>2. g.edges[r.h] = [members |-> g.edges[r.h].members,
                          weight |-> g.edges[r.h].weight]
      BY <1>0, <2>1 DEF ListsIndices
    <3> QED
      BY <3>1, <3>2
  <2> HIDE DEF e
  <2>4. o.graph.edges = e /\ IsGraph(o.graph)
    BY <1>0, <2>1 DEF IsGraph, Graph
  <2>5. e[r.h] = [members |-> e[r.h].members, weight |-> e[r.h].weight]
        /\ e[r.h].members \in Seq(Nat)
    <3>1. g.edges[r.h].members \in Seq(Nat)
      BY <1>0, <2>1 DEF ListsIndices
    <3> QED
      BY <2>3, <3>1
  <2> QED
    BY <1>0, <2>1, <2>2, <2>4, <2>5 DEF TypedGraph, ListsIndices
<1>8. ASSUME NEW vs \in Seq(Nat), o \in UpdatedMembers(g, r.h, vs),
             r.h \in DOMAIN g.edges
      PROVE  TypedGraph(o.graph)
  <2>1. o.graph = GraphSetMembers(g, r.h, vs)
    BY <1>8 DEF UpdatedMembers
  <2> QED
    BY <1>8, <2>1, SetMembersFacts
<1>9. r.h \in DOMAIN g.edges => g.edges[r.h].members \in Seq(Nat)
  BY <1>0 DEF ListsIndices
<1>10. CASE r.op = "update_hyperedge_vertices"
  <2>1. /\ r.h \in DOMAIN g.edges /\ r.members \in Seq(Nat)
        /\ o \in UpdatedMembers(g, r.h, r.members)
    BY <1>10 DEF Outcomes, update_hyperedge_vertices, PassesIndices
  <2> QED
    BY <1>8, <2>1
<1>11. CASE r.op = "join_coalition"
  <2> DEFINE old == g.edges[r.h].members
             new == IF r.v \in Range(old) THEN old ELSE Append(old, r.v)
  <2>1. r.h \in DOMAIN g.edges /\ o \in UpdatedMembers(g, r.h, new)
    BY <1>11 DEF Outcomes, join_coalition
  <2>2. new \in Seq(Nat)
    BY <1>9, <1>11, <2>1, JoinedList DEF PassesIndices
  <2> QED
    BY <1>8, <2>1, <2>2
<1>12. CASE r.op = "leave_coalition"
  <2> DEFINE old == g.edges[r.h].members
             left == Picked(old, {i \in DOMAIN old : old[i] # r.v})
  <2>1. r.h \in DOMAIN g.edges /\ o \in UpdatedMembers(g, r.h, left)
    BY <1>12 DEF Outcomes, leave_coalition
  <2>2. left \in Seq(Nat)
    BY <1>9, <2>1, LeftList
  <2> QED
    BY <1>8, <2>1, <2>2
<1>13. CASE r.op = "reverse_hyperedge"
  <2>1. /\ r.h \in DOMAIN g.edges
        /\ o.graph = GraphSetMembers(g, r.h, SE!Reverse(g.edges[r.h].members))
    BY <1>13 DEF Outcomes, reverse_hyperedge
  <2>2. SE!Reverse(g.edges[r.h].members) \in Seq(Nat)
    BY <1>9, <2>1, ReversedList
  <2> QED
    BY <2>1, <2>2, SetMembersFacts
<1>14. CASE r.op = "join_hyperedges"
  <2> DEFINE joined == JoinedMembers(g, r.hs)
             grown == GraphSetMembers(g, r.hs[1], joined)
  <2>1. /\ o.graph = GraphRemoveHyperedges(grown, Range(Tail(r.hs)) \ {r.hs[1]})
        /\ Len(r.hs) >= 2 /\ Range(r.hs) \subseteq DOMAIN g.edges
    BY <1>14 DEF Outcomes, join_hyperedges
  <2>2. r.hs \in Seq(Nat)
    BY <1>14 DEF PassesIndices
  <2>3. r.hs[1] \in DOMAIN g.edges
    <3>1. 1 \in DOMAIN r.hs
      BY <2>1, <2>2
    <3> QED
      BY <2>1, <3>1 DEF Range
  <2>4. joined \in Seq(Nat)
    BY <2>1, <2>2, JoinedHyperedgesList
  <2>5. TypedGraph(grown)
    BY <2>3, <2>4, SetMembersFacts
  <2> HIDE DEF grown
  <2> QED
    BY <2>1, <2>5, RemoveHyperedgesTyped
<1>15. CASE r.op = "contract_hyperedge_vertices"
  <2> DEFINE new == ContractedMembers(g.edges[r.h].members, r.members, r.v)
  <2>1. r.h \in DOMAIN g.edges /\ o.graph = GraphSetMembers(g, r.h, new)
    BY <1>15 DEF Outcomes, contract_hyperedge_vertices
  <2>2. new \in Seq(Nat)
    BY <1>9, <1>15, <2>1, ContractedList DEF PassesIndices
  <2> QED
    BY <2>1, <2>2, SetMembersFacts
<1>16. ASSUME NEW V, NEW nv, NEW ne, o.graph = Graph(V, <<>>, nv, ne)
       PROVE  TypedGraph(o.graph)
  <2>1. o.graph.edges = <<>> /\ IsGraph(o.graph)
    BY <1>16 DEF IsGraph, Graph
  <2>2. DOMAIN o.graph.edges = {}
    BY <2>1
  <2> QED
    BY <2>1, <2>2 DEF TypedGraph, ListsIndices
<1>17. CASE r.op = "clear_hyperedges"
  BY <1>16, <1>17 DEF Outcomes, clear_hyperedges
<1>18. CASE r.op = "clear"
  BY <1>16, <1>18 DEF Outcomes, clear, EmptyGraph
<1> QED
  BY <1>2, <1>3, <1>4, <1>5, <1>6, <1>7, <1>10, <1>11, <1>12, <1>13, <1>14,
     <1>15, <1>17, <1>18 DEF Outcomes

-----------------------------------------------------------------------------
(***************************************************************************)
(* A command's request is one the caller may send, and only a join or a    *)
(* leave gets as far as the graph's mutation.                              *)
(***************************************************************************)
Deciding == {"position", "agent", "members", "weights", "consult", "apply"}

CommandInv ==
    /\ \A c \in Calls : req[c] \in Requests[c]
    /\ step \in Deciding => req[cur].op # "members"

MembersInv == TypeInv /\ TypedGraph(graph) /\ CommandInv

(* Every step keeps the requests, and members queries out of the mutation. *)
LEMMA CommandStep == TypeInv /\ CommandInv /\ [Next]_vars => CommandInv'
<1> SUFFICES ASSUME TypeInv, CommandInv, [Next]_vars PROVE CommandInv'
  OBVIOUS
<1> USE DEF Goto, Fails, Idle, topology, task, channel, callers, taps, signals
<1>1. req' = req
  <2>1. CASE Work
    BY <2>1 DEF Work, Manager, decision_position, get_agent, coalition_members,
           agent_weights, WeightsRead, Consult, Apply, Record, Emit,
           ReadMembers, SetPanicked
  <2>2. CASE Serve /\ ~Work
    BY <2>2 DEF Serve, Work, Receive, HandlesGone, refuse_queued, RefuseOne,
           RefusedAll, Reply, PanicReply, End
  <2>3. ASSUME NEW c \in Calls,
               request(c) \/ Enqueue(c) \/ SendGone(c) \/ Resume(c)
               \/ Abandon(c) \/ DropHandle(c)
        PROVE  req' = req
    BY <2>3 DEF request, Enqueue, SendGone, Resume, Abandon, DropHandle
  <2>4. ASSUME NEW r \in OtherRequests, OtherApply(r) PROVE req' = req
    BY <2>4 DEF OtherApply
  <2>5. CASE OtherRecord \/ TakeTap \/ CloseTap \/ Cancel \/ UNCHANGED vars
    BY <2>5 DEF OtherRecord, TakeTap, CloseTap, Cancel, vars
  <2> QED
    BY <2>1, <2>2, <2>3, <2>4, <2>5 DEF Next
<1>2. step' \in Deciding => \/ step \in Deciding /\ cur' = cur
                            \/ Receive
  <2> USE DEF Deciding
  <2>1. CASE Work
    BY <2>1 DEF Work, Manager, decision_position, get_agent, coalition_members,
           agent_weights, WeightsRead, Consult, Apply, Record, Emit,
           ReadMembers, SetPanicked
  <2>2. CASE Serve /\ ~Work
    BY <2>2 DEF Serve, Work, HandlesGone, refuse_queued, RefuseOne,
           RefusedAll, Reply, PanicReply, End
  <2>3. ASSUME NEW c \in Calls,
               request(c) \/ Enqueue(c) \/ SendGone(c) \/ Resume(c)
               \/ Abandon(c) \/ DropHandle(c)
        PROVE  step' = step /\ cur' = cur
    BY <2>3 DEF request, Enqueue, SendGone, Resume, Abandon, DropHandle
  <2>4. ASSUME NEW r \in OtherRequests, OtherApply(r)
        PROVE  step' = step /\ cur' = cur
    BY <2>4 DEF OtherApply
  <2>5. CASE OtherRecord \/ TakeTap \/ CloseTap \/ Cancel \/ UNCHANGED vars
    BY <2>5 DEF OtherRecord, TakeTap, CloseTap, Cancel, vars
  <2> QED
    BY <2>1, <2>2, <2>3, <2>4, <2>5 DEF Next
<1>3. Receive => (step' \in Deciding => req[cur'].op # "members")
  BY DEF Receive, FirstStep, Deciding
<1> QED
  BY <1>1, <1>2, <1>3 DEF CommandInv

(* Only the service's mutation and other holders' change the graph, each   *)
(* to an outcome of its request.                                           *)
LEMMA GraphMoves ==
    ASSUME [Next]_vars
    PROVE  \/ graph' = graph
           \/ /\ Apply
              /\ \E o \in Outcomes(graph, req[cur]) : graph' = o.graph
           \/ \E r \in OtherRequests :
                 \E o \in Outcomes(graph, r) : graph' = o.graph
<1> USE DEF Goto, Fails, Idle, topology, task, channel, callers, taps, signals
<1>1. CASE Apply
  BY <1>1 DEF Apply
<1>2. CASE Work /\ ~Apply
  BY <1>2 DEF Work, Manager, decision_position, get_agent, coalition_members,
         agent_weights, WeightsRead, Consult, Record, Emit, ReadMembers,
         SetPanicked
<1>3. CASE Serve /\ ~Work
  BY <1>3 DEF Serve, Work, Receive, HandlesGone, refuse_queued, RefuseOne,
         RefusedAll, Reply, PanicReply, End
<1>4. ASSUME NEW c \in Calls,
             request(c) \/ Enqueue(c) \/ SendGone(c) \/ Resume(c)
             \/ Abandon(c) \/ DropHandle(c)
      PROVE  graph' = graph
  BY <1>4 DEF request, Enqueue, SendGone, Resume, Abandon, DropHandle
<1>5. ASSUME NEW r \in OtherRequests, OtherApply(r)
      PROVE  graph' = graph \/ \E o \in Outcomes(graph, r) : graph' = o.graph
  BY <1>5 DEF OtherApply
<1>6. CASE OtherRecord \/ TakeTap \/ CloseTap \/ Cancel \/ UNCHANGED vars
  BY <1>6 DEF OtherRecord, TakeTap, CloseTap, Cancel, vars
<1> QED
  BY <1>1, <1>2, <1>3, <1>4, <1>5, <1>6 DEF Next

(* Every step keeps the members typed. *)
LEMMA MembersStep == MembersInv /\ [Next]_vars => MembersInv'
<1> SUFFICES ASSUME MembersInv, [Next]_vars PROVE MembersInv'
  OBVIOUS
<1>1. TypeInv' /\ CommandInv'
  BY TypeStep, CommandStep DEF MembersInv
<1>2. ASSUME NEW r, PassesIndices(r), NEW o \in Outcomes(graph, r),
             graph' = o.graph
      PROVE  TypedGraph(graph')
  BY <1>2, OutcomeTyped DEF MembersInv
<1>3. Apply => PassesIndices(req[cur])
  <2>1. Apply => cur \in Calls
    BY DEF Apply, MembersInv, TypeInv, Idling
  <2> QED
    BY <2>1, RequestsAreCommands DEF MembersInv, CommandInv
<1>4. TypedGraph(graph')
  <2>1. CASE graph' = graph
    BY <2>1 DEF MembersInv
  <2>2. CASE Apply /\ \E o \in Outcomes(graph, req[cur]) : graph' = o.graph
    BY <2>2, <1>2, <1>3
  <2>3. CASE \E r \in OtherRequests :
                \E o \in Outcomes(graph, r) : graph' = o.graph
    BY <2>3, <1>2, OthersPassIndices
  <2> QED
    BY <2>1, <2>2, <2>3, GraphMoves
<1>5. TypedGraph(graph)'
  BY <1>4 DEF TypedGraph, IsGraph, ListsIndices, Graph
<1> QED
  BY <1>1, <1>5 DEF MembersInv

(* The members are typed at the start. *)
LEMMA MembersInit == Init => MembersInv
<1> SUFFICES ASSUME Init PROVE MembersInv
  OBVIOUS
<1>1. TypedGraph(graph)
  BY InitGraphIsGraph, MembersAreIndices DEF Init, TypedGraph
<1>2. CommandInv
  BY DEF Init, CommandInv, Deciding
<1> QED
  BY <1>1, <1>2, TypeInit DEF MembersInv

(* What the service's mutation does to every member list. *)
LEMMA AgentMoves ==
    ASSUME NEW g, TypedGraph(g), NEW r, PassesIndices(r),
           r.op \in {"join_coalition", "leave_coalition"},
           NEW o \in Outcomes(g, r)
    PROVE  /\ o.graph.verts = g.verts
           /\ DOMAIN o.graph.edges = DOMAIN g.edges
           /\ \A h \in DOMAIN g.edges :
                 Members(o.graph, h) = IF h # r.h THEN Members(g, h)
                                       ELSE IF r.op = "join_coalition"
                                       THEN Members(g, h) \cup {r.v}
                                       ELSE Members(g, h) \ {r.v}
<1> DEFINE old == g.edges[r.h].members
           joined == IF r.v \in Range(old) THEN old ELSE Append(old, r.v)
           left == Picked(old, {i \in DOMAIN old : old[i] # r.v})
           new == IF r.op = "join_coalition" THEN joined ELSE left
<1>1. r.h \in DOMAIN g.edges /\ o \in UpdatedMembers(g, r.h, new)
  <2>1. CASE r.op = "join_coalition"
    BY <2>1 DEF Outcomes, join_coalition, When
  <2>2. CASE r.op = "leave_coalition"
    BY <2>2 DEF Outcomes, leave_coalition, When
  <2> QED
    BY <2>1, <2>2
<1>2. old \in Seq(Nat)
  BY <1>1 DEF TypedGraph, ListsIndices
<1>3. /\ new \in Seq(Nat)
      /\ Range(new) = IF r.op = "join_coalition" THEN Range(old) \cup {r.v}
                      ELSE Range(old) \ {r.v}
  <2>1. CASE r.op = "join_coalition"
    <3>1. joined \in Seq(Nat) /\ Range(joined) = Range(old) \cup {r.v}
      BY <1>2, <2>1, JoinedList DEF PassesIndices
    <3> QED
      BY <2>1, <3>1
  <2>2. CASE r.op # "join_coalition"
    <3>1. left \in Seq(Nat) /\ Range(left) = Range(old) \ {r.v}
      BY <1>2, LeftList
    <3> QED
      BY <2>2, <3>1
  <2> QED
    BY <2>1, <2>2
<1> HIDE DEF new
<1>4. o.graph = GraphSetMembers(g, r.h, new)
  BY <1>1 DEF UpdatedMembers, Recorded
<1>5. /\ o.graph.verts = g.verts /\ DOMAIN o.graph.edges = DOMAIN g.edges
      /\ o.graph.edges[r.h].members = new
      /\ \A k \in DOMAIN g.edges \ {r.h} : o.graph.edges[k] = g.edges[k]
  BY <1>1, <1>3, <1>4, SetMembersFacts
<1> QED
  BY <1>3, <1>5 DEF Members

(* The step the property is about is the service's own mutation. *)
LEMMA AppliedStep ==
    ASSUME [Next]_vars, step = "apply", step' = "record"
    PROVE  \E o \in Outcomes(graph, req[cur]) : graph' = o.graph
<1> USE DEF Goto, Fails, Idle, topology, task, channel, callers, taps, signals
<1>1. CASE Apply
  BY <1>1 DEF Apply
<1>2. CASE Serve /\ ~Apply
  BY <1>2 DEF Serve, Manager, decision_position, get_agent, coalition_members,
         agent_weights, WeightsRead, Consult, Record, Emit, ReadMembers,
         SetPanicked, Receive, HandlesGone, refuse_queued, RefuseOne,
         RefusedAll, Reply, PanicReply, End
<1>3. ASSUME NEW c \in Calls,
             request(c) \/ Enqueue(c) \/ SendGone(c) \/ Resume(c)
             \/ Abandon(c) \/ DropHandle(c)
      PROVE  FALSE
  BY <1>3 DEF request, Enqueue, SendGone, Resume, Abandon, DropHandle
<1>4. ASSUME NEW r \in OtherRequests, OtherApply(r) PROVE FALSE
  BY <1>4 DEF OtherApply
<1>5. CASE OtherRecord \/ TakeTap \/ CloseTap \/ Cancel \/ UNCHANGED vars
  BY <1>5 DEF OtherRecord, TakeTap, CloseTap, Cancel, vars
<1> QED
  BY <1>1, <1>2, <1>3, <1>4, <1>5 DEF Next

(* Whatever other holders did since the policy looked, a join adds its     *)
(* agent to its coalition and a leave takes it out, and no other agent,    *)
(* coalition or vertex changes.                                            *)
THEOREM OnlyItsAgentAlwaysMoves == Spec => OnlyItsAgentMoves
<1> DEFINE Moved == step = "apply" /\ step' = "record" =>
             LET r == req[cur] IN
             /\ graph'.verts = graph.verts
             /\ DOMAIN graph'.edges = DOMAIN graph.edges
             /\ \A h \in DOMAIN graph.edges :
                   Members(graph', h) = IF h # r.h THEN Members(graph, h)
                                        ELSE IF Joining
                                        THEN Members(graph, h) \cup {r.v}
                                        ELSE Members(graph, h) \ {r.v}
<1>1. MembersInv /\ [Next]_vars => [Moved]_vars
  <2> SUFFICES ASSUME MembersInv, [Next]_vars, step = "apply", step' = "record"
               PROVE  Moved
    OBVIOUS
  <2>1. /\ PassesIndices(req[cur])
        /\ req[cur].op \in {"join_coalition", "leave_coalition"}
    <3>1. cur \in Calls
      BY DEF MembersInv, TypeInv, Idling
    <3> QED
      BY <3>1, RequestsAreCommands DEF MembersInv, CommandInv, Deciding
  <2>2. PICK o \in Outcomes(graph, req[cur]) : graph' = o.graph
    BY AppliedStep
  <2>3. /\ o.graph.verts = graph.verts
        /\ DOMAIN o.graph.edges = DOMAIN graph.edges
        /\ \A h \in DOMAIN graph.edges :
              Members(o.graph, h) = IF h # req[cur].h THEN Members(graph, h)
                                    ELSE IF Joining
                                    THEN Members(graph, h) \cup {req[cur].v}
                                    ELSE Members(graph, h) \ {req[cur].v}
    BY <2>1, AgentMoves DEF MembersInv, Joining
  <2>4. \A h : Members(o.graph, h) = Members(graph', h)
    BY <2>2
  <2> HIDE DEF Members
  <2> QED
    BY <2>2, <2>3, <2>4
<1> QED
  BY MembersInit, MembersStep, <1>1, PTL DEF Spec, OnlyItsAgentMoves
=============================================================================
