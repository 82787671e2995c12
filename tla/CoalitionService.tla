-------------------------- MODULE CoalitionService --------------------------
(***************************************************************************)
(* src/subsystems/coalition_actor.rs: the task that gates coalition joins  *)
(* and leaves behind a policy, with CoalitionManager's try_join_coalition  *)
(* and try_leave_coalition, which it runs.                                 *)
(*                                                                         *)
(* Callers put commands on a bounded channel and wait for a reply.  The    *)
(* service takes one command at a time.  Other holders of the same graph   *)
(* (clones with clocks of their own) mutate it in between the awaits of a  *)
(* command.  A mutation is two steps under the mutation lock, as in        *)
(* TemporalHypergraph: the graph changes, then the event is appended.      *)
(***************************************************************************)
EXTENDS Hypergraph, SequencesExt

CONSTANTS Calls,          \* commands, each sent at most once
          Requests,       \* per command, what it may ask for
          OtherRequests,  \* mutations other holders of the graph may make
          MaxOther,       \* bound: how many of those happen
          InitGraph,      \* the graph the manager starts from
          Capacity,       \* COMMAND_CAPACITY
          TapCap,         \* capacity of the decision (trace) tap
          NoCall

ASSUME CapacityIsPositive == Capacity \in Nat \ {0}
ASSUME BoundsAreNat == MaxOther \in Nat /\ TapCap \in Nat
ASSUME InitGraphIsGraph == IsGraph(InitGraph)
ASSUME MembersAreIndices == ListsIndices(InitGraph)
(* CoalitionCommand has three variants. *)
ASSUME RequestsAreCommands ==
    \A c \in Calls : \A r \in Requests[c] :
       /\ r.op \in {"join_coalition", "leave_coalition", "members"}
       /\ PassesIndices(r)
ASSUME OthersPassIndices == \A r \in OtherRequests : PassesIndices(r)
ASSUME NoCallIsNoCall == NoCall \notin Calls

VARIABLES
    graph, poisoned, log,       \* the shared TemporalHypergraph
    mutation, otherMade,        \* its mutation lock; other holders' count
    clock,                      \* the clock of the manager's value
    queue, closed,              \* the command channel
    cancelled, panicked,        \* the token and the handle's flag
    step, cur, work,            \* the service task: where, on what, locals
    client, req, answer,        \* per command: caller's step, request, reply
    handles,                    \* callers whose handle is alive
    tap, tapOpen, taken,        \* the decision tap and what left it
    served                      \* history: commands in the order received

topology == <<graph, poisoned, log, mutation, otherMade, clock>>
task     == <<step, cur, work>>
channel  == <<queue, closed, served>>
callers  == <<client, req, handles>>
taps     == <<tap, tapOpen, taken>>
signals  == <<cancelled, panicked>>
vars     == <<topology, task, channel, callers, answer, taps, signals>>

(* step is "select", "refusing", "ending" or "stopped", or within a        *)
(* command's work, in the order it takes them, "position", "agent",        *)
(* "members", "weights", "consult", "apply", "record", "emit", "read",     *)
(* "reply", "panicking", "panic_reply".                                    *)
Decided  == {"acted", "declined"}

NoWork == [result |-> "none", len |-> 0, ts |-> 0,
           consulted |-> <<>>, left |-> <<>>]

Init ==
    /\ graph = InitGraph /\ poisoned = FALSE /\ log = <<>>
    /\ mutation = "free" /\ otherMade = 0 /\ clock = 0
    /\ queue = <<>> /\ closed = FALSE /\ served = <<>>
    /\ cancelled = FALSE /\ panicked = FALSE
    /\ step = "select" /\ cur = NoCall /\ work = NoWork
    /\ client = [c \in Calls |-> "idle"]
    /\ req \in [Calls -> UNION Range(Requests)]
    /\ \A c \in Calls : req[c] \in Requests[c]
    /\ answer = [c \in Calls |-> "none"]
    /\ handles = Calls
    /\ tap = <<>> /\ tapOpen = (TapCap > 0) /\ taken = <<>>

-----------------------------------------------------------------------------
(***************************************************************************)
(* CoalitionServiceHandle.                                                 *)
(***************************************************************************)
(* A reply reaches a caller that still waits for it. *)
Told(c, a) == [answer EXCEPT ![c] = IF @ = "none" THEN a ELSE @]

(* join, leave, members: request builds the command and starts to send. *)
request(c) ==
    /\ client[c] = "idle" /\ c \in handles
    /\ client' = [client EXCEPT ![c] = "sending"]
    /\ UNCHANGED <<topology, task, channel, req, handles, answer, taps,
                   signals>>

(* tx.send().await has room. *)
Enqueue(c) ==
    /\ client[c] = "sending" /\ ~closed /\ Len(queue) < Capacity
    /\ queue' = Append(queue, c)
    /\ client' = [client EXCEPT ![c] = "waiting"]
    /\ UNCHANGED <<topology, task, closed, served, req, handles, answer, taps,
                   signals>>

(* tx.send().await finds the channel closed, or closes while it waits. *)
SendGone(c) ==
    /\ client[c] = "sending" /\ closed
    /\ answer' = Told(c, "gone")
    /\ client' = [client EXCEPT ![c] = "done"]
    /\ UNCHANGED <<topology, task, channel, req, handles, taps, signals>>

(* rx.await: the reply, or its sender dropped unanswered. *)
Resume(c) ==
    /\ client[c] = "waiting" /\ answer[c] # "none"
    /\ client' = [client EXCEPT ![c] = "done"]
    /\ UNCHANGED <<topology, task, channel, req, handles, answer, taps,
                   signals>>

(* The caller drops the request's future; a queued command stays queued. *)
Abandon(c) ==
    /\ client[c] \in {"sending", "waiting"} /\ answer[c] = "none"
    /\ answer' = [answer EXCEPT ![c] = "abandoned"]
    /\ client' = [client EXCEPT ![c] = "done"]
    /\ UNCHANGED <<topology, task, channel, req, handles, taps, signals>>

DropHandle(c) ==
    /\ c \in handles /\ client[c] \in {"idle", "done"}
    /\ handles' = handles \ {c}
    /\ UNCHANGED <<topology, task, channel, client, req, answer, taps, signals>>

Cancel ==
    /\ ~cancelled
    /\ cancelled' = TRUE
    /\ UNCHANGED <<topology, task, channel, callers, answer, taps, panicked>>

-----------------------------------------------------------------------------
(***************************************************************************)
(* service_loop's select is biased: a cancelled token wins over a command. *)
(***************************************************************************)
FirstStep(r) == IF r.op = "members" THEN "read" ELSE "position"

Receive ==
    /\ step = "select" /\ ~cancelled /\ queue # <<>>
    /\ cur' = Head(queue) /\ queue' = Tail(queue)
    /\ step' = FirstStep(req[Head(queue)])
    /\ work' = NoWork
    /\ served' = Append(served, Head(queue))
    /\ UNCHANGED <<topology, closed, callers, answer, taps, signals>>

(* rx.recv() yields None: the last handle is gone and the queue is empty. *)
HandlesGone ==
    /\ step = "select" /\ ~cancelled /\ queue = <<>> /\ handles = {}
    /\ step' = "stopped" /\ closed' = TRUE
    /\ UNCHANGED <<topology, cur, work, queue, served, callers, answer, taps,
                   signals>>

(* refuse_queued: close the channel, then answer what is still in it. *)
refuse_queued ==
    /\ step = "select" /\ cancelled
    /\ step' = "refusing" /\ closed' = TRUE
    /\ UNCHANGED <<topology, cur, work, queue, served, callers, answer, taps,
                   signals>>

RefuseOne ==
    /\ step = "refusing" /\ queue # <<>>
    /\ answer' = Told(Head(queue), "cancelled")
    /\ queue' = Tail(queue)
    /\ UNCHANGED <<topology, task, closed, served, callers, taps, signals>>

RefusedAll ==
    /\ step = "refusing" /\ queue = <<>>
    /\ step' = "stopped"
    /\ UNCHANGED <<topology, cur, work, channel, callers, answer, taps,
                   signals>>

-----------------------------------------------------------------------------
(***************************************************************************)
(* One command's work.  The next step and locals; a failure goes straight  *)
(* to the reply, untapped.                                                 *)
(***************************************************************************)
Goto(s) == step' = s /\ UNCHANGED <<cur, work>>

Fails(why) ==
    /\ step' = "reply" /\ work' = [work EXCEPT !.result = why]
    /\ UNCHANGED cur

Idle == UNCHANGED <<topology, channel, callers, answer, taps, signals>>

Joining == req[cur].op = "join_coalition"

(* decision_position: the log's length and the clock, before the manager. *)
decision_position ==
    /\ step = "position"
    /\ work' = [work EXCEPT !.len = Len(log), !.ts = clock]
    /\ step' = IF Joining THEN "agent" ELSE "members"
    /\ UNCHANGED cur /\ Idle

(* get_agent of the candidate; try_leave_coalition has no such read. *)
get_agent ==
    /\ step = "agent"
    /\ IF poisoned THEN Fails("poisoned")
       ELSE IF req[cur].v \notin DOMAIN graph.verts THEN Fails("error")
       ELSE Goto("members")
    /\ Idle

(* coalition_members; a join consults the members without the candidate. *)
coalition_members ==
    /\ step = "members"
    /\ IF poisoned THEN Fails("poisoned")
       ELSE IF req[cur].h \notin DOMAIN graph.edges THEN Fails("error")
       ELSE LET members == graph.edges[req[cur].h].members
                seen    == IF Joining
                           THEN SelectSeq(members, LAMBDA m : m # req[cur].v)
                           ELSE members
            IN  /\ work' = [work EXCEPT !.consulted = seen, !.left = seen]
                /\ step' = "weights" /\ UNCHANGED cur
    /\ Idle

(* agent_weights: one read per member, each an await. *)
agent_weights ==
    /\ step = "weights" /\ work.left # <<>>
    /\ IF poisoned THEN Fails("poisoned")
       ELSE IF Head(work.left) \notin DOMAIN graph.verts THEN Fails("error")
       ELSE /\ work' = [work EXCEPT !.left = Tail(@)]
            /\ UNCHANGED <<step, cur>>
    /\ Idle

(* A leave of a non-member is declined without asking the policy. *)
WeightsRead ==
    /\ step = "weights" /\ work.left = <<>>
    /\ IF Joining \/ req[cur].v \in Range(work.consulted)
       THEN Goto("consult")
       ELSE /\ work' = [work EXCEPT !.result = "declined"]
            /\ step' = "emit" /\ UNCHANGED cur
    /\ Idle

(* should_join_async, should_leave_async: the policy acts, declines or     *)
(* panics.                                                                 *)
Consult ==
    /\ step = "consult"
    /\ \/ \E r \in Decided :
             /\ work' = [work EXCEPT !.result = r]
             /\ step' = IF r = "acted" THEN "apply" ELSE "emit"
             /\ UNCHANGED cur
       \/ Goto("panicking")
    /\ Idle

(* mutant: the members the policy saw are written back. *)
Apply_writes_consulted ==
    /\ step = "apply" /\ mutation = "free"
    /\ \/ /\ ~poisoned /\ req[cur].h \in DOMAIN graph.edges
          /\ graph' = GraphSetMembers(graph, req[cur].h,
                        IF Joining THEN Append(work.consulted, req[cur].v)
                        ELSE SelectSeq(work.consulted,
                                       LAMBDA m : m # req[cur].v))
          /\ mutation' = "service" /\ Goto("record")
       \/ /\ poisoned \/ req[cur].h \notin DOMAIN graph.edges
          /\ Fails("error") /\ UNCHANGED <<graph, mutation>>
    /\ UNCHANGED <<poisoned, log, otherMade, clock, channel, callers, answer,
                   taps, signals>>

(* mutant: the result of join_coalition is not looked at. *)
Apply_ignores_error ==
    /\ step = "apply" /\ mutation = "free"
    /\ \/ /\ ~poisoned
          /\ \E o \in Outcomes(graph, req[cur]) : graph' = o.graph
          /\ mutation' = "service" /\ Goto("record")
       \/ /\ poisoned \/ MayReject(graph, req[cur])
          /\ Goto("reply") /\ UNCHANGED <<graph, mutation>>
    /\ UNCHANGED <<poisoned, log, otherMade, clock, channel, callers, answer,
                   taps, signals>>

(***************************************************************************)
(* join_coalition, leave_coalition: under the mutation lock, the change is *)
(* made to the members of that moment.                                     *)
(***************************************************************************)
Apply ==
    /\ step = "apply" /\ mutation = "free"
    /\ \/ /\ ~poisoned
          /\ \E o \in Outcomes(graph, req[cur]) : graph' = o.graph
          /\ mutation' = "service" /\ Goto("record")
       \/ /\ ~poisoned /\ MayReject(graph, req[cur])
          /\ Fails("error") /\ UNCHANGED <<graph, mutation>>
       \/ /\ poisoned
          /\ Fails("poisoned") /\ UNCHANGED <<graph, mutation>>
    /\ UNCHANGED <<poisoned, log, otherMade, clock, channel, callers, answer,
                   taps, signals>>

(* Tick the manager's clock, append the event, release the lock. *)
Record ==
    /\ step = "record"
    /\ log' = Append(log, [by |-> cur, ts |-> clock])
    /\ clock' = clock + 1
    /\ mutation' = "free"
    /\ Goto("emit")
    /\ UNCHANGED <<graph, poisoned, otherMade, channel, callers, answer, taps,
                   signals>>

Trace == [call |-> cur, act |-> work.result = "acted",
          len |-> work.len, ts |-> work.ts]

(* mutant: the position is read when the trace is built. *)
Emit_reads_position_late ==
    /\ step = "emit"
    /\ tap' = IF tapOpen /\ Len(tap) < TapCap
              THEN Append(tap, [Trace EXCEPT !.len = Len(log), !.ts = clock])
              ELSE tap
    /\ Goto("reply")
    /\ UNCHANGED <<topology, channel, callers, answer, tapOpen, taken, signals>>

(* mutant: send().await on the tap. *)
Emit_waits_for_room ==
    /\ step = "emit" /\ (tapOpen => Len(tap) < TapCap)
    /\ tap' = IF tapOpen THEN Append(tap, Trace) ELSE tap
    /\ Goto("reply")
    /\ UNCHANGED <<topology, channel, callers, answer, tapOpen, taken, signals>>

(* emit_decision, emit_trace: a full or closed tap drops the record. *)
Emit ==
    /\ step = "emit"
    /\ tap' = IF tapOpen /\ Len(tap) < TapCap THEN Append(tap, Trace) ELSE tap
    /\ Goto("reply")
    /\ UNCHANGED <<topology, channel, callers, answer, tapOpen, taken, signals>>

(* A members command: one read of the graph. *)
ReadMembers ==
    /\ step = "read"
    /\ Fails(IF poisoned THEN "poisoned"
             ELSE IF req[cur].h \in DOMAIN graph.edges THEN "members"
             ELSE "error")
    /\ Idle

(* serve: the work's output goes to the caller. *)
Reply ==
    /\ step = "reply"
    /\ answer' = Told(cur, work.result)
    /\ step' = "select" /\ cur' = NoCall /\ work' = NoWork
    /\ UNCHANGED <<topology, channel, callers, taps, signals>>

-----------------------------------------------------------------------------
(* mutant: the caller is answered before the flag is stored. *)
SetPanicked_late ==
    /\ \/ step = "panicking" /\ answer' = Told(cur, "panicked")
          /\ Goto("panic_reply") /\ UNCHANGED panicked
       \/ step = "ending" /\ ~panicked
          /\ panicked' = TRUE /\ UNCHANGED <<task, answer>>
    /\ UNCHANGED <<topology, channel, callers, taps, cancelled>>

(* serve's panic path: store the flag, answer, and the task returns. *)
SetPanicked ==
    /\ step = "panicking"
    /\ panicked' = TRUE
    /\ Goto("panic_reply")
    /\ UNCHANGED <<topology, channel, callers, answer, taps, cancelled>>

PanicReply ==
    /\ step = "panic_reply"
    /\ answer' = Told(cur, "panicked")
    /\ Goto("ending")
    /\ UNCHANGED <<topology, channel, callers, taps, signals>>

(* The receiver is dropped with what is queued, and with it the replies. *)
End ==
    /\ step = "ending"
    /\ closed' = TRUE /\ queue' = <<>>
    /\ answer' = [c \in Calls |-> IF c \in Range(queue) /\ answer[c] = "none"
                                  THEN "reply_dropped" ELSE answer[c]]
    /\ step' = "stopped" /\ cur' = NoCall /\ work' = NoWork
    /\ UNCHANGED <<topology, served, callers, taps, signals>>

-----------------------------------------------------------------------------
(***************************************************************************)
(* Another holder of the graph mutates it: the change, then its event.  A  *)
(* mutator that panics poisons the graph.                                  *)
(***************************************************************************)
OtherApply(r) ==
    /\ mutation = "free" /\ otherMade < MaxOther /\ ~poisoned
    /\ otherMade' = otherMade + 1
    /\ \/ /\ \E o \in Outcomes(graph, r) : graph' = o.graph
          /\ mutation' = "other" /\ UNCHANGED poisoned
       \/ /\ Panics(graph, r)
          /\ poisoned' = TRUE /\ UNCHANGED <<graph, mutation>>
    /\ UNCHANGED <<log, clock, task, channel, callers, answer, taps, signals>>

OtherRecord ==
    /\ mutation = "other"
    /\ log' = Append(log, [by |-> NoCall, ts |-> 0])
    /\ mutation' = "free"
    /\ UNCHANGED <<graph, poisoned, otherMade, clock, task, channel, callers,
                   answer, taps, signals>>

(* The tap's consumer: takes one record, or goes away. *)
TakeTap ==
    /\ tap # <<>>
    /\ taken' = Append(taken, Head(tap)) /\ tap' = Tail(tap)
    /\ UNCHANGED <<topology, task, channel, callers, answer, tapOpen, signals>>

CloseTap ==
    /\ tapOpen
    /\ tapOpen' = FALSE /\ tap' = <<>>
    /\ UNCHANGED <<topology, task, channel, callers, answer, taken, signals>>

-----------------------------------------------------------------------------
Manager == \/ get_agent \/ coalition_members \/ agent_weights \/ WeightsRead
           \/ Consult \/ Apply \/ Record

Serve == \/ Receive \/ HandlesGone \/ refuse_queued \/ RefuseOne \/ RefusedAll
         \/ decision_position \/ Manager \/ Emit \/ ReadMembers \/ Reply
         \/ SetPanicked \/ PanicReply \/ End

Next ==
    \/ Serve
    \/ \E c \in Calls : \/ request(c) \/ Enqueue(c) \/ SendGone(c) \/ Resume(c)
                        \/ Abandon(c) \/ DropHandle(c)
    \/ \E r \in OtherRequests : OtherApply(r)
    \/ OtherRecord \/ TakeTap \/ CloseTap \/ Cancel

Spec == Init /\ [][Next]_vars

(***************************************************************************)
(* The scheduler polls the service task, the tasks of senders with room    *)
(* and of callers with a reply, and finishes a mutation that was started.  *)
(* Nothing makes the tap's consumer run, or anybody cancel or drop.        *)
(***************************************************************************)
FairSpec ==
    /\ Spec
    /\ WF_vars(Serve) /\ WF_vars(OtherRecord)
    /\ \A c \in Calls : WF_vars(Enqueue(c) \/ SendGone(c)) /\ WF_vars(Resume(c))

-----------------------------------------------------------------------------
(***************************************************************************)
(* Properties.                                                             *)
(***************************************************************************)

EventsOf(c) == {i \in DOMAIN log : log[i].by = c}

(***************************************************************************)
(* What a caller is told is what happened: the command's event is in the   *)
(* log, once, if the caller was told that the policy acted, and is never   *)
(* there after a decline, an error, a refusal or a dropped reply.  Only a  *)
(* caller that dropped its future cannot know.  (serve, try_join_coalition *)
(* and refuse_queued.)                                                     *)
(***************************************************************************)
AnswersMatchLog ==
    \A c \in Calls :
       /\ Cardinality(EventsOf(c)) <= 1
       /\ answer[c] = "acted" => EventsOf(c) # {}
       /\ answer[c] \notin {"none", "acted", "abandoned"} => EventsOf(c) = {}

(***************************************************************************)
(* A join or leave changes the membership of its own agent in its own      *)
(* coalition and nothing else, whatever other holders did since the policy *)
(* looked: no concurrent join or leave is lost.  ("concurrent join/leave   *)
(* calls cannot race on the membership vector", topology/coalitions.rs.)   *)
(***************************************************************************)
Members(g, h) == Range(g.edges[h].members)

OnlyItsAgentMoves ==
    [][step = "apply" /\ step' = "record" =>
          LET r == req[cur] IN
          /\ graph'.verts = graph.verts
          /\ DOMAIN graph'.edges = DOMAIN graph.edges
          /\ \A h \in DOMAIN graph.edges :
                Members(graph', h) = IF h # r.h THEN Members(graph, h)
                                     ELSE IF Joining
                                     THEN Members(graph, h) \cup {r.v}
                                     ELSE Members(graph, h) \ {r.v}]_vars

(***************************************************************************)
(* A trace says what was decided and where: the event of an acted decision *)
(* lies at or after position event_log_len of the log and carries the      *)
(* trace's timestamp, and between the two lie only events of other holders *)
(* (DecisionTrace: "A mutation recorded by this decision is not counted"). *)
(* The tap carries at most one record per command, in the order the        *)
(* service took the commands, and only of commands that got or will get a  *)
(* Decision (emit_decision: errors are not tapped), through drops on a     *)
(* full or closed tap.                                                     *)
(***************************************************************************)
TracesMatchDecisions ==
    LET traces   == taken \o tap
        Place(c) == CHOOSE i \in DOMAIN served : served[i] = c
        PointsBefore(t) ==
            /\ t.len <= Len(log)
            /\ t.act => \E i \in EventsOf(t.call) :
                          /\ i > t.len /\ log[i].ts = t.ts
                          /\ \A j \in (t.len + 1)..(i - 1) : log[j].by = NoCall
    IN  /\ \A i, j \in DOMAIN traces :
              i < j => Place(traces[i].call) < Place(traces[j].call)
        /\ \A t \in Range(traces) :
              /\ PointsBefore(t)
              /\ answer[t.call] \in {"none", "abandoned"} \cup
                    (IF t.act THEN {"acted"} ELSE {"declined"})

(* The three accounts of a decision agree: the caller's answer, the trace  *)
(* on the tap, and the log.                                                *)
AccountsAgree == AnswersMatchLog /\ TracesMatchDecisions

(***************************************************************************)
(* A caller that can tell the service died of a panic reads the flag: once *)
(* Panicked was returned, once a reply was dropped, or once closed() has   *)
(* resolved after a panic.  Commands refused after a cancel were never     *)
(* started.  (CoalitionServiceHandle::panicked and closed.)                *)
(***************************************************************************)
EndIsVisible ==
    /\ \A c \in Calls :
          /\ answer[c] \in {"panicked", "reply_dropped"} => panicked
          /\ answer[c] = "gone" => closed
          /\ answer[c] \in {"cancelled", "reply_dropped", "gone"} =>
                c \notin Range(served)
    /\ closed /\ ~panicked => cancelled \/ handles = {}

(***************************************************************************)
(* Every command is answered, even when the channel is full, the tap's     *)
(* consumer stalls, the token is cancelled or the task panics: nobody      *)
(* waits for ever on request().  And a cancelled token ends the task after *)
(* the command at hand, although callers still hold handles.               *)
(***************************************************************************)
EveryRequestReturns ==
    /\ \A c \in Calls : client[c] = "sending" ~> client[c] = "done"
    /\ cancelled ~> step = "stopped"
=============================================================================
