---------------------------- MODULE DecisionTee -----------------------------
(***************************************************************************)
(* The fan-out of the service's one decision tap: spawn_decision_tee       *)
(* (src/src/subsystems/coalition_actor.rs) hands every record it takes to  *)
(* each of its sinks with try_send.  The first leg feeds the durable bus   *)
(* (spawn_decision_forwarder, src/src/subsystems/durable.rs), the others   *)
(* any consumer, such as the remote gateway.  Record n is the n-th the     *)
(* service decided.                                                        *)
(***************************************************************************)
EXTENDS Integers, Sequences, SequencesExt

CONSTANTS Legs,         \* number of sinks, 1 is the durable leg
          TeeTapCap,    \* capacity of the service's tap
          LegCap,       \* capacity of every sink
          MaxTeed       \* bound: decisions

ASSUME TeeBounds ==
    /\ Legs \in Nat \ {0} /\ TeeTapCap \in Nat \ {0} /\ LegCap \in Nat \ {0}
    /\ MaxTeed \in Nat

VARIABLES
    emitted, teeTap, teeOpen,   \* decisions; the tap; the service lives
    accepted,                   \* history: what the tap took
    tee,                        \* [step, record, sink]
    teeCancelled,               \* the tee's token
    sink,                       \* per leg: its channel
    reading,                    \* legs whose receiver is alive
    taken,                      \* per leg: what its consumer took
    crowded,                    \* history: legs that were full or closed
    bussed                      \* what the durable bus got

tapvars == <<emitted, teeTap, teeOpen, accepted>>
legvars == <<sink, reading, taken>>
teevars == <<tapvars, tee, teeCancelled, legvars, crowded, bussed>>

Durable == 1
Leg == 1 .. Legs

(* spawn_decision_forwarder drops its receiver when check_agents finds the  *)
(* producer or the log sink unknown: the durable leg is then closed.        *)
TeeInit ==
    /\ emitted = 0 /\ teeTap = <<>> /\ teeOpen = TRUE /\ accepted = <<>>
    /\ tee = [step |-> "recv", record |-> 0, sink |-> 0]
    /\ teeCancelled = FALSE
    /\ sink = [l \in Leg |-> <<>>] /\ reading \in {Leg, Leg \ {Durable}}
    /\ taken = [l \in Leg |-> <<>>]
    /\ crowded = {} /\ bussed = <<>>

(* emit_decision: try_send on the tap.                                      *)
EmitDecision ==
    /\ teeOpen /\ emitted < MaxTeed /\ emitted' = emitted + 1
    /\ LET fits == tee.step # "stopped" /\ Len(teeTap) < TeeTapCap
       IN  /\ teeTap' = IF fits THEN Append(teeTap, emitted + 1) ELSE teeTap
           /\ accepted' = IF fits THEN Append(accepted, emitted + 1) ELSE accepted
    /\ UNCHANGED <<teeOpen, tee, teeCancelled, legvars, crowded, bussed>>

DropService ==
    /\ teeOpen /\ teeOpen' = FALSE
    /\ UNCHANGED <<emitted, teeTap, accepted, tee, teeCancelled, legvars, crowded,
                   bussed>>

CancelTee ==
    /\ ~teeCancelled /\ teeCancelled' = TRUE
    /\ UNCHANGED <<tapvars, tee, legvars, crowded, bussed>>

-----------------------------------------------------------------------------
(* The tee's task.                                                          *)

TeeRecv ==
    /\ tee.step = "recv" /\ ~teeCancelled /\ teeTap # <<>>
    /\ tee' = [step |-> "send", record |-> Head(teeTap), sink |-> 1]
    /\ teeTap' = Tail(teeTap)
    /\ UNCHANGED <<emitted, teeOpen, accepted, teeCancelled, legvars, crowded, bussed>>

NextSink(l) == IF l = Legs THEN [step |-> "recv", record |-> 0, sink |-> 0]
               ELSE [tee EXCEPT !.sink = l + 1]

(* mutant: a sink that refuses ends the fan-out of the record. *)
TrySend_breaks(l) ==
    LET fits == l \in reading /\ Len(sink[l]) < LegCap
    IN  /\ sink' = IF fits THEN [sink EXCEPT ![l] = Append(@, tee.record)] ELSE sink
        /\ crowded' = IF fits THEN crowded ELSE crowded \union {l}
        /\ tee' = IF fits THEN NextSink(l) ELSE NextSink(Legs)

(* mutant: send instead of try_send, which waits for room. *)
TrySend_waits(l) ==
    LET open == l \in reading
    IN  /\ open => Len(sink[l]) < LegCap
        /\ sink' = IF open THEN [sink EXCEPT ![l] = Append(@, tee.record)] ELSE sink
        /\ crowded' = IF open THEN crowded ELSE crowded \union {l}
        /\ tee' = NextSink(l)

(* try_send on one sink; full or closed drops the record for that leg only. *)
TrySend(l) ==
    LET fits == l \in reading /\ Len(sink[l]) < LegCap
    IN  /\ sink' = IF fits THEN [sink EXCEPT ![l] = Append(@, tee.record)] ELSE sink
        /\ crowded' = IF fits THEN crowded ELSE crowded \union {l}
        /\ tee' = NextSink(l)

TeeSend ==
    /\ tee.step = "send"
    /\ TrySend(tee.sink)
    /\ UNCHANGED <<tapvars, teeCancelled, reading, taken, bussed>>

(* Cancelled, or the tap is closed and empty; the sinks' senders go too.    *)
TeeStop ==
    /\ tee.step = "recv" /\ (teeCancelled \/ (~teeOpen /\ teeTap = <<>>))
    /\ tee' = [tee EXCEPT !.step = "stopped"] /\ teeTap' = <<>>
    /\ UNCHANGED <<emitted, teeOpen, accepted, teeCancelled, legvars, crowded, bussed>>

-----------------------------------------------------------------------------
(* The consumers.                                                           *)

LegTakes(l) ==
    /\ l \in reading /\ sink[l] # <<>>
    /\ taken' = [taken EXCEPT ![l] = Append(@, Head(sink[l]))]
    /\ sink' = [sink EXCEPT ![l] = Tail(@)]
    /\ UNCHANGED <<tapvars, tee, teeCancelled, reading, crowded>>

Consume(l) == l # Durable /\ LegTakes(l) /\ UNCHANGED bussed

(* send_event: a failed send on the bus is logged, the record is gone.      *)
ForwardDurable ==
    /\ LegTakes(Durable)
    /\ bussed' \in {bussed, Append(bussed, Head(sink[Durable]))}

(* A consumer ends by itself: its own token, its own error.                 *)
LegCloses(l) ==
    /\ l \in reading /\ reading' = reading \ {l}
    /\ sink' = [sink EXCEPT ![l] = <<>>] /\ crowded' = crowded \union {l}
    /\ UNCHANGED <<tapvars, tee, teeCancelled, taken, bussed>>

TeeTask == TeeRecv \/ TeeSend \/ TeeStop
TeeNext ==
    \/ EmitDecision \/ DropService \/ CancelTee \/ TeeTask \/ ForwardDurable
    \/ \E l \in Leg : Consume(l) \/ LegCloses(l)

TeeSpec == TeeInit /\ [][TeeNext]_teevars

(* Only the tee's task has to run: no consumer has to.                      *)
TeeFairSpec == TeeSpec /\ WF_teevars(TeeTask)

-----------------------------------------------------------------------------
Received(l) == taken[l] \o sink[l]

Ascending(s) == \A i, j \in DOMAIN s : i < j => s[i] < s[j]

(***************************************************************************)
(* "A slow sink thins its OWN stream" (coalition_actor.rs:296): whatever   *)
(* the other legs do, each leg gets the accepted records at most once and  *)
(* in order; a leg that was never full or closed has every record the tee  *)
(* is done with; and a tee that ended with its tap, not by a cancel, is    *)
(* done with all of them ("having pushed everything it held into the       *)
(* sinks").                                                                *)
(***************************************************************************)
LegsAreIndependent ==
    \A l \in Leg :
        /\ Ascending(Received(l)) /\ ToSet(Received(l)) \subseteq ToSet(accepted)
        /\ l \notin crowded => IsPrefix(Received(l), accepted)
        /\ l \notin crowded /\ tee.step = "stopped" /\ ~teeCancelled =>
              Received(l) = accepted
        /\ Ascending(bussed) /\ ToSet(bussed) \subseteq ToSet(taken[Durable])

(* Dropping the service or cancelling ends the tee, with no consumer ever  *)
(* reading: it "never blocks the loop" (coalition_actor.rs:297).           *)
TeeStops == (teeCancelled \/ ~teeOpen) ~> tee.step = "stopped"
=============================================================================
