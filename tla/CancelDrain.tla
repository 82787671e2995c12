---------------------------- MODULE CancelDrain -----------------------------
(***************************************************************************)
(* How a forwarding task reads its channel until its token is cancelled:   *)
(* counted, with CancelDrain (src/core/drain.rs: the decision forwarders), *)
(* or with a try_recv loop (the topology forwarder of persistence/tee.rs   *)
(* and the store writer of persistence/writer.rs).  Items have no identity *)
(* here: the producer can go on for ever.                                  *)
(***************************************************************************)
EXTENDS Integers

CONSTANTS Cap,       \* capacity of the channel
          Counted    \* CancelDrain, or the try_recv loop

VARIABLES buffered,        \* items in the channel
          open,            \* a sender is alive
          tokenCancelled,  \* the token
          remaining,       \* CancelDrain.remaining, None: -1
          step,            \* "next", "forward" or "stopped"
          bufferedThen,    \* history: what was buffered when the task saw
                           \* the cancel, not seen yet: -1
          after            \* history: items taken since, up to Cap + 1

drainvars == <<buffered, open, tokenCancelled, remaining, step, bufferedThen,
               after>>

DrainInit ==
    /\ buffered = 0 /\ open = TRUE /\ tokenCancelled = FALSE
    /\ remaining = -1 /\ step = "next"
    /\ bufferedThen = -1 /\ after = 0

(* A send that finds room; one that finds none waits. *)
Send ==
    /\ open /\ step # "stopped" /\ buffered < Cap
    /\ buffered' = buffered + 1
    /\ UNCHANGED <<open, tokenCancelled, remaining, step, bufferedThen, after>>

DropSender ==
    /\ open /\ open' = FALSE
    /\ UNCHANGED <<buffered, tokenCancelled, remaining, step, bufferedThen, after>>

CancelToken ==
    /\ ~tokenCancelled /\ tokenCancelled' = TRUE
    /\ UNCHANGED <<buffered, open, remaining, step, bufferedThen, after>>

Taken == IF bufferedThen < 0 THEN 0 ELSE IF after <= Cap THEN after + 1 ELSE after

TakeItem ==
    /\ buffered' = buffered - 1
    /\ after' = Taken
    /\ step' = "forward"

Stop == step' = "stopped" /\ UNCHANGED <<buffered, after>>

(* select before the cancel: the next item, or None once closed and empty. *)
Receive ==
    /\ step = "next" /\ ~tokenCancelled /\ bufferedThen < 0
    /\ \/ buffered > 0 /\ TakeItem
       \/ buffered = 0 /\ ~open /\ Stop
    /\ UNCHANGED <<open, tokenCancelled, remaining, bufferedThen>>

(* The biased select sees the cancel; CancelDrain reads the length. *)
Observe ==
    /\ step = "next" /\ tokenCancelled /\ bufferedThen < 0
    /\ bufferedThen' = buffered
    /\ remaining' = IF Counted THEN buffered ELSE remaining
    /\ UNCHANGED <<buffered, open, tokenCancelled, step, after>>

(* One more item by try_recv, or the end: the count ran out (CancelDrain)  *)
(* or the channel is empty.                                                *)
DrainOne ==
    /\ step = "next" /\ bufferedThen >= 0
    /\ IF buffered = 0 \/ remaining = 0 THEN Stop ELSE TakeItem
    /\ remaining' = IF remaining > 0 THEN remaining - 1 ELSE remaining
    /\ UNCHANGED <<open, tokenCancelled, bufferedThen>>

(* The item is handed on; the task then asks for the next one. *)
HandOn ==
    /\ step = "forward" /\ step' = "next"
    /\ UNCHANGED <<buffered, open, tokenCancelled, remaining, bufferedThen, after>>

Task == Receive \/ Observe \/ DrainOne \/ HandOn

DrainNext == Send \/ DropSender \/ CancelToken \/ Task

DrainSpec == DrainInit /\ [][DrainNext]_drainvars

(* The scheduler polls the task, and a live producer keeps producing. *)
FairDrainSpec == DrainSpec /\ WF_drainvars(Task) /\ WF_drainvars(Send)

-----------------------------------------------------------------------------
(***************************************************************************)
(* After the cancel was seen the task hands on no more than was buffered   *)
(* then, "whatever the senders send after the cancel" (drain.rs).          *)
(***************************************************************************)
YieldsOnlyBuffered == bufferedThen >= 0 => after <= bufferedThen

(***************************************************************************)
(* A cancelled forwarder stops although its producer keeps sending (tee.rs *)
(* and writer.rs: drains what is buffered, "then stops").                  *)
(***************************************************************************)
DrainStops == tokenCancelled ~> step = "stopped"
=============================================================================
