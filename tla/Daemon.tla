-------------------------------- MODULE Daemon ------------------------------
(***************************************************************************)
(* The reference daemon (src/main.rs): run_until_stopped waits for ctrl-c  *)
(* or for the coalition service to stop, shuts the runtime down and reads  *)
(* how both tasks ended; join_loop offers the candidates to the service.   *)
(*                                                                         *)
(* The service is CoalitionService with one caller, reduced to what its    *)
(* handle shows: it takes a command, answers it, closes its channel on the *)
(* token or after a panic, and sets `panicked` before it answers.  Its     *)
(* policy is any policy: it may panic or cancel the service's token.       *)
(***************************************************************************)
EXTENDS Integers, Sequences

CONSTANT Candidates           \* how many agents join_loop offers

ASSUME CandidatesIsNat == Candidates \in Nat

VARIABLES
    signal,                   \* ctrl_c(): "pending", "ok", "failed"
    runtime_token,            \* the runtime's token is cancelled
    service_token,            \* and the service's
    service, closed, panicked,\* "select", "serving", "panicking", "end"
    command, reply,           \* the join loop's command and its answer
    loop, next,               \* join_loop: where; the next candidate
    main, signalled, failures \* run_until_stopped: where; its two locals

actor  == <<service, closed, panicked>>
joiner == <<loop, next>>
daemon == <<main, signalled, failures>>
tokens == <<runtime_token, service_token>>
daemonvars == <<signal, tokens, actor, command, reply, joiner, daemon>>

(* ServiceError::is_terminal.  LockPoisoned and TaskCancelled are terminal *)
(* too; here the manager is the service's own, and the panic that poisons  *)
(* its graph ends the service in the same command.                         *)
Terminal == {"gone", "cancelled", "panicked"}

DaemonInit ==
    /\ signal = "pending" /\ runtime_token = FALSE /\ service_token = FALSE
    /\ service = "select" /\ closed = FALSE /\ panicked = FALSE
    /\ command = "none" /\ reply = "none"
    /\ loop = "select" /\ next = 1
    /\ main = "select" /\ signalled = "none" /\ failures = <<>>

CtrlC(r) ==
    /\ signal = "pending" /\ signal' = r
    /\ UNCHANGED <<tokens, actor, command, reply, joiner, daemon>>

-----------------------------------------------------------------------------
(* The service's task (subsystems/coalition_actor.rs, service_loop). *)

(* refuse_queued: the channel closes, a queued command is answered. *)
Stop ==
    /\ service = "select" /\ service_token
    /\ service' = "end" /\ closed' = TRUE
    /\ reply' = IF command = "none" THEN reply ELSE "cancelled"
    /\ command' = "none"
    /\ UNCHANGED <<signal, tokens, panicked, joiner, daemon>>

Take ==
    /\ service = "select" /\ ~service_token /\ command # "none"
    /\ service' = "serving"
    /\ UNCHANGED <<signal, tokens, closed, panicked, command, reply,
                   joiner, daemon>>

(* The command's work ends; a policy may have cancelled the token. *)
Answer(r, cancels) ==
    /\ service = "serving" /\ service' = "select"
    /\ reply' = r /\ command' = "none"
    /\ service_token' = (service_token \/ cancels)
    /\ UNCHANGED <<signal, runtime_token, closed, panicked, joiner, daemon>>

(* serve: the flag is set before the caller is answered ... *)
WorkPanics ==
    /\ service = "serving" /\ command = "join"
    /\ service' = "panicking" /\ panicked' = TRUE
    /\ reply' = "panicked" /\ command' = "none"
    /\ UNCHANGED <<signal, tokens, closed, joiner, daemon>>

(* ... and the task ends after it, which drops the receiver. *)
PanicEnds ==
    /\ service = "panicking" /\ service' = "end" /\ closed' = TRUE
    /\ UNCHANGED <<signal, tokens, panicked, command, reply, joiner,
                   daemon>>

-----------------------------------------------------------------------------
(* join_loop. *)

Send(c) ==
    IF closed THEN reply' = "gone" /\ UNCHANGED command
              ELSE reply' = "none" /\ command' = c

Offer ==
    /\ loop = "select" /\ ~runtime_token /\ next <= Candidates
    /\ next' = next + 1
    /\ loop' = "join" /\ Send("join")
    /\ UNCHANGED <<signal, tokens, actor, daemon>>

(* offer, after the join: read the size, skip it, or stop. *)
JoinReturns ==
    /\ loop = "join" /\ reply # "none"
    /\ IF reply = "ok" THEN loop' = "members" /\ Send("members")
       ELSE /\ loop' = IF reply \in Terminal THEN "done" ELSE "select"
            /\ reply' = "none" /\ UNCHANGED command
    /\ UNCHANGED <<signal, tokens, actor, next, daemon>>

MembersReturn ==
    /\ loop = "members" /\ reply # "none"
    /\ loop' = IF reply \in Terminal THEN "done" ELSE "select"
    /\ reply' = "none"
    /\ UNCHANGED <<signal, tokens, actor, command, next, daemon>>

LoopCancelled ==
    /\ loop = "select" /\ runtime_token /\ loop' = "done"
    /\ UNCHANGED <<signal, tokens, actor, command, reply, next,
                   daemon>>

(* What run_until_stopped is given may also panic. *)
LoopPanics ==
    /\ loop = "select" /\ loop' = "failed"
    /\ UNCHANGED <<signal, tokens, actor, command, reply, next,
                   daemon>>

-----------------------------------------------------------------------------
(* run_until_stopped. *)

SelectSignal ==
    /\ main = "select" /\ signal # "pending"
    /\ signalled' = signal /\ main' = "shutdown"
    /\ UNCHANGED <<signal, tokens, actor, command, reply, joiner,
                   failures>>

(* mutant: only ctrl-c ends the wait. *)
SelectClosed_never == FALSE /\ UNCHANGED daemonvars

SelectClosed ==
    /\ main = "select" /\ closed
    /\ main' = "shutdown"
    /\ UNCHANGED <<signal, tokens, actor, command, reply, joiner,
                   signalled, failures>>

Shutdown ==
    /\ main = "shutdown" /\ main' = "wait"
    /\ runtime_token' = TRUE /\ service_token' = TRUE
    /\ UNCHANGED <<signal, actor, command, reply, joiner, signalled, failures>>

(* tracker.wait() and join_loop.await *)
Drained == service = "end" /\ loop \in {"done", "failed"}

(* mutant: a panic is looked for only when the service ended the wait. *)
Failures_whenClosed ==
    (IF signalled = "failed" THEN <<"signal">> ELSE <<>>)
    \o (IF panicked /\ signalled = "none" THEN <<"panicked">> ELSE <<>>)
    \o (IF loop = "failed" THEN <<"loop">> ELSE <<>>)
    \o (IF signalled = "none" THEN <<"stopped">> ELSE <<>>)

Failures ==
    (IF signalled = "failed" THEN <<"signal">> ELSE <<>>)
    \o (IF panicked THEN <<"panicked">> ELSE <<>>)
    \o (IF loop = "failed" THEN <<"loop">> ELSE <<>>)
    \o (IF signalled = "none" THEN <<"stopped">> ELSE <<>>)

Report ==
    /\ main = "wait" /\ Drained
    /\ failures' = Failures /\ main' = "exited"
    /\ UNCHANGED <<signal, tokens, actor, command, reply, joiner,
                   signalled>>

-----------------------------------------------------------------------------
(* Every task has ended: the process is gone. *)
Exited == main = "exited" /\ Drained /\ UNCHANGED daemonvars

ServiceStep ==
    \/ Stop \/ Take \/ WorkPanics \/ PanicEnds
    \/ \E r \in {"ok", "error"}, c \in BOOLEAN :
          (c => command = "join") /\ Answer(r, c)
LoopStep == Offer \/ JoinReturns \/ MembersReturn \/ LoopCancelled
MainStep == SelectSignal \/ SelectClosed \/ Shutdown \/ Report

DaemonNext ==
    \/ \E r \in {"ok", "failed"} : CtrlC(r)
    \/ ServiceStep \/ LoopStep \/ LoopPanics \/ MainStep \/ Exited

(* The runtime polls every task; the interval ticks.  Nobody has to press  *)
(* ctrl-c, and no policy has to panic: a command's work ends somehow.      *)
DaemonSpec == DaemonInit /\ [][DaemonNext]_daemonvars
             /\ WF_daemonvars(ServiceStep) /\ WF_daemonvars(LoopStep) /\ WF_daemonvars(MainStep)

-----------------------------------------------------------------------------
(* run_until_stopped's doc (main.rs:93-98): it returns Ok exactly when the *)
(* signal came first and neither task panicked, a panic of the service     *)
(* during the drain included, and otherwise the first error of its order.  *)
ExitReportsTheWorst ==
    main = "exited" =>
        /\ failures = <<>> <=> signalled = "ok" /\ ~panicked /\ loop = "done"
        /\ signalled = "failed" => Head(failures) = "signal"
        /\ panicked /\ signalled # "failed" => Head(failures) = "panicked"

(* ctrl-c, its failure, or a service that stopped by itself ends the       *)
(* process, wherever the join loop and the service then are.               *)
DaemonExits == (signal # "pending" \/ closed) ~> (main = "exited")
=============================================================================
