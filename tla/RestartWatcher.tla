--------------------------- MODULE RestartWatcher ---------------------------
(***************************************************************************)
(* The automatic-restart state machine of one console session              *)
(* (crates/console/src/watcher.rs), as operators on a watcher record.      *)
(* The code keeps a deadline and is handed the current time; the record    *)
(* keeps `left`, the time still to wait, which the owner of the record     *)
(* counts down (negative: overdue).                                        *)
(*                                                                         *)
(*   st        Idle | Waiting | GivenUp | Stopped                          *)
(*   left      Waiting: time to the deadline, else 0                       *)
(*   fired     Waiting: the window has been consumed by poll_ready         *)
(*   kind      Stopped: why, else "None"                                   *)
(*   attempts  restarts scheduled since the user last intervened           *)
(*   enabled   policy.enabled, base its value at construction              *)
(***************************************************************************)
EXTENDS Integers, Sequences

CONSTANTS
    MaxAttempts,   \* policy.max_attempts
    BackoffSteps,  \* policy.backoff_secs, in time units
    StaleAfter     \* PENDING_WINDOW_STALE, in time units

ASSUME WatcherAssumption ==
    /\ MaxAttempts \in Nat
    /\ BackoffSteps \in Seq(Nat)
    /\ StaleAfter \in Nat
    /\ \A i \in 1..Len(BackoffSteps) : BackoffSteps[i] < StaleAfter

RunOutcome == {"Quit", "ConnectionClosed", "DurationElapsed", "Failed", "ConnectFailed"}
ExitKind == {"Normal", "Panic", "AuthFailed", "Disconnected", "Manual"}

Watcher == [st : {"Idle", "Waiting", "GivenUp", "Stopped"}, left : Int, fired : BOOLEAN,
            kind : ExitKind \cup {"None"}, attempts : Nat, enabled : BOOLEAN, base : BOOLEAN]

NewWatcher(on) == [st |-> "Idle", left |-> 0, fired |-> FALSE, kind |-> "None",
                   attempts |-> 0, enabled |-> on, base |-> on]

KindOf(outcome) ==
    CASE outcome \in {"Quit", "DurationElapsed"} -> "Normal"
      [] outcome = "Failed" -> "AuthFailed"
      [] outcome \in {"ConnectFailed", "ConnectionClosed"} -> "Disconnected"

Restartable == {"Panic", "Disconnected"}

(* Past the end of the list the last entry applies; an empty list does not wait. *)
Backoff(attempt) ==
    IF Len(BackoffSteps) = 0 THEN 0
    ELSE IF attempt <= Len(BackoffSteps) THEN BackoffSteps[attempt]
    ELSE BackoffSteps[Len(BackoffSteps)]

Waiting(w) == w.st = "Waiting"
Manual(w) == w.st = "Stopped" /\ w.kind = "Manual"

(* A watcher that is not waiting, and the next window of one. *)
Enter(w, st, kind) ==
    [st |-> st, left |-> 0, fired |-> FALSE, kind |-> kind,
     attempts |-> w.attempts, enabled |-> w.enabled, base |-> w.base]

Schedule(w) ==
    [st |-> "Waiting", left |-> Backoff(w.attempts + 1), fired |-> FALSE, kind |-> "None",
     attempts |-> w.attempts + 1, enabled |-> w.enabled, base |-> w.base]

(* A pending window answers for the exit that opened it until it is stale,  *)
(* and a manual stop answers for every exit.                                *)
ExitIgnored(w) ==
    \/ Waiting(w) /\ ~w.fired /\ w.left > -StaleAfter
    \/ Manual(w)

OnExit(w, outcome, panicked) ==
    LET kind == IF panicked THEN "Panic" ELSE KindOf(outcome)
    IN  IF ExitIgnored(w) THEN w
        ELSE IF outcome = "None"
             THEN IF Waiting(w) /\ w.fired THEN Enter(w, "Idle", "None") ELSE w
        ELSE IF ~w.enabled \/ kind \notin Restartable THEN Enter(w, "Stopped", kind)
        ELSE IF w.attempts >= MaxAttempts THEN Enter(w, "GivenUp", "None")
        ELSE Schedule(w)

Due(w) == Waiting(w) /\ ~w.fired /\ w.left <= 0
PollReady(w) == [w EXCEPT !.fired = TRUE]

Reset(w) == IF Manual(w) THEN w ELSE [Enter(w, "Idle", "None") EXCEPT !.attempts = 0]

StopManualKeepAttempts(w) == [Enter(w, "Stopped", "Manual") EXCEPT !.enabled = FALSE]
StopManual(w) == [StopManualKeepAttempts(w) EXCEPT !.attempts = 0]

(* Everything is as in a new watcher again. *)
Resume(w) == IF Manual(w) THEN NewWatcher(w.base) ELSE w

(* Slip: a successful restart starts the backoff afresh. *)
RearmSlip(w) == IF Waiting(w) /\ w.fired THEN [Enter(w, "Idle", "None") EXCEPT !.attempts = 0]
                ELSE w

Rearm(w) == IF Waiting(w) /\ w.fired THEN Enter(w, "Idle", "None") ELSE w

WatcherNeedsAttention(w) ==
    \/ w.st = "GivenUp"
    \/ w.st = "Stopped" /\ w.kind \notin {"Normal", "Manual"}

(* `d` units of time pass. *)
Elapse(w, d) == IF Waiting(w) /\ ~w.fired THEN [w EXCEPT !.left = @ - d] ELSE w
=============================================================================
