---------------------------- MODULE MCSessionSet ----------------------------
(* Small instances of SessionSet: the backoff table, the outcomes          *)
(* runtime::run has, and the gaps between the frames of a console that     *)
(* keeps drawing, whose frames never last PENDING_WINDOW_STALE.            *)
EXTENDS SessionInv

ShortBackoff == <<1, 2>>
SlowBackoff == <<2, 3>>
Returned == {"Quit", "DurationElapsed", "Failed"}
Steady == {1}
Uneven == {1, 2}

(* After a race the properties say nothing about the session. *)
NoRace == raced = {}
=============================================================================
