----------------------------- MODULE SessionInv -----------------------------
(* The inductive invariant of SessionSet, session by session. *)
EXTENDS SessionSet

(* Every session: the n restarts made are among those scheduled, a window   *)
(* still open has not been used, and a stop is known to the watcher.        *)
WatchOK(x, n) ==
    /\ n <= x.watch.attempts
    /\ x.watch.attempts <= MaxAttempts
    /\ Waiting(x.watch) => n < x.watch.attempts /\ ~x.watch.fired
    /\ x.manual => Manual(x.watch)

WatchInv == \A s \in Sessions : WatchOK(ses[s], autoRuns[s])

(* A session whose launch has not raced, with the runs t: only the current  *)
(* generation has a supervisor, and only while the stage is RUNNING; a      *)
(* first run that was stopped keeps the latch; a pending restart or a       *)
(* failed start excludes a running bot.                                     *)
RunOK(x, t, here) ==
    /\ \A g \in Gens : t[g].pc # "none" => g = x.gen /\ Running(x) /\ here
    /\ Running(x) /\ x.manual /\ x.gen = 0 => x.stopping
    /\ Waiting(x.watch) => Finished(x)
    /\ x.startFailed => x.stage = "WIZARD"

RunInv == \A s \in Sessions \ raced : RunOK(ses[s], task[s], s \in present)

IInv == TypeOK /\ WatchInv /\ RunInv

(* How a session's bots ended, with `end` the end of the latest one: the    *)
(* supervisor carries it from the bot to the session, one visible write     *)
(* after the other, and what is there belongs to the run that is current.   *)
Told(end) == IF end \in BotOutcomes THEN end ELSE "Quit"

EndOK(x, t, end) ==
    /\ \A g \in Gens :
         /\ t[g].pc \in {"none", "spawned"} => t[g].bot \in {"absent", "parked"}
         /\ t[g].pc \in {"spawned", "launched", "watching"} => ~x.panicked
         /\ t[g].pc \in {"noted", "written"} => Ended(t[g]) /\ (x.panicked <=> end = "Panic")
         /\ t[g].pc = "written" /\ ~x.manual => x.outcome = Told(end)
         /\ Ended(t[g]) => t[g].bot = end
         /\ t[g].bot = "Panic" => x.gen < MaxGen
    /\ Finished(x) => (x.panicked <=> end = "Panic")
    /\ Finished(x) /\ ~x.manual => x.outcome = Told(end)
    /\ x.outcome \in BotOutcomes \cup {"None"}
    /\ x.stage = "WIZARD" /\ x.panicked => x.startFailed
    /\ x.panicked => x.gen < MaxGen
    /\ Manual(x.watch) => x.manual

EndInv == \A s \in Sessions \ raced : EndOK(ses[s], task[s], lastEnd[s])

(* A restart that waits is carried out in the frame in which it is due.     *)
DueInv == \A s \in present \ raced :
              Waiting(ses[s].watch) => /\ ses[s].gen < MaxGen
                                       /\ ui = "advance" \/ ses[s].watch.left > 0

(* Between the two reads of the exit condition nothing starts.              *)
IdleInv == ui = "never" => \A s \in present \ raced : Settled(ses[s])

(* All of it: in a console that never freezes for as long as a window stays *)
(* valid, whose runs end as BotRun's do, these parts keep one another.      *)
ConsoleInv == IInv /\ EndInv /\ DueInv /\ IdleInv
=============================================================================
