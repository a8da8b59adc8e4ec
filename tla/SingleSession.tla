--------------------------- MODULE SingleSession ---------------------------
(***************************************************************************)
(* The console with one bot and no session set (lib.rs): the main thread   *)
(* waits for the login wizard, starts the bot and waits for its end; the   *)
(* render thread draws, reads the keys and decides when to leave; the bot  *)
(* runs as a task.  They share the stage flag, the outcome, the channel    *)
(* of the wizard's results and the exit channel.                           *)
(***************************************************************************)
EXTENDS Naturals, Sequences

CONSTANTS MaxRuns,     \* bound: bots that are started
          MaxResults   \* bound: results in the wizard's channel
ASSUME SingleAssumption == MaxRuns \in Nat \ {0} /\ MaxResults \in Nat \ {0}

Stages == {"wizard", "running", "finished"}
Outcomes == {"none", "Failed", "Quit"}   \* "Quit": or the duration is over

VARIABLES
    main,     \* where the main thread is
    stage,    \* the flag all threads share
    outcome,  \* of the last run, for the render thread
    done,     \* of the last run, for the main thread
    task,      \* where the bot's task is, and how it ends
    results,  \* what the wizard sent
    app,      \* the render thread's own state, see Screen
    runs      \* bound

singleVars == <<main, stage, outcome, done, task, results, app, runs>>

Fields == <<"ip", "port", "account", "password", "key">>
Must == {"ip", "port", "account", "password"}
NoWizard == [open |-> FALSE, filled |-> {}, focus |-> "ip"]
App == [stage : Stages, wizard : [open : BOOLEAN, filled : SUBSET Must, focus : {Fields[i] : i \in 1..5}],
        saved : SUBSET Must, ctrlC : BOOLEAN, forced : BOOLEAN, left : BOOLEAN]

SingleTypeOK ==
    /\ main \in {"off", "wizard", "start", "store", "wait", "join", "over"}
    /\ stage \in Stages /\ outcome \in Outcomes /\ done \in Outcomes
    /\ task \in [at : {"none", "runs", "flag", "outcome", "done"}, ends : Outcomes]
    /\ results \in 0..MaxResults /\ app \in App /\ runs \in 0..MaxRuns

(* Wizard::new: what is known is filled in, and the first gap has the focus. *)
NewWizard(filled) ==
    [open |-> TRUE, filled |-> filled,
     focus |-> IF {"account", "password"} \cap filled = {} THEN "account"
               ELSE IF "password" \notin filled THEN "password" ELSE "ip"]

SingleInit ==
    /\ main = "off" /\ stage = "wizard" /\ outcome = "none" /\ done = "none" /\ results = 0 /\ runs = 0
    /\ task = [at |-> "none", ends |-> "none"]
    /\ app = [stage |-> "wizard", wizard |-> NoWizard, saved |-> {}, ctrlC |-> FALSE, forced |-> FALSE, left |-> FALSE]

(* The wizard opens only when account or password is missing.              *)
Open(given) ==
    /\ main = "off"
    /\ main' = (IF given = Must THEN "start" ELSE "wizard")
    /\ stage' = (IF given = Must THEN "running" ELSE "wizard")
    /\ app' = [app EXCEPT !.stage = stage', !.saved = given,
                          !.wizard = IF given = Must THEN NoWizard ELSE NewWizard(given)]
    /\ UNCHANGED <<outcome, done, task, results, runs>>

-----------------------------------------------------------------------------
(* The main thread.  `left` is the message of the exit channel.             *)
TakeResult ==
    /\ main = "wizard"
    /\ \/ app.left /\ main' = "over" /\ UNCHANGED <<results, app>>
       \/ /\ results > 0 /\ results' = results - 1
          /\ main' = "start" /\ app' = [app EXCEPT !.saved = Must]   \* saved for the next wizard
    /\ UNCHANGED <<stage, outcome, done, task, runs>>
Start ==
    /\ main = "start" /\ runs < MaxRuns /\ runs' = runs + 1
    /\ main' = "store" /\ done' = "none"
    /\ task' = [at |-> "runs", ends |-> "none"]
    /\ UNCHANGED <<stage, outcome, results, app>>
(* After the task was started: the task may be faster. *)
StoreRunning ==
    /\ main = "store" /\ main' = "wait" /\ stage' = "running"
    /\ UNCHANGED <<outcome, done, task, results, app, runs>>
(* A failed run brings the wizard back; the last run that the bound allows  *)
(* ends otherwise (see BotEnds).                                            *)
(* Slip: the flag is left as it is. *)
AfterRunSlip ==
    /\ main = "wait"
    /\ \/ app.left /\ main' = "over" /\ UNCHANGED stage
       \/ done = "Failed" /\ main' = "wizard" /\ UNCHANGED stage
       \/ done = "Quit" /\ main' = "join" /\ UNCHANGED stage
    /\ UNCHANGED <<outcome, done, task, results, app, runs>>
AfterRun ==
    /\ main = "wait"
    /\ \/ app.left /\ main' = "over" /\ UNCHANGED stage
       \/ done = "Failed" /\ main' = "wizard" /\ stage' = "wizard"
       \/ done = "Quit" /\ main' = "join" /\ UNCHANGED stage
    /\ UNCHANGED <<outcome, done, task, results, app, runs>>
(* The main thread waits for the render thread, then the process ends.      *)
Join == /\ main = "join" /\ app.left /\ main' = "over"
        /\ UNCHANGED <<stage, outcome, done, task, results, app, runs>>

-----------------------------------------------------------------------------
(* The task's task: the flag, the outcome, the message, in this order.  A    *)
(* run that is over before the flag says "running" has failed: nobody could *)
(* ask it to quit yet.                                                      *)
BotEnds ==
    /\ task.at = "runs"
    /\ \E o \in {"Failed", "Quit"} :
        /\ o = "Quit" => main = "wait"
        /\ o = "Failed" => runs < MaxRuns
        /\ task' = [task EXCEPT !.at = "flag", !.ends = o]
    /\ stage' = "finished" /\ UNCHANGED <<main, outcome, done, results, app, runs>>
BotTells ==
    /\ \/ task.at = "flag" /\ task' = [task EXCEPT !.at = "outcome"] /\ outcome' = task.ends /\ UNCHANGED done
       \/ task.at = "outcome" /\ task' = [task EXCEPT !.at = "done"] /\ done' = task.ends /\ UNCHANGED outcome
    /\ UNCHANGED <<main, stage, results, app, runs>>

-----------------------------------------------------------------------------
(* The render thread: leave, or read keys, or poll.                         *)
ShouldExit ==
    \/ app.forced
    \/ app.stage = "finished" /\ (outcome = "Quit" \/ app.ctrlC)
Leave == /\ ~app.left /\ ShouldExit /\ app' = [app EXCEPT !.left = TRUE]
         /\ UNCHANGED <<main, stage, outcome, done, task, results, runs>>

(* poll_events; the wizard is opened again with what was saved.             *)
PollEvents ==
    /\ ~app.left /\ ~ShouldExit
    /\ app' = LET a == [app EXCEPT !.stage = stage]
              IN  IF stage = "running" /\ app.stage # stage THEN [a EXCEPT !.wizard = NoWizard]
                  ELSE IF stage = "wizard" /\ ~app.wizard.open
                       THEN [a EXCEPT !.wizard = NewWizard(app.saved)] ELSE a
    /\ UNCHANGED <<main, stage, outcome, done, task, results, runs>>

(* The keys of the wizard: five fields in a ring; what is typed goes to the *)
(* one with the focus; Enter sends the form if nothing is missing, and may  *)
(* be pressed again before the flag has changed.                            *)
NextField(f, d) == LET i == CHOOSE i \in 1..5 : Fields[i] = f IN Fields[((i + d) % 5) + 1]
WizardKey ==
    /\ app.wizard.open /\ ~app.left /\ ~app.forced /\ app.stage = "wizard"
    /\ \/ \E d \in {0, 3} : app' = [app EXCEPT !.wizard.focus = NextField(@, d)] /\ UNCHANGED results
       \/ /\ app.wizard.focus \in Must /\ UNCHANGED results
          /\ \/ app' = [app EXCEPT !.wizard.filled = @ \cup {app.wizard.focus}]
             \/ app' = [app EXCEPT !.wizard.filled = @ \ {app.wizard.focus}]
       \/ /\ app.wizard.filled = Must /\ results < MaxResults
          /\ results' = results + 1 /\ UNCHANGED app
       \/ app' = [app EXCEPT !.forced = TRUE] /\ UNCHANGED results   \* Esc, Ctrl+C
    /\ UNCHANGED <<main, stage, outcome, done, task, runs>>

(* While the bot runs Ctrl+C asks it to quit, and the second one leaves;    *)
(* when it has finished, any leaves.                                        *)
CtrlC ==
    /\ ~app.left /\ ~app.forced /\ app.stage # "wizard"
    /\ \/ app' = [app EXCEPT !.ctrlC = TRUE]
       \/ app.stage = "running" /\ app.ctrlC /\ app' = [app EXCEPT !.forced = TRUE]
    /\ UNCHANGED <<main, stage, outcome, done, task, results, runs>>

Running == main \notin {"off", "over"}
SingleNext ==
    /\ Running
    /\ \/ TakeResult \/ Start \/ StoreRunning \/ AfterRun \/ Join \/ BotEnds \/ BotTells
       \/ Leave \/ PollEvents \/ WizardKey \/ CtrlC

-----------------------------------------------------------------------------
(* A run that was quit, or whose time is up, ends the program.              *)
QuitEndsProgram == task.at = "done" /\ task.ends = "Quit" ~> main = "over"

(* lib.rs:536: after a run that failed the wizard is on the screen again,   *)
(* unless the user leaves or has asked for the next run already.            *)
FailureBringsWizard ==
    task.at = "done" /\ task.ends = "Failed"
        ~> main = "over" \/ task.at = "runs" \/ (app.stage = "wizard" /\ app.wizard.open)
=============================================================================
