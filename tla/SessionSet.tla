----------------------------- MODULE SessionSet -----------------------------
(***************************************************************************)
(* The multi-account console: N bot sessions in one process                *)
(* (crates/console/src/{session,sessions,app,lib}.rs).                     *)
(*                                                                         *)
(* Three kinds of threads share a session's atomics and slots:             *)
(*   - the render thread owns the SessionSet; one frame handles any number *)
(*     of keys, then drive_restarts: note_exits, advance_watchers, the     *)
(*     live count, and the two reads of the exit condition;                *)
(*   - a supervisor task per spawned bot publishes the abort handle, waits *)
(*     for the bot and writes back how it ended, in separate steps;        *)
(*   - the main thread launches the first bots, after the render thread is *)
(*     already running, then waits for all_done.                           *)
(* A run of a bot is named by the session and the generation that spawned  *)
(* it.  What a bot does is left to BotEnd and BotTakesCommand.  Every      *)
(* session has a template: start-up and add_profile always set one, so the *)
(* branches for a missing template are never taken.                        *)
(***************************************************************************)
EXTENDS RestartWatcher, FiniteSets

CONSTANTS
    Sessions,     \* every profile that is or can be attached
    Attached,     \* the profiles given at start-up
    Autostart,    \* those will_autostart selects
    Keyed,        \* profiles with a usable password at start-up
    AutoRestart,  \* the restart policy of the attached sessions is enabled
    BotOutcomes,  \* how runtime::run can return
    FrameGaps,    \* time from one frame to the next
    MaxGen,       \* bound: respawns of one session
    Cap           \* CMD_CHANNEL_CAP

ASSUME SessionAssumption ==
    /\ IsFiniteSet(Sessions)
    /\ Autostart \subseteq Attached /\ Attached \subseteq Sessions
    /\ Keyed \subseteq Sessions
    /\ AutoRestart \in BOOLEAN
    /\ BotOutcomes \subseteq RunOutcome /\ "Quit" \in BotOutcomes
    /\ FrameGaps \subseteq Nat
    /\ MaxGen \in Nat /\ Cap \in Nat \ {0}

VARIABLES
    ses,        \* the BotSession objects
    task,       \* task[s][g]: the g-th run of s, its supervisor and its mailbox
    present,    \* the sessions in the SessionSet
    keyed,      \* the sessions with a password in the template or the store
    launching,  \* attached sessions the main thread has not reached yet
    ui,         \* where the render thread is in its frame
    keepalive,  \* RestartCtx.keepalive (= App.last_live)
    allDone,    \* RestartCtx.all_done
    main,       \* the main thread: "wait" in its loop, or "left" it
    lastEnd,    \* history: how the latest bot of a session ended
    autoRuns,   \* history: automatic restarts since the user last intervened
    raced       \* history: sessions launched under a console that had judged them idle

vars == <<ses, task, present, keyed, launching, ui, keepalive, allDone, main,
          lastEnd, autoRuns, raced>>
exitVars == <<keepalive, allDone, main>>
history == <<lastEnd, autoRuns, raced>>

-----------------------------------------------------------------------------
Gens == 0..MaxGen
NoHandle == -1
BotEnds == BotOutcomes \cup {"Panic", "Abort"}
Command == {"cmd", "quit"}

(* pc: the supervisor; bot: "absent" without a receiver, "parked" when the  *)
(* receiver waits for a bot, then the bot, then how it ended.               *)
Task == [pc : {"none", "spawned", "launched", "watching", "noted", "written"},
         bot : {"absent", "parked", "on", "aborting"} \cup BotEnds,
         box : Seq(Command)]

NoTask == [pc |-> "none", bot |-> "absent", box |-> <<>>]
Parked == [pc |-> "none", bot |-> "parked", box |-> <<>>]
Spawned(box) == [pc |-> "spawned", bot |-> "parked", box |-> box]

Open(t) == t.bot \in {"parked", "on", "aborting"}
Ended(t) == t.bot \in BotEnds
Alive(t) == t.pc # "none" /\ Open(t)

Session == [stage : {"WIZARD", "RUNNING", "FINISHED"},
            outcome : RunOutcome \cup {"None"}, panicked : BOOLEAN,
            slot : Gens \cup {NoHandle}, chan : Gens, gen : Gens,
            manual : BOOLEAN, startFailed : BOOLEAN, stopping : BOOLEAN,
            watch : Watcher]

NewSession(restart) ==
    [stage |-> "WIZARD", outcome |-> "None", panicked |-> FALSE,
     slot |-> NoHandle, chan |-> 0, gen |-> 0,
     manual |-> FALSE, startFailed |-> FALSE, stopping |-> FALSE,
     watch |-> NewWatcher(restart)]

Running(x) == x.stage = "RUNNING"
Finished(x) == x.stage = "FINISHED"
ManuallyStopped(x) == x.manual \/ Manual(x.watch)

NeverStarted(x) == /\ x.stage = "WIZARD" /\ x.gen = 0
                   /\ ~ManuallyStopped(x) /\ ~x.startFailed
                   /\ x.watch.st = "Idle"

(* Slips: a failed start counts as alive; a stopped session as gone. *)
SettledSlip(x) == NeverStarted(x) \/ (Finished(x) /\ ~Waiting(x.watch))
SettledStopSlip(x) == NeverStarted(x) \/ x.startFailed \/ x.manual
                      \/ (Finished(x) /\ ~Waiting(x.watch))

Settled(x) == \/ NeverStarted(x)
              \/ x.startFailed
              \/ Finished(x) /\ ~Waiting(x.watch)

NeedsAttention(x) == WatcherNeedsAttention(x.watch) \/ x.outcome = "Failed"

(* Slip: no `stopping` latch. *)
StartRefusedSlip(x) == \/ x.gen > 0 /\ ~Finished(x)
                       \/ Running(x) /\ ~x.manual
                       \/ Waiting(x.watch)

(* prepare_start: when it refuses, and what it leaves otherwise.            *)
StartRefused(x) == \/ x.gen > 0 /\ ~Finished(x)
                   \/ Running(x) /\ ~x.manual
                   \/ x.stopping /\ ~Finished(x)
                   \/ Waiting(x.watch)

Prepared(x) == [x EXCEPT !.outcome = "None", !.watch = Resume(@), !.manual = FALSE,
                         !.startFailed = FALSE, !.stage = "WIZARD"]

(* The rollback of a start that could not spawn.                            *)
StartFailed(x) == [x EXCEPT !.manual = TRUE, !.watch = StopManualKeepAttempts(@),
                            !.startFailed = TRUE]

(* Slip: the flag without the watcher. *)
StoppedByUserSlip(x) == [x EXCEPT !.manual = TRUE, !.stopping = TRUE, !.outcome = "None"]

StoppedByUser(x) == [x EXCEPT !.manual = TRUE, !.stopping = TRUE, !.outcome = "None",
                              !.watch = StopManual(@)]

(* Slip: the panic flag of the previous run stays. *)
BeginRespawnSlip(x) == [x EXCEPT !.gen = @ + 1, !.slot = NoHandle, !.outcome = "None",
                                 !.stage = "WIZARD", !.watch = Rearm(@)]

BeginRespawn(x) == [x EXCEPT !.gen = @ + 1, !.panicked = FALSE, !.slot = NoHandle,
                             !.outcome = "None", !.stage = "WIZARD", !.watch = Rearm(@)]

(* spawn_one sets the stage itself; replace_cmd_tx follows it.              *)
Respawned(x) == LET y == BeginRespawn(x)
                IN  [y EXCEPT !.stage = "RUNNING", !.chan = y.gen]

-----------------------------------------------------------------------------
Init ==
    /\ ses = [s \in Sessions |-> NewSession(AutoRestart /\ s \in Attached)]
    /\ task = [s \in Sessions |-> [g \in Gens |->
                  IF s \in Attached /\ g = 0 THEN Parked ELSE NoTask]]
    /\ present = Attached
    /\ keyed = Keyed
    /\ launching = Attached
    /\ ui = "keys"
    /\ keepalive = Cardinality(Autostart)
    /\ allDone = FALSE /\ main = "wait"
    /\ lastEnd = [s \in Sessions |-> "None"]
    /\ autoRuns = [s \in Sessions |-> 0]
    /\ raced = {}

(* The main thread reaches s: it spawns the first run, or drops a receiver  *)
(* nobody will read.  It looks at nothing the render thread may have done.  *)
Launch(s) ==
    /\ s \in launching
    /\ launching' = launching \ {s}
    /\ IF s \in Autostart
       THEN /\ ses' = [ses EXCEPT ![s].stage = "RUNNING"]
            /\ task' = [task EXCEPT ![s][0] = Spawned(@.box)]
            /\ raced' = IF s \in present /\ NeverStarted(ses[s]) /\ ui # "never"
                        THEN raced ELSE raced \cup {s}
       ELSE /\ task' = [task EXCEPT ![s][0] = NoTask]
            /\ UNCHANGED <<ses, raced>>
    /\ UNCHANGED <<present, keyed, ui, exitVars, lastEnd, autoRuns>>

MainLeave ==
    /\ main = "wait" /\ launching = {}
    /\ allDone /\ keepalive = 0
    /\ main' = "left"
    /\ UNCHANGED <<ses, task, present, keyed, launching, ui, keepalive, allDone, history>>

-----------------------------------------------------------------------------
(* Keys.                                                                    *)

(* begin_respawn, spawn_one and replace_cmd_tx, from the session y.         *)
Spawn(s, y) ==
    /\ y.gen < MaxGen
    /\ ses' = [ses EXCEPT ![s] = [Respawned(y) EXCEPT !.stopping = FALSE]]
    /\ task' = [task EXCEPT ![s][y.gen + 1] = Spawned(<<>>)]

Start(s, hasKey) ==
    LET y == Prepared(ses[s])
    IN  /\ ~StartRefused(ses[s])
        /\ IF hasKey
           THEN Spawn(s, y)
           ELSE ses' = [ses EXCEPT ![s] = StartFailed(y)] /\ UNCHANGED task
        /\ autoRuns' = IF Manual(ses[s].watch) THEN [autoRuns EXCEPT ![s] = 0] ELSE autoRuns
        /\ UNCHANGED <<lastEnd, raced>>

UserStart(s) ==
    /\ ui = "keys" /\ s \in present
    /\ Start(s, s \in keyed)
    /\ UNCHANGED <<present, keyed, launching, ui, exitVars>>

(* The login wizard: the password goes to the store and the template, then  *)
(* the session is started.                                                  *)
WizardSubmit(s) ==
    /\ ui = "keys" /\ s \in present \ keyed
    /\ keyed' = keyed \cup {s}
    /\ \/ Start(s, TRUE)
       \/ StartRefused(ses[s]) /\ UNCHANGED <<ses, task, history>>
    /\ UNCHANGED <<present, launching, ui, exitVars>>

CanSend(s) == LET t == task[s][ses[s].chan] IN Open(t) /\ Len(t.box) < Cap

Delivered(s, m) == [task EXCEPT ![s][ses[s].chan].box = Append(@, m)]

Aborted(s) ==
    LET g == ses[s].slot
    IN  IF task[s][g].bot = "on" THEN [task EXCEPT ![s][g].bot = "aborting"] ELSE task

UserStop(s) ==
    /\ ui = "keys" /\ s \in present
    /\ ~NeverStarted(ses[s])
    /\ ses' = [ses EXCEPT ![s] = StoppedByUser(@)]
    /\ task' = IF ses[s].slot = NoHandle THEN task
               ELSE IF CanSend(s) THEN Delivered(s, "quit")
               ELSE Aborted(s)
    /\ autoRuns' = [autoRuns EXCEPT ![s] = 0]
    /\ UNCHANGED <<present, keyed, launching, ui, exitVars, lastEnd, raced>>

(* F3: forget the attempts; a session that is over is also run again, at    *)
(* once and with no question about passwords.                               *)
ManualRestart(s) ==
    LET y == [ses[s] EXCEPT !.watch = Reset(@)]
    IN  /\ ui = "keys" /\ s \in present
        /\ IF Finished(y)
           THEN /\ y.gen < MaxGen
                /\ ses' = [ses EXCEPT ![s] = Respawned(y)]
                /\ task' = [task EXCEPT ![s][y.gen + 1] = Spawned(<<>>)]
           ELSE ses' = [ses EXCEPT ![s] = y] /\ UNCHANGED task
        /\ autoRuns' = IF Manual(ses[s].watch) THEN autoRuns ELSE [autoRuns EXCEPT ![s] = 0]
        /\ UNCHANGED <<present, keyed, launching, ui, exitVars, lastEnd, raced>>

UserSend(s, m) ==
    /\ ui = "keys" /\ s \in present
    /\ CanSend(s)
    /\ task' = Delivered(s, m)
    /\ UNCHANGED <<ses, present, keyed, launching, ui, exitVars, history>>

AddProfile(s) ==
    /\ ui = "keys"
    /\ s \in Sessions \ (Attached \cup present)
    /\ present' = present \cup {s}
    /\ ses' = [ses EXCEPT ![s] = NewSession(FALSE)]
    /\ task' = [task EXCEPT ![s] = [g \in Gens |-> IF g = 0 THEN Parked ELSE NoTask]]
    /\ autoRuns' = [autoRuns EXCEPT ![s] = 0]
    /\ UNCHANGED <<keyed, launching, ui, exitVars, lastEnd, raced>>

RemoveProfile(s) ==
    /\ ui = "keys" /\ s \in present
    /\ Settled(ses[s])
    /\ present' = present \ {s}
    /\ task' = IF s \in Attached THEN task ELSE [task EXCEPT ![s][0] = NoTask]
    /\ UNCHANGED <<ses, keyed, launching, ui, exitVars, history>>

-----------------------------------------------------------------------------
(* drive_restarts, once per frame.                                          *)

NoteExits(d) ==
    /\ ui = "keys" /\ ui' = "advance"
    /\ ses' = [s \in Sessions |->
          LET x == ses[s]
              w == Elapse(x.watch, d)
          IN  IF s \notin present THEN x
              ELSE [x EXCEPT !.watch = IF Finished(x) THEN OnExit(w, x.outcome, x.panicked)
                                       ELSE w]]
    /\ UNCHANGED <<task, present, keyed, launching, exitVars, history>>

Ready == {s \in present : Due(ses[s].watch) /\ ses[s].gen < MaxGen}

AdvanceWatchers ==
    /\ ui = "advance" /\ ui' = "count"
    /\ ses' = [s \in Sessions |->
          IF s \in Ready THEN Respawned([ses[s] EXCEPT !.watch = PollReady(@)])
          ELSE ses[s]]
    /\ task' = [s \in Sessions |-> [g \in Gens |->
          IF s \in Ready /\ g = ses[s].gen + 1 THEN Spawned(<<>>)
          ELSE task[s][g]]]
    /\ autoRuns' = [s \in Sessions |->
          IF s \in Ready THEN autoRuns[s] + 1 ELSE autoRuns[s]]
    /\ UNCHANGED <<present, keyed, launching, exitVars, lastEnd, raced>>

LiveCount == Cardinality({s \in present : ~Settled(ses[s])})

CountLive ==
    /\ ui = "count" /\ ui' = "stopped"
    /\ keepalive' = LiveCount
    /\ UNCHANGED <<ses, task, present, keyed, launching, allDone, main, history>>

(* all_stopped and has_never_started read the stages anew, one after the    *)
(* other.                                                                   *)
AllStopped == present # {} /\ LiveCount = 0
HasNeverStarted == \E s \in present : NeverStarted(ses[s])

CheckStopped ==
    /\ ui = "stopped"
    /\ ui' = IF AllStopped THEN "never" ELSE "keys"
    /\ UNCHANGED <<ses, task, present, keyed, launching, exitVars, history>>

(* Slip: a session nobody has started yet does not hold the program. *)
CheckNeverStartedSlip ==
    /\ ui = "never" /\ ui' = "keys"
    /\ allDone' = TRUE
    /\ UNCHANGED <<ses, task, present, keyed, launching, keepalive, main, history>>

CheckNeverStarted ==
    /\ ui = "never" /\ ui' = "keys"
    /\ allDone' = (allDone \/ ~HasNeverStarted)
    /\ UNCHANGED <<ses, task, present, keyed, launching, keepalive, main, history>>

Frame == \/ \E d \in FrameGaps : NoteExits(d)
         \/ AdvanceWatchers \/ CountLive \/ CheckStopped \/ CheckNeverStarted

-----------------------------------------------------------------------------
(* The supervisor of run g of s.                                            *)
StepTask(s, g, from, t) ==
    /\ task[s][g].pc = from
    /\ task' = [task EXCEPT ![s][g] = t]
    /\ UNCHANGED <<present, keyed, launching, ui, exitVars, autoRuns, raced>>

SupLaunch(s, g) ==
    /\ StepTask(s, g, "spawned", [task[s][g] EXCEPT !.pc = "launched", !.bot = "on"])
    /\ UNCHANGED <<ses, lastEnd>>

SupPublish(s, g) ==
    /\ StepTask(s, g, "launched", [task[s][g] EXCEPT !.pc = "watching"])
    /\ ses' = [ses EXCEPT ![s].slot = g]
    /\ UNCHANGED lastEnd

(* Slips: FINISHED before the outcome; a panic taken for a plain end. *)
SupNoteEarlySlip(s, g) ==
    /\ Ended(task[s][g])
    /\ StepTask(s, g, "watching", [task[s][g] EXCEPT !.pc = "noted"])
    /\ ses' = [ses EXCEPT ![s].panicked = @ \/ task[s][g].bot = "Panic",
                          ![s].stage = "FINISHED"]
    /\ UNCHANGED lastEnd

SupNotePanicSlip(s, g) ==
    /\ Ended(task[s][g])
    /\ StepTask(s, g, "watching", [task[s][g] EXCEPT !.pc = "noted"])
    /\ UNCHANGED <<ses, lastEnd>>

SupNote(s, g) ==
    /\ Ended(task[s][g])
    /\ StepTask(s, g, "watching", [task[s][g] EXCEPT !.pc = "noted"])
    /\ ses' = [ses EXCEPT ![s].panicked = @ \/ task[s][g].bot = "Panic"]
    /\ UNCHANGED lastEnd

SupWrite(s, g) ==
    LET end == task[s][g].bot
    IN  /\ StepTask(s, g, "noted", [task[s][g] EXCEPT !.pc = "written"])
        /\ ses' = [ses EXCEPT ![s].outcome = IF end \in BotOutcomes THEN end ELSE "Quit"]
        /\ UNCHANGED lastEnd

SupFinish(s, g) ==
    /\ StepTask(s, g, "written", NoTask)
    /\ ses' = [ses EXCEPT ![s].stage = "FINISHED"]
    /\ UNCHANGED lastEnd

Supervisor(s, g) == \/ SupLaunch(s, g) \/ SupPublish(s, g) \/ SupNote(s, g)
                    \/ SupWrite(s, g) \/ SupFinish(s, g)

-----------------------------------------------------------------------------
(* The bot of run g of s, seen from outside.                                *)
End(s, g, how) ==
    /\ task' = [task EXCEPT ![s][g] = [@ EXCEPT !.bot = how, !.box = <<>>]]
    /\ lastEnd' = [lastEnd EXCEPT ![s] = how]
    /\ UNCHANGED <<ses, present, keyed, launching, ui, exitVars, autoRuns, raced>>

(* It returns by itself, or panics; a panic only while a restart fits MaxGen. *)
BotEnd(s, g, how) ==
    /\ task[s][g].bot \in {"on", "aborting"}
    /\ how = "Panic" => ses[s].gen < MaxGen
    /\ End(s, g, how)

(* Slip: a handler swallows the quit. *)
BotTakesCommandSlip(s, g) ==
    /\ task[s][g].bot = "on" /\ task[s][g].box # <<>>
    /\ task' = [task EXCEPT ![s][g].box = Tail(@)]
    /\ UNCHANGED <<ses, present, keyed, launching, ui, exitVars, history>>

BotTakesCommand(s, g) ==
    /\ task[s][g].bot = "on" /\ task[s][g].box # <<>>
    /\ IF Head(task[s][g].box) = "quit"
       THEN End(s, g, "Quit")
       ELSE /\ task' = [task EXCEPT ![s][g].box = Tail(@)]
            /\ UNCHANGED <<ses, present, keyed, launching, ui, exitVars, history>>

BotCancelled(s, g) == task[s][g].bot = "aborting" /\ End(s, g, "Abort")

-----------------------------------------------------------------------------
User(s) == \/ UserStart(s) \/ WizardSubmit(s) \/ UserStop(s) \/ ManualRestart(s)
           \/ \E m \in Command : UserSend(s, m)
           \/ AddProfile(s) \/ RemoveProfile(s)

Bot(s, g) == \/ \E how \in (BotOutcomes \ {"Quit"}) \cup {"Panic"} : BotEnd(s, g, how)
             \/ BotTakesCommand(s, g)
             \/ BotCancelled(s, g)

Next == \/ \E s \in Sessions : Launch(s) \/ User(s)
        \/ \E s \in Sessions, g \in Gens : Supervisor(s, g) \/ Bot(s, g)
        \/ Frame \/ MainLeave

Spec == Init /\ [][Next]_vars

(* Threads run and the tokio runtime polls what is ready; users and the     *)
(* world owe nothing.                                                       *)
Fairness ==
    /\ WF_vars(Frame) /\ WF_vars(MainLeave)
    /\ \A s \in Sessions : WF_vars(Launch(s))
    /\ \A s \in Sessions, g \in Gens :
          /\ WF_vars(Supervisor(s, g))
          /\ WF_vars(BotTakesCommand(s, g))
          /\ WF_vars(BotCancelled(s, g))

FairSpec == Spec /\ Fairness
-----------------------------------------------------------------------------
(* Properties.  Those about bots leave out the sessions in `raced`: for     *)
(* them they do not hold, and TwoLoginsNever shows it.                      *)

(* The stages, slots, watchers and mailboxes hold what their Rust types and *)
(* the bounds allow, and the history agrees.                                *)
TypeOK ==
    /\ ses \in [Sessions -> Session]
    /\ task \in [Sessions -> [Gens -> Task]]
    /\ present \subseteq Sessions /\ keyed \subseteq Sessions
    /\ launching \subseteq Attached
    /\ ui \in {"keys", "advance", "count", "stopped", "never"}
    /\ keepalive \in Nat /\ allDone \in BOOLEAN /\ main \in {"wait", "left"}
    /\ lastEnd \in [Sessions -> BotEnds \cup {"None"}]
    /\ autoRuns \in [Sessions -> Nat]
    /\ raced \subseteq Sessions

(* An account is never logged in twice: whatever start, stop, F3 and the    *)
(* watcher do, two runs of one session are never alive together             *)
(* (prepare_start's guards, the FINISHED stage the supervisor sets last).   *)
AtMostOneBot ==
    \A s \in Sessions \ raced : \A g, h \in Gens :
        Alive(task[s][g]) /\ Alive(task[s][h]) => g = h

(* Removing a profile leaves no orphan bot behind (remove_profile only lets *)
(* a settled session go).                                                   *)
RemovedHasNoBot ==
    \A s \in Sessions \ (present \cup raced) : \A g \in Gens : ~Alive(task[s][g])

(* Whoever sees FINISHED can read how the bot ended, unless the user's stop *)
(* erased it on purpose (write_back's order against prepare_start and       *)
(* begin_respawn clearing the slot).                                        *)
OutcomeReadable ==
    \A s \in Sessions \ raced :
        Finished(ses[s]) /\ ~ses[s].manual => ses[s].outcome # "None"

(* Between two interventions of the user a session is restarted at most     *)
(* MaxAttempts times, however its runs end (Watcher.attempts survives the   *)
(* restarts it counts).                                                     *)
RestartBudget == \A s \in Sessions : autoRuns[s] <= MaxAttempts

(* A session the user has stopped is not restarted until the user starts it *)
(* (mark_stopped_by_user before quit, on_exit's third guard, poll_ready).   *)
NoRestartAfterStop ==
    [][\A s \in Sessions : autoRuns'[s] > autoRuns[s] => ~ses[s].manual]_vars

(* Every automatic restart is due, and every failure gets one or an alarm:  *)
(* a restart is scheduled only for a bot that panicked (begin_respawn       *)
(* clears the flag of the run before, classify_join sets it) ...            *)
OnlyAfterCrash ==
    \A s \in Sessions \ raced :
        Waiting(ses'[s].watch) /\ ~Waiting(ses[s].watch) => lastEnd[s] = "Panic"
(* ... a scheduled one is carried out or cancelled, not replaced by the     *)
(* next, longer one (PENDING_WINDOW_STALE) ...                              *)
WindowKept ==
    \A s \in Sessions \ raced :
        Waiting(ses[s].watch) /\ Waiting(ses'[s].watch)
            => ses'[s].watch.attempts = ses[s].watch.attempts
(* ... and once a frame has noted that a session ended in a panic or a      *)
(* failed login, a restart is pending or its alarm is raised, unless the    *)
(* user stopped it (write_back, on_exit, needs_attention).                  *)
FailureShown ==
    ui = "keys" /\ ui' = "advance" =>
        \A s \in present \ raced :
            Finished(ses[s]) /\ ~ses[s].manual /\ lastEnd[s] \in {"Panic", "Failed"}
                => Waiting(ses'[s].watch) \/ NeedsAttention(ses'[s])
RestartsAreDue == [][OnlyAfterCrash /\ WindowKept /\ FailureShown]_vars

(* When all_done is raised, no session runs, waits for its restart or has   *)
(* yet to be started (all_stopped and has_never_started read apart).        *)
DoneMeansIdle ==
    [][~allDone /\ allDone' =>
          \A s \in present \ raced : /\ ~Running(ses[s])
                                     /\ ~Waiting(ses[s].watch)
                                     /\ ~NeverStarted(ses[s])]_vars

(* A bot that crashed with attempts left is run again, unless the user      *)
(* stops, restarts or removes the session first.                            *)
CrashIsRestarted ==
    \A s \in Sessions : \A g \in Gens :
        (/\ task[s][g].bot = "Panic" /\ ses[s].gen = g
         /\ ses[s].watch.enabled /\ ses[s].watch.attempts < MaxAttempts)
        ~> (ses[s].gen > g \/ ses[s].manual \/ s \notin present \/ s \in raced)

(* A quit in the mailbox of a run ends that run.                            *)
QuitEndsBot ==
    \A s \in Sessions : \A g \in Gens :
        (\E i \in 1..Len(task[s][g].box) : task[s][g].box[i] = "quit")
        ~> ~Alive(task[s][g])

(* Once no bot lives, none will come by itself and no session still awaits  *)
(* its first start, the main thread leaves its loop: no failed start, stop  *)
(* or removal keeps the program from ending.                                *)
NothingLeft ==
    /\ present # {} /\ launching = {}
    /\ \A s \in present : /\ \A g \in Gens : task[s][g].pc = "none"
                          /\ ~Waiting(ses[s].watch) /\ ~NeverStarted(ses[s])
QuietEndsProgram == <>[]NothingLeft => <>(main = "left")

-----------------------------------------------------------------------------
(* The console seen as a set of account slots.                              *)
Occupied == {s \in Sessions : \E g \in Gens : Alive(task[s][g])}
Barred == {s \in Sessions : ses[s].manual}

Slots == INSTANCE AccountSlot WITH Accounts <- Sessions, Budget <- MaxAttempts,
                                   occupied <- Occupied, barred <- Barred, spent <- autoRuns

(* While no launch has raced with a key, the console implements AccountSlot: *)
(* sessions, watchers, supervisors and keys together never log an account in *)
(* twice, restart it behind the user's back or beyond the budget.            *)
ImplementsAccountSlot == Slots!SlotSpec

-----------------------------------------------------------------------------
(* What comments of the code say and the code does not do.                  *)

(* AtMostOneBot for every session (start_session: no second spawn, "that    *)
(* would log the same account in twice").                                   *)
TwoLoginsNever ==
    \A s \in Sessions : \A g, h \in Gens :
        Alive(task[s][g]) /\ Alive(task[s][h]) => g = h
=============================================================================
