-------------------------- MODULE SessionSetProofs --------------------------
(***************************************************************************)
(* SessionSet keeps IInv, for every set of sessions, restart policy and    *)
(* bound.  The argument goes session by session: an action touches one     *)
(* session (lemma OneSession) or, in a frame, each of them in the same     *)
(* way.                                                                    *)
(***************************************************************************)
EXTENDS SessionInv, FiniteSetTheorems, TLAPS

-----------------------------------------------------------------------------
(* What the operators of RestartWatcher return and preserve.                *)

LEMMA BackoffType == \A n \in Nat : n > 0 => Backoff(n) \in Nat
BY WatcherAssumption DEF Backoff

LEMMA KindType == \A o \in RunOutcome : KindOf(o) \in ExitKind
BY DEF KindOf, RunOutcome, ExitKind

LEMMA EnterType ==
    ASSUME NEW w \in Watcher, NEW st \in {"Idle", "Waiting", "GivenUp", "Stopped"},
           NEW kind \in ExitKind \cup {"None"}
    PROVE  /\ Enter(w, st, kind) \in Watcher
           /\ Enter(w, st, kind).st = st /\ Enter(w, st, kind).kind = kind
           /\ ~Enter(w, st, kind).fired
           /\ Enter(w, st, kind).attempts = w.attempts
BY DEF Enter, Watcher

LEMMA ScheduleType ==
    ASSUME NEW w \in Watcher
    PROVE  /\ Schedule(w) \in Watcher
           /\ Schedule(w).st = "Waiting" /\ ~Schedule(w).fired
           /\ Schedule(w).attempts = w.attempts + 1
<1>1. Backoff(w.attempts + 1) \in Nat
  BY BackoffType DEF Watcher
<1> QED BY <1>1 DEF Schedule, Watcher, ExitKind

(* What a finished session's watcher becomes: nothing but a schedule adds   *)
(* an attempt, a schedule stays within the limit, a manual stop is final.   *)
LEMMA OnExitType ==
    ASSUME NEW w \in Watcher, NEW o \in RunOutcome \cup {"None"}, NEW p \in BOOLEAN,
           w.attempts <= MaxAttempts,
           NEW v, v = OnExit(w, o, p)
    PROVE  /\ v \in Watcher
           /\ v.attempts <= MaxAttempts
           /\ \/ v = w
              \/ ~Waiting(v) /\ v.attempts = w.attempts
              \/ Waiting(v) /\ v.attempts = w.attempts + 1 /\ ~v.fired
           /\ Manual(w) => v = w
<1> DEFINE kind == IF p THEN "Panic" ELSE KindOf(o)
<1>1. CASE ExitIgnored(w)
  <2>1. v = w
    BY <1>1 DEF OnExit
  <2> QED BY <2>1
<1>2. CASE ~ExitIgnored(w) /\ o = "None"
  <2>1. v = w \/ v = Enter(w, "Idle", "None")
    BY <1>2 DEF OnExit
  <2>2. ~Manual(w)
    BY <1>2 DEF ExitIgnored
  <2>3. CASE v = w
    BY <2>2, <2>3
  <2>4. CASE v = Enter(w, "Idle", "None")
    BY <2>2, <2>4 DEF Enter, Waiting, Watcher, ExitKind
  <2> QED BY <2>1, <2>3, <2>4
<1>3. CASE ~ExitIgnored(w) /\ o # "None"
  <2>1. kind \in ExitKind
    BY <1>3, KindType DEF ExitKind
  <2> HIDE DEF kind
  <2>2. \/ v = Enter(w, "Stopped", kind)
        \/ v = Enter(w, "GivenUp", "None")
        \/ v = Schedule(w) /\ ~(w.attempts >= MaxAttempts)
    BY <1>3 DEF OnExit, kind
  <2>3. ~Manual(w)
    BY <1>3 DEF ExitIgnored
  <2>4. CASE v = Enter(w, "Stopped", kind)
    BY <2>1, <2>3, <2>4 DEF Enter, Waiting, Watcher, ExitKind
  <2>5. CASE v = Enter(w, "GivenUp", "None")
    BY <2>3, <2>5 DEF Enter, Waiting, Watcher, ExitKind
  <2>6. CASE v = Schedule(w) /\ ~(w.attempts >= MaxAttempts)
    <3>1. w.attempts \in Nat /\ MaxAttempts \in Nat
      BY WatcherAssumption DEF Watcher
    <3> QED BY <2>3, <2>6, <3>1, ScheduleType DEF Waiting
  <2> QED BY <2>2, <2>4, <2>5, <2>6
<1> QED BY <1>1, <1>2, <1>3

LEMMA ElapseType ==
    ASSUME NEW w \in Watcher, NEW d \in Nat
    PROVE  /\ Elapse(w, d) \in Watcher
           /\ Elapse(w, d).st = w.st /\ Elapse(w, d).kind = w.kind
           /\ Elapse(w, d).fired = w.fired /\ Elapse(w, d).attempts = w.attempts
BY DEF Elapse, Watcher

(* The user's operations and the restart itself.                            *)
LEMMA AmendType ==
    ASSUME NEW w \in Watcher, NEW on \in BOOLEAN
    PROVE  /\ [w EXCEPT !.attempts = 0] \in Watcher
           /\ [w EXCEPT !.attempts = 0].st = w.st /\ [w EXCEPT !.attempts = 0].kind = w.kind
           /\ [w EXCEPT !.attempts = 0].attempts = 0
           /\ [w EXCEPT !.enabled = on] \in Watcher
           /\ [w EXCEPT !.enabled = on].st = w.st /\ [w EXCEPT !.enabled = on].kind = w.kind
           /\ [w EXCEPT !.enabled = on].attempts = w.attempts
           /\ [w EXCEPT !.attempts = 0, !.enabled = on] \in Watcher
           /\ [w EXCEPT !.attempts = 0, !.enabled = on].st = w.st
           /\ [w EXCEPT !.attempts = 0, !.enabled = on].attempts = 0
BY DEF Watcher

LEMMA ResetType ==
    ASSUME NEW w \in Watcher
    PROVE  /\ Reset(w) \in Watcher /\ ~Waiting(Reset(w))
           /\ Manual(w) => Reset(w) = w
           /\ ~Manual(w) => Reset(w).attempts = 0
<1> DEFINE e == Enter(w, "Idle", "None")
<1>1. e \in Watcher /\ e.st = "Idle"
  BY EnterType
<1> HIDE DEF e
<1>2. CASE Manual(w)
  BY <1>2 DEF Reset, Manual, Waiting
<1>3. CASE ~Manual(w)
  <2>1. Reset(w) = [e EXCEPT !.attempts = 0]
    BY <1>3 DEF Reset, e
  <2> QED BY <1>1, <1>3, <2>1, AmendType DEF Waiting
<1> QED BY <1>2, <1>3

LEMMA StopTypes ==
    ASSUME NEW w \in Watcher
    PROVE  /\ StopManualKeepAttempts(w) \in Watcher /\ Manual(StopManualKeepAttempts(w))
           /\ StopManualKeepAttempts(w).attempts = w.attempts
           /\ StopManual(w) \in Watcher /\ Manual(StopManual(w)) /\ StopManual(w).attempts = 0
<1> DEFINE e == Enter(w, "Stopped", "Manual")
           k == StopManualKeepAttempts(w)
<1>1. e \in Watcher /\ e.st = "Stopped" /\ e.kind = "Manual" /\ e.attempts = w.attempts
  BY EnterType DEF ExitKind
<1>2. k = [e EXCEPT !.enabled = FALSE]
  BY DEF StopManualKeepAttempts
<1> HIDE DEF e
<1>3. k \in Watcher /\ k.st = "Stopped" /\ k.kind = "Manual" /\ k.attempts = w.attempts
  BY <1>1, <1>2, AmendType
<1>4. StopManual(w) = [k EXCEPT !.attempts = 0]
  BY DEF StopManual
<1> HIDE DEF k
<1>5. /\ StopManual(w) \in Watcher /\ StopManual(w).st = "Stopped"
      /\ StopManual(w).kind = "Manual" /\ StopManual(w).attempts = 0
  BY <1>3, <1>4, AmendType
<1> QED BY <1>3, <1>5 DEF k, Manual

LEMMA ResumeType ==
    ASSUME NEW w \in Watcher
    PROVE  /\ Resume(w) \in Watcher
           /\ Manual(w) => Resume(w).attempts = 0 /\ ~Waiting(Resume(w))
           /\ ~Manual(w) => Resume(w) = w
<1>1. CASE Manual(w)
  <2>1. Resume(w) = NewWatcher(w.base)
    BY <1>1 DEF Resume
  <2> QED BY <1>1, <2>1 DEF NewWatcher, Watcher, Waiting, ExitKind
<1>2. CASE ~Manual(w)
  BY <1>2 DEF Resume
<1> QED BY <1>1, <1>2

LEMMA RearmType ==
    ASSUME NEW w \in Watcher
    PROVE  /\ Rearm(w) \in Watcher /\ Rearm(w).attempts = w.attempts
           /\ ~Waiting(w) => Rearm(w) = w
BY DEF Rearm, Enter, Watcher, Waiting, ExitKind

(* A due window is used up by the restart it was opened for.                *)
LEMMA FireType ==
    ASSUME NEW w \in Watcher, Waiting(w)
    PROVE  LET v == Rearm(PollReady(w))
           IN  v \in Watcher /\ v.st = "Idle" /\ v.attempts = w.attempts
<1>1. /\ PollReady(w) \in Watcher /\ Waiting(PollReady(w)) /\ PollReady(w).fired
      /\ PollReady(w).attempts = w.attempts
  BY DEF PollReady, Watcher, Waiting
<1> QED BY <1>1, EnterType DEF Rearm, ExitKind

-----------------------------------------------------------------------------
(* Operators on one session.                                               *)

LEMMA NewSessionType ==
    ASSUME NEW on \in BOOLEAN
    PROVE  /\ NewSession(on) \in Session
           /\ WatchOK(NewSession(on), 0)
           /\ NewSession(on).stage = "WIZARD" /\ ~NewSession(on).manual
           /\ ~NewSession(on).startFailed /\ ~Waiting(NewSession(on).watch)
<1>1. NewWatcher(on) \in Watcher
  BY DEF NewWatcher, Watcher, ExitKind
<1>2. NewSession(on) \in Session
  BY <1>1, SessionAssumption DEF NewSession, Session, Gens, NoHandle
<1>3. NewSession(on).watch = NewWatcher(on) /\ NewSession(on).stage = "WIZARD"
      /\ ~NewSession(on).manual /\ ~NewSession(on).startFailed
  BY DEF NewSession
<1>4. ~Waiting(NewWatcher(on)) /\ NewWatcher(on).attempts = 0
  BY DEF NewWatcher, Waiting
<1> QED BY <1>2, <1>3, <1>4, WatcherAssumption DEF WatchOK

LEMMA PreparedType ==
    ASSUME NEW x \in Session
    PROVE  /\ Prepared(x) \in Session
           /\ Prepared(x).watch = Resume(x.watch) /\ Prepared(x).stage = "WIZARD"
           /\ ~Prepared(x).manual /\ ~Prepared(x).startFailed
           /\ Prepared(x).gen = x.gen
<1>1. x.watch \in Watcher /\ Resume(x.watch) \in Watcher
  BY ResumeType DEF Session
<1> QED BY <1>1 DEF Prepared, Session

LEMMA StartFailedType ==
    ASSUME NEW x \in Session
    PROVE  /\ StartFailed(x) \in Session
           /\ StartFailed(x).watch = StopManualKeepAttempts(x.watch)
           /\ StartFailed(x).stage = x.stage
<1>1. x.watch \in Watcher /\ StopManualKeepAttempts(x.watch) \in Watcher
  BY StopTypes DEF Session
<1> QED BY <1>1 DEF StartFailed, Session

LEMMA StoppedByUserType ==
    ASSUME NEW x \in Session
    PROVE  /\ StoppedByUser(x) \in Session
           /\ StoppedByUser(x).watch = StopManual(x.watch)
           /\ StoppedByUser(x).stage = x.stage /\ StoppedByUser(x).gen = x.gen
           /\ StoppedByUser(x).startFailed = x.startFailed
           /\ StoppedByUser(x).stopping /\ StoppedByUser(x).slot = x.slot
<1>1. x.watch \in Watcher /\ StopManual(x.watch) \in Watcher
  BY StopTypes DEF Session
<1> QED BY <1>1 DEF StoppedByUser, Session

LEMMA RespawnedType ==
    ASSUME NEW x \in Session, x.gen < MaxGen
    PROVE  /\ Respawned(x) \in Session
           /\ Respawned(x).watch = Rearm(x.watch)
           /\ Respawned(x).stage = "RUNNING"
           /\ Respawned(x).gen = x.gen + 1 /\ x.gen + 1 \in Gens /\ x.gen + 1 > 0
           /\ Respawned(x).manual = x.manual
           /\ Respawned(x).startFailed = x.startFailed
           /\ Respawned(x).stopping = x.stopping
<1>1. x.watch \in Watcher /\ Rearm(x.watch) \in Watcher /\ x.gen \in Gens
  BY RearmType DEF Session
<1>2. x.gen + 1 \in Gens /\ x.gen + 1 > 0
  BY <1>1, SessionAssumption DEF Gens
<1>3. /\ BeginRespawn(x) \in Session
      /\ BeginRespawn(x).watch = Rearm(x.watch)
      /\ BeginRespawn(x).gen = x.gen + 1
      /\ BeginRespawn(x).manual = x.manual
      /\ BeginRespawn(x).startFailed = x.startFailed
      /\ BeginRespawn(x).stopping = x.stopping
  BY <1>1, <1>2 DEF BeginRespawn, Session
<1> QED BY <1>2, <1>3 DEF Respawned, Session

(* The flags and stages alone.                                              *)
SameControl(x, y) ==
    /\ y.watch = x.watch /\ y.manual = x.manual /\ y.gen = x.gen
    /\ y.startFailed = x.startFailed

LEMMA SetStage ==
    ASSUME NEW x \in Session, NEW stage \in {"WIZARD", "RUNNING", "FINISHED"}
    PROVE  LET y == [x EXCEPT !.stage = stage]
           IN  y \in Session /\ SameControl(x, y) /\ y.stage = stage /\ y.stopping = x.stopping
BY DEF Session, SameControl

LEMMA SetStopping ==
    ASSUME NEW x \in Session, NEW b \in BOOLEAN
    PROVE  LET y == [x EXCEPT !.stopping = b]
           IN  y \in Session /\ SameControl(x, y) /\ y.stage = x.stage
BY DEF Session, SameControl

LEMMA SetWatch ==
    ASSUME NEW x \in Session, NEW w \in Watcher
    PROVE  LET y == [x EXCEPT !.watch = w]
           IN  /\ y \in Session /\ y.watch = w
               /\ y.manual = x.manual /\ y.gen = x.gen /\ y.startFailed = x.startFailed
               /\ y.stage = x.stage /\ y.stopping = x.stopping
BY DEF Session

LEMMA SetPanicked ==
    ASSUME NEW x \in Session, NEW b \in BOOLEAN
    PROVE  LET y == [x EXCEPT !.panicked = b]
           IN  y \in Session /\ SameControl(x, y) /\ y.stage = x.stage /\ y.stopping = x.stopping
BY DEF Session, SameControl

LEMMA SetOutcome ==
    ASSUME NEW x \in Session, NEW o \in RunOutcome \cup {"None"}
    PROVE  LET y == [x EXCEPT !.outcome = o]
           IN  y \in Session /\ SameControl(x, y) /\ y.stage = x.stage /\ y.stopping = x.stopping
BY DEF Session, SameControl

LEMMA SetSlot ==
    ASSUME NEW x \in Session, NEW g \in Gens
    PROVE  LET y == [x EXCEPT !.slot = g]
           IN  y \in Session /\ SameControl(x, y) /\ y.stage = x.stage /\ y.stopping = x.stopping
BY DEF Session, SameControl

-----------------------------------------------------------------------------
(* Runs.                                                                    *)
LEMMA TaskValues ==
    /\ NoTask \in Task /\ NoTask.pc = "none"
    /\ Parked \in Task /\ Parked.pc = "none"
    /\ Spawned(<<>>) \in Task
    /\ \A box \in Seq(Command) : Spawned(box) \in Task
<1> <<>> \in Seq(Command)
  OBVIOUS
<1> QED BY DEF NoTask, Parked, Spawned, Task

LEMMA OneTask ==
    ASSUME NEW T \in [Sessions -> [Gens -> Task]], NEW s \in Sessions, NEW g \in Gens,
           NEW t \in Task, NEW U, U = [T EXCEPT ![s][g] = t]
    PROVE  /\ U \in [Sessions -> [Gens -> Task]]
           /\ U[s] = [T[s] EXCEPT ![g] = t]
           /\ U[s][g] = t
           /\ \A h \in Gens : h # g => U[s][h] = T[s][h]
           /\ \A r \in Sessions : r # s => U[r] = T[r]
OBVIOUS

(* An action that touches only session s keeps the invariant if it keeps    *)
(* the part that is about s.                                                *)
LEMMA OneSession ==
    ASSUME WatchInv, RunInv, NEW s \in Sessions,
           \A r \in Sessions : r # s => /\ ses'[r] = ses[r]
                                        /\ task'[r] = task[r]
                                        /\ autoRuns'[r] = autoRuns[r]
                                        /\ (r \in present' <=> r \in present),
           raced \subseteq raced',
           WatchOK(ses'[s], autoRuns'[s]),
           s \notin raced' => RunOK(ses'[s], task'[s], s \in present')
    PROVE  WatchInv' /\ RunInv'
<1>1. ASSUME NEW r \in Sessions PROVE WatchOK(ses'[r], autoRuns'[r])
  BY Zenon DEF WatchInv
<1>2. ASSUME NEW r \in Sessions \ raced' PROVE RunOK(ses'[r], task'[r], r \in present')
  <2>1. CASE r = s
    BY <1>2, <2>1, Zenon
  <2>2. CASE r # s
    <3>1. RunOK(ses[r], task[r], r \in present)
      BY <1>2, <2>2 DEF RunInv
    <3> QED BY <1>2, <2>2, <3>1 DEF RunOK
  <2> QED BY <2>1, <2>2
<1> QED BY <1>1, <1>2 DEF WatchInv, RunInv

(* No run of s has a supervisor unless the stage is RUNNING.                *)
LEMMA NotRunningIdle ==
    ASSUME RunInv, NEW s \in Sessions, s \notin raced, ~Running(ses[s])
    PROVE  \A g \in Gens : task[s][g].pc = "none"
BY DEF RunInv, RunOK

-----------------------------------------------------------------------------
(* Initial states.                                                          *)
LEMMA GenZero == 0 \in Gens
BY SessionAssumption DEF Gens

THEOREM InitInv == Init => IInv
<1> SUFFICES ASSUME Init PROVE IInv
  OBVIOUS
<1>1. \A s \in Sessions : (AutoRestart /\ s \in Attached) \in BOOLEAN
  OBVIOUS
<1>2. ses \in [Sessions -> Session]
  BY <1>1, NewSessionType DEF Init
<1>3. \A s \in Sessions : WatchOK(ses[s], 0) /\ ses[s].stage = "WIZARD" /\ ~ses[s].manual
                          /\ ~ses[s].startFailed /\ ~Waiting(ses[s].watch)
  BY <1>1, NewSessionType DEF Init
<1>4. task \in [Sessions -> [Gens -> Task]]
  BY TaskValues DEF Init
<1>5. \A s \in Sessions, g \in Gens : task[s][g].pc = "none"
  BY TaskValues DEF Init
<1>6. keepalive \in Nat
  <2>1. IsFiniteSet(Autostart)
    BY SessionAssumption, FS_Subset
  <2> QED BY <2>1, FS_CardinalityType DEF Init
<1>7. TypeOK
  BY <1>2, <1>4, <1>6, SessionAssumption DEF Init, TypeOK, BotEnds
<1>8. WatchInv
  BY <1>3 DEF WatchInv, Init
<1>9. RunInv
  BY <1>3, <1>5 DEF RunInv, RunOK, Running, Finished
<1> QED BY <1>7, <1>8, <1>9 DEF IInv

-----------------------------------------------------------------------------
(* The main thread.                                                         *)
LEMMA LaunchInv ==
    ASSUME IInv, NEW s \in Sessions, Launch(s)
    PROVE  IInv'
<1> USE DEF IInv, TypeOK
<1>1. 0 \in Gens /\ task[s][0].box \in Seq(Command) /\ ses[s] \in Session
  BY GenZero DEF Task
<1>2. CASE s \in Autostart
  <2> DEFINE y == [ses[s] EXCEPT !.stage = "RUNNING"]
  <2>1. y \in Session /\ y.watch = ses[s].watch /\ y.manual = ses[s].manual
        /\ y.stage = "RUNNING" /\ y.gen = ses[s].gen /\ y.startFailed = ses[s].startFailed
    BY <1>1, SetStage DEF SameControl
  <2>2. ses' = [ses EXCEPT ![s] = y] /\ task' = [task EXCEPT ![s][0] = Spawned(task[s][0].box)]
    BY <1>2 DEF Launch
  <2> HIDE DEF y
  <2>3. /\ ses' \in [Sessions -> Session] /\ ses'[s] = y
        /\ task' \in [Sessions -> [Gens -> Task]]
        /\ \A h \in Gens : h # 0 => task'[s][h] = task[s][h]
        /\ \A r \in Sessions : r # s => ses'[r] = ses[r] /\ task'[r] = task[r]
    BY <1>1, <2>1, <2>2, TaskValues, OneTask
  <2>4. TypeOK'
    BY <1>2, <2>3 DEF Launch, exitVars
  <2>5. WatchOK(ses'[s], autoRuns'[s])
    BY <2>1, <2>3 DEF Launch, WatchInv, WatchOK, exitVars
  <2>6. ASSUME s \notin raced' PROVE RunOK(ses'[s], task'[s], s \in present')
    <3>1. s \notin raced /\ s \in present /\ NeverStarted(ses[s])
      BY <1>2, <2>6 DEF Launch
    <3>2. y.gen = 0 /\ ~y.manual /\ ~Waiting(y.watch) /\ ~y.startFailed
      BY <2>1, <3>1 DEF NeverStarted, ManuallyStopped, Waiting
    <3>3. \A g \in Gens : task[s][g].pc = "none"
      BY <3>1, NotRunningIdle DEF NeverStarted, Running
    <3>4. present' = present
      BY DEF Launch
    <3> QED BY <2>1, <2>3, <3>1, <3>2, <3>3, <3>4 DEF RunOK, Running
  <2> QED BY <2>3, <2>4, <2>5, <2>6, OneSession, <1>2 DEF Launch, exitVars
<1>3. CASE s \notin Autostart
  <2>1. task' = [task EXCEPT ![s][0] = NoTask] /\ UNCHANGED <<ses, raced, present, autoRuns>>
    BY <1>3 DEF Launch, exitVars
  <2>2. /\ task' \in [Sessions -> [Gens -> Task]] /\ task'[s][0] = NoTask
        /\ \A h \in Gens : h # 0 => task'[s][h] = task[s][h]
        /\ \A r \in Sessions : r # s => task'[r] = task[r]
    BY <1>1, <2>1, TaskValues, OneTask
  <2>3. TypeOK'
    BY <1>3, <2>2 DEF Launch, exitVars
  <2>4. s \notin raced' => RunOK(ses'[s], task'[s], s \in present')
    BY <2>1, <2>2, TaskValues DEF RunInv, RunOK
  <2> QED BY <2>1, <2>2, <2>3, <2>4, OneSession DEF WatchInv
<1> QED BY <1>2, <1>3

-----------------------------------------------------------------------------
(* Keys.                                                                    *)

(* A session that start accepts, with its new run or without a password.    *)
LEMMA StartInv ==
    ASSUME IInv, NEW s \in Sessions, s \in present, NEW k, Start(s, k),
           UNCHANGED present
    PROVE  /\ ses' \in [Sessions -> Session]
           /\ task' \in [Sessions -> [Gens -> Task]]
           /\ autoRuns' \in [Sessions -> Nat]
           /\ raced' = raced /\ lastEnd' = lastEnd
           /\ WatchInv' /\ RunInv'
<1> USE DEF IInv, TypeOK
<1> DEFINE x == ses[s]
           y == Prepared(x)
           w == Resume(x.watch)
<1>1. x \in Session /\ y \in Session /\ x.watch \in Watcher /\ x.gen \in Gens
  BY PreparedType DEF Session
<1>2. /\ y.watch = w /\ y.stage = "WIZARD" /\ ~y.manual /\ ~y.startFailed
      /\ y.gen = x.gen
  BY <1>1, PreparedType
<1>3. WatchOK(x, autoRuns[s]) /\ autoRuns[s] \in Nat
  BY DEF WatchInv
<1>4. ~Waiting(x.watch)
  BY DEF Start, StartRefused
<1>5. w \in Watcher /\ ~Waiting(w)
      /\ (Manual(x.watch) => w.attempts = 0) /\ (~Manual(x.watch) => w = x.watch)
  BY <1>1, <1>4, ResumeType
<1>6. autoRuns' \in [Sessions -> Nat]
      /\ (\A r \in Sessions : r # s => autoRuns'[r] = autoRuns[r])
      /\ autoRuns'[s] = IF Manual(x.watch) THEN 0 ELSE autoRuns[s]
  BY DEF Start
<1>7. autoRuns'[s] <= w.attempts /\ w.attempts <= MaxAttempts
  BY <1>3, <1>5, <1>6, WatcherAssumption DEF WatchOK
<1>8. raced' = raced /\ lastEnd' = lastEnd
  BY DEF Start
<1>9. s \notin raced => \A g \in Gens : task[s][g].pc = "none"
  <2>1. s \notin raced => ~Running(x)
    BY DEF Start, StartRefused, RunInv, RunOK, Running, Finished, Gens, Session
  <2> QED BY <2>1, NotRunningIdle
<1>10. CASE k
  <2> DEFINE z == [Respawned(y) EXCEPT !.stopping = FALSE]
  <2>1. /\ y.gen < MaxGen /\ ses' = [ses EXCEPT ![s] = z]
        /\ task' = [task EXCEPT ![s][y.gen + 1] = Spawned(<<>>)]
    BY <1>10 DEF Start, Spawn
  <2> HIDE DEF y
  <2>2. /\ Respawned(y) \in Session /\ Respawned(y).watch = Rearm(w)
        /\ Respawned(y).stage = "RUNNING"
        /\ Respawned(y).gen = y.gen + 1 /\ y.gen + 1 \in Gens /\ y.gen + 1 > 0
        /\ ~Respawned(y).manual /\ ~Respawned(y).startFailed
    BY <1>1, <1>2, <2>1, RespawnedType
  <2>3. /\ z \in Session /\ z.watch = Rearm(w) /\ z.stage = "RUNNING"
        /\ z.gen = y.gen + 1 /\ ~z.manual /\ ~z.startFailed
    BY <2>2, SetStopping DEF SameControl
  <2> HIDE DEF z
  <2>4. Rearm(w) = w
    BY <1>5, RearmType
  <2>5. /\ ses' \in [Sessions -> Session] /\ ses'[s] = z
        /\ task' \in [Sessions -> [Gens -> Task]]
        /\ \A h \in Gens : h # y.gen + 1 => task'[s][h] = task[s][h]
        /\ \A r \in Sessions : r # s => ses'[r] = ses[r] /\ task'[r] = task[r]
    BY <2>1, <2>2, <2>3, TaskValues, OneTask
  <2>6. WatchOK(ses'[s], autoRuns'[s])
    BY <1>5, <1>7, <2>3, <2>4, <2>5 DEF WatchOK
  <2>7. s \notin raced' => RunOK(ses'[s], task'[s], s \in present')
    BY <1>5, <1>8, <1>9, <2>2, <2>3, <2>4, <2>5 DEF RunOK, Running
  <2>8. WatchInv' /\ RunInv'
    BY <1>6, <1>8, <2>5, <2>6, <2>7, OneSession
  <2> QED BY <1>6, <1>8, <2>5, <2>8
<1>11. CASE ~k
  <2> DEFINE z == StartFailed(y)
  <2>1. ses' = [ses EXCEPT ![s] = z] /\ task' = task
    BY <1>11 DEF Start
  <2>2. z \in Session /\ z.stage = "WIZARD" /\ z.watch = StopManualKeepAttempts(w)
    BY <1>1, <1>2, StartFailedType
  <2> HIDE DEF z
  <2>3. Manual(z.watch) /\ z.watch.attempts = w.attempts
    BY <1>5, <2>2, StopTypes
  <2>4. ses' \in [Sessions -> Session] /\ ses'[s] = z
        /\ \A r \in Sessions : r # s => ses'[r] = ses[r]
    BY <2>1, <2>2
  <2>5. WatchOK(ses'[s], autoRuns'[s])
    BY <1>7, <2>3, <2>4 DEF WatchOK, Manual, Waiting
  <2>6. s \notin raced' => RunOK(ses'[s], task'[s], s \in present')
    BY <1>8, <1>9, <2>1, <2>2, <2>3, <2>4 DEF RunOK, Running, Manual, Waiting
  <2>7. WatchInv' /\ RunInv'
    BY <1>6, <1>8, <2>1, <2>4, <2>5, <2>6, OneSession
  <2> QED BY <1>6, <1>8, <2>1, <2>4, <2>7
<1> QED BY <1>10, <1>11

LEMMA UserStartInv ==
    ASSUME IInv, NEW s \in Sessions, UserStart(s) \/ WizardSubmit(s)
    PROVE  IInv'
<1> USE DEF IInv
<1>1. ASSUME NEW k, Start(s, k), s \in present, UNCHANGED <<present, launching, ui, exitVars>>,
             keyed' \subseteq Sessions
      PROVE  IInv'
  <2>1. /\ ses' \in [Sessions -> Session]
        /\ task' \in [Sessions -> [Gens -> Task]]
        /\ autoRuns' \in [Sessions -> Nat]
        /\ raced' = raced /\ lastEnd' = lastEnd
        /\ WatchInv' /\ RunInv'
    BY <1>1, StartInv
  <2> QED BY <1>1, <2>1 DEF TypeOK, exitVars
<1>2. CASE UserStart(s)
  BY <1>1, <1>2 DEF UserStart, TypeOK
<1>3. CASE WizardSubmit(s)
  <2>1. CASE Start(s, TRUE)
    BY <1>1, <1>3, <2>1 DEF WizardSubmit, TypeOK
  <2>2. CASE UNCHANGED <<ses, task, history>>
    BY <1>3, <2>2 DEF WizardSubmit, TypeOK, WatchInv, RunInv, history, exitVars
  <2> QED BY <1>3, <2>1, <2>2 DEF WizardSubmit
<1> QED BY <1>2, <1>3

(* A mailbox or the bot of one run changes, its supervisor does not.        *)
LEMMA SendType ==
    ASSUME TypeOK, NEW s \in Sessions
    PROVE  /\ \A m \in Command :
                 /\ Delivered(s, m) \in [Sessions -> [Gens -> Task]]
                 /\ \A r \in Sessions, g \in Gens : Delivered(s, m)[r][g].pc = task[r][g].pc
                 /\ \A r \in Sessions : r # s => Delivered(s, m)[r] = task[r]
           /\ ses[s].slot # NoHandle =>
                 /\ Aborted(s) \in [Sessions -> [Gens -> Task]]
                 /\ \A r \in Sessions, g \in Gens : Aborted(s)[r][g].pc = task[r][g].pc
                 /\ \A r \in Sessions : r # s => Aborted(s)[r] = task[r]
<1> USE DEF TypeOK
<1>1. ASSUME NEW m \in Command
      PROVE  /\ Delivered(s, m) \in [Sessions -> [Gens -> Task]]
             /\ \A r \in Sessions, g \in Gens : Delivered(s, m)[r][g].pc = task[r][g].pc
             /\ \A r \in Sessions : r # s => Delivered(s, m)[r] = task[r]
  <2> DEFINE c == ses[s].chan
             t == [task[s][c] EXCEPT !.box = Append(@, m)]
  <2>1. c \in Gens /\ task[s][c] \in Task
    BY DEF Session
  <2>2. Append(task[s][c].box, m) \in Seq(Command)
    BY <2>1 DEF Task
  <2>3. t \in Task /\ t.pc = task[s][c].pc
    BY <2>1, <2>2 DEF Task
  <2>4. Delivered(s, m) = [task EXCEPT ![s][c] = t]
    BY <2>1 DEF Delivered
  <2> HIDE DEF c, t
  <2> QED BY <2>1, <2>3, <2>4, OneTask
<1>2. ASSUME ses[s].slot # NoHandle
      PROVE  /\ Aborted(s) \in [Sessions -> [Gens -> Task]]
             /\ \A r \in Sessions, g \in Gens : Aborted(s)[r][g].pc = task[r][g].pc
             /\ \A r \in Sessions : r # s => Aborted(s)[r] = task[r]
  <2> DEFINE c == ses[s].slot
             t == [task[s][c] EXCEPT !.bot = "aborting"]
  <2>1. c \in Gens /\ task[s][c] \in Task
    BY <1>2 DEF Session
  <2>2. t \in Task /\ t.pc = task[s][c].pc
    BY <2>1 DEF Task
  <2>3. Aborted(s) = task \/ Aborted(s) = [task EXCEPT ![s][c] = t]
    BY <2>1 DEF Aborted
  <2> HIDE DEF c, t
  <2>4. CASE Aborted(s) = task
    BY <2>4
  <2>5. CASE Aborted(s) = [task EXCEPT ![s][c] = t]
    BY <2>1, <2>2, <2>5, OneTask
  <2> QED BY <2>3, <2>4, <2>5
<1> QED BY <1>1, <1>2

LEMMA UserStopInv ==
    ASSUME IInv, NEW s \in Sessions, UserStop(s)
    PROVE  IInv'
<1> USE DEF IInv
<1> DEFINE x == ses[s]
           y == StoppedByUser(x)
<1>1. x \in Session /\ x.watch \in Watcher
  BY DEF TypeOK, Session
<1>2. /\ y \in Session /\ y.watch = StopManual(x.watch)
      /\ y.stage = x.stage /\ y.gen = x.gen /\ y.startFailed = x.startFailed /\ y.stopping
  BY <1>1, StoppedByUserType
<1>3. Manual(y.watch) /\ y.watch.attempts = 0
  BY <1>1, <1>2, StopTypes
<1>4. ses' = [ses EXCEPT ![s] = y] /\ autoRuns' = [autoRuns EXCEPT ![s] = 0]
      /\ UNCHANGED <<present, keyed, launching, ui, exitVars, lastEnd, raced>>
  BY DEF UserStop
<1> HIDE DEF y
<1>5. /\ ses' \in [Sessions -> Session] /\ ses'[s] = y
      /\ \A r \in Sessions : r # s => ses'[r] = ses[r]
      /\ autoRuns' \in [Sessions -> Nat] /\ autoRuns'[s] = 0
      /\ \A r \in Sessions : r # s => autoRuns'[r] = autoRuns[r]
  BY <1>2, <1>4 DEF TypeOK
<1>6. /\ task' \in [Sessions -> [Gens -> Task]]
      /\ \A r \in Sessions, g \in Gens : task'[r][g].pc = task[r][g].pc
      /\ \A r \in Sessions : r # s => task'[r] = task[r]
  BY SendType DEF UserStop, TypeOK, Command
<1>7. TypeOK'
  BY <1>4, <1>5, <1>6 DEF TypeOK, exitVars
<1>8. WatchOK(ses'[s], autoRuns'[s])
  BY <1>3, <1>5, WatcherAssumption DEF WatchOK, Manual, Waiting
<1>9. ASSUME s \notin raced' PROVE RunOK(ses'[s], task'[s], s \in present')
  <2>1. RunOK(x, task[s], s \in present)
    BY <1>4, <1>9 DEF RunInv
  <2>2. ~Waiting(y.watch)
    BY <1>3 DEF Manual, Waiting
  <2> QED BY <1>2, <1>4, <1>5, <1>6, <2>1, <2>2 DEF RunOK, Running
<1> QED BY <1>4, <1>5, <1>6, <1>7, <1>8, <1>9, OneSession

LEMMA ManualRestartInv ==
    ASSUME IInv, NEW s \in Sessions, ManualRestart(s)
    PROVE  IInv'
<1> USE DEF IInv
<1> DEFINE x == ses[s]
           w == Reset(x.watch)
           y == [x EXCEPT !.watch = w]
<1>1. x \in Session /\ x.watch \in Watcher /\ x.gen \in Gens
  BY DEF TypeOK, Session
<1>2. w \in Watcher /\ ~Waiting(w)
      /\ (Manual(x.watch) => w = x.watch) /\ (~Manual(x.watch) => w.attempts = 0)
  BY <1>1, ResetType
<1>3. /\ y \in Session /\ y.watch = w
      /\ y.manual = x.manual /\ y.gen = x.gen /\ y.startFailed = x.startFailed
      /\ y.stage = x.stage /\ y.stopping = x.stopping
  BY <1>1, <1>2, SetWatch
<1>4. WatchOK(x, autoRuns[s]) /\ (s \notin raced => RunOK(x, task[s], s \in present))
  BY DEF WatchInv, RunInv
<1>5. /\ autoRuns' = IF Manual(x.watch) THEN autoRuns ELSE [autoRuns EXCEPT ![s] = 0]
      /\ UNCHANGED <<present, keyed, launching, ui, exitVars, lastEnd, raced>>
      /\ s \in present
  BY DEF ManualRestart
<1>6. /\ autoRuns' \in [Sessions -> Nat]
      /\ autoRuns'[s] <= w.attempts /\ w.attempts <= MaxAttempts
      /\ \A r \in Sessions : r # s => autoRuns'[r] = autoRuns[r]
  BY <1>2, <1>4, <1>5, WatcherAssumption DEF TypeOK, WatchOK
<1>7. CASE Finished(y)
  <2>1. /\ y.gen < MaxGen /\ ses' = [ses EXCEPT ![s] = Respawned(y)]
        /\ task' = [task EXCEPT ![s][y.gen + 1] = Spawned(<<>>)]
    BY <1>7 DEF ManualRestart
  <2>2. \A g \in Gens : s \notin raced => task[s][g].pc = "none"
    BY <1>3, <1>4, <1>7 DEF RunOK, Finished, Running
  <2> DEFINE z == Respawned(y)
  <2> HIDE DEF y, w
  <2>3. /\ z \in Session /\ z.watch = Rearm(w) /\ z.stage = "RUNNING"
        /\ z.gen = y.gen + 1 /\ y.gen + 1 \in Gens /\ y.gen + 1 > 0
        /\ z.manual = x.manual /\ z.startFailed = x.startFailed
    BY <1>3, <2>1, RespawnedType
  <2>4. Rearm(w) = w
    BY <1>2, RearmType
  <2> HIDE DEF z
  <2>5. /\ ses' \in [Sessions -> Session] /\ ses'[s] = z
        /\ task' \in [Sessions -> [Gens -> Task]]
        /\ \A h \in Gens : h # y.gen + 1 => task'[s][h] = task[s][h]
        /\ \A r \in Sessions : r # s => ses'[r] = ses[r] /\ task'[r] = task[r]
    BY <2>1, <2>3, TaskValues, OneTask DEF TypeOK, z
  <2>6. TypeOK'
    BY <1>5, <1>6, <2>5 DEF TypeOK, exitVars
  <2>7. WatchOK(ses'[s], autoRuns'[s])
    BY <1>2, <1>4, <1>6, <2>3, <2>4, <2>5 DEF WatchOK
  <2>8. s \notin raced' => RunOK(ses'[s], task'[s], s \in present')
    BY <1>2, <1>3, <1>4, <1>5, <1>7, <2>2, <2>3, <2>4, <2>5 DEF RunOK, Running, Finished
  <2> QED BY <1>5, <1>6, <2>5, <2>6, <2>7, <2>8, OneSession
<1>8. CASE ~Finished(y)
  <2>1. ses' = [ses EXCEPT ![s] = y] /\ task' = task
    BY <1>8 DEF ManualRestart
  <2> HIDE DEF y, w
  <2>2. /\ ses' \in [Sessions -> Session] /\ ses'[s] = y
        /\ \A r \in Sessions : r # s => ses'[r] = ses[r]
    BY <1>3, <2>1 DEF TypeOK
  <2>3. TypeOK'
    BY <1>5, <1>6, <2>1, <2>2 DEF TypeOK, exitVars
  <2>4. WatchOK(ses'[s], autoRuns'[s])
    BY <1>2, <1>3, <1>4, <1>6, <2>2 DEF WatchOK
  <2>5. s \notin raced' => RunOK(ses'[s], task'[s], s \in present')
    BY <1>2, <1>3, <1>4, <1>5, <2>1, <2>2 DEF RunOK, Running
  <2> QED BY <1>5, <1>6, <2>1, <2>2, <2>3, <2>4, <2>5, OneSession
<1> QED BY <1>7, <1>8

LEMMA UserSendInv ==
    ASSUME IInv, NEW s \in Sessions, NEW m \in Command, UserSend(s, m)
    PROVE  IInv'
<1> USE DEF IInv
<1>1. task' = Delivered(s, m) /\ UNCHANGED <<ses, present, keyed, launching, ui, exitVars, history>>
  BY DEF UserSend
<1>2. /\ task' \in [Sessions -> [Gens -> Task]]
      /\ \A r \in Sessions, g \in Gens : task'[r][g].pc = task[r][g].pc
  BY <1>1, SendType
<1>3. TypeOK' /\ WatchInv'
  BY <1>1, <1>2 DEF TypeOK, WatchInv, exitVars, history
<1>4. RunInv'
  BY <1>1, <1>2 DEF RunInv, RunOK, history
<1> QED BY <1>3, <1>4

LEMMA AddProfileInv ==
    ASSUME IInv, NEW s \in Sessions, AddProfile(s)
    PROVE  IInv'
<1> USE DEF IInv
<1> DEFINE y == NewSession(FALSE)
           t == [g \in Gens |-> IF g = 0 THEN Parked ELSE NoTask]
<1>1. /\ present' = present \cup {s}
      /\ ses' = [ses EXCEPT ![s] = y] /\ task' = [task EXCEPT ![s] = t]
      /\ autoRuns' = [autoRuns EXCEPT ![s] = 0]
      /\ UNCHANGED <<keyed, launching, ui, exitVars, lastEnd, raced>>
  BY DEF AddProfile
<1>2. /\ y \in Session /\ WatchOK(y, 0) /\ y.stage = "WIZARD" /\ ~y.manual
      /\ ~y.startFailed /\ ~Waiting(y.watch)
  BY NewSessionType
<1>3. t \in [Gens -> Task] /\ \A g \in Gens : t[g].pc = "none"
  BY TaskValues
<1> HIDE DEF y, t
<1>4. TypeOK'
  BY <1>1, <1>2, <1>3 DEF TypeOK, exitVars
<1>5. /\ ses'[s] = y /\ task'[s] = t /\ autoRuns'[s] = 0 /\ raced' = raced
      /\ \A r \in Sessions : r # s => /\ ses'[r] = ses[r] /\ task'[r] = task[r]
                                      /\ autoRuns'[r] = autoRuns[r]
                                      /\ (r \in present' <=> r \in present)
  BY <1>1 DEF TypeOK
<1>6. WatchOK(ses'[s], autoRuns'[s])
  BY <1>2, <1>5
<1>7. RunOK(ses'[s], task'[s], s \in present')
  BY <1>2, <1>3, <1>5 DEF RunOK, Running
<1> QED BY <1>4, <1>5, <1>6, <1>7, OneSession

LEMMA RemoveProfileInv ==
    ASSUME IInv, NEW s \in Sessions, RemoveProfile(s)
    PROVE  IInv'
<1> USE DEF IInv
<1>1. /\ present' = present \ {s} /\ s \in present
      /\ UNCHANGED <<ses, keyed, launching, ui, exitVars, history>>
  BY DEF RemoveProfile
<1>2. /\ task' \in [Sessions -> [Gens -> Task]]
      /\ \A g \in Gens : task'[s][g] \in {task[s][g], NoTask}
      /\ \A r \in Sessions : r # s => task'[r] = task[r]
  <2>1. CASE task' = task
    BY <2>1 DEF TypeOK
  <2>2. CASE task' = [task EXCEPT ![s][0] = NoTask]
    <3>1. task \in [Sessions -> [Gens -> Task]]
      BY DEF TypeOK
    <3> QED BY <2>2, <3>1, TaskValues, GenZero, OneTask
  <2> QED BY <2>1, <2>2 DEF RemoveProfile
<1>3. TypeOK'
  BY <1>1, <1>2 DEF TypeOK, exitVars, history
<1>4. WatchOK(ses'[s], autoRuns'[s])
  BY <1>1 DEF WatchInv, history
<1>5. ASSUME s \notin raced' PROVE RunOK(ses'[s], task'[s], s \in present')
  <2>1. s \notin raced /\ RunOK(ses[s], task[s], s \in present)
    BY <1>1, <1>5 DEF RunInv, history
  <2>2. ~Running(ses[s])
    BY <2>1 DEF RemoveProfile, Settled, NeverStarted, RunOK, Finished, Running
  <2>3. \A g \in Gens : task[s][g].pc = "none"
    BY <2>1, <2>2 DEF RunOK
  <2>4. \A g \in Gens : task'[s][g].pc = "none"
    BY <1>2, <2>3, TaskValues
  <2> QED BY <1>1, <2>1, <2>4 DEF RunOK
<1>6. /\ raced' = raced
      /\ \A r \in Sessions : r # s => /\ ses'[r] = ses[r] /\ task'[r] = task[r]
                                      /\ autoRuns'[r] = autoRuns[r]
                                      /\ (r \in present' <=> r \in present)
  BY <1>1, <1>2 DEF history
<1> QED BY <1>3, <1>4, <1>5, <1>6, OneSession

-----------------------------------------------------------------------------
(* Frames.                                                                  *)
LEMMA NoteExitsInv ==
    ASSUME IInv, NEW d \in FrameGaps, NoteExits(d)
    PROVE  IInv'
<1> USE DEF IInv
<1> DEFINE w(x) == Elapse(x.watch, d)
           y(x) == [x EXCEPT !.watch = IF Finished(x) THEN OnExit(w(x), x.outcome, x.panicked)
                                       ELSE w(x)]
<1>1. /\ ses' = [s \in Sessions |-> IF s \notin present THEN ses[s] ELSE y(ses[s])]
      /\ ui' = "advance"
      /\ UNCHANGED <<task, present, keyed, launching, exitVars, history>>
  BY Zenon DEF NoteExits
<1>2. ASSUME NEW s \in Sessions, s \in present
      PROVE  LET x == ses[s]
                 v == y(x).watch
             IN  /\ y(x) \in Session
                 /\ y(x).manual = x.manual /\ y(x).gen = x.gen
                 /\ y(x).startFailed = x.startFailed
                 /\ y(x).stage = x.stage /\ y(x).stopping = x.stopping
                 /\ WatchOK(y(x), autoRuns[s])
                 /\ Waiting(v) => Waiting(x.watch) \/ Finished(x)
  <2> DEFINE x == ses[s]
             u == w(x)
             v == IF Finished(x) THEN OnExit(u, x.outcome, x.panicked) ELSE u
  <2>1. /\ x \in Session /\ x.watch \in Watcher /\ x.panicked \in BOOLEAN
        /\ x.outcome \in RunOutcome \cup {"None"} /\ autoRuns[s] \in Nat /\ d \in Nat
    BY SessionAssumption DEF TypeOK, Session
  <2>2. /\ u \in Watcher
        /\ u.st = x.watch.st /\ u.kind = x.watch.kind
        /\ u.fired = x.watch.fired /\ u.attempts = x.watch.attempts
    BY <2>1, ElapseType
  <2>3. WatchOK(x, autoRuns[s])
    BY DEF WatchInv
  <2> HIDE DEF u, x
  <2>4. /\ v \in Watcher /\ v.attempts <= MaxAttempts
        /\ \/ v = u
           \/ ~Waiting(v) /\ v.attempts = u.attempts
           \/ Waiting(v) /\ v.attempts = u.attempts + 1 /\ ~v.fired
        /\ Manual(u) => v = u
        /\ Waiting(v) => Waiting(u) \/ Finished(x)
    <3>1. u.attempts <= MaxAttempts
      BY <2>2, <2>3 DEF WatchOK
    <3>2. CASE Finished(x)
      BY <2>1, <2>2, <3>1, <3>2, OnExitType
    <3>3. CASE ~Finished(x)
      BY <2>2, <3>1, <3>3
    <3> QED BY <3>2, <3>3
  <2> HIDE DEF v
  <2>5. WatchOK([x EXCEPT !.watch = v], autoRuns[s])
    <3>1. [x EXCEPT !.watch = v].watch = v /\ [x EXCEPT !.watch = v].manual = x.manual
      BY <2>1, <2>4, SetWatch
    <3>2. u.attempts \in Nat /\ (Waiting(u) <=> Waiting(x.watch))
          /\ (Manual(u) <=> Manual(x.watch))
      BY <2>2 DEF Waiting, Manual, Watcher
    <3>3. autoRuns[s] <= v.attempts /\ (Waiting(v) => autoRuns[s] < v.attempts)
      BY <2>1, <2>2, <2>3, <2>4, <3>2 DEF WatchOK
    <3>4. Waiting(v) => ~v.fired
      BY <2>2, <2>3, <2>4, <3>2 DEF WatchOK
    <3>5. x.manual => Manual(v)
      BY <2>3, <2>4, <3>2 DEF WatchOK
    <3> QED BY <2>4, <3>1, <3>3, <3>4, <3>5 DEF WatchOK
  <2>6. y(x) = [x EXCEPT !.watch = v]
    BY DEF v, u, x
  <2>7. Waiting(u) => Waiting(x.watch)
    BY <2>2 DEF Waiting
  <2> HIDE DEF y
  <2> QED BY <2>1, <2>4, <2>5, <2>6, <2>7, SetWatch DEF x
<1> HIDE DEF y
<1>3. \A s \in Sessions : ses'[s] = IF s \notin present THEN ses[s] ELSE y(ses[s])
  BY <1>1
<1>4. TypeOK'
  BY <1>1, <1>2 DEF TypeOK, exitVars, history
<1>5. WatchInv'
  BY <1>1, <1>2, <1>3 DEF WatchInv, history
<1>6. ASSUME NEW s \in Sessions \ raced' PROVE RunOK(ses'[s], task'[s], s \in present')
  <2>1. RunOK(ses[s], task[s], s \in present)
    BY <1>1, <1>6 DEF RunInv, history
  <2>2. CASE s \notin present
    BY <1>1, <1>3, <2>1, <2>2
  <2>3. CASE s \in present
    BY <1>1, <1>2, <1>3, <2>1, <2>3 DEF RunOK, Running, Finished
  <2> QED BY <2>2, <2>3
<1> QED BY <1>4, <1>5, <1>6 DEF RunInv

(* A due restart: the window opened for it is used up, one attempt is made. *)
LEMMA AdvanceWatchersInv ==
    ASSUME IInv, AdvanceWatchers
    PROVE  IInv'
<1> USE DEF IInv
<1> DEFINE y(x) == Respawned([x EXCEPT !.watch = PollReady(@)])
<1>1. /\ ses' = [s \in Sessions |-> IF s \in Ready THEN y(ses[s]) ELSE ses[s]]
      /\ task' = [s \in Sessions |-> [g \in Gens |->
             IF s \in Ready /\ g = ses[s].gen + 1 THEN Spawned(<<>>) ELSE task[s][g]]]
      /\ autoRuns' = [s \in Sessions |-> IF s \in Ready THEN autoRuns[s] + 1 ELSE autoRuns[s]]
      /\ ui' = "count"
      /\ UNCHANGED <<present, keyed, launching, exitVars, lastEnd, raced>>
  BY DEF AdvanceWatchers
<1>2. ASSUME NEW s \in Sessions, s \in Ready
      PROVE  LET x == ses[s]
             IN  /\ y(x) \in Session
                 /\ y(x).gen = x.gen + 1 /\ x.gen + 1 \in Gens /\ x.gen + 1 > 0
                 /\ y(x).stage = "RUNNING" /\ y(x).startFailed = x.startFailed
                 /\ ~Waiting(y(x).watch) /\ Waiting(x.watch)
                 /\ WatchOK(y(x), autoRuns[s] + 1)
  <2> DEFINE x == ses[s]
             u == PollReady(x.watch)
             z == [x EXCEPT !.watch = u]
  <2>1. x \in Session /\ x.watch \in Watcher /\ autoRuns[s] \in Nat
    BY DEF TypeOK, Session
  <2>2. Waiting(x.watch) /\ x.gen < MaxGen /\ s \in present
    BY <1>2 DEF Ready, Due
  <2>3. WatchOK(x, autoRuns[s])
    BY DEF WatchInv
  <2> HIDE DEF x
  <2>4. u \in Watcher
    BY <2>1 DEF PollReady, Watcher
  <2>5. Rearm(u) \in Watcher /\ Rearm(u).st = "Idle" /\ Rearm(u).attempts = x.watch.attempts
    BY <2>1, <2>2, FireType
  <2> HIDE DEF u
  <2>6. z \in Session /\ z.watch = u /\ z.manual = x.manual /\ z.gen = x.gen
        /\ z.startFailed = x.startFailed
    BY <2>1, <2>4, SetWatch
  <2> HIDE DEF z
  <2>7. /\ Respawned(z) \in Session /\ Respawned(z).watch = Rearm(u)
        /\ Respawned(z).stage = "RUNNING" /\ Respawned(z).gen = x.gen + 1
        /\ x.gen + 1 \in Gens /\ x.gen + 1 > 0
        /\ Respawned(z).manual = x.manual /\ Respawned(z).startFailed = x.startFailed
    BY <2>2, <2>6, RespawnedType
  <2>8. ~x.manual
    BY <2>2, <2>3 DEF WatchOK, Waiting, Manual
  <2>9. autoRuns[s] + 1 <= x.watch.attempts /\ x.watch.attempts <= MaxAttempts
    BY <2>1, <2>2, <2>3 DEF WatchOK, Watcher
  <2>10. y(x) = Respawned(z)
    BY DEF z, u
  <2> HIDE DEF y
  <2> QED BY <2>2, <2>5, <2>7, <2>8, <2>9, <2>10 DEF WatchOK, Waiting, x
<1> HIDE DEF y
<1>3. \A s \in Sessions :
          /\ s \in Ready => ses'[s] = y(ses[s]) /\ autoRuns'[s] = autoRuns[s] + 1
          /\ s \notin Ready => ses'[s] = ses[s] /\ autoRuns'[s] = autoRuns[s]
                               /\ \A g \in Gens : task'[s][g] = task[s][g]
          /\ \A g \in Gens : g # ses[s].gen + 1 => task'[s][g] = task[s][g]
  BY <1>1
<1>4. TypeOK'
  <2>1. ses' \in [Sessions -> Session]
    BY <1>1, <1>2 DEF TypeOK
  <2>2. task' \in [Sessions -> [Gens -> Task]]
    BY <1>1, TaskValues DEF TypeOK
  <2>3. autoRuns' \in [Sessions -> Nat]
    BY <1>1 DEF TypeOK
  <2> QED BY <1>1, <2>1, <2>2, <2>3 DEF TypeOK, exitVars
<1>5. WatchInv'
  BY <1>2, <1>3 DEF WatchInv
<1>6. ASSUME NEW s \in Sessions \ raced' PROVE RunOK(ses'[s], task'[s], s \in present')
  <2>1. RunOK(ses[s], task[s], s \in present) /\ present' = present
    BY <1>1, <1>6 DEF RunInv
  <2>2. CASE s \notin Ready
    BY <1>3, <2>1, <2>2 DEF RunOK
  <2>3. CASE s \in Ready
    <3>1. Finished(ses[s]) /\ s \in present
      BY <1>2, <2>1, <2>3 DEF RunOK, Ready
    <3>2. \A g \in Gens : task[s][g].pc = "none"
      BY <2>1, <3>1 DEF RunOK, Finished, Running
    <3>3. ~ses[s].startFailed
      BY <2>1, <3>1 DEF RunOK, Finished
    <3> QED BY <1>2, <1>3, <2>1, <2>3, <3>1, <3>2, <3>3 DEF RunOK, Running
  <2> QED BY <2>2, <2>3
<1> QED BY <1>4, <1>5, <1>6 DEF RunInv

LEMMA ExitChecksInv ==
    ASSUME IInv, CountLive \/ CheckStopped \/ CheckNeverStarted \/ MainLeave
    PROVE  IInv'
<1> USE DEF IInv
<1>1. UNCHANGED <<ses, task, present, keyed, launching, history>>
  BY DEF CountLive, CheckStopped, CheckNeverStarted, MainLeave, exitVars
<1>2. LiveCount \in Nat
  <2>1. IsFiniteSet({s \in present : ~Settled(ses[s])})
    BY SessionAssumption, FS_Subset DEF TypeOK
  <2> QED BY <2>1, FS_CardinalityType DEF LiveCount
<1>3. TypeOK'
  BY <1>1, <1>2 DEF TypeOK, CountLive, CheckStopped, CheckNeverStarted, MainLeave,
                    exitVars, history
<1>4. WatchInv' /\ RunInv'
  BY <1>1 DEF WatchInv, RunInv, history
<1> QED BY <1>3, <1>4

-----------------------------------------------------------------------------
(* Supervisors and bots.  A step of a busy run leaves it current.           *)
LEMMA BusyStep ==
    ASSUME IInv, NEW s \in Sessions, NEW g \in Gens, NEW t \in Task, NEW y \in Session,
           task[s][g].pc # "none" \/ t.pc = "none",
           task' = [task EXCEPT ![s][g] = t],
           ses' = [ses EXCEPT ![s] = y],
           SameControl(ses[s], y),
           y.stopping = ses[s].stopping,
           y.stage # ses[s].stage =>
               y.stage = "FINISHED" /\ t.pc = "none" /\ task[s][g].pc # "none",
           UNCHANGED <<present, keyed, launching, ui, exitVars, autoRuns, raced>>,
           lastEnd' \in [Sessions -> BotEnds \cup {"None"}]
    PROVE  IInv'
<1> USE DEF IInv
<1>1. /\ task' \in [Sessions -> [Gens -> Task]] /\ task'[s][g] = t
      /\ \A h \in Gens : h # g => task'[s][h] = task[s][h]
      /\ \A r \in Sessions : r # s => task'[r] = task[r]
  BY OneTask DEF TypeOK
<1>2. /\ ses' \in [Sessions -> Session] /\ ses'[s] = y
      /\ \A r \in Sessions : r # s => ses'[r] = ses[r]
  BY DEF TypeOK
<1>3. TypeOK'
  BY <1>1, <1>2 DEF TypeOK, exitVars
<1>4. WatchOK(ses'[s], autoRuns'[s])
  BY <1>2 DEF WatchInv, WatchOK, SameControl
<1>5. ASSUME s \notin raced' PROVE RunOK(ses'[s], task'[s], s \in present')
  <2>1. RunOK(ses[s], task[s], s \in present)
    BY <1>5 DEF RunInv
  <2>2. CASE y.stage = ses[s].stage
    BY <1>1, <1>2, <2>1, <2>2 DEF RunOK, SameControl, Running, Finished
  <2>3. CASE y.stage # ses[s].stage
    <3>1. g = ses[s].gen /\ Running(ses[s])
      BY <2>1, <2>3 DEF RunOK
    <3>2. \A h \in Gens : task'[s][h].pc = "none"
      BY <1>1, <2>1, <2>3, <3>1 DEF RunOK
    <3>3. ~ses[s].startFailed
      BY <2>1, <3>1 DEF RunOK, Running
    <3> QED BY <1>2, <2>3, <3>2, <3>3 DEF RunOK, SameControl, Running, Finished
  <2> QED BY <2>2, <2>3
<1> QED BY <1>1, <1>2, <1>3, <1>4, <1>5, OneSession

LEMMA SupervisorInv ==
    ASSUME IInv, NEW s \in Sessions, NEW g \in Gens, Supervisor(s, g)
    PROVE  IInv'
<1> DEFINE x == ses[s]
           t == task[s][g]
<1>1. x \in Session /\ t \in Task /\ ses = [ses EXCEPT ![s] = x] /\ SameControl(x, x)
      /\ lastEnd \in [Sessions -> BotEnds \cup {"None"}]
  BY DEF IInv, TypeOK, SameControl
<1>2. CASE SupLaunch(s, g)
  <2>1. [t EXCEPT !.pc = "launched", !.bot = "on"] \in Task
        /\ [t EXCEPT !.pc = "launched", !.bot = "on"].pc = "launched"
    BY <1>1 DEF Task
  <2> QED BY <1>1, <1>2, <2>1, BusyStep DEF SupLaunch, StepTask
<1>3. CASE SupPublish(s, g)
  <2>1. [t EXCEPT !.pc = "watching"] \in Task /\ [t EXCEPT !.pc = "watching"].pc = "watching"
    BY <1>1 DEF Task
  <2> DEFINE y == [x EXCEPT !.slot = g]
  <2>2. y \in Session /\ SameControl(x, y) /\ y.stage = x.stage /\ y.stopping = x.stopping
    BY <1>1, SetSlot
  <2> QED BY <1>1, <1>3, <2>1, <2>2, BusyStep DEF SupPublish, StepTask
<1>4. CASE SupNote(s, g)
  <2>1. [t EXCEPT !.pc = "noted"] \in Task /\ [t EXCEPT !.pc = "noted"].pc = "noted"
    BY <1>1 DEF Task
  <2> DEFINE p == x.panicked \/ t.bot = "Panic"
             y == [x EXCEPT !.panicked = p]
  <2>2. y \in Session /\ SameControl(x, y) /\ y.stage = x.stage /\ y.stopping = x.stopping
    <3>1. p \in BOOLEAN
      BY <1>1 DEF Session
    <3> HIDE DEF p
    <3> QED BY <1>1, <3>1, SetPanicked
  <2> QED BY <1>1, <1>4, <2>1, <2>2, BusyStep DEF SupNote, StepTask
<1>5. CASE SupWrite(s, g)
  <2>1. [t EXCEPT !.pc = "written"] \in Task /\ [t EXCEPT !.pc = "written"].pc = "written"
    BY <1>1 DEF Task
  <2> DEFINE o == IF t.bot \in BotOutcomes THEN t.bot ELSE "Quit"
             y == [x EXCEPT !.outcome = o]
  <2>2. o \in RunOutcome
    BY SessionAssumption DEF RunOutcome
  <2>3. y \in Session /\ SameControl(x, y) /\ y.stage = x.stage /\ y.stopping = x.stopping
    BY <1>1, <2>2, SetOutcome
  <2> QED BY <1>1, <1>5, <2>1, <2>3, BusyStep DEF SupWrite, StepTask
<1>6. CASE SupFinish(s, g)
  <2> DEFINE y == [x EXCEPT !.stage = "FINISHED"]
  <2>1. y \in Session /\ SameControl(x, y) /\ y.stage = "FINISHED" /\ y.stopping = x.stopping
    BY <1>1, SetStage
  <2> QED BY <1>1, <1>6, <2>1, TaskValues, BusyStep DEF SupFinish, StepTask
<1> QED BY <1>2, <1>3, <1>4, <1>5, <1>6 DEF Supervisor

LEMMA BotInv ==
    ASSUME IInv, NEW s \in Sessions, NEW g \in Gens, Bot(s, g)
    PROVE  IInv'
<1> USE DEF IInv
<1>1. ASSUME NEW t \in Task, t.pc = task[s][g].pc, task' = [task EXCEPT ![s][g] = t],
             lastEnd' \in [Sessions -> BotEnds \cup {"None"}],
             UNCHANGED <<ses, present, keyed, launching, ui, exitVars, autoRuns, raced>>
      PROVE  IInv'
  <2>1. /\ task' \in [Sessions -> [Gens -> Task]]
        /\ \A r \in Sessions, h \in Gens : task'[r][h].pc = task[r][h].pc
    BY <1>1, OneTask DEF TypeOK
  <2>2. TypeOK' /\ WatchInv'
    BY <1>1, <2>1 DEF TypeOK, WatchInv, exitVars
  <2>3. RunInv'
    BY <1>1, <2>1 DEF RunInv, RunOK
  <2> QED BY <2>2, <2>3
<1>2. task[s][g] \in Task /\ lastEnd \in [Sessions -> BotEnds \cup {"None"}]
  BY DEF TypeOK
<1>3. ASSUME NEW how \in BotEnds, End(s, g, how)
      PROVE  IInv'
  <2> DEFINE t == [task[s][g] EXCEPT !.bot = how, !.box = <<>>]
  <2>1. <<>> \in Seq(Command)
    OBVIOUS
  <2>2. t \in Task /\ t.pc = task[s][g].pc
    BY <1>2, <2>1 DEF Task
  <2>3. task' = [task EXCEPT ![s][g] = t] /\ lastEnd' = [lastEnd EXCEPT ![s] = how]
        /\ UNCHANGED <<ses, present, keyed, launching, ui, exitVars, autoRuns, raced>>
    BY <1>3 DEF End, TypeOK
  <2> HIDE DEF t
  <2>4. lastEnd' \in [Sessions -> BotEnds \cup {"None"}]
    BY <1>2, <2>3
  <2> QED BY <1>1, <2>2, <2>3, <2>4
<1>4. ASSUME NEW how \in (BotOutcomes \ {"Quit"}) \cup {"Panic"}, BotEnd(s, g, how)
      PROVE  IInv'
  BY <1>3, <1>4 DEF BotEnd, BotEnds
<1>5. CASE BotTakesCommand(s, g)
  <2>1. CASE Head(task[s][g].box) = "quit"
    BY <1>3, <1>5, <2>1, SessionAssumption DEF BotTakesCommand, BotEnds
  <2>2. CASE Head(task[s][g].box) # "quit"
    <3> DEFINE t == [task[s][g] EXCEPT !.box = Tail(@)]
    <3>1. task[s][g].box \in Seq(Command) /\ task[s][g].box # <<>>
      BY <1>2, <1>5 DEF BotTakesCommand, Task
    <3>2. Tail(task[s][g].box) \in Seq(Command)
      BY <3>1
    <3>3. t \in Task /\ t.pc = task[s][g].pc
      BY <1>2, <3>2 DEF Task
    <3>4. task' = [task EXCEPT ![s][g] = t]
          /\ UNCHANGED <<ses, present, keyed, launching, ui, exitVars, history>>
      BY <1>5, <2>2 DEF BotTakesCommand, TypeOK
    <3> HIDE DEF t
    <3> QED BY <1>1, <1>2, <3>3, <3>4 DEF history
  <2> QED BY <2>1, <2>2
<1>6. CASE BotCancelled(s, g)
  BY <1>3, <1>6 DEF BotCancelled, BotEnds
<1> QED BY <1>4, <1>5, <1>6 DEF Bot

-----------------------------------------------------------------------------
LEMMA NextInv == IInv /\ [Next]_vars => IInv'
<1> SUFFICES ASSUME IInv, [Next]_vars PROVE IInv'
  OBVIOUS
<1>1. ASSUME NEW s \in Sessions, Launch(s) PROVE IInv'
  BY <1>1, LaunchInv
<1>2. ASSUME NEW s \in Sessions, User(s) PROVE IInv'
  BY <1>2, UserStartInv, UserStopInv, ManualRestartInv, UserSendInv, AddProfileInv,
     RemoveProfileInv DEF User
<1>3. ASSUME NEW s \in Sessions, NEW g \in Gens, Supervisor(s, g) \/ Bot(s, g) PROVE IInv'
  BY <1>3, SupervisorInv, BotInv
<1>4. CASE Frame
  BY <1>4, NoteExitsInv, AdvanceWatchersInv, ExitChecksInv DEF Frame
<1>5. CASE MainLeave
  BY <1>5, ExitChecksInv
<1>6. CASE UNCHANGED vars
  BY <1>6 DEF vars, IInv, TypeOK, WatchInv, RunInv, exitVars
<1> QED BY <1>1, <1>2, <1>3, <1>4, <1>5, <1>6 DEF Next

(* The inductive invariant holds in every behaviour of the console.         *)
THEOREM Inductive == Spec => []IInv
BY InitInv, NextInv, PTL DEF Spec

(* The stages, slots, watchers and mailboxes keep their types.              *)
THEOREM TypeCorrect == Spec => []TypeOK
<1>1. IInv => TypeOK
  BY DEF IInv
<1> QED BY <1>1, Inductive, PTL

(* Whatever start, stop, F3, the wizard and the watcher do, two runs of one *)
(* session are never alive together (prepare_start, begin_respawn, the      *)
(* FINISHED stage the supervisor sets last), but for a launch race.         *)
THEOREM OneBot == Spec => []AtMostOneBot
<1>1. IInv => AtMostOneBot
  BY DEF IInv, RunInv, RunOK, AtMostOneBot, Alive
<1> QED BY <1>1, Inductive, PTL

(* remove_profile leaves no orphan bot behind.                              *)
THEOREM NoOrphan == Spec => []RemovedHasNoBot
<1>1. IInv => RemovedHasNoBot
  BY DEF IInv, RunInv, RunOK, RemovedHasNoBot, Alive
<1> QED BY <1>1, Inductive, PTL

(* Between two interventions of the user at most MaxAttempts restarts.      *)
THEOREM Budget == Spec => []RestartBudget
<1>1. IInv => RestartBudget
  BY WatcherAssumption DEF IInv, TypeOK, Session, Watcher, WatchInv, WatchOK, RestartBudget
<1> QED BY <1>1, Inductive, PTL

(* A session the user stopped is not restarted before the user starts it:   *)
(* its watcher is Stopped(Manual), and only a due window is ever fired.     *)
THEOREM StoppedStaysStopped == Spec => NoRestartAfterStop
<1>1. ASSUME IInv, [Next]_vars, NEW s \in Sessions, autoRuns'[s] > autoRuns[s]
      PROVE  ~ses[s].manual
  <2>1. autoRuns \in [Sessions -> Nat] /\ autoRuns[s] \in Nat
    BY <1>1 DEF IInv, TypeOK
  <2>2. CASE AdvanceWatchers
    <3>1. s \in Ready
      BY <1>1, <2>1, <2>2 DEF AdvanceWatchers
    <3> QED BY <1>1, <3>1 DEF Ready, Due, IInv, WatchInv, WatchOK, Waiting, Manual
  <2>3. ASSUME ~AdvanceWatchers PROVE autoRuns'[s] \in {autoRuns[s], 0}
    <3>1. CASE UNCHANGED vars
      BY <3>1 DEF vars
    <3>2. ASSUME NEW r \in Sessions, Launch(r) PROVE autoRuns'[s] \in {autoRuns[s], 0}
      BY <3>2 DEF Launch
    <3>3. ASSUME NEW r \in Sessions, User(r) PROVE autoRuns'[s] \in {autoRuns[s], 0}
      BY <2>1, <3>3 DEF User, UserStart, WizardSubmit, Start, UserStop, ManualRestart,
                        UserSend, AddProfile, RemoveProfile, history
    <3>4. ASSUME NEW r \in Sessions, NEW g \in Gens, Supervisor(r, g) \/ Bot(r, g)
          PROVE autoRuns'[s] \in {autoRuns[s], 0}
      BY <3>4 DEF Supervisor, SupLaunch, SupPublish, SupNote, SupWrite, SupFinish, StepTask,
                  Bot, BotEnd, BotTakesCommand, BotCancelled, End, history
    <3>5. CASE Frame
      BY <2>3, <3>5 DEF Frame, NoteExits, CountLive, CheckStopped, CheckNeverStarted, history
    <3>6. CASE MainLeave
      BY <3>6 DEF MainLeave, history
    <3> QED BY <1>1, <3>1, <3>2, <3>3, <3>4, <3>5, <3>6 DEF Next
  <2> QED BY <1>1, <2>1, <2>2, <2>3
<1>2. IInv /\ [Next]_vars => [\A s \in Sessions : autoRuns'[s] > autoRuns[s] => ~ses[s].manual]_vars
  BY <1>1
<1> QED BY <1>2, Inductive, PTL DEF Spec, NoRestartAfterStop

-----------------------------------------------------------------------------
(* SessionSet implements AccountSlot: each step of the console is a step of *)
(* one account, of the accounts restarted in a frame, or of none.           *)
Calm == IInv /\ raced = {} /\ raced' = {}

(* A session that does not run has no bot. *)
LEMMA IdleIsFree ==
    ASSUME Calm, NEW s \in Sessions, ~Running(ses[s])
    PROVE  /\ s \notin Occupied
           /\ \A g \in Gens : ~Alive(task[s][g])
BY NotRunningIdle DEF Calm, IInv, Occupied, Alive

(* Who is occupied and barred after a step that touches session s only.     *)
LEMMA OneSlot ==
    ASSUME NEW s \in Sessions,
           \A r \in Sessions : r # s => task'[r] = task[r] /\ ses'[r] = ses[r]
    PROVE  /\ Occupied' = IF \E g \in Gens : Alive(task'[s][g]) THEN Occupied \cup {s}
                          ELSE Occupied \ {s}
           /\ Barred' = IF ses'[s].manual THEN Barred \cup {s} ELSE Barred \ {s}
BY DEF Occupied, Barred, Alive, Open

(* A supervisor, a bot or a command in the mailbox: whatever it does to the *)
(* bot of s, it leaves the bar and the count of restarts alone.             *)
LEMMA BotSlot ==
    ASSUME NEW s \in Sessions,
           \A r \in Sessions : r # s => task'[r] = task[r] /\ ses'[r] = ses[r],
           ses'[s].manual = ses[s].manual,
           autoRuns' = autoRuns
    PROVE  [Slots!SlotNext]_(Slots!slotVars)
<1>1. Barred' = Barred
  BY OneSlot DEF Barred
<1>2. Occupied' \in {Occupied \cup {s}, Occupied \ {s}}
  BY OneSlot
<1>3. CASE s \notin Occupied /\ Occupied' = Occupied \cup {s}
  BY <1>1, <1>3 DEF Slots!SlotNext, Slots!Occupy, Slots!Forgive
<1>4. CASE Occupied' = Occupied \ {s}
  BY <1>1, <1>4 DEF Slots!SlotNext, Slots!Release
<1>5. CASE Occupied' = Occupied
  BY <1>1, <1>5 DEF Slots!slotVars
<1> QED BY <1>2, <1>3, <1>4, <1>5

-----------------------------------------------------------------------------
(* The main thread: as raced stays empty, nobody has touched s before.      *)
LEMMA LaunchSlot ==
    ASSUME Calm, NEW s \in Sessions, Launch(s)
    PROVE  [Slots!SlotNext]_(Slots!slotVars)
<1>1. /\ \A r \in Sessions : r # s => task'[r] = task[r] /\ ses'[r] = ses[r]
      /\ ses'[s].manual = ses[s].manual
  BY DEF Launch, Calm, IInv, TypeOK, Session
<1> QED BY <1>1, BotSlot DEF Launch

(* A start is refused while a bot lives, so it occupies a free account and  *)
(* lifts the bar; without a password it bars the account.                   *)
LEMMA StartSlot ==
    ASSUME Calm, NEW s \in Sessions, NEW k, Start(s, k)
    PROVE  [Slots!SlotNext]_(Slots!slotVars)
<1> DEFINE x == ses[s]
           y == Prepared(x)
<1>1. x \in Session /\ x.gen \in Gens /\ y \in Session /\ y.gen = x.gen /\ ~y.manual
  BY PreparedType DEF Calm, IInv, TypeOK, Session
<1>2. Slots!Forgive(s)
  BY DEF Start, Slots!Forgive
<1>3. CASE k /\ Spawn(s, y)
  <2>1. ~Running(x)
    <3>1. RunOK(x, task[s], s \in present) /\ ~StartRefused(x)
      BY DEF Calm, IInv, RunInv, Start
    <3> QED BY <1>1, <3>1 DEF RunOK, StartRefused, Running, Finished, Gens
  <2>2. s \notin Occupied
    BY <2>1, IdleIsFree
  <2>3. y.gen + 1 \in Gens /\ Respawned(y).manual = y.manual /\ Respawned(y) \in Session
    BY <1>1, <1>3, RespawnedType DEF Spawn
  <2>4. ses'[s] = [Respawned(y) EXCEPT !.stopping = FALSE]
        /\ task'[s][y.gen + 1] = Spawned(<<>>)
        /\ \A r \in Sessions : r # s => task'[r] = task[r] /\ ses'[r] = ses[r]
    BY <1>3, <2>3 DEF Spawn, Calm, IInv, TypeOK
  <2>5. Alive(task'[s][y.gen + 1]) /\ ~ses'[s].manual
    BY <1>1, <2>3, <2>4 DEF Spawned, Alive, Open, Session
  <2>6. Occupied' = Occupied \cup {s} /\ Barred' = Barred \ {s}
    BY <2>3, <2>4, <2>5, OneSlot
  <2> QED BY <1>2, <2>2, <2>6 DEF Slots!SlotNext, Slots!Occupy
<1>4. CASE ses' = [ses EXCEPT ![s] = StartFailed(y)] /\ UNCHANGED task
  <2>1. ses'[s].manual /\ \A r \in Sessions : r # s => ses'[r] = ses[r]
    BY <1>1, <1>4 DEF StartFailed, Session, Calm, IInv, TypeOK
  <2>2. Barred' = Barred \cup {s} /\ Occupied' = Occupied
    BY <1>4, <2>1, OneSlot DEF Occupied
  <2> QED BY <1>2, <2>2 DEF Slots!SlotNext, Slots!Bar
<1> QED BY <1>3, <1>4 DEF Start

(* A stop bars the account; the bot is told, or aborted, and still lives.   *)
LEMMA StopSlot ==
    ASSUME Calm, NEW s \in Sessions, UserStop(s)
    PROVE  [Slots!SlotNext]_(Slots!slotVars)
<1>1. ses'[s].manual /\ \A r \in Sessions : r # s => ses'[r] = ses[r]
  BY DEF UserStop, StoppedByUser, Session, Calm, IInv, TypeOK
<1>2. \A r \in Sessions, g \in Gens : Alive(task'[r][g]) = Alive(task[r][g])
  <2>1. task \in [Sessions -> [Gens -> Task]] /\ ses[s].chan \in Gens
        /\ ses[s].slot \in Gens \cup {NoHandle}
    BY DEF Calm, IInv, TypeOK, Session
  <2>2. CASE task' = task
    BY <2>2
  <2>3. CASE task' = Delivered(s, "quit")
    <3> DEFINE c == ses[s].chan
               t == [task[s][c] EXCEPT !.box = Append(@, "quit")]
    <3>1. t.pc = task[s][c].pc /\ t.bot = task[s][c].bot
      BY <2>1 DEF Task
    <3>2. task' = [task EXCEPT ![s][c] = t]
      BY <2>3 DEF Delivered
    <3> HIDE DEF t
    <3> QED BY <2>1, <3>1, <3>2 DEF Alive, Open
  <2>4. CASE ses[s].slot \in Gens /\ task' = Aborted(s)
    BY <2>1, <2>4 DEF Aborted, Alive, Open, Task
  <2> QED BY <2>1, <2>2, <2>3, <2>4 DEF UserStop
<1>3. Occupied' = Occupied
  BY <1>2 DEF Occupied
<1>4. Barred' = Barred \cup {s}
  BY <1>1 DEF Barred
<1> QED BY <1>3, <1>4 DEF UserStop, Slots!SlotNext, Slots!Bar, Slots!Forgive

(* F3 runs a session that is over again, and otherwise pardons it; whether  *)
(* the account is barred stays as it was.                                   *)
LEMMA RestartSlot ==
    ASSUME Calm, NEW s \in Sessions, ManualRestart(s)
    PROVE  [Slots!SlotNext]_(Slots!slotVars)
<1> DEFINE x == ses[s]
           y == [x EXCEPT !.watch = Reset(@)]
<1>1. x \in Session /\ y \in Session /\ y.gen = x.gen /\ y.manual = x.manual /\ y.stage = x.stage
  BY ZenonT(40), ResetType DEF Calm, IInv, TypeOK, Session
<1>2. Slots!Forgive(s)
  BY DEF ManualRestart, Slots!Forgive
<1>3. CASE Finished(y)
  <2>1. s \notin Occupied
    BY <1>1, <1>3, IdleIsFree DEF Finished, Running
  <2>2. /\ y.gen < MaxGen /\ ses' = [ses EXCEPT ![s] = Respawned(y)]
        /\ task' = [task EXCEPT ![s][y.gen + 1] = Spawned(<<>>)]
    BY <1>3 DEF ManualRestart
  <2>3. y.gen + 1 \in Gens /\ Respawned(y).manual = x.manual
    BY <1>1, <2>2, RespawnedType
  <2>4. ses'[s].manual = x.manual /\ task'[s][y.gen + 1] = Spawned(<<>>)
        /\ \A r \in Sessions : r # s => task'[r] = task[r] /\ ses'[r] = ses[r]
    BY <2>2, <2>3 DEF Calm, IInv, TypeOK
  <2>5. Alive(task'[s][y.gen + 1])
    BY <2>4 DEF Spawned, Alive, Open
  <2>6. Occupied' = Occupied \cup {s} /\ Barred' = Barred
    BY <2>3, <2>4, <2>5, OneSlot DEF Barred
  <2> QED BY <1>2, <2>1, <2>6 DEF Slots!SlotNext, Slots!Occupy
<1>4. CASE ses' = [ses EXCEPT ![s] = y] /\ UNCHANGED task
  <2>1. Occupied' = Occupied /\ Barred' = Barred
    BY <1>1, <1>4 DEF Occupied, Barred, Calm, IInv, TypeOK
  <2> QED BY <1>2, <2>1 DEF Slots!SlotNext, Slots!Pardon
<1> QED BY <1>3, <1>4 DEF ManualRestart

(* A profile that is attached again was removed, so it has no bot.          *)
LEMMA AddSlot ==
    ASSUME Calm, NEW s \in Sessions, AddProfile(s)
    PROVE  [Slots!SlotNext]_(Slots!slotVars)
<1>1. s \notin Occupied
  BY DEF AddProfile, Calm, IInv, RunInv, RunOK, Occupied, Alive
<1>2. /\ \A r \in Sessions : r # s => task'[r] = task[r] /\ ses'[r] = ses[r]
      /\ ~ses'[s].manual /\ \A g \in Gens : task'[s][g].pc = "none"
  BY DEF AddProfile, NewSession, Parked, NoTask, Calm, IInv, TypeOK
<1>3. Occupied' = Occupied /\ Barred' = Barred \ {s}
  BY <1>1, <1>2, OneSlot DEF Alive
<1> QED BY <1>1, <1>3 DEF AddProfile, Slots!SlotNext, Slots!Reattach

LEMMA RemoveSlot ==
    ASSUME Calm, NEW s \in Sessions, RemoveProfile(s)
    PROVE  [Slots!SlotNext]_(Slots!slotVars)
<1>1. /\ \A r \in Sessions : r # s => task'[r] = task[r]
      /\ UNCHANGED <<ses, autoRuns>>
  BY DEF RemoveProfile, history, Calm, IInv, TypeOK
<1> QED BY <1>1, BotSlot

-----------------------------------------------------------------------------
(* A frame: the exits it notes change no slot, and the restarts that are    *)
(* due hit accounts that are free, not barred and within the budget.        *)
LEMMA NoteSlot ==
    ASSUME Calm, NEW d \in FrameGaps, NoteExits(d)
    PROVE  UNCHANGED Slots!slotVars
<1>1. UNCHANGED <<task, autoRuns>> /\ \A s \in Sessions : ses'[s].manual = ses[s].manual
  BY DEF NoteExits, history, Calm, IInv, TypeOK, Session
<1> QED BY <1>1 DEF Occupied, Barred, Slots!slotVars

LEMMA ReadyIsFree ==
    ASSUME Calm, NEW s \in Ready
    PROVE  /\ s \in Sessions /\ s \notin Occupied /\ s \notin Barred
           /\ autoRuns[s] < MaxAttempts
<1>1. s \in Sessions /\ Waiting(ses[s].watch)
  BY DEF Ready, Due, Calm, IInv, TypeOK
<1>2. RunOK(ses[s], task[s], s \in present) /\ WatchOK(ses[s], autoRuns[s])
  BY <1>1 DEF Calm, IInv, RunInv, WatchInv
<1>3. ~Running(ses[s]) /\ ~ses[s].manual
  BY <1>1, <1>2 DEF RunOK, WatchOK, Running, Finished, Waiting, Manual
<1>4. autoRuns[s] \in Nat /\ ses[s].watch.attempts \in Nat
  BY <1>1 DEF Calm, IInv, TypeOK, Session, Watcher
<1>5. autoRuns[s] < MaxAttempts
  BY <1>1, <1>2, <1>4, WatcherAssumption DEF WatchOK
<1> QED BY <1>1, <1>3, <1>5, IdleIsFree DEF Barred

LEMMA RestartsSlot ==
    ASSUME Calm, AdvanceWatchers
    PROVE  Slots!Reoccupy(Ready) /\ Ready \in SUBSET Sessions
<1> DEFINE again(s) == [ses[s] EXCEPT !.watch = PollReady(@)]
<1>1. /\ Ready \cap (Occupied \cup Barred) = {} /\ Ready \subseteq Sessions
      /\ \A s \in Ready : autoRuns[s] < MaxAttempts
  BY ReadyIsFree
<1>2. ASSUME NEW s \in Ready
      PROVE  /\ ses[s].gen + 1 \in Gens /\ task'[s][ses[s].gen + 1] = Spawned(<<>>)
             /\ ses'[s].manual = ses[s].manual
  <2>1. ses[s] \in Session /\ ses[s].watch \in Watcher /\ ses[s].gen < MaxGen /\ s \in Sessions
    BY <1>1 DEF Calm, IInv, TypeOK, Session, Ready
  <2>2. again(s) \in Session /\ again(s).gen = ses[s].gen /\ again(s).manual = ses[s].manual
    BY <2>1 DEF PollReady, Session, Watcher
  <2>3. ses[s].gen + 1 \in Gens /\ Respawned(again(s)).manual = ses[s].manual
    BY <2>1, <2>2, RespawnedType
  <2> QED BY <1>2, <2>1, <2>3 DEF AdvanceWatchers
<1>3. \A s \in Sessions \ Ready : /\ ses'[s] = ses[s]
                                  /\ \A g \in Gens : task'[s][g] = task[s][g]
  BY DEF AdvanceWatchers
<1>4. \A s \in Ready : \E g \in Gens : Alive(task'[s][g])
  BY <1>2 DEF Spawned, Alive, Open
<1>5. Occupied' = Occupied \cup Ready
  BY <1>1, <1>3, <1>4 DEF Occupied
<1>6. Barred' = Barred
  BY <1>2, <1>3 DEF Barred
<1>7. autoRuns' = [s \in Sessions |-> IF s \in Ready THEN autoRuns[s] + 1 ELSE autoRuns[s]]
  BY DEF AdvanceWatchers
<1> QED BY <1>1, <1>5, <1>6, <1>7 DEF Slots!Reoccupy

LEMMA TaskSlot ==
    ASSUME Calm, NEW s \in Sessions, NEW g \in Gens, Supervisor(s, g) \/ Bot(s, g)
    PROVE  [Slots!SlotNext]_(Slots!slotVars)
<1>1. autoRuns' = autoRuns
  BY DEF Supervisor, Bot, SupLaunch, SupPublish, SupNote, SupWrite, SupFinish, StepTask,
         BotEnd, BotTakesCommand, BotCancelled, End, history
<1>2. \A r \in Sessions : r # s => task'[r] = task[r] /\ ses'[r] = ses[r]
  <2> USE DEF Calm, IInv, TypeOK
  <2>1. CASE Supervisor(s, g)
    BY <2>1 DEF Supervisor, SupLaunch, SupPublish, SupNote, SupWrite, SupFinish, StepTask
  <2>2. ASSUME NEW how, End(s, g, how) PROVE \A r \in Sessions : r # s => task'[r] = task[r]
                                                                 /\ ses'[r] = ses[r]
    BY <2>2 DEF End
  <2>3. ASSUME BotTakesCommand(s, g) PROVE \A r \in Sessions : r # s => task'[r] = task[r]
                                                                 /\ ses'[r] = ses[r]
    BY <2>2, <2>3 DEF BotTakesCommand
  <2> QED BY <2>1, <2>2, <2>3 DEF Bot, BotEnd, BotCancelled
<1>3. ses'[s].manual = ses[s].manual
  <2> USE DEF Calm, IInv, TypeOK, Session
  <2>1. CASE Supervisor(s, g)
    BY <2>1 DEF Supervisor, SupLaunch, SupPublish, SupNote, SupWrite, SupFinish
  <2>2. CASE Bot(s, g)
    BY <2>2 DEF Bot, BotEnd, BotTakesCommand, BotCancelled, End
  <2> QED BY <2>1, <2>2
<1> QED BY <1>1, <1>2, <1>3, BotSlot

-----------------------------------------------------------------------------
LEMMA StepSlot ==
    ASSUME Calm, [Next]_vars
    PROVE  [Slots!SlotNext]_(Slots!slotVars)
<1>1. ASSUME NEW s \in Sessions, Launch(s) \/ User(s) PROVE [Slots!SlotNext]_(Slots!slotVars)
  <2>1. CASE Launch(s)
    BY <2>1, LaunchSlot
  <2>2. CASE UserStart(s)
    BY <2>2, StartSlot DEF UserStart
  <2>3. CASE WizardSubmit(s)
    <3>1. CASE Start(s, TRUE)
      BY <3>1, StartSlot
    <3>2. CASE UNCHANGED <<ses, task, history>>
      BY <3>2, BotSlot DEF history
    <3> QED BY <2>3, <3>1, <3>2 DEF WizardSubmit
  <2>4. CASE UserStop(s) \/ ManualRestart(s)
    BY <2>4, StopSlot, RestartSlot
  <2>5. ASSUME NEW m \in Command, UserSend(s, m) PROVE [Slots!SlotNext]_(Slots!slotVars)
    BY <2>5, BotSlot DEF UserSend, Delivered, history, Calm, IInv, TypeOK
  <2>6. CASE AddProfile(s) \/ RemoveProfile(s)
    BY <2>6, AddSlot, RemoveSlot
  <2> QED BY <1>1, <2>1, <2>2, <2>3, <2>4, <2>5, <2>6 DEF User
<1>2. ASSUME NEW s \in Sessions, NEW g \in Gens, Supervisor(s, g) \/ Bot(s, g)
      PROVE  [Slots!SlotNext]_(Slots!slotVars)
  BY <1>2, TaskSlot
<1>3. CASE Frame
  <2>1. ASSUME NEW d \in FrameGaps, NoteExits(d) PROVE [Slots!SlotNext]_(Slots!slotVars)
    BY <2>1, NoteSlot
  <2>2. CASE AdvanceWatchers
    BY <2>2, RestartsSlot DEF Slots!SlotNext
  <2>3. CASE CountLive \/ CheckStopped \/ CheckNeverStarted
    BY <2>3 DEF CountLive, CheckStopped, CheckNeverStarted, history, Occupied, Barred, Alive,
                Open, Slots!slotVars
  <2> QED BY <1>3, <2>1, <2>2, <2>3 DEF Frame
<1>4. CASE MainLeave \/ UNCHANGED vars
  BY <1>4 DEF MainLeave, vars, history, Occupied, Barred, Alive, Open, Slots!slotVars
<1> QED BY <1>1, <1>2, <1>3, <1>4 DEF Next

LEMMA SlotsAtFirst == Init => Slots!SlotInit
<1> SUFFICES ASSUME Init PROVE Slots!SlotInit
  OBVIOUS
<1>1. \A s \in Sessions : ~ses[s].manual /\ \A g \in Gens : task[s][g].pc = "none"
  BY DEF Init, NewSession, Parked, NoTask
<1> QED BY <1>1 DEF Init, Occupied, Barred, Alive, Slots!SlotInit

(* As long as no launch races with a key (sessions in raced), the sessions, *)
(* watchers, supervisors and keys of the console implement AccountSlot: an  *)
(* account is occupied by a start when it is free, restarted by itself only *)
(* while it is free, not barred and within the budget.                      *)
THEOREM Refinement == Spec /\ [](raced = {}) => ImplementsAccountSlot
<1>1. Init => Slots!SlotInit
  BY SlotsAtFirst
<1>2. IInv /\ raced = {} /\ (raced = {})' /\ [Next]_vars => [Slots!SlotNext]_(Slots!slotVars)
  BY StepSlot DEF Calm
<1> QED BY <1>1, <1>2, Inductive, PTL DEF Spec, ImplementsAccountSlot, Slots!SlotSpec

-----------------------------------------------------------------------------
(* How the end of a bot reaches the session, the watcher and the exit       *)
(* condition: OutcomeReadable, RestartsAreDue and DoneMeansIdle.            *)

(* What the operators on a session do to the flags and the outcome.         *)
LEMMA PreparedEnd ==
    ASSUME NEW x \in Session
    PROVE  Prepared(x).panicked = x.panicked /\ Prepared(x).outcome = "None"
BY DEF Prepared, Session

LEMMA StartFailedEnd ==
    ASSUME NEW x \in Session
    PROVE  /\ StartFailed(x).panicked = x.panicked /\ StartFailed(x).outcome = x.outcome
           /\ StartFailed(x).gen = x.gen /\ StartFailed(x).manual /\ StartFailed(x).startFailed
BY DEF StartFailed, Session

LEMMA StoppedEnd ==
    ASSUME NEW x \in Session
    PROVE  /\ StoppedByUser(x).panicked = x.panicked /\ StoppedByUser(x).outcome = "None"
           /\ StoppedByUser(x).manual
BY DEF StoppedByUser, Session

LEMMA RespawnedEnd ==
    ASSUME NEW x \in Session, x.gen < MaxGen
    PROVE  ~Respawned(x).panicked /\ Respawned(x).outcome = "None"
<1> DEFINE y == BeginRespawn(x)
<1>1. y = [x EXCEPT !.gen = @ + 1, !.panicked = FALSE, !.slot = NoHandle,
                    !.outcome = "None", !.stage = "WIZARD", !.watch = Rearm(@)]
  BY DEF BeginRespawn
<1>2. ~y.panicked /\ y.outcome = "None" /\ DOMAIN y = DOMAIN x
  BY <1>1 DEF Session
<1>3. Respawned(x) = [y EXCEPT !.stage = "RUNNING", !.chan = y.gen]
  BY DEF Respawned
<1> HIDE DEF y
<1> QED BY <1>2, <1>3 DEF Session

(* Only a stop by the user makes a watcher Stopped(Manual).                 *)
LEMMA ManualWatch ==
    ASSUME NEW w \in Watcher, NEW d \in Nat, NEW o \in RunOutcome \cup {"None"}, NEW p \in BOOLEAN
    PROVE  /\ Manual(Rearm(w)) => Manual(w)
           /\ Manual(Reset(w)) => Manual(w)
           /\ ~Manual(Resume(w))
           /\ Manual(Elapse(w, d)) => Manual(w)
           /\ Manual(OnExit(w, o, p)) => Manual(w)
           /\ Manual(Rearm(PollReady(w))) => Manual(w)
<1>1. Manual(Rearm(w)) => Manual(w)
  BY DEF Rearm, Enter, Manual, Watcher
<1>2. Manual(Reset(w)) => Manual(w)
  BY DEF Reset, Enter, Manual, Watcher
<1>3. ~Manual(Resume(w))
  BY DEF Resume, NewWatcher, Manual, Watcher
<1>4. Manual(Elapse(w, d)) => Manual(w)
  BY ElapseType DEF Manual
<1>5. Manual(OnExit(w, o, p)) => Manual(w)
  <2> DEFINE kind == IF p THEN "Panic" ELSE KindOf(o)
  <2>1. o # "None" => kind # "Manual"
    BY DEF KindOf, RunOutcome
  <2> HIDE DEF kind
  <2>2. ASSUME NEW v, v = OnExit(w, o, p)
        PROVE  \/ v = w \/ v = Enter(w, "Idle", "None") \/ v = Enter(w, "GivenUp", "None")
               \/ v = Schedule(w) \/ (o # "None" /\ v = Enter(w, "Stopped", kind))
    <3>1. CASE ExitIgnored(w)
      BY <2>2, <3>1 DEF OnExit
    <3>2. CASE ~ExitIgnored(w) /\ o = "None"
      BY <2>2, <3>2 DEF OnExit
    <3>3. CASE ~ExitIgnored(w) /\ o # "None"
      <4>1. v = Enter(w, "Stopped", kind) \/ v = Enter(w, "GivenUp", "None") \/ v = Schedule(w)
        BY <2>2, <3>3 DEF OnExit, kind
      <4> QED BY <3>3, <4>1
    <3> QED BY <3>1, <3>2, <3>3
  <2>3. PICK v : v = OnExit(w, o, p)
    OBVIOUS
  <2>4. Manual(v) => Manual(w)
    BY <2>1, <2>2, <2>3 DEF Enter, Schedule, Manual
  <2> QED BY <2>3, <2>4
<1>6. Manual(Rearm(PollReady(w))) => Manual(w)
  BY DEF Rearm, PollReady, Enter, Manual, Watcher
<1> QED BY <1>1, <1>2, <1>3, <1>4, <1>5, <1>6

-----------------------------------------------------------------------------
LEMMA OneEnd ==
    ASSUME EndInv, NEW s \in Sessions,
           \A r \in Sessions : r # s => /\ ses'[r] = ses[r] /\ task'[r] = task[r]
                                        /\ lastEnd'[r] = lastEnd[r],
           raced \subseteq raced',
           s \notin raced' => EndOK(ses'[s], task'[s], lastEnd'[s])
    PROVE  EndInv'
<1> SUFFICES ASSUME NEW r \in Sessions \ raced' PROVE EndOK(ses'[r], task'[r], lastEnd'[r])
  BY Zenon DEF EndInv
<1>1. CASE r = s
  BY <1>1
<1>2. CASE r # s
  <2>1. EndOK(ses[r], task[r], lastEnd[r])
    BY <1>2 DEF EndInv
  <2> QED BY <1>2, <2>1
<1> QED BY <1>1, <1>2

(* A fresh run of a session that has none, from the session y.              *)
LEMMA FreshRun ==
    ASSUME NEW x, NEW y, NEW t \in [Gens -> Task], NEW u \in [Gens -> Task], NEW end,
           NEW g \in Gens, NEW box,
           EndOK(x, t, end), \A h \in Gens : t[h].pc = "none",
           \A h \in Gens : h # g => u[h] = t[h],
           u[g] = Spawned(box),
           y.stage = "RUNNING", ~y.panicked, y.outcome \in BotOutcomes \cup {"None"},
           Manual(y.watch) => y.manual
    PROVE  EndOK(y, u, end)
<1>1. \A h \in Gens : u[h].pc \in {"none", "spawned"} /\ u[h].bot \in {"absent", "parked"}
  BY DEF EndOK, Spawned
<1>2. \A h \in Gens : ~Ended(u[h])
  BY <1>1, SessionAssumption DEF Ended, BotEnds, RunOutcome
<1> QED BY <1>1, <1>2 DEF EndOK, Finished

(* The watcher alone changes.                                               *)
LEMMA WatchEnd ==
    ASSUME NEW x \in Session, NEW w \in Watcher, NEW t, NEW end, EndOK(x, t, end),
           Manual(w) => Manual(x.watch)
    PROVE  EndOK([x EXCEPT !.watch = w], t, end)
<1> DEFINE y == [x EXCEPT !.watch = w]
<1>1. /\ y.watch = w /\ y.manual = x.manual /\ y.gen = x.gen /\ y.startFailed = x.startFailed
      /\ y.stage = x.stage /\ y.panicked = x.panicked /\ y.outcome = x.outcome
  BY DEF Session
<1> HIDE DEF y
<1> QED
  <2> EndOK(y, t, end)
    BY <1>1 DEF EndOK, Finished
  <2> QED BY DEF y

(* Mailboxes change, a bot is told to abort, a receiver is dropped.         *)
SameBots(t, u) ==
    \A g \in Gens : \/ u[g] = NoTask
                    \/ /\ u[g].pc = t[g].pc
                       /\ \/ u[g].bot = t[g].bot
                          \/ t[g].bot = "on" /\ u[g].bot = "aborting"

LEMMA BotsEnd ==
    ASSUME NEW x, NEW t, NEW u, NEW end, EndOK(x, t, end), SameBots(t, u)
    PROVE  EndOK(x, u, end)
<1>1. ASSUME NEW g \in Gens
      PROVE  /\ u[g].pc \in {"none", "spawned"} => u[g].bot \in {"absent", "parked"}
             /\ u[g].pc \in {"spawned", "launched", "watching"} => ~x.panicked
             /\ u[g].pc \in {"noted", "written"} => Ended(u[g]) /\ (x.panicked <=> end = "Panic")
             /\ u[g].pc = "written" /\ ~x.manual => x.outcome = Told(end)
             /\ Ended(u[g]) => u[g].bot = end
             /\ u[g].bot = "Panic" => x.gen < MaxGen
  <2>1. "on" \notin BotEnds /\ "aborting" \notin BotEnds /\ "absent" \notin BotEnds
    BY SessionAssumption DEF BotEnds, RunOutcome
  <2>2. CASE u[g] = NoTask
    BY <2>1, <2>2 DEF NoTask, Ended
  <2>3. CASE u[g].pc = t[g].pc /\ u[g].bot = t[g].bot
    BY <2>3 DEF EndOK, Ended
  <2>4. CASE u[g].pc = t[g].pc /\ t[g].bot = "on" /\ u[g].bot = "aborting"
    BY <2>1, <2>4 DEF EndOK, Ended
  <2> QED BY <2>2, <2>3, <2>4 DEF SameBots
<1> QED BY <1>1 DEF EndOK

-----------------------------------------------------------------------------
(* EndInv, action by action.                                                *)
LEMMA InitEnd == Init => EndInv
<1> SUFFICES ASSUME Init, NEW s \in Sessions PROVE EndOK(ses[s], task[s], lastEnd[s])
  BY DEF EndInv
<1>1. ses[s].stage = "WIZARD" /\ ~ses[s].panicked /\ ses[s].outcome = "None"
      /\ ~Manual(ses[s].watch)
  BY DEF Init, NewSession, NewWatcher, Manual
<1>2. \A g \in Gens : task[s][g].pc = "none" /\ task[s][g].bot \in {"absent", "parked"}
  BY DEF Init, Parked, NoTask
<1>3. \A g \in Gens : ~Ended(task[s][g])
  BY <1>2, SessionAssumption DEF Ended, BotEnds, RunOutcome
<1> QED BY <1>1, <1>2, <1>3 DEF EndOK, Finished

LEMMA LaunchEnd ==
    ASSUME IInv, EndInv, NEW s \in Sessions, Launch(s)
    PROVE  EndInv'
<1> USE DEF IInv, TypeOK
<1>1. 0 \in Gens /\ ses[s] \in Session /\ task[s] \in [Gens -> Task]
  BY GenZero
<1>2. /\ raced \subseteq raced' /\ lastEnd' = lastEnd
      /\ \A r \in Sessions : r # s => ses'[r] = ses[r] /\ task'[r] = task[r]
  BY DEF Launch
<1>3. ASSUME s \notin raced' PROVE EndOK(ses'[s], task'[s], lastEnd'[s])
  <2>1. EndOK(ses[s], task[s], lastEnd[s])
    BY <1>2, <1>3 DEF EndInv
  <2>2. CASE s \notin Autostart
    <3>1. ses' = ses /\ task' = [task EXCEPT ![s][0] = NoTask]
      BY <2>2 DEF Launch
    <3>2. \A g \in Gens : task'[s][g] = IF g = 0 THEN NoTask ELSE task[s][g]
      BY <1>1, <3>1
    <3>3. SameBots(task[s], task'[s])
      BY <3>2 DEF SameBots
    <3> QED BY <1>2, <2>1, <3>1, <3>3, BotsEnd
  <2>3. CASE s \in Autostart
    <3> DEFINE y == [ses[s] EXCEPT !.stage = "RUNNING"]
    <3>1. NeverStarted(ses[s]) /\ s \notin raced
      BY <1>2, <1>3, <2>3 DEF Launch
    <3>2. \A g \in Gens : task[s][g].pc = "none"
      BY <3>1, NotRunningIdle DEF NeverStarted, Running
    <3>3. y.stage = "RUNNING" /\ y.panicked = ses[s].panicked /\ y.outcome = ses[s].outcome
          /\ y.watch = ses[s].watch /\ y.manual = ses[s].manual
      BY <1>1 DEF Session
    <3>4. ses'[s] = y /\ task'[s][0] = Spawned(task[s][0].box)
          /\ \A h \in Gens : h # 0 => task'[s][h] = task[s][h]
      BY <1>1, <2>3 DEF Launch
    <3>5. ~ses[s].panicked /\ ses[s].outcome \in BotOutcomes \cup {"None"}
          /\ (Manual(ses[s].watch) => ses[s].manual)
      BY <2>1, <3>1 DEF EndOK, NeverStarted
    <3>6. task'[s] \in [Gens -> Task]
      BY LaunchInv
    <3> HIDE DEF y
    <3> QED BY SMTT(25), <1>1, <1>2, <2>1, <3>2, <3>3, <3>4, <3>5, <3>6, FreshRun
  <2> QED BY <2>2, <2>3
<1> QED BY <1>2, <1>3, OneEnd

(* A start that is not refused finds no run of the session.                 *)
LEMMA StartedIdle ==
    ASSUME IInv, NEW s \in Sessions, s \notin raced, ~StartRefused(ses[s])
    PROVE  \A g \in Gens : task[s][g].pc = "none"
<1>1. ses[s].gen \in Gens /\ RunOK(ses[s], task[s], s \in present)
  BY DEF IInv, TypeOK, Session, RunInv
<1>2. ~Running(ses[s])
  BY <1>1 DEF RunOK, StartRefused, Running, Finished, Gens
<1> QED BY <1>2, NotRunningIdle DEF IInv

LEMMA StartEnd ==
    ASSUME IInv, EndInv, NEW s \in Sessions, NEW k, Start(s, k)
    PROVE  EndInv'
<1> DEFINE x == ses[s]
           y == Prepared(x)
<1>1. x \in Session /\ x.watch \in Watcher /\ x.gen \in Gens /\ task[s] \in [Gens -> Task]
  BY DEF IInv, TypeOK, Session
<1>2. /\ y \in Session /\ y.gen = x.gen /\ y.watch = Resume(x.watch) /\ y.stage = "WIZARD"
      /\ y.panicked = x.panicked /\ ~Manual(y.watch) /\ y.outcome = "None"
  <2>1. ~Manual(Resume(x.watch))
    BY <1>1 DEF Resume, NewWatcher, Manual
  <2> QED BY <1>1, <2>1, PreparedType, PreparedEnd
<1>3. raced' = raced /\ lastEnd' = lastEnd /\ ~StartRefused(x)
  BY DEF Start
<1> HIDE DEF y
<1>4. CASE k /\ Spawn(s, y)
  <2> DEFINE z == Respawned(y)
             v == [z EXCEPT !.stopping = FALSE]
  <2>1. /\ z \in Session /\ z.stage = "RUNNING" /\ z.watch = Rearm(y.watch)
        /\ ~z.panicked /\ z.outcome = "None" /\ y.gen + 1 \in Gens
    BY <1>2, <1>4, RespawnedType, RespawnedEnd DEF Spawn
  <2>2. ~Manual(z.watch)
    BY <1>2, <2>1 DEF Rearm, Enter, Manual
  <2>3. ses' = [ses EXCEPT ![s] = v] /\ task' = [task EXCEPT ![s][y.gen + 1] = Spawned(<<>>)]
    BY <1>4 DEF Spawn
  <2> HIDE DEF z
  <2>4. v.stage = "RUNNING" /\ ~v.panicked /\ v.outcome = "None" /\ v.watch = z.watch
    BY <2>1 DEF Session
  <2> HIDE DEF v
  <2>5. /\ ses'[s] = v /\ task'[s] \in [Gens -> Task] /\ task'[s][y.gen + 1] = Spawned(<<>>)
        /\ \A h \in Gens : h # y.gen + 1 => task'[s][h] = task[s][h]
        /\ \A r \in Sessions : r # s => ses'[r] = ses[r] /\ task'[r] = task[r]
    BY <2>1, <2>3, TaskValues, OneTask DEF IInv, TypeOK
  <2>6. ASSUME s \notin raced' PROVE EndOK(ses'[s], task'[s], lastEnd'[s])
    <3>1. EndOK(x, task[s], lastEnd[s]) /\ \A g \in Gens : task[s][g].pc = "none"
      BY <1>3, <2>6, StartedIdle DEF EndInv
    <3> QED BY <1>1, <1>3, <2>1, <2>2, <2>4, <2>5, <3>1, FreshRun
  <2> QED BY <1>3, <2>5, <2>6, OneEnd
<1>5. CASE ses' = [ses EXCEPT ![s] = StartFailed(y)] /\ UNCHANGED task
  <2> DEFINE v == StartFailed(y)
  <2>1. /\ v.stage = "WIZARD" /\ v.panicked = x.panicked /\ v.outcome = "None"
        /\ v.gen = x.gen /\ v.manual /\ v.startFailed
    BY <1>2, StartFailedType, StartFailedEnd
  <2>2. ses' = [ses EXCEPT ![s] = v]
    BY <1>5
  <2> HIDE DEF v
  <2>3. ses'[s] = v /\ \A r \in Sessions : r # s => ses'[r] = ses[r]
    BY <2>2 DEF IInv, TypeOK
  <2>4. ASSUME s \notin raced' PROVE EndOK(ses'[s], task'[s], lastEnd'[s])
    <3>1. EndOK(x, task[s], lastEnd[s]) /\ \A g \in Gens : task[s][g].pc = "none"
      BY <1>3, <2>4, StartedIdle DEF EndInv
    <3> QED BY <1>3, <1>5, <2>1, <2>3, <3>1 DEF EndOK, Finished
  <2> QED BY <1>3, <1>5, <2>3, <2>4, OneEnd
<1> QED BY <1>4, <1>5 DEF Start, y

(* A stop erases the outcome and leaves the runs to end as they will.       *)
LEMMA SentBots ==
    ASSUME IInv, NEW s \in Sessions
    PROVE  /\ \A m \in Command : SameBots(task[s], Delivered(s, m)[s])
           /\ ses[s].slot # NoHandle => SameBots(task[s], Aborted(s)[s])
<1>1. /\ task \in [Sessions -> [Gens -> Task]] /\ ses[s].chan \in Gens
      /\ ses[s].slot \in Gens \cup {NoHandle}
  BY DEF IInv, TypeOK, Session
<1>2. ASSUME NEW m \in Command, NEW g \in Gens
      PROVE  /\ Delivered(s, m)[s][g].pc = task[s][g].pc
             /\ Delivered(s, m)[s][g].bot = task[s][g].bot
  <2> DEFINE c == ses[s].chan
             t == [task[s][c] EXCEPT !.box = Append(@, m)]
  <2>1. t.pc = task[s][c].pc /\ t.bot = task[s][c].bot
    BY <1>1 DEF Task
  <2>2. Delivered(s, m) = [task EXCEPT ![s][c] = t]
    BY DEF Delivered
  <2> HIDE DEF t
  <2> QED BY <1>1, <2>1, <2>2
<1>3. ASSUME ses[s].slot # NoHandle, NEW g \in Gens
      PROVE  /\ Aborted(s)[s][g].pc = task[s][g].pc
             /\ \/ Aborted(s)[s][g].bot = task[s][g].bot
                \/ task[s][g].bot = "on" /\ Aborted(s)[s][g].bot = "aborting"
  <2> DEFINE c == ses[s].slot
             t == [task[s][c] EXCEPT !.bot = "aborting"]
  <2>1. c \in Gens /\ t.pc = task[s][c].pc /\ t.bot = "aborting"
    BY <1>1, <1>3 DEF Task
  <2>2. \/ Aborted(s) = task
        \/ task[s][c].bot = "on" /\ Aborted(s) = [task EXCEPT ![s][c] = t]
    BY DEF Aborted
  <2> HIDE DEF t, c
  <2> QED BY <1>1, <2>1, <2>2
<1> QED BY <1>2, <1>3 DEF SameBots

LEMMA StopEnd ==
    ASSUME IInv, EndInv, NEW s \in Sessions, UserStop(s)
    PROVE  EndInv'
<1> DEFINE x == ses[s]
           y == StoppedByUser(x)
<1>1. x \in Session
  BY DEF IInv, TypeOK
<1>2. /\ y.stage = x.stage /\ y.gen = x.gen /\ y.startFailed = x.startFailed
      /\ y.panicked = x.panicked /\ y.outcome = "None" /\ y.manual
  BY <1>1, StoppedByUserType, StoppedEnd
<1>3. ses' = [ses EXCEPT ![s] = y] /\ raced' = raced /\ lastEnd' = lastEnd
  BY DEF UserStop
<1> HIDE DEF y
<1>4. /\ SameBots(task[s], task'[s])
      /\ \A r \in Sessions : r # s => task'[r] = task[r]
  <2>1. SameBots(task[s], task[s])
    BY DEF SameBots
  <2> QED BY <2>1, SentBots, SendType DEF UserStop, Command, IInv
<1>5. ses'[s] = y /\ \A r \in Sessions : r # s => ses'[r] = ses[r]
  BY <1>3 DEF IInv, TypeOK
<1>6. ASSUME s \notin raced' PROVE EndOK(ses'[s], task'[s], lastEnd'[s])
  <2>1. EndOK(x, task'[s], lastEnd[s])
    BY <1>3, <1>4, <1>6, BotsEnd DEF EndInv
  <2> QED BY <1>2, <1>3, <1>5, <2>1 DEF EndOK, Finished
<1> QED BY <1>3, <1>4, <1>5, <1>6, OneEnd

LEMMA RestartEnd ==
    ASSUME IInv, EndInv, NEW s \in Sessions, ManualRestart(s)
    PROVE  EndInv'
<1> DEFINE x == ses[s]
           w == Reset(x.watch)
           y == [x EXCEPT !.watch = w]
<1>1. x \in Session /\ x.watch \in Watcher /\ x.gen \in Gens /\ task[s] \in [Gens -> Task]
  BY DEF IInv, TypeOK, Session
<1>2. w \in Watcher /\ ~Waiting(w) /\ (Manual(w) => Manual(x.watch))
  BY <1>1, ResetType DEF Reset, Enter, Manual
<1>3. y \in Session /\ y.watch = w /\ y.manual = x.manual /\ y.stage = x.stage
  BY <1>1, <1>2, SetWatch
<1>4. raced' = raced /\ lastEnd' = lastEnd
  BY DEF ManualRestart
<1>5. CASE Finished(y)
  <2> DEFINE z == Respawned(y)
  <2>1. /\ y.gen < MaxGen /\ ses' = [ses EXCEPT ![s] = z]
        /\ task' = [task EXCEPT ![s][y.gen + 1] = Spawned(<<>>)]
    BY <1>5 DEF ManualRestart
  <2> HIDE DEF y, w
  <2>2. /\ z \in Session /\ z.stage = "RUNNING" /\ z.watch = Rearm(w) /\ z.manual = x.manual
        /\ ~z.panicked /\ z.outcome = "None" /\ y.gen + 1 \in Gens
    BY <1>3, <2>1, RespawnedType, RespawnedEnd
  <2>3. z.watch = w
    BY <1>2, <2>2, RearmType
  <2> HIDE DEF z
  <2>4. /\ ses'[s] = z /\ task'[s] \in [Gens -> Task] /\ task'[s][y.gen + 1] = Spawned(<<>>)
        /\ \A h \in Gens : h # y.gen + 1 => task'[s][h] = task[s][h]
        /\ \A r \in Sessions : r # s => ses'[r] = ses[r] /\ task'[r] = task[r]
    BY <2>1, <2>2, TaskValues, OneTask DEF IInv, TypeOK
  <2>5. ASSUME s \notin raced' PROVE EndOK(ses'[s], task'[s], lastEnd'[s])
    <3>1. ~Running(x)
      BY <1>3, <1>5 DEF Finished, Running
    <3>2. EndOK(x, task[s], lastEnd[s]) /\ \A g \in Gens : task[s][g].pc = "none"
      BY <1>4, <2>5, <3>1, NotRunningIdle DEF EndInv, IInv
    <3>3. Manual(z.watch) => z.manual
      BY <1>2, <2>2, <2>3, <3>2 DEF EndOK
    <3> QED BY <1>1, <1>4, <2>2, <2>4, <3>2, <3>3, FreshRun
  <2> QED BY <1>4, <2>4, <2>5, OneEnd
<1>6. CASE ~Finished(y)
  <2>1. ses' = [ses EXCEPT ![s] = y] /\ task' = task
    BY <1>6 DEF ManualRestart
  <2> HIDE DEF w
  <2>2. s \notin raced' => EndOK(y, task'[s], lastEnd'[s])
    BY <1>1, <1>2, <1>4, <2>1, WatchEnd DEF EndInv
  <2> HIDE DEF y
  <2>3. ses'[s] = y /\ \A r \in Sessions : r # s => ses'[r] = ses[r]
    BY <2>1 DEF IInv, TypeOK
  <2> QED BY <1>4, <2>1, <2>2, <2>3, OneEnd
<1> QED BY <1>5, <1>6

LEMMA SendEnd ==
    ASSUME IInv, EndInv, NEW s \in Sessions, NEW m \in Command, UserSend(s, m)
    PROVE  EndInv'
<1>1. /\ task' = Delivered(s, m) /\ UNCHANGED <<ses, lastEnd, raced>>
      /\ \A r \in Sessions : r # s => task'[r] = task[r]
  BY SendType DEF UserSend, history, IInv
<1>2. s \notin raced' => EndOK(ses'[s], task'[s], lastEnd'[s])
  BY <1>1, SentBots, BotsEnd DEF EndInv
<1> QED BY <1>1, <1>2, OneEnd

LEMMA ProfileEnd ==
    ASSUME IInv, EndInv, NEW s \in Sessions, AddProfile(s) \/ RemoveProfile(s)
    PROVE  EndInv'
<1> USE DEF IInv, TypeOK
<1>1. /\ raced' = raced /\ lastEnd' = lastEnd
      /\ \A r \in Sessions : r # s => ses'[r] = ses[r] /\ task'[r] = task[r]
  BY DEF AddProfile, RemoveProfile, history
<1>2. CASE AddProfile(s)
  <2>1. ses'[s] = NewSession(FALSE)
        /\ \A g \in Gens : task'[s][g] \in {Parked, NoTask}
    BY <1>2 DEF AddProfile
  <2>2. ses'[s].stage = "WIZARD" /\ ~ses'[s].panicked /\ ses'[s].outcome = "None"
        /\ ~Manual(ses'[s].watch)
    BY <2>1 DEF NewSession, NewWatcher, Manual
  <2>3. \A g \in Gens : /\ task'[s][g].pc = "none" /\ ~Ended(task'[s][g])
                        /\ task'[s][g].bot \in {"absent", "parked"}
    BY <2>1, SessionAssumption DEF Parked, NoTask, Ended, BotEnds, RunOutcome
  <2>4. EndOK(ses'[s], task'[s], lastEnd'[s])
    BY <2>2, <2>3 DEF EndOK, Finished, Ended, BotEnds
  <2> QED BY <1>1, <2>4, OneEnd
<1>3. CASE RemoveProfile(s)
  <2>1. ses' = ses /\ (task' = task \/ task' = [task EXCEPT ![s][0] = NoTask])
    BY <1>3 DEF RemoveProfile
  <2>2. \A g \in Gens : task'[s][g] \in {task[s][g], NoTask}
    BY <2>1
  <2>3. SameBots(task[s], task'[s])
    BY <2>2 DEF SameBots
  <2>4. s \notin raced' => EndOK(ses'[s], task'[s], lastEnd'[s])
    BY <1>1, <2>1, <2>3, BotsEnd DEF EndInv
  <2> QED BY <1>1, <2>4, OneEnd
<1> QED BY <1>2, <1>3

-----------------------------------------------------------------------------
(* Frames.                                                                  *)

(* What a frame that notes exits makes of the watcher of a present session. *)
Noted(x, d) == IF Finished(x) THEN OnExit(Elapse(x.watch, d), x.outcome, x.panicked)
               ELSE Elapse(x.watch, d)

LEMMA NotedWatch ==
    ASSUME IInv, NEW d \in FrameGaps, NoteExits(d), NEW s \in present
    PROVE  /\ s \in Sessions /\ ses[s] \in Session
           /\ ses'[s] = [ses[s] EXCEPT !.watch = Noted(ses[s], d)]
           /\ Noted(ses[s], d) \in Watcher
           /\ ses'[s].watch = Noted(ses[s], d)
           /\ Manual(Noted(ses[s], d)) => Manual(ses[s].watch)
<1> DEFINE x == ses[s]
           e == Elapse(x.watch, d)
<1>1. s \in Sessions /\ x \in Session /\ x.watch \in Watcher /\ d \in Nat
      /\ x.outcome \in RunOutcome \cup {"None"} /\ x.panicked \in BOOLEAN
  BY SessionAssumption DEF IInv, TypeOK, Session
<1>2. ses'[s] = [x EXCEPT !.watch = Noted(x, d)]
  BY <1>1 DEF NoteExits, Noted
<1>3. e \in Watcher /\ e.attempts = x.watch.attempts /\ e.attempts <= MaxAttempts
      /\ (Manual(e) => Manual(x.watch))
  BY <1>1, ElapseType DEF IInv, WatchInv, WatchOK, Manual
<1> HIDE DEF e, x
<1>4. Noted(x, d) = IF Finished(x) THEN OnExit(e, x.outcome, x.panicked) ELSE e
  BY DEF Noted, e
<1>5. Noted(x, d) \in Watcher
  <2>1. PICK v : v = OnExit(e, x.outcome, x.panicked)
    OBVIOUS
  <2> QED BY <1>1, <1>3, <1>4, <2>1, OnExitType
<1>6. Manual(Noted(x, d)) => Manual(x.watch)
  <2>1. Manual(OnExit(e, x.outcome, x.panicked)) => Manual(e)
    BY <1>1, <1>3, ManualWatch
  <2> QED BY <1>3, <1>4, <2>1
<1>7. ses'[s].watch = Noted(x, d)
  BY <1>1, <1>2, <1>5, SetWatch
<1> QED BY <1>1, <1>2, <1>5, <1>6, <1>7 DEF x

LEMMA NoteExitsEnd ==
    ASSUME IInv, EndInv, NEW d \in FrameGaps, NoteExits(d)
    PROVE  EndInv'
<1> SUFFICES ASSUME NEW s \in Sessions \ raced' PROVE EndOK(ses'[s], task'[s], lastEnd'[s])
  BY Zenon DEF EndInv
<1>1. UNCHANGED <<task, lastEnd, raced>>
  BY DEF NoteExits, history
<1>2. EndOK(ses[s], task[s], lastEnd[s])
  BY <1>1 DEF EndInv
<1>3. CASE s \in present
  <2>1. EndOK([ses[s] EXCEPT !.watch = Noted(ses[s], d)], task[s], lastEnd[s])
    BY <1>2, <1>3, NotedWatch, WatchEnd
  <2> QED BY <1>1, <1>3, <2>1, NotedWatch
<1>4. CASE s \notin present
  BY <1>1, <1>2, <1>4 DEF NoteExits
<1> QED BY <1>3, <1>4

LEMMA AdvanceEnd ==
    ASSUME IInv, EndInv, AdvanceWatchers
    PROVE  EndInv'
<1> SUFFICES ASSUME NEW s \in Sessions \ raced' PROVE EndOK(ses'[s], task'[s], lastEnd'[s])
  BY Zenon DEF EndInv
<1>1. UNCHANGED <<lastEnd, raced>>
  BY DEF AdvanceWatchers
<1>2. EndOK(ses[s], task[s], lastEnd[s])
  BY <1>1 DEF EndInv
<1>3. CASE s \notin Ready
  <2>1. ses'[s] = ses[s] /\ task'[s] = [g \in Gens |-> task[s][g]]
    BY <1>3 DEF AdvanceWatchers
  <2>2. task'[s] = task[s]
    BY <2>1 DEF IInv, TypeOK
  <2> QED BY <1>1, <1>2, <2>1, <2>2
<1>4. CASE s \in Ready
  <2> DEFINE x == ses[s]
             u == PollReady(x.watch)
             z == [x EXCEPT !.watch = u]
  <2>1. /\ x \in Session /\ x.watch \in Watcher /\ x.gen \in Gens /\ task[s] \in [Gens -> Task]
        /\ Waiting(x.watch) /\ x.gen < MaxGen
    BY <1>4 DEF IInv, TypeOK, Session, Ready, Due
  <2>2. u \in Watcher /\ Rearm(u).st = "Idle"
    BY <2>1, FireType DEF PollReady, Watcher
  <2>3. ses'[s] = Respawned(z)
    BY <1>4 DEF AdvanceWatchers
  <2> HIDE DEF u
  <2>4. z \in Session /\ z.watch = u /\ z.gen = x.gen
    BY <2>1, <2>2, SetWatch
  <2> HIDE DEF z
  <2>5. /\ Respawned(z).stage = "RUNNING" /\ Respawned(z).watch = Rearm(u)
        /\ ~Respawned(z).panicked /\ Respawned(z).outcome = "None" /\ x.gen + 1 \in Gens
    BY <2>1, <2>4, RespawnedType, RespawnedEnd
  <2>6. ~Running(x)
    BY <1>1, <2>1 DEF IInv, RunInv, RunOK, Finished, Running
  <2>7. \A g \in Gens : task[s][g].pc = "none"
    BY <1>1, <2>6, NotRunningIdle DEF IInv
  <2>8. /\ task'[s] \in [Gens -> Task] /\ task'[s][x.gen + 1] = Spawned(<<>>)
        /\ \A h \in Gens : h # x.gen + 1 => task'[s][h] = task[s][h]
    BY <1>4, <2>1, <2>5, TaskValues DEF AdvanceWatchers
  <2>9. ~Manual(Respawned(z).watch)
    BY <2>2, <2>5 DEF Manual
  <2> QED BY <1>1, <1>2, <2>1, <2>3, <2>5, <2>7, <2>8, <2>9, FreshRun
<1> QED BY <1>3, <1>4

-----------------------------------------------------------------------------
(* Supervisors and bots.                                                    *)
LEMMA SupervisorEnd ==
    ASSUME IInv, EndInv, NEW s \in Sessions, NEW g \in Gens, Supervisor(s, g)
    PROVE  EndInv'
<1> USE DEF IInv, TypeOK
<1> DEFINE x == ses[s]
           t == task[s][g]
<1>1. x \in Session /\ t \in Task
  OBVIOUS
<1>2. /\ UNCHANGED <<lastEnd, raced>> /\ t.pc # "none"
      /\ \A r \in Sessions : r # s => ses'[r] = ses[r] /\ task'[r] = task[r]
      /\ \A h \in Gens : h # g => task'[s][h] = task[s][h]
  BY DEF Supervisor, SupLaunch, SupPublish, SupNote, SupWrite, SupFinish, StepTask
<1>3. ASSUME s \notin raced' PROVE EndOK(ses'[s], task'[s], lastEnd'[s])
  <2>1. EndOK(x, task[s], lastEnd[s]) /\ RunOK(x, task[s], s \in present)
    BY <1>2, <1>3 DEF EndInv, RunInv
  <2>2. /\ Running(x) /\ g = x.gen
        /\ \A h \in Gens : h # g => task[s][h].pc = "none"
    BY <1>2, <2>1 DEF RunOK
  <2>3. "on" \notin BotEnds /\ "absent" \notin BotEnds
    BY SessionAssumption DEF BotEnds, RunOutcome
  <2>4. CASE SupLaunch(s, g)
    <3>1. /\ ses' = ses /\ t.pc = "spawned"
          /\ task'[s][g].pc = "launched" /\ task'[s][g].bot = "on"
      BY <1>1, <2>4 DEF SupLaunch, StepTask, Task
    <3> QED BY <1>2, <2>1, <2>3, <3>1 DEF EndOK, Ended
  <2>5. CASE SupPublish(s, g)
    <3>1. /\ t.pc = "launched" /\ task'[s][g].pc = "watching" /\ task'[s][g].bot = t.bot
      BY <1>1, <2>5 DEF SupPublish, StepTask, Task
    <3>2. /\ ses'[s].stage = x.stage /\ ses'[s].panicked = x.panicked /\ ses'[s].manual = x.manual
          /\ ses'[s].outcome = x.outcome /\ ses'[s].startFailed = x.startFailed
          /\ ses'[s].gen = x.gen /\ ses'[s].watch = x.watch
      BY <1>1, <2>5 DEF SupPublish, Session
    <3> QED BY <1>2, <2>1, <3>1, <3>2 DEF EndOK, Ended, Finished
  <2>6. CASE SupNote(s, g)
    <3>1. /\ t.pc = "watching" /\ Ended(t)
          /\ task'[s][g].pc = "noted" /\ task'[s][g].bot = t.bot
      BY <1>1, <2>6 DEF SupNote, StepTask, Task
    <3>2. /\ ses'[s].stage = x.stage /\ ses'[s].manual = x.manual
          /\ ses'[s].outcome = x.outcome /\ ses'[s].startFailed = x.startFailed
          /\ ses'[s].gen = x.gen /\ ses'[s].watch = x.watch
          /\ ses'[s].panicked = (x.panicked \/ t.bot = "Panic")
      BY <1>1, <2>6 DEF SupNote, Session
    <3>3. ~x.panicked /\ t.bot = lastEnd[s] /\ (t.bot = "Panic" => x.gen < MaxGen)
      BY <2>1, <3>1 DEF EndOK
    <3>4. ses'[s].panicked <=> lastEnd[s] = "Panic"
      BY <3>2, <3>3
    <3> HIDE DEF x
    <3>5. \A h \in Gens : h # g => task'[s][h].pc = "none" /\ task'[s][h] = task[s][h]
      BY <1>2, <2>2
    <3>6. ~Finished(ses'[s]) /\ ses'[s].stage # "WIZARD"
      BY <2>2, <3>2 DEF Finished, Running
    <3> DEFINE y == ses'[s]
               u == task'[s]
    <3>7. ASSUME NEW h \in Gens
          PROVE  /\ u[h].pc \in {"none", "spawned"} => u[h].bot \in {"absent", "parked"}
                 /\ u[h].pc \in {"spawned", "launched", "watching"} => ~y.panicked
                 /\ u[h].pc \in {"noted", "written"} =>
                        Ended(u[h]) /\ (y.panicked <=> lastEnd[s] = "Panic")
                 /\ u[h].pc = "written" /\ ~y.manual => y.outcome = Told(lastEnd[s])
                 /\ Ended(u[h]) => u[h].bot = lastEnd[s]
                 /\ u[h].bot = "Panic" => y.gen < MaxGen
      <4>1. CASE h = g
        BY <3>1, <3>2, <3>3, <3>4, <4>1 DEF Ended
      <4>2. CASE h # g
        BY <2>1, <3>2, <3>5, <4>2 DEF EndOK
      <4> QED BY <4>1, <4>2
    <3>8. /\ y.outcome \in BotOutcomes \cup {"None"} /\ (Manual(y.watch) => y.manual)
          /\ (y.panicked => y.gen < MaxGen)
      BY <2>1, <3>2, <3>3 DEF EndOK
    <3> HIDE DEF y, u
    <3>9. EndOK(y, u, lastEnd[s])
      <4>1. ~Finished(y) /\ y.stage # "WIZARD"
        BY <3>6 DEF y
      <4> QED BY <3>7, <3>8, <4>1 DEF EndOK
    <3> QED BY <1>2, <3>9 DEF y, u
  <2>7. CASE SupWrite(s, g)
    <3>1. /\ t.pc = "noted" /\ task'[s][g].pc = "written" /\ task'[s][g].bot = t.bot
      BY <1>1, <2>7 DEF SupWrite, StepTask, Task
    <3>2. t.bot = lastEnd[s]
      BY <2>1, <3>1 DEF EndOK
    <3>3. /\ ses'[s].stage = x.stage /\ ses'[s].panicked = x.panicked /\ ses'[s].manual = x.manual
          /\ ses'[s].outcome = Told(lastEnd[s]) /\ ses'[s].startFailed = x.startFailed
          /\ ses'[s].gen = x.gen /\ ses'[s].watch = x.watch
      BY <1>1, <2>7, <3>2 DEF SupWrite, Session, Told
    <3>4. Told(lastEnd[s]) \in BotOutcomes
      BY SessionAssumption DEF Told
    <3> QED BY <1>2, <2>1, <2>2, <3>1, <3>3, <3>4 DEF EndOK, Ended, Finished, Running
  <2>8. CASE SupFinish(s, g)
    <3>1. t.pc = "written" /\ task'[s][g] = NoTask
      BY <1>1, <2>8 DEF SupFinish, StepTask
    <3>2. /\ ses'[s].stage = "FINISHED" /\ ses'[s].panicked = x.panicked
          /\ ses'[s].manual = x.manual
          /\ ses'[s].outcome = x.outcome /\ ses'[s].startFailed = x.startFailed
          /\ ses'[s].gen = x.gen /\ ses'[s].watch = x.watch
      BY <1>1, <2>8 DEF SupFinish, Session
    <3>3. NoTask.pc = "none" /\ NoTask.bot = "absent"
      BY DEF NoTask
    <3> QED BY <1>2, <2>1, <2>2, <2>3, <3>1, <3>2, <3>3 DEF EndOK, Ended, Finished, Running
  <2> QED BY <2>4, <2>5, <2>6, <2>7, <2>8 DEF Supervisor
<1> QED BY <1>2, <1>3, OneEnd

LEMMA BotsOwnEnd ==
    ASSUME IInv, EndInv, NEW s \in Sessions, NEW g \in Gens, Bot(s, g)
    PROVE  EndInv'
<1> USE DEF IInv, TypeOK
<1>1. task[s][g] \in Task /\ "on" \notin BotEnds /\ "aborting" \notin BotEnds
      /\ "absent" \notin BotEnds /\ "parked" \notin BotEnds
  BY SessionAssumption DEF BotEnds, RunOutcome
<1>2. ASSUME NEW how \in BotEnds, End(s, g, how), task[s][g].bot \in {"on", "aborting"},
             how = "Panic" => ses[s].gen < MaxGen
      PROVE  EndInv'
  <2>1. /\ UNCHANGED <<ses, raced>> /\ lastEnd'[s] = how
        /\ \A r \in Sessions : r # s => task'[r] = task[r] /\ lastEnd'[r] = lastEnd[r]
        /\ \A h \in Gens : h # g => task'[s][h] = task[s][h]
        /\ task'[s][g].pc = task[s][g].pc /\ task'[s][g].bot = how
    BY <1>1, <1>2 DEF End, Task
  <2>2. ASSUME s \notin raced' PROVE EndOK(ses'[s], task'[s], lastEnd'[s])
    <3>1. EndOK(ses[s], task[s], lastEnd[s]) /\ RunOK(ses[s], task[s], s \in present)
      BY <2>1, <2>2 DEF EndInv, RunInv
    <3>2. task[s][g].pc \in {"launched", "watching"}
      BY <1>1, <1>2, <3>1 DEF EndOK, Ended, Task
    <3>3. Running(ses[s]) /\ ~ses[s].panicked
          /\ \A h \in Gens : h # g => task[s][h].pc = "none" /\ ~Ended(task[s][h])
      BY <1>1, <3>1, <3>2 DEF RunOK, EndOK, Ended
    <3>4. ~Finished(ses[s]) /\ ses[s].stage # "WIZARD"
      BY <3>3 DEF Running, Finished
    <3> QED BY <1>1, <1>2, <2>1, <3>1, <3>2, <3>3, <3>4 DEF EndOK, Ended
  <2> QED BY <2>1, <2>2, OneEnd
<1>3. ASSUME NEW how \in (BotOutcomes \ {"Quit"}) \cup {"Panic"}, BotEnd(s, g, how)
      PROVE  EndInv'
  BY <1>2, <1>3 DEF BotEnd, BotEnds
<1>4. CASE BotTakesCommand(s, g)
  <2>1. CASE Head(task[s][g].box) = "quit"
    BY <1>2, <1>4, <2>1, SessionAssumption DEF BotTakesCommand, BotEnds
  <2>2. CASE Head(task[s][g].box) # "quit"
    <3> DEFINE t == [task[s][g] EXCEPT !.box = Tail(@)]
    <3>1. t.pc = task[s][g].pc /\ t.bot = task[s][g].bot
      BY <1>1 DEF Task
    <3>2. task' = [task EXCEPT ![s][g] = t] /\ UNCHANGED <<ses, lastEnd, raced>>
      BY <1>4, <2>2 DEF BotTakesCommand, history
    <3> HIDE DEF t
    <3>3. /\ \A r \in Sessions : r # s => task'[r] = task[r]
          /\ \A h \in Gens : task'[s][h].pc = task[s][h].pc /\ task'[s][h].bot = task[s][h].bot
      BY <3>1, <3>2
    <3>4. SameBots(task[s], task'[s])
      BY <3>3 DEF SameBots
    <3>5. s \notin raced' => EndOK(ses'[s], task'[s], lastEnd'[s])
      BY <3>2, <3>4, BotsEnd DEF EndInv
    <3> QED BY <3>2, <3>3, <3>5, OneEnd
  <2> QED BY <2>1, <2>2
<1>5. CASE BotCancelled(s, g)
  BY <1>2, <1>5 DEF BotCancelled, BotEnds
<1> QED BY <1>3, <1>4, <1>5 DEF Bot

LEMMA NextEnd == IInv /\ EndInv /\ [Next]_vars => EndInv'
<1> SUFFICES ASSUME IInv, EndInv, [Next]_vars PROVE EndInv'
  OBVIOUS
<1>1. ASSUME NEW s \in Sessions, Launch(s) PROVE EndInv'
  BY <1>1, LaunchEnd
<1>2. ASSUME NEW s \in Sessions, User(s) PROVE EndInv'
  <2>1. CASE UserStart(s)
    BY <2>1, StartEnd DEF UserStart
  <2>2. CASE WizardSubmit(s)
    <3>1. CASE UNCHANGED <<ses, task, history>>
      BY <3>1 DEF EndInv, history
    <3> QED BY <2>2, <3>1, StartEnd DEF WizardSubmit
  <2> QED BY <1>2, <2>1, <2>2, StopEnd, RestartEnd, SendEnd, ProfileEnd DEF User
<1>3. ASSUME NEW s \in Sessions, NEW g \in Gens, Supervisor(s, g) \/ Bot(s, g) PROVE EndInv'
  BY <1>3, SupervisorEnd, BotsOwnEnd
<1>4. CASE Frame
  <2>1. CASE CountLive \/ CheckStopped \/ CheckNeverStarted
    BY <2>1 DEF CountLive, CheckStopped, CheckNeverStarted, EndInv, history
  <2> QED BY <1>4, <2>1, NoteExitsEnd, AdvanceEnd DEF Frame
<1>5. CASE MainLeave \/ UNCHANGED vars
  BY <1>5 DEF MainLeave, vars, EndInv, history
<1> QED BY <1>1, <1>2, <1>3, <1>4, <1>5 DEF Next

THEOREM EndInductive == Spec => [](IInv /\ EndInv)
<1>1. Init => IInv /\ EndInv
  BY InitInv, InitEnd
<1>2. IInv /\ EndInv /\ [Next]_vars => IInv' /\ EndInv'
  BY NextInv, NextEnd
<1> QED BY <1>1, <1>2, PTL DEF Spec

(* Whoever sees FINISHED can read how the bot ended, unless the user's stop *)
(* erased it: write_back puts the outcome there before the stage, and what  *)
(* clears it (prepare_start, begin_respawn) leaves FINISHED.                *)
THEOREM EndIsTold == Spec => []OutcomeReadable
<1>1. \A end : Told(end) # "None"
  BY SessionAssumption DEF Told, RunOutcome
<1>2. EndInv => OutcomeReadable
  BY <1>1 DEF EndInv, EndOK, OutcomeReadable
<1> QED BY <1>2, EndInductive, PTL

-----------------------------------------------------------------------------
(* The exit condition.  Between its two reads the render thread handles no  *)
(* key and no frame; a launch in between is a race, and a supervisor or a   *)
(* bot works for a session that runs, which none does.                      *)
LEMMA InitIdle == Init => IdleInv
BY DEF Init, IdleInv

LEMMA SettledNotRunning ==
    ASSUME IInv, NEW s \in Sessions, s \notin raced, Settled(ses[s])
    PROVE  ~Running(ses[s]) /\ \A g \in Gens : task[s][g].pc = "none"
<1>1. ~Running(ses[s])
  BY DEF IInv, RunInv, RunOK, Settled, NeverStarted, Finished, Running
<1> QED BY <1>1, NotRunningIdle DEF IInv

LEMMA NextIdle == IInv /\ IdleInv /\ [Next]_vars => IdleInv'
<1> SUFFICES ASSUME IInv, IdleInv, [Next]_vars, ui' = "never", NEW s \in present' \ raced'
             PROVE  Settled(ses'[s])
  BY Zenon DEF IdleInv
<1>1. ASSUME NEW r \in Sessions, Launch(r) PROVE Settled(ses'[s])
  <2>1. ui = "never" /\ s \in present \ raced
    BY <1>1 DEF Launch
  <2>2. r = s => ses' = ses
    BY <1>1, <2>1 DEF Launch
  <2>3. ses'[s] = ses[s]
    BY <1>1, <2>1, <2>2 DEF Launch, IInv, TypeOK
  <2> QED BY <2>1, <2>3 DEF IdleInv
<1>2. ASSUME NEW r \in Sessions, User(r) PROVE Settled(ses'[s])
  BY <1>2 DEF User, UserStart, WizardSubmit, UserStop, ManualRestart, UserSend, AddProfile,
              RemoveProfile
<1>3. ASSUME NEW r \in Sessions, NEW g \in Gens, Supervisor(r, g) \/ Bot(r, g)
      PROVE  Settled(ses'[s])
  <2>1. ui = "never" /\ s \in present \ raced /\ s \in Sessions
    BY <1>3 DEF Supervisor, SupLaunch, SupPublish, SupNote, SupWrite, SupFinish, StepTask, Bot,
                BotEnd, BotTakesCommand, BotCancelled, End, history, IInv, TypeOK
  <2>2. Settled(ses[s])
    BY <2>1 DEF IdleInv
  <2>3. CASE Bot(r, g)
    BY <2>2, <2>3 DEF Bot, BotEnd, BotTakesCommand, BotCancelled, End
  <2>4. CASE Supervisor(r, g)
    <3>1. r # s
      BY <2>1, <2>2, <2>4, SettledNotRunning DEF Supervisor, SupLaunch, SupPublish, SupNote,
         SupWrite, SupFinish, StepTask
    <3>2. ses'[s] = ses[s]
      BY <2>1, <2>4, <3>1 DEF Supervisor, SupLaunch, SupPublish, SupNote, SupWrite, SupFinish,
                              IInv, TypeOK
    <3> QED BY <2>2, <3>2
  <2> QED BY <1>3, <2>3, <2>4
<1>4. CASE Frame
  <2>1. CheckStopped
    BY <1>4 DEF Frame, NoteExits, AdvanceWatchers, CountLive, CheckNeverStarted
  <2>2. LiveCount = 0 /\ UNCHANGED <<ses, present>>
    BY <2>1 DEF CheckStopped, AllStopped
  <2>3. IsFiniteSet({r \in present : ~Settled(ses[r])})
    BY SessionAssumption, FS_Subset DEF IInv, TypeOK
  <2>4. {r \in present : ~Settled(ses[r])} = {}
    BY <2>2, <2>3, FS_EmptySet DEF LiveCount
  <2> QED BY <2>2, <2>4
<1>5. CASE MainLeave \/ UNCHANGED vars
  BY <1>5 DEF MainLeave, vars, history, IdleInv
<1> QED BY <1>1, <1>2, <1>3, <1>4, <1>5 DEF Next

(* When all_done is raised, no session runs, waits for its restart or has   *)
(* yet to be started, although all_stopped and has_never_started read the   *)
(* stages one after the other.                                              *)
THEOREM DoneIsIdle == Spec => DoneMeansIdle
<1>1. ASSUME IInv, IdleInv, [Next]_vars, ~allDone, allDone', NEW s \in present \ raced
      PROVE  ~Running(ses[s]) /\ ~Waiting(ses[s].watch) /\ ~NeverStarted(ses[s])
  <2>1. CheckNeverStarted
    <3>1. ASSUME NEW r \in Sessions, Launch(r) \/ User(r) PROVE allDone' = allDone
      BY <3>1 DEF Launch, User, UserStart, WizardSubmit, UserStop, ManualRestart, UserSend,
                  AddProfile, RemoveProfile, exitVars
    <3>2. ASSUME NEW r \in Sessions, NEW g \in Gens, Supervisor(r, g) \/ Bot(r, g)
          PROVE  allDone' = allDone
      BY <3>2 DEF Supervisor, SupLaunch, SupPublish, SupNote, SupWrite, SupFinish, StepTask, Bot,
                  BotEnd, BotTakesCommand, BotCancelled, End, exitVars
    <3>3. ASSUME Frame, ~CheckNeverStarted PROVE allDone' = allDone
      BY <3>3 DEF Frame, NoteExits, AdvanceWatchers, CountLive, CheckStopped, exitVars
    <3>4. CASE MainLeave \/ UNCHANGED vars
      BY <1>1, <3>4 DEF MainLeave, vars
    <3> QED BY <1>1, <3>1, <3>2, <3>3, <3>4 DEF Next
  <2>2. ui = "never" /\ ~HasNeverStarted
    BY <1>1, <2>1 DEF CheckNeverStarted
  <2>3. s \in Sessions /\ Settled(ses[s]) /\ ~NeverStarted(ses[s])
    BY <1>1, <2>2 DEF IdleInv, HasNeverStarted, IInv, TypeOK
  <2>4. ~Running(ses[s])
    BY <1>1, <2>3, SettledNotRunning
  <2>5. ~Waiting(ses[s].watch)
    BY <1>1, <2>3 DEF IInv, RunInv, RunOK, Settled, Finished
  <2> QED BY <2>3, <2>4, <2>5
<1>2. IInv /\ IdleInv /\ [Next]_vars =>
        [~allDone /\ allDone' =>
          \A s \in present \ raced : /\ ~Running(ses[s])
                                     /\ ~Waiting(ses[s].watch)
                                     /\ ~NeverStarted(ses[s])]_vars
  BY <1>1
<1>3. Spec => []IdleInv
  BY InitIdle, NextIdle, Inductive, PTL DEF Spec
<1> QED BY <1>2, <1>3, Inductive, PTL DEF Spec, DoneMeansIdle

-----------------------------------------------------------------------------
(* A restart uses up the window it was due for.                             *)
LEMMA WindowUsed ==
    ASSUME IInv, AdvanceWatchers, NEW s \in Ready
    PROVE  ~Waiting(ses'[s].watch)
<1> DEFINE u == PollReady(ses[s].watch)
           z == [ses[s] EXCEPT !.watch = u]
<1>1. /\ s \in Sessions /\ ses[s] \in Session /\ ses[s].watch \in Watcher
      /\ Waiting(ses[s].watch) /\ ses[s].gen < MaxGen
  BY DEF IInv, TypeOK, Session, Ready, Due
<1>2. u \in Watcher /\ Rearm(u).st = "Idle"
  BY <1>1, FireType DEF PollReady, Watcher
<1>3. ses'[s] = Respawned(z)
  BY <1>1 DEF AdvanceWatchers
<1> HIDE DEF u
<1>4. z \in Session /\ z.watch = u /\ z.gen = ses[s].gen
  BY <1>1, <1>2, SetWatch
<1> HIDE DEF z
<1>5. Respawned(z).watch = Rearm(u)
  BY <1>1, <1>4, RespawnedType
<1> QED BY <1>2, <1>3, <1>5 DEF Waiting

(* Restarts: only a frame that notes exits opens a window or lets its time  *)
(* pass; everything else leaves a window as it is or closes it.             *)
LEMMA WindowStays ==
    ASSUME IInv, Next, \A d \in FrameGaps : ~NoteExits(d),
           NEW s \in Sessions, Waiting(ses'[s].watch)
    PROVE  /\ ses'[s].watch = ses[s].watch /\ ses'[s].gen = ses[s].gen
           /\ s \in present' => s \in present
           /\ ~AdvanceWatchers => (ui = "advance" => ui' = "advance")
<1> USE DEF IInv, TypeOK
<1> DEFINE Same == /\ ses'[s].watch = ses[s].watch /\ ses'[s].gen = ses[s].gen
                   /\ s \in present' => s \in present
                   /\ ~AdvanceWatchers => (ui = "advance" => ui' = "advance")
<1>1. ses[s] \in Session /\ ses[s].watch \in Watcher
  BY DEF Session
<1>2. ASSUME NEW k, NEW r \in Sessions, Start(r, k)
      PROVE  ses'[s].watch = ses[s].watch /\ ses'[s].gen = ses[s].gen
  <2> DEFINE x == ses[s]
             y == Prepared(x)
  <2>1. CASE r # s
    BY <1>2, <2>1 DEF Start, Spawn
  <2>2. CASE r = s
    <3>1. /\ y \in Session /\ y.watch = Resume(x.watch) /\ ~Waiting(x.watch)
          /\ Resume(x.watch) \in Watcher /\ ~Waiting(Resume(x.watch))
      BY <1>1, <1>2, <2>2, PreparedType, ResumeType DEF Start, StartRefused
    <3> HIDE DEF y
    <3>2. CASE ses' = [ses EXCEPT ![s] = StartFailed(y)]
      <4>1. ses'[s].watch = StopManualKeepAttempts(y.watch)
        BY <3>1, <3>2, StartFailedType
      <4> QED BY <3>1, <4>1, StopTypes DEF Manual, Waiting
    <3>3. CASE Spawn(s, y)
      <4>1. Respawned(y) \in Session /\ Respawned(y).watch = y.watch
        BY <3>1, <3>3, RespawnedType, RearmType DEF Spawn
      <4>2. ses'[s] = [Respawned(y) EXCEPT !.stopping = FALSE]
        BY <3>3 DEF Spawn
      <4>3. ses'[s].watch = y.watch
        BY <4>1, <4>2 DEF Session
      <4> QED BY <3>1, <4>3
    <3> QED BY <1>2, <2>2, <3>2, <3>3 DEF Start, y
  <2> QED BY <2>1, <2>2
<1>3. ASSUME NEW r \in Sessions, UserStart(r) \/ WizardSubmit(r) PROVE Same
  BY <1>2, <1>3 DEF UserStart, WizardSubmit
<1>4. ASSUME NEW r \in Sessions, UserStop(r) PROVE Same
  <2>1. ses' = [ses EXCEPT ![r] = StoppedByUser(ses[r])] /\ UNCHANGED <<present, ui>>
    BY <1>4 DEF UserStop
  <2>2. r # s
    <3>1. r = s => ses'[s].watch = StopManual(ses[s].watch)
      BY <1>1, <2>1, StoppedByUserType
    <3> QED BY <1>1, <3>1, StopTypes DEF Manual, Waiting
  <2> QED BY <2>1, <2>2
<1>5. ASSUME NEW r \in Sessions, ManualRestart(r) PROVE Same
  <2> DEFINE x == ses[s]
             y == [x EXCEPT !.watch = Reset(@)]
  <2>1. UNCHANGED <<present, ui>> /\ \A q \in Sessions : q # r => ses'[q] = ses[q]
    BY <1>5 DEF ManualRestart
  <2>2. y \in Session /\ y.watch = Reset(x.watch) /\ Reset(x.watch) \in Watcher
        /\ ~Waiting(Reset(x.watch))
    BY <1>1, ResetType, SetWatch
  <2>3. ASSUME r = s PROVE FALSE
    <3>1. ses' = [ses EXCEPT ![s] = y] \/ (y.gen < MaxGen /\ ses' = [ses EXCEPT ![s] = Respawned(y)])
      BY <1>5, <2>3 DEF ManualRestart
    <3> HIDE DEF y
    <3>2. y.gen < MaxGen => Respawned(y).watch = y.watch
      BY <2>2, RespawnedType, RearmType
    <3> QED BY <2>2, <3>1, <3>2
  <2> QED BY <2>1, <2>3
<1>6. ASSUME NEW r \in Sessions, AddProfile(r) PROVE Same
  <2>1. r # s
    BY <1>6 DEF AddProfile, NewSession, NewWatcher, Waiting
  <2> QED BY <1>6, <2>1 DEF AddProfile
<1>7. ASSUME NEW r \in Sessions, User(r) PROVE Same
  <2>1. CASE RemoveProfile(r)
    BY <2>1 DEF RemoveProfile
  <2>2. ASSUME NEW m \in Command, UserSend(r, m) PROVE Same
    BY <2>2 DEF UserSend
  <2> HIDE DEF Same
  <2> QED BY <1>3, <1>4, <1>5, <1>6, <1>7, <2>1, <2>2 DEF User
<1>8. ASSUME NEW r \in Sessions, Launch(r) PROVE Same
  <2>1. ses' = ses \/ ses' = [ses EXCEPT ![r].stage = "RUNNING"]
    BY <1>8 DEF Launch
  <2>2. ses'[s].watch = ses[s].watch /\ ses'[s].gen = ses[s].gen
    BY <1>1, <2>1 DEF Session
  <2> QED BY <1>8, <2>2 DEF Launch
<1>9. ASSUME NEW r \in Sessions, NEW g \in Gens, Supervisor(r, g) \/ Bot(r, g) PROVE Same
  <2>1. CASE Supervisor(r, g)
    BY <1>1, <2>1 DEF Session, Supervisor, SupLaunch, SupPublish, SupNote, SupWrite, SupFinish,
                      StepTask
  <2>2. CASE Bot(r, g)
    BY <2>2 DEF Bot, BotEnd, BotTakesCommand, BotCancelled, End
  <2> QED BY <1>9, <2>1, <2>2
<1>10. ASSUME AdvanceWatchers PROVE Same
  <2>1. s \notin Ready
    BY <1>10, WindowUsed
  <2> QED BY <1>10, <2>1 DEF AdvanceWatchers
<1>11. ASSUME CountLive \/ CheckStopped \/ CheckNeverStarted \/ MainLeave PROVE Same
  BY <1>11 DEF CountLive, CheckStopped, CheckNeverStarted, MainLeave
<1> HIDE DEF Same
<1>12. Same
  BY <1>7, <1>8, <1>9, <1>11, <1>10 DEF Next, Frame
<1> QED BY <1>12 DEF Same

(* What runtime::run returns (the sessions of BotRun end in no other way),  *)
(* and a console that is never frozen for as long as a window stays valid.  *)
Steadily == /\ BotOutcomes \subseteq {"Quit", "DurationElapsed", "Failed"}
            /\ \A d \in FrameGaps : d < StaleAfter

(* A frame that notes exits: a window waits on, a new one has been opened   *)
(* by a panic, and a failure has a window or an alarm.                      *)
LEMMA NotedDue ==
    ASSUME IInv, EndInv, DueInv, Steadily, NEW d \in FrameGaps, NoteExits(d),
           NEW s \in present \ raced
    PROVE  LET x == ses[s]
               v == ses'[s].watch
           IN  /\ Waiting(x.watch) => v.attempts = x.watch.attempts
               /\ ~Waiting(x.watch) /\ Waiting(v) => lastEnd[s] = "Panic" /\ x.gen < MaxGen
               /\ Finished(x) /\ ~x.manual /\ lastEnd[s] \in {"Panic", "Failed"}
                     => Waiting(v) \/ NeedsAttention(ses'[s])
<1> DEFINE x == ses[s]
           e == Elapse(x.watch, d)
           kind == IF x.panicked THEN "Panic" ELSE KindOf(x.outcome)
<1>1. PICK v : v = ses'[s].watch
  OBVIOUS
<1>2. /\ s \in Sessions /\ x \in Session /\ x.watch \in Watcher /\ d \in Nat
      /\ v = IF Finished(x) THEN OnExit(e, x.outcome, x.panicked) ELSE e
      /\ ses'[s] = [x EXCEPT !.watch = v]
      /\ lastEnd \in [Sessions -> BotEnds \cup {"None"}]
  <2>1. /\ s \in Sessions /\ x \in Session /\ v = Noted(x, d)
        /\ ses'[s] = [x EXCEPT !.watch = v]
    BY <1>1, NotedWatch
  <2>2. x.watch \in Watcher /\ d \in Nat /\ lastEnd \in [Sessions -> BotEnds \cup {"None"}]
    BY <2>1, SessionAssumption DEF Session, IInv, TypeOK
  <2>3. v = IF Finished(x) THEN OnExit(e, x.outcome, x.panicked) ELSE e
    BY <2>1 DEF Noted
  <2> QED BY <2>1, <2>2, <2>3
<1>3. /\ WatchOK(x, autoRuns[s]) /\ RunOK(x, task[s], s \in present)
      /\ EndOK(x, task[s], lastEnd[s])
  BY <1>2 DEF IInv, WatchInv, RunInv, EndInv
<1>4. /\ e \in Watcher /\ e.st = x.watch.st /\ e.kind = x.watch.kind
      /\ e.fired = x.watch.fired /\ e.attempts = x.watch.attempts
  BY <1>2, ElapseType
<1>5. ASSUME Waiting(x.watch) PROVE v = e
  <2>1. x.watch.left \in Int /\ x.watch.left > 0 /\ ~x.watch.fired /\ d < StaleAfter
    BY <1>2, <1>3, <1>5 DEF DueInv, NoteExits, WatchOK, Watcher, Steadily
  <2>2. e = [x.watch EXCEPT !.left = @ - d]
    BY <1>5, <2>1 DEF Elapse
  <2>3. e.left = x.watch.left - d
    BY <1>2, <2>2 DEF Watcher
  <2>4. e.left > -StaleAfter
    BY <1>2, <2>1, <2>3, WatcherAssumption
  <2>5. ExitIgnored(e)
    BY <1>4, <1>5, <2>1, <2>4 DEF ExitIgnored, Waiting
  <2> HIDE DEF e
  <2> QED BY <1>2, <2>5 DEF OnExit
<1>6. x.outcome \in BotOutcomes \cup {"None"} /\ x.panicked \in BOOLEAN
  BY <1>2, <1>3 DEF EndOK, Session
<1>7. ~x.panicked /\ x.outcome # "None" => kind \notin Restartable
  BY <1>6 DEF Steadily, KindOf, Restartable
<1> HIDE DEF e, x
<1>8. ASSUME Finished(x), ~ExitIgnored(e), x.outcome # "None"
      PROVE  \/ v = Enter(e, "Stopped", kind)
             \/ v = Enter(e, "GivenUp", "None")
             \/ v = Schedule(e) /\ kind \in Restartable
  BY <1>2, <1>8 DEF OnExit
<1> HIDE DEF kind
<1>9. ASSUME ~Waiting(x.watch), Waiting(v) PROVE lastEnd[s] = "Panic" /\ x.gen < MaxGen
  <2>1. Finished(x) /\ ~Waiting(e)
    BY <1>2, <1>4, <1>9 DEF Waiting
  <2>2. ~ExitIgnored(e)
    BY <1>2, <1>9, <2>1 DEF OnExit
  <2>3. x.outcome # "None"
    BY <1>2, <1>9, <2>1, <2>2 DEF OnExit
  <2>4. kind \in Restartable
    BY <1>8, <1>9, <2>1, <2>2, <2>3 DEF Enter, Waiting
  <2> QED BY <1>3, <1>7, <2>1, <2>3, <2>4 DEF EndOK
<1>10. ASSUME Finished(x), ~x.manual, lastEnd[s] \in {"Panic", "Failed"}, ~Waiting(v)
       PROVE  NeedsAttention(ses'[s])
  <2>1. x.outcome = Told(lastEnd[s]) /\ ses'[s].outcome = x.outcome /\ ses'[s].watch = v
    BY <1>1, <1>2, <1>3, <1>10 DEF EndOK, Session
  <2>2. CASE lastEnd[s] = "Failed"
    <3>1. "Failed" \in BotOutcomes
      BY <1>2, <2>2 DEF BotEnds
    <3> QED BY <2>1, <2>2, <3>1 DEF Told, NeedsAttention
  <2>3. CASE lastEnd[s] = "Panic"
    <3>1. x.outcome = "Quit" /\ x.panicked
      BY <1>3, <1>10, <2>1, <2>3, SessionAssumption DEF Told, RunOutcome, EndOK
    <3>2. ~Waiting(x.watch) /\ ~Manual(x.watch)
      BY <1>3, <1>4, <1>5, <1>10 DEF EndOK, Waiting
    <3>3. ~ExitIgnored(e)
      BY <1>4, <3>2 DEF ExitIgnored, Waiting, Manual
    <3>4. v = Enter(e, "Stopped", "Panic") \/ v = Enter(e, "GivenUp", "None")
      BY <1>8, <1>10, <3>1, <3>3 DEF kind, Schedule, Waiting
    <3> QED BY <2>1, <3>4 DEF Enter, NeedsAttention, WatcherNeedsAttention
  <2> QED BY <1>10, <2>2, <2>3
<1> QED BY <1>1, <1>4, <1>5, <1>9, <1>10 DEF x

LEMMA NextDue ==
    ASSUME IInv, EndInv, DueInv, Steadily, [Next]_vars
    PROVE  DueInv'
<1> SUFFICES ASSUME NEW s \in present' \ raced', Waiting(ses'[s].watch)
             PROVE  /\ ses'[s].gen < MaxGen
                    /\ ui' = "advance" \/ ses'[s].watch.left > 0
  BY Zenon DEF DueInv
<1>1. s \in Sessions /\ raced \subseteq raced'
  <2>1. IInv'
    BY NextInv
  <2>2. raced \subseteq raced'
    <3>1. ASSUME NEW r \in Sessions, Launch(r) \/ User(r) PROVE raced \subseteq raced'
      BY <3>1 DEF Launch, User, UserStart, WizardSubmit, Start, UserStop, ManualRestart, UserSend,
                  AddProfile, RemoveProfile, history
    <3>2. ASSUME NEW r \in Sessions, NEW g \in Gens, Supervisor(r, g) \/ Bot(r, g)
          PROVE  raced \subseteq raced'
      BY <3>2 DEF Supervisor, SupLaunch, SupPublish, SupNote, SupWrite, SupFinish, StepTask, Bot,
                  BotEnd, BotTakesCommand, BotCancelled, End, history
    <3>3. CASE Frame \/ MainLeave \/ UNCHANGED vars
      BY <3>3 DEF Frame, NoteExits, AdvanceWatchers, CountLive, CheckStopped, CheckNeverStarted,
                  MainLeave, history, vars
    <3> QED BY <3>1, <3>2, <3>3 DEF Next
  <2> QED BY <2>1, <2>2 DEF IInv, TypeOK
<1>2. CASE UNCHANGED vars
  BY <1>1, <1>2 DEF vars, DueInv
<1>3. ASSUME NEW d \in FrameGaps, NoteExits(d)
      PROVE  ses'[s].gen < MaxGen /\ ui' = "advance"
  <2>1. s \in present \ raced
    BY <1>1, <1>3 DEF NoteExits
  <2>2. ses'[s].gen = ses[s].gen
    <3>1. /\ ses[s] \in Session /\ Noted(ses[s], d) \in Watcher
          /\ ses'[s] = [ses[s] EXCEPT !.watch = Noted(ses[s], d)]
      BY <1>3, <2>1, NotedWatch
    <3> QED BY <3>1, SetWatch
  <2>3. Waiting(ses[s].watch) => ses[s].gen < MaxGen
    BY <2>1 DEF DueInv
  <2> QED BY <1>3, <2>1, <2>2, <2>3, NotedDue DEF NoteExits
<1>4. CASE Next /\ \A d \in FrameGaps : ~NoteExits(d)
  <2>1. /\ ses'[s].watch = ses[s].watch /\ ses'[s].gen = ses[s].gen /\ s \in present \ raced
        /\ (~AdvanceWatchers => (ui = "advance" => ui' = "advance"))
    BY <1>1, <1>4, WindowStays
  <2>2. ses[s].gen < MaxGen /\ (ui = "advance" \/ ses[s].watch.left > 0)
    BY <2>1 DEF DueInv
  <2>3. CASE AdvanceWatchers
    <3>1. ses[s].watch.left \in Int /\ ~ses[s].watch.fired /\ Waiting(ses[s].watch)
      BY <1>1, <2>1 DEF IInv, TypeOK, WatchInv, WatchOK, Session, Watcher
    <3>2. s \in Ready => ~Waiting(ses'[s].watch)
      BY <2>3, WindowUsed
    <3>3. ~Due(ses[s].watch)
      BY <2>1, <2>2, <3>2 DEF Ready
    <3> QED BY <2>1, <2>2, <3>1, <3>3 DEF Due
  <2> QED BY <2>1, <2>2, <2>3
<1> QED BY <1>2, <1>3, <1>4

(* The invariant all three rest on is inductive.                            *)
THEOREM ConsoleInductive == Steadily => (Spec => []ConsoleInv)
<1> SUFFICES ASSUME Steadily PROVE Spec => []ConsoleInv
  OBVIOUS
<1>1. Init => DueInv
  <2>1. Init => \A s \in Sessions : ses[s].watch.st = "Idle"
    BY DEF Init, NewSession, NewWatcher
  <2> QED BY <2>1, SessionAssumption DEF Init, DueInv, Waiting
<1>2. Init => ConsoleInv
  BY <1>1, InitInv, InitEnd, InitIdle DEF ConsoleInv
<1>3. ConsoleInv /\ [Next]_vars => ConsoleInv'
  BY NextInv, NextEnd, NextDue, NextIdle DEF ConsoleInv
<1> QED BY <1>2, <1>3, PTL DEF Spec

(* Every automatic restart is due and every failure gets one or an alarm: a *)
(* restart is scheduled for a bot that panicked and for no other, is        *)
(* carried out or cancelled before the next is, and a frame that notes a    *)
(* panic or a failed login of a session nobody stopped leaves a restart     *)
(* pending or an alarm raised.                                              *)
THEOREM RestartsDue == Steadily => (Spec => RestartsAreDue)
<1> SUFFICES ASSUME Steadily PROVE Spec => RestartsAreDue
  OBVIOUS
<1>1. ASSUME IInv, EndInv, DueInv, Next PROVE OnlyAfterCrash /\ WindowKept /\ FailureShown
  <2>1. ASSUME NEW d \in FrameGaps, NoteExits(d)
        PROVE  OnlyAfterCrash /\ WindowKept /\ FailureShown
    <3>1. \A s \in Sessions \ present : ses'[s] = ses[s]
      BY <2>1 DEF NoteExits
    <3> QED BY <1>1, <2>1, <3>1, NotedDue DEF OnlyAfterCrash, WindowKept, FailureShown
  <2>2. CASE \A d \in FrameGaps : ~NoteExits(d)
    <3>1. OnlyAfterCrash /\ WindowKept
      BY <1>1, <2>2, WindowStays DEF OnlyAfterCrash, WindowKept
    <3>2. ~(ui = "keys" /\ ui' = "advance")
      <4>1. ASSUME NEW r \in Sessions, Launch(r) \/ User(r) PROVE ui' = ui
        BY <4>1 DEF Launch, User, UserStart, WizardSubmit, UserStop, ManualRestart, UserSend,
                    AddProfile, RemoveProfile
      <4>2. ASSUME NEW r \in Sessions, NEW g \in Gens, Supervisor(r, g) \/ Bot(r, g)
            PROVE  ui' = ui
        BY <4>2 DEF Supervisor, SupLaunch, SupPublish, SupNote, SupWrite, SupFinish, StepTask,
                    Bot, BotEnd, BotTakesCommand, BotCancelled, End
      <4>3. CASE Frame \/ MainLeave
        BY <2>2, <4>3 DEF Frame, AdvanceWatchers, CountLive, CheckStopped, CheckNeverStarted,
                          MainLeave
      <4> QED BY <1>1, <4>1, <4>2, <4>3 DEF Next
    <3> QED BY <3>1, <3>2 DEF FailureShown
  <2> QED BY <2>1, <2>2
<1>2. IInv /\ EndInv /\ DueInv /\ [Next]_vars => [OnlyAfterCrash /\ WindowKept /\ FailureShown]_vars
  BY <1>1
<1>3. ConsoleInv => IInv /\ EndInv /\ DueInv
  BY DEF ConsoleInv
<1> QED BY <1>2, <1>3, ConsoleInductive, PTL DEF Spec, RestartsAreDue
=============================================================================
