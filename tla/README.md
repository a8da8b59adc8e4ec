# Verification of the headless MapleStory bot and its console

This directory holds TLA+ models of the repository in `src/`, the TLC runs that
check them on small instances, and theorems checked by TLAPS. Paths below are
relative to the repository: `src/...` is the core library, `crates/console/src/...`
the multi-account console.

## 1. The system

| Component | State | Operations | Hard part |
|---|---|---|---|
| Bot runtime (`src/runtime.rs`) | connection, phase, attempts | connect, select loop over packet / command / tick / deadline, reconnect | timeouts, drops at any moment, stale clocks |
| Packet handlers (`src/handlers/`) | `BotState` | one handler per opcode | late, repeated, missing answers |
| Commands (`src/command/run.rs`, `view.rs`, `parse.rs`) | `BotState`, cfg | about 90 commands, from the user, from rules and from tasks | phase guards |
| Task engine (`src/command/tasks.rs`) | `task_stack`, cursors, hunt snapshots | start, stop, pop, tick, groups | nesting, restoring hunt |
| Rules (`src/command/rules.rs`) | open rules and groups, last fire | decide, run, inline wait / while | actions that change what is being iterated |
| Combat tick (`src/command/tick.rs`) | targets, cooldowns, drops | one tick in game | wall-clock dependent choices |
| Runtime config (`src/runtime_config.rs`, `config.rs`) | merged JSON, predicates | load, merge, save, eval | merge order, write target |
| Party, trade, shop, dialog (`src/party.rs`, `trade.rs`, handlers) | per feature record | invitations, confirmations | two-sided handshakes |
| Wire format (`src/{packet,crypto,session,packets,parsers}`) | cipher state, inbox | encode, decode, frame | byte layouts |
| Names (`src/names.rs`) | tables per data dir | lookup | cache shared by sessions |
| Restart watcher (`crates/console/src/watcher.rs`) | state, attempts, policy | on_exit, poll_ready, reset, stop, resume, rearm | order of calls across frames |
| Session set (`crates/console/src/{session,sessions}.rs`) | per session: stage, outcome, flags, handle, channel, generation | start, stop, F3, send, add, remove, supervisor | three threads, atomics |
| Application (`app.rs`, `lib.rs`, `wizard.rs`) | keepalive, all_done, selection | keys, frame, launch loop, exit condition | values read at different instants |
| Credentials, profiles (`credentials.rs`, `profile.rs`) | password store, profile chain | load, save, merge | copies that diverge |
| Logs and view (`sessions.rs`, `console-lib/src/logbuf.rs`, `eventq.rs`) | rings, `synced` index, selected | switch, push, drop oldest | index that outlives a removal |
| Text front end (`ui.rs`, `console-lib`, `crates/webui`, `crates/resource`) | presentation | render, complete, translate, export | none that a state model reaches |

How they interact. The render thread owns the `SessionSet` and talks to a bot through
a bounded `mpsc` channel (`CMD_CHANNEL_CAP`) and shared atomics; a supervisor task per
bot writes back how it ended; the main thread launches the first bots and waits for
`keepalive` and `all_done`. A bot is one task: it handles one packet, command or tick
at a time under its `BotState` mutex.

## 2. Modules

| Module | Models | Uses |
|---|---|---|
| `RestartWatcher` | `watcher.rs`: the watcher as a record, every method as an operator on it | |
| `SessionSet` | `session.rs`, `sessions.rs`, the session half of `app.rs` and `lib.rs` | `RestartWatcher` |
| `AccountSlot` | abstract: what the console promises for an account | |
| `SessionInv` | the inductive invariant of `SessionSet` (the mapping to `AccountSlot` is at its end) | `SessionSet` |
| `BotRun` | `runtime.rs`, the login, field and cash-shop handlers and the commands that move the phase | |
| `TaskEngine` | `tasks.rs`, `rules.rs` and the task, rule, group and reload commands of `run.rs` | |
| `LogView` | the logs of the accounts, the one on screen, the event queues | |
| `Combat` | `tick.rs`, the entity handlers of `field.rs`, the hunt commands | |
| `Line` | the connection as two queues between a bot in game and its server | |
| `Trade`, `Party`, `Dialog`, `Bag` | one exchange each: commands, messages, the server's side | `Line` |
| `Interact` | the four on one connection | the four |
| `Keys`, `Prompt` | `on_key`, the layers over the input line; the line and its history | |
| `Console` | both | both |
| `Picker`, `Startup` | the list of profiles; accounts, passwords and the credential store | |
| `SingleSession` | the console with one bot: main thread, render thread, bot | |
| `ConfigLayers` | includes, merge, load, reload, `hunt save` | |
| `Setup` | from the command line to running bots | the four |
| `Framing`, `Pipe` | `Session` in bytes: reads of any size, two writes, reconnects; and what it promises | |
| `Cipher` | the passes over a body, the key stream's blocks, the header | |
| `Cursor`, `Parsers`, `Handlers` | reading and building bodies; `parsers/*`; what a handler believes | in this order |
| `ServerPackets`, `BotPackets`, `Traffic` | bodies with their meaning, of the server and of `packets/*`; one body at a time, whole or cut | `Handlers` |
| `Wire` | the connection at these three depths | `Framing`, `Cipher`, `Traffic` |
| `SessionSetProofs`, `BotProofs`, `TaskProofs`, `ConsoleProofs`, `LogProofs`, `CombatProofs`, `InteractProofs`, `PipeProofs` | lemmas and theorems | TLAPS |
| `MCSessionSet`, `MCTaskEngine`, `MCLogView`, `MCInteract`, `MCSetup`, `MCWire` | instances for TLC | |

`Interact`, `Console`, `Setup` and `Wire` put components side by side that meet on a
connection or a thread but read nothing of each other. There `focus` (in `Setup` `about`) says which of
them a behaviour is about: the product of independent components would show nothing more.
`MCInteract` puts `Interact` and `BotRun` side by side in the same way; one of them rests.

Operators whose comment begins with "Slip" are plausible mistakes in the definition that
follows them. No specification uses them; they show that a property notices.

### SessionSet

State: `ses[s]` is the `BotSession` (stage, outcome, panic flag, abort-handle slot,
channel, generation, `manual_stopped`, `start_failed`, `stopping`, watcher);
`task[s][g]` is the g-th run of s: where its supervisor is, the bot, its mailbox.
`ui` is the render thread's place inside a frame, because `note_exits`,
`advance_watchers`, the live count and the two reads of the exit condition see the
atomics at different instants. `launching` are the sessions the main thread has not
reached. `lastEnd`, `autoRuns` and `raced` are history and guard nothing.

Actions: `Launch`, `MainLeave` (main thread); `UserStart`, `WizardSubmit`,
`UserStop`, `ManualRestart`, `UserSend`, `AddProfile`, `RemoveProfile` (keys);
`NoteExits`, `AdvanceWatchers`, `CountLive`, `CheckStopped`, `CheckNeverStarted` (a
frame); `SupLaunch`, `SupPublish`, `SupNote`, `SupWrite`, `SupFinish` (a supervisor,
one action per visible write); `BotEnd`, `BotTakesCommand`, `BotCancelled` (the bot).
`BotRun` justifies the outcomes in `MCSessionSet!Returned`: its `RunTypeOK` says that
`run` returns nothing but `Quit`, `DurationElapsed` and `Failed`.

`raced` holds the sessions whose launch by the main thread followed a key that had
already changed them, or followed the console's verdict that they are idle. For them
the properties about bots fail (run `TwoLogins`), and the passing runs stop there
(`CONSTRAINT NoRace`), so that the rest is checked.

### BotRun

`pc` is the place in `run`; `bot` the fields of `BotState` that move the phase, hunt
and the cash-shop round trip; `wire` the connection and the requests the external
server may still answer. Handlers are one action each, since `run_once` runs a handler
to its end before it selects again. Clocks (`mapAge`, `trip.age`) count up to one unit
past the timeout they are compared with. `seen` is history.

### TaskEngine

State: `eng` is what the engine reads and writes of `BotState`: the stack, hunt, the
open groups and top-level rules, whether the phase is `InGame`; `firing` the rules of
this tick still at work; `tick` the phase of the tick. `run_rules`, `tick_tasks` and the
hunt condition after them run under one lock, so `UserCommand`, `Arrive` and `Drop`
wait for `tick = "no"`, while each command a rule runs is a step of its own.

What a step or a rule does is open: `StepHolds`, `StepPasses`, `StepRuns`, `TaskEnds`
are all that one tick may do with the task on top, `RuleRuns`, `RuleWaits`,
`RuleStarts`, `RuleQuits`, `RuleEnds` all that a rule may do with an action. So the
properties hold whatever the configuration says. A file may switch on any groups, exclusive or
not (`Configs`): nothing in `load_from` or `reload_from` looks at that. `filed` remembers that two
exclusive groups are open because a file said so and neither was closed since; like the field
`by` of a runtime and `seen` it is history.
`Without` keeps the runtimes of a stack in their order without a filter on sequences, so
that it can be proved about.

### LogView

`con` is the render thread's data: the attached accounts in order, the selected one,
`synced` (the index whose log is on the screen), `render_pending`, the App's copies, and per
session its queue, its log and its counts. Each key and each frame is one action; the bots'
`Emit` is the only thing that runs beside. `strayed` is set where the code does mix logs
(`Displaces`: a removal at or before the one on screen that is not the last; a note that
still waits), and the properties stop there.

### Combat

`bot` is what `tick` and the field handlers read and write; a map is a line of spots, spot 0
the position nobody has told. `Tick` is the whole of `tick` around rules and tasks, in its
order: each part takes a step under way (the bot, what the server has heard of it, the requests
it has made) and returns it. `FromServer` are the handlers, `Command` the switches; `server`
follows the packets and remembers what they told it. Distances and delays are small numbers;
`hunt once` comes at most once a tick. A stand on a spot that `last_sent_pos` does not record is
`astray`: only `hunt once` sends one.

### Interact

A command leaves packets in `line`, the server takes them in order, its answers wait there
until their handler runs; a lost connection loses both. The bot's copy and the server's truth
(`window`, `group`, `npc`, `chest`) are separate variables, and the properties relate them
when nothing is under way, or at the moment a command chooses from the copy. `Dialog` has, next
to the user, a task that answers the pages it waits for and the popups of the console,
which are opened from a snapshot one frame old.

### Console, Setup

`Keys` has a frame (`poll_events`: the copies, the popups) and the keys; the bots change
their lists between frames. `Prompt` is the input line. `Picker`, `Startup` and
`SingleSession` follow the program from the command line; in `SingleSession` the stage flag,
the outcome and the two channels are shared by three threads, each visible write an action.
At the end of `Startup` the accounts have templates, made of their profiles, the store and the
answers, for F3, the start key and restarts; `LaunchFirst` then starts them, as the main thread does, with configurations
computed from the profiles once more (`launch`).
`ConfigLayers` has the files on disk, which may include each other, be broken, be edited or be taken away
while the bot runs, and what was merged from them, key by key. A key that has the wrong type lets the
whole load fail, unless a later layer overrules it. The recursion of `collect_layers` is as deep as there
are files (`Within`), for each file is done once; lists are taken in by one operator (`Folded`).
`fresh` and `saved` are history: what is in memory is what was loaded from the files as they are, and what
`hunt save` wrote.

### Wire

`Framing` knows a byte by its packet and its place in it. `Read` takes any number of the
bytes under way, `SendHeader` and `SendBody` are the two writes, and the loop may do anything
between two reads, which is what a dropped call of `recv_packet` amounts to. `Cipher` has the
arithmetic of the passes on bytes; the block cipher and the step of the position are stood
for by arithmetic of the same shape, since both ends run the same code. `Parsers` and
`Handlers` translate the layouts field by field, a loop as the row of cursors it passes through (`Walk`); `ServerPackets` writes each body from the
layouts in the parsers' comments and tests, with its meaning; `Traffic` delivers it whole or
cut after any number of bytes.

## 3. Runs

The bounds of every run are in its `.cfg`. A property that joins several named ones says so in
the comment above it.

| Run | Shows |
|---|---|
| `SessionSet_one` | one account, all keys, crashes at any time, frames of length 1 and 2 against a backoff of 2 and 3: at most one bot, a readable end, the restart budget, no restart after a stop, and a restart exactly when one is due; the inductive invariant `ConsoleInv`; and liveness: a crash is followed by a restart, a quit ends its bot, a console with nothing left ends |
| `SessionSet_two` | two accounts, one attached and removed at run time: the sessions implement `AccountSlot`, no removed account keeps a bot, `all_done` means idle |
| `TaskEngine` | hunting is handed back when the last task leaves, groups govern the tasks they started, no command leaves two exclusive groups open, nothing is queued twice |
| `LogView` | a log has its own account's lines only, in order, its holes are counted; the screen belongs to the selected account; switching changes no log. Removals that give a log back by a shifted index end the behaviours looked at (section 5) |
| `Combat` | volleys are paced and standing, control is neither lost nor invented, the bot's clocks and records agree with the server (all of it `CombatInv`), a tick ends with the server told where the bot stands, hunting goes on hitting, drops are picked up or given up |
| `Interact` | trade and party agree with the server once all is said; answers meet the page they were meant for; the bag is the server's and a sale asks for what was typed; a confirmed trade ends. And the run of one bot: trips give hunting back and move on, no trip outlives its session, timeouts are real, retries need a game, a quit ends the run |
| `Console` | what a key sends goes to the account the user was looking at, Esc leads out, the draft survives the walk through the history |
| `Setup` | what was ticked is taken, an account whose profile names one logs in as itself, the first time and later, `hunt save` is heeded and the last layer counts, a quit ends the program and a failure brings the wizard back |
| `Wire` | what the ends hear is what was said (`Pipe`), sealed bodies open at every length class, whole packets mean what the server meant, and half ones are refused where the handler asks, but for what `Refused` names |
| `TwoLogins` | violation: the console's comment on at most one start, which the code does not keep |
| `TwoExclusive` | violation: tasks of two exclusive groups are started, one above the other, when the file has both on |
| `FirstLogin` | violation: the first login of an account is made without the password found or asked for it |

Bounds. `MaxGen = 3` respawns with `MaxAttempts = 2` let a session exhaust its budget and
be started again by hand; the mailbox of capacity 1 makes a quit find it full; two
sessions are the least for the exit condition to see one idle and one not. In `BotRun`
two maps tell landing at home from landing elsewhere, `ReconnectMax = 3` allows a drop
before, in and after a relogin. `TaskEngine` has a task and a rule of one exclusive group, a
recurring task of another and a rule at top level: every kind of owner, and a group to close
under another's task. A stack of two has a bottom and a top, which is all the engine tells
apart; one step per runtime has a cursor before and after. `LogView` has a queue of one and
logs of two lines, so that both overflow; two accounts to switch between, of which the
second removal leaves none; two lines with notes and pages, and three while there are neither, which is the
least for a line to go missing between two that are kept (`MaxTotal`, `MaxSilent`). In `Combat` three spots are near, far and unknown; two switch
settings pair the features that read each other's state; two events come while a jump, a volley
and a pickup cool down. In `Interact` queues of two let an answer cross a command; two pages,
parties or slots make an old copy name a new thing; three windows and three orders follow one
another. `Console` has two accounts, one without a password, and lists of two rows, one of which
goes. `Setup` has two profiles and two runs of the bot; its configuration is a chain of one or two files
and a library, which include each other both ways, with a rule that three files set keys of and one that
is written twice in one file. `Wire` says two
packets per side on up to three connections, bodies of one and two bytes behind headers of
two, so that every cut of a stream occurs; cipher lengths lie on both sides of each block and of
the wrap of the length byte; bodies are cut at every byte.

Fairness. Threads and ready tokio branches are scheduled (WF). In `BotRun` the tick and
the command branch are strongly fair: `select!` picks at random among the ready
branches, so one that is ready again and again is taken. In `Combat` ticks keep coming
(the interval of `run_once`). In `Interact` handlers run, the server reads its queue and a lost
trade partner's connection is made again; nobody has to confirm. In `Setup` the threads and
the bot's messages move on; the user owes nothing. Users, servers and crashes owe nothing
anywhere.

## 4. Proofs

Every theorem holds for all values of the constants that the named assumptions of its module
allow. Induction is over behaviours; where an argument needs induction over a stack or a log, it
uses the least number with a property (`WellFoundedInduction`) or none.

- `SessionSetProofs`: `Inductive` (`IInv`), `TypeCorrect`, `OneBot` (`AtMostOneBot`), `NoOrphan`
  (`RemovedHasNoBot`), `Budget` (`RestartBudget`), `StoppedStaysStopped` (`NoRestartAfterStop`),
  and `Refinement` (`ImplementsAccountSlot`).
  `AtMostOneBot` is not inductive: whether a start is refused depends on the
  stage, while whether a bot lives depends on the supervisor. `IInv` ties them, per
  session: the run whose generation is the session's is the only one that can be alive;
  the stage is `FINISHED` only when its supervisor is through; before the launch the
  session is untouched or in `raced`; a removed session has no live run. `WatchInv` ties
  the watcher to the history: a window that waits has counted its attempt, attempts never
  exceed the policy's maximum, `autoRuns` never exceeds `attempts`, and a manually
  stopped session's watcher is `Stopped(Manual)` or its stop came after the last restart.
  Each action is one lemma, each conjunct it can disturb one step.
  The refinement has the hypothesis `[](raced = {})`, what `CONSTRAINT NoRace` is to the run:
  where a launch has raced with a key there are two bots and an account is not one slot.
  `EndIsTold` (`OutcomeReadable`), `DoneIsIdle` (`DoneMeansIdle`), `RestartsDue`
  (`RestartsAreDue`) and `ConsoleInductive` (`ConsoleInv`) join three parts to `IInv`. `EndInv` follows an
  ending from the bot through the supervisor's three writes to the session: before `noted` no
  panic flag stands, from `written` on the outcome is that of the latest bot unless a stop erased it.
  `IdleInv` is the place inside a frame: between the two reads of the exit condition
  no session leaves its rest, since only the render thread starts one. `DueInv` says that a window
  that waits outside the step which serves it still has time left, so the frame in which it runs
  out is the frame that fires it. `RestartsDue` and `ConsoleInductive` assume `Steadily`, about the
  constants: runs end as `BotRun` lets them (`Quit`, `DurationElapsed`, `Failed`), and no frame lasts
  `PENDING_WINDOW_STALE`. Without the second the code does drop a due restart (section 5).
- `BotProofs`: `BotTypes` (`RunTypeOK`), `TripGivesBack` (`HuntSurvivesTrip`), `TripNeedsMap`
  (`NoTripWithoutMap`), `NothingEarly` (`GivesUpInTime`). The invariant `BotInv` adds what the
  code relies on and nowhere says: a bot that is on a map or has asked for something knows
  its map (`Mapped`, without which a trip would remember none); before the account is
  logged in nothing else has been asked (`LoginFirst`); a pending trip remembers what hunt
  should be (`TripRemembers`); off the login server the clock of a map change is no older
  than the wait (`Clock`); and a bot that has not been on a map is in none of the states
  that follow (`Entry`), which a relogin needs.
- `TaskProofs`: `TaskTypes` (`TypeOK`), `TaskOrder` (`StackInOrder`), `TaskHunt`
  (`HuntHandedBack`), for configurations and stacks of any size. `TaskInv` says that every
  runtime that came through the gate has its group open, that two exclusive groups are open only
  where a file left them so, that definitions are distinct, and that the bottom of the stack holds the hunt that
  was there before. The weight is in `Without`: the lemmas `KeptAsType`, `KeptAsOrder`, `WithoutType`,
  `WithoutAll` and `WithoutFirst` show by a least-number argument that it keeps exactly
  the others, in order, and the bottom one if it stays.
- `ConsoleProofs`: `WalkKeepsDraft` (`DraftIsKept`), for histories of any length, and `KeysAreSound`
  (`KeysSound`), for any number of accounts and lists of any length. `LineInv` says that
  a walk's place lies in the history, which never gets shorter, and that the draft the walk
  began with is the one the line comes back to. `KeysInv` has what `on_key` relies on and nowhere
  checks: the copy is of the account `cmd_tx` points at, which is the selected one while there is
  one (`Pointed`); a picker stands for the phase of the copy, or for the channels of a world it shows, and
  its cursor is in the list (`Picked`), which holds because every frame that finds another phase closes
  it; the wizard stands alone over the input line and asks about the selected account (`Piled`). That
  Esc leads out is then a count: `EscTakesOne` says that each Esc takes one layer of at most six away.
  Of `Setup` as a whole there are `LoginIsOwn` (`OwnLogin`), `TicksAreTaken` (`ChoiceIsKept`) and
  `LastLayerCounts` (`FilesAreHeeded`), for any number of profiles, and any files that
  include each other in any way. `PickerOK` keeps the list of profiles free of
  repetitions, so that positions and names stand for each other while a deletion moves them; `LoginsOK` says
  that a password is asked for, or taken from the store, only where the profile has none of its own, and that
  what the launch computes from the profile is the template without such a password (`Again`).
  `ConfigInv` says that rules loaded are the merge of the layers as they are on disk, and that
  the last path still has the hunt section that was saved there: bare defaults are not written over it, for
  with a last path there are layers (`AllCollected`). Under it lies an induction of its own: `FoldIn`
  takes a list in step by step, from a set to a set, and is used for the paths of a chain, for what a file
  includes, for the layers and for their rules; `WithinCollects` goes down the includes. `Means` is what the
  rules are once the entries at some places are merged, and `EntryMerged` adds one behind them:
  a key has the value of the last place that says it, a rule keeps the keys that the new
  entry leaves out. `StrictIsLenient` lets `reload`, which takes no missing file, share the argument.
- `LogProofs`: `SwitchIsHarmless` (`SwitchKeepsLogs`) and `LogsKept` (`LogsAreKept`), for any number of
  accounts and logs and queues of any size. `Good` says that
  the accounts form a list without repetition and that both positions in it, the selected
  account and the one on the screen, are valid. `RotateGood` is the lemma under it: the two
  swaps of a switch put one log back and fetch another, and leave every log where its owner
  finds it. `LogInv` is `Good` with the types; a removal and an addition keep it because they shift or
  reset both positions. `Screened` adds what the lines say. `Placed` is where the screen stands: at the
  selected account, or at one that is to be left; with `Fitting` it outlives even the removal that mixes
  logs. `Tidy`, which does not, is `LogsAreKept` for the lines of a log and its queue in one row,
  so that a drain changes nothing; the lemmas under it say what cutting the front off a row (and counting it),
  inserting a note and emitting the next line do to its order and its holes. It speaks
  of logs through `LogOf` and `Page` only, which give the same whether a log is on the screen or in its session.
- `InteractProofs`: `PeersAreKnown` (`PeersAgree`), `DialogIsSound` (`DialogSound`) and `SaleIsSound`
  (`BagSound`), for queues of any length, any number of slots, traders, parties and pages. What agrees when all is said is not
  inductive; what is, is that the messages under way, handled in order, make of the bot's copy what the
  server has (`Makes`). It is proved once for any handler: a message said behind (`MakesOneMore`) and a
  message handled in front are a step on either side, and `MakesOtherwise` lets a command change the copy while
  messages are under way, if each of them overrules the change or leaves it standing. The bag and the
  party go through it as they are (`BagFollows`, `PartyFollows`). A trade window goes through `Sight`, as a closed
  one shows nothing, with an exception for each request that is still on its way (`TradeTold`), and its
  items through `Counts`. The dialog is about order instead: while a task runs, nothing the user asked
  is before its request (`TaskIsFirst`, `UserIsSilent`), and its exchange is at one place, asked for,
  on its way back or open (`OneExchange`). The sale is a loop: `LoopOK` says what is left after k stacks and
  what was asked of each, by the sum so far (`Sums`); `LoopKeeps` finds the first step that would break it, and
  `SumIs` adds the requests up again. `OrderExists` shows that the list of stacks the property speaks of exists.
- `CombatProofs`: `CombatSafe` (`CombatInv`) and `TicksTell` (`ServerKnowsWhere`), for any map, any
  delays, any number of mobs, drops and reactors, and with every switch. That volleys are paced is
  not inductive: the tick asks its own clocks, the property is about the server's. `Timely`
  says that the bot's are never ahead; `Noted` that a move under way is in `last_stance` when a step
  is over; `Recorded` that what the server heard last is what `last_sent_pos` says, as long as
  the last packet was one that is recorded. Inside a tick the invariant is `InStep`, on the step
  under way: there is a lemma per stage (`ResyncKeeps` to `SettleKeeps`), `TickKeeps` puts them in
  the code's order, and `Synced`, which the resend establishes, is carried to the end of the tick.
  The attempt to prove `ServerKnowsWhere` showed that it was too strong beyond the bounds of its run:
  `hunt once` stands on the spot without recording it (`tick.rs:475-482`), and a bot that the
  server moves away and back between two ticks is then not told again. TLC shows it with five events;
  the property now excepts what leaves no record (`Unrecorded`), and no longer `hunt once`'s jump.
- `PipeProofs`: `PipeImplemented` (`ImplementsPipe`), for packets of any length, reads of any size and
  any number of connections. `PipeInv` says that the inbox followed by what is under way is a
  `Stream`: each byte the next one of the same packet, or the first of the next packet, starting where
  the bot's position in the key stream is. `StreamRest`, `StreamJoin` and `StreamGrows` are its
  algebra, `HeadParts` cuts one whole packet off its front, and a connection that is torn owes
  nothing until the next one. The same holds the other way, with a header written and a body not
  yet (`step = "sending"`).
  `SealedIsOpened` (`OpensWhatWasSealed`), of `CipherSpec`, which is one connection of `Wire` by
  itself: whatever the version, the blocks of the stream and the lengths of the bodies. The exclusive or of
  words is that of their halves (`Xors1` to `Xors16`), rotations turn back (`RotatesBack`). A pass leaves a `Chain`,
  each byte mixed with the mix before it and with the length that is left, modulo 256; `MixesChain`
  finds the first byte where it would not, and `ChainBack` takes it apart. So `SealBack` holds of
  every body, not only of those the run tries, and `HeaderSays` of every length below 65,536. `CipherInv` adds
  that a body under way was sealed at the position of the end that is to open it.
  `HalvesRefused` (`HalvesAreRefused`): a cursor over the front of a body and one over all of it stay
  `Alike` until the first read past the cut, after which the shorter one is `Lost` and stays so. `Follows`
  says this of two readers before and after a step; it is proved of every field (`FieldFollows`), of
  layouts (`FieldsFollow`), of the loops over a count and of those with an end (`Went`), then of
  each parser (`Reads`: either both ran alike, to the same answer, or the shorter one is lost, and a parser that
  `Doubts` has then no answer). Of a SET_FIELD cut short something is left all the same, and `Refused` says what: the
  channel, and that the map and the shop are behind (`CutLanding`, `LandedEither`). What the server's bodies say plays no part, only that they are bytes, with one
  exception: `handle_skill_update` believes each skill that came before the cut, so a list of two skills
  cut after the first is half believed; the theorem, like the run, speaks of a list of one (`OneSkillTold`).

Only model-checked:

- what rests on fairness: the liveness properties of every run, `TradeConcludes` among them;
- `SaysWhatItMeans` of `Wire`: that each body of `ServerPackets`, and each request, comes out as what it
  means is evaluation, byte by byte, which TLC does and the provers do not.

## 5. Where code and documentation part

With a run (the quote is in `findings` of `PROJECT.json`):

- `TwoLogins`: a start key before the main thread's launch loop gives a second bot.
- `TwoExclusive`: a file, or the file a reload reads, that has two exclusive groups enabled is taken as it is
  (`runtime_config.rs:670-711`, `:774-791`); both stay open until a command opens or closes one of them,
  against `runtime_config.rs:401-403` and `docs/GUIDE.md:118`.
- `FirstLogin`: passwords found in the store, shared or asked for go into the templates only
  (`lib.rs:432-507`); the launch computes its configurations from the profiles again (`lib.rs:673-680`), so the
  first login of such an account has no password, which the questions were there to prevent (`lib.rs:443-446`).

Met on the way, modelled as the code has it, without a run of their own.

Sessions and console:

- A stop between the spawn of a bot and the publication of its abort handle sends no quit and
  reaches nobody (`sessions.rs:777` against the comment at `:768`). A failed start followed by a
  stop locks the session out of every later start (`session.rs:353` against `:341`).
- F3 on a session the user stopped leaves `manual_stopped` set; an alarm of the watcher
  stays while its bot runs again; a send to a profile that was never started is accepted.
- `all_done` is raised in the frame in which a crash is written after `note_exits`, and
  is never lowered: that crash is not restarted if every other session is idle.
  `keepalive` counts wrong until the launch is over. A frame longer than
  `PENDING_WINDOW_STALE` drops a due restart.
- `remove_profile` mixes two logs: it gives the log on screen back by the index it had before the
  removal, so that for an account that stands at or before the one on screen and is not the last it lands in the
  account that moved up (`app.rs:1934` against the comment at `:1927-1933`; `Displaces`). A note on the
  selected account that waits for the next frame is written into the log of the account switched
  to; a page chosen since the last frame is lost on a removal.
- Ctrl+C is not heard while the board, the help or the bag is open, though `docs/TUI.md:160`
  says it sends `quit`; with several accounts it quits the selected one only. A popup that opens
  under one of these layers is drawn below it and takes the keys. After a refused argument of
  `npmenu` or `shop menu` history and completions stay as they are.
- Passwords typed in the account wizard are never saved: the store written at exit is the main
  thread's older copy. A corrupt store counts as empty and is overwritten. A profile without a
  login section borrows account and password of another, and one that names no account borrows that
  (`lib.rs:464` against `config.rs:274`).
  A profile created or copied under an existing name overwrites that file. A second Enter in the
  wizard makes the next retry start unasked.

Bot run, tasks, configuration:

- `reconnect_max` counts over the life of `run`, one short, and is never reset
  (`config.default.json:26`); with 0 and a server that stays down a quit is never read.
- A cash-shop return that got its 0x13 but no SET_FIELD leaves the trip pending for good
  (`runtime.rs:396` against `:391`). A stale `map_enter_time` on the login server gives a timeout at
  once, and a retry without a game (`handlers/login.rs:255`, `runtime.rs:155`).
- A quit among the steps of a task abandons the task and not the session (`rules.rs:39` against
  `:15`). A drop in a round trip or a task loses the hunt it had switched off; so does a bottom
  task that leaves with its group before the one above it (`tasks.rs:152` against
  `runtime_config.rs:186`). The rules of an open group keep their own `enabled`
  (`runtime_config.rs:833`, as `docs/CONFIG.md:193` says, against the comments at `:399` and `:827`).
- Of layers [a, lib] where a includes lib, lib is merged first, so `hunt save` into lib may not
  win. The unsupported predicate `hunt==2` is true while hunt is off.

On the map and with others:

- `hunt once` attacks in the middle of a move (`tick.rs:469` against `:474`) and stands without
  recording where (`tick.rs:475-482`), so the next resend may be left out. `far_drop` is never chosen
  (`tick.rs:86`). Turning gathering off and on clears the table of move ids. `attack_target` and
  `hunt_target` are never set. Warps and channel changes switch hunt off even when they are denied.
- A `trade invite` between `accept` and START crosses windows; confirming before the partner has
  joined marks the own window locked for good if the server ignores it; the partner's name is "?"
  after an accept (`run.rs:1559`); an equip has quantity 0, so `trade put` finds nothing to put.
- After `party create` the bot's party has no members and leader 0 until the first sync; no
  command accepts an invitation.
- `shop leave` before an OPEN_NPC_SHOP in flight leaves `shop_open` set. A popup's reply goes to the
  menu drawn last; `npc_seen_seq` is one number for all accounts (`app.rs:876` against `:848`); a popup
  hidden by a task does not come back (`app.rs:857`).
- `sell <equip>` without a slot says the item is not there, with a slot it asks for quantity 0.
  `takeout` without uid repeats the same item. Whispered `#drop`, `#say` and `#dropmeso` are answered
  "sent" even when nothing was sent.

Wire:

- `runtime.rs:279` logs the error of a handler and goes on: after a reconnect that failed
  (`session.rs:118`) the loop uses the OLD stream and cipher with an emptied inbox, which the comment at
  `session.rs:117` excludes.
- `parse_look` (`login.rs:82`) never ends on a truncated body (`packet.rs:3`, `handlers/mod.rs:24` promise
  an error). Several handlers believe half a packet: UPDATE_STATS (hp 0), SPAWN (a mob at 0, 0),
  MODIFY_INVENTORY (quantity 0), NPC positions. Of a SET_FIELD whose character cannot be read the channel is
  believed, and everything on the map is dropped (`field.rs:106-128`); a warp that is cut short goes to map 0. `parse_cash_shop` multiplies a count that may be
  negative. An empty body panics with `show_packets`. `len > MAX_PACKET_LENGTH` is never true;
  `write_string` truncates lengths above 65535.

## 6. Not modelled

- Command parser and views, bot command line: text to commands and state to text, without a
  state of their own.
- Name tables, experience table, resource exporter: data and its lookup.
- Event emitter and chat report: formatting behind the queue that `LogView` models.
- Terminal drawing, completion, translation, enrichment, web UI: presentation of what the
  modelled state holds; no decision of the program reads them.

Unit tests against tables reach these, and a state model would repeat them line by line.
Within the modelled parts these are left out: the cash shop beyond its trips and take-outs,
ability points, skills and the key map; predicates, timeouts, cooldowns and the choice of a
potion, which only choose among outcomes `TaskEngine` leaves open; lists of the configuration that are replaced as a whole; the rounds of AES and the step
of the iv; the parsers of npc text and party bodies; chat commands of other players.

## 7. Plan

1. A composition of `BotRun` and `TaskEngine`, for trips inside tasks and for quits out of tasks.
2. The chat commands of other players, on `Line`.
