----------------------------- MODULE TaskEngine -----------------------------
(***************************************************************************)
(* The lock stack of tasks, the rules that feed it and the groups that     *)
(* govern both (src/command/{tasks,rules}.rs, the rule, group and task     *)
(* commands of src/command/run.rs).                                        *)
(*                                                                         *)
(* A tick first runs the rules that are due, then one step of the task on  *)
(* top of the stack.  What a step is does not matter here, only what one   *)
(* tick may do with it: hold, advance, run a command, fail.  Which steps   *)
(* and rules do what is left open, so the properties hold for every        *)
(* configuration with these tasks, rules and groups.  Hunt is shared: a    *)
(* task snapshots it when it is pushed, steps turn it off, and the last    *)
(* task to leave gives it back.                                            *)
(***************************************************************************)
EXTENDS Naturals, Sequences, FiniteSets

CONSTANTS
    Tasks, Rules, Groups,
    GroupOf,     \* of a task or rule; NoGroup at top level
    NoGroup,
    Exclusive,   \* the exclusive groups
    Recurring,   \* the recurring tasks
    MaxSteps,    \* bound: steps of a runtime
    MaxStack     \* bound: runtimes on the stack

ASSUME TaskAssumption ==
    /\ NoGroup \notin Groups
    /\ GroupOf \in [Tasks \cup Rules -> Groups \cup {NoGroup}]
    /\ Exclusive \subseteq Groups /\ Recurring \subseteq Tasks
    /\ Tasks \cap Rules = {}
    /\ MaxSteps \in Nat \ {0} /\ MaxStack \in Nat \ {0}

VARIABLES
    eng,     \* the engine: stack, hunt, open groups, open rules, phase InGame;
             \* filed: history, the exclusive groups open together are a file's
    firing,  \* the rules of this tick that still have actions to run
    tick,    \* the phase of the tick under way, or a rule's quit has ended it all
    seen     \* history: see Seen

vars == <<eng, firing, tick, seen>>

-----------------------------------------------------------------------------
(* by: pushed by `task start`, by a rule's wait or while, or by a rule's    *)
(* own `task start`; kept: by `task start` under an earlier configuration.  *)
TaskRuntime == [def_id : Tasks \cup Rules, step_idx : 0..MaxSteps, steps : 0..MaxSteps,
                hunt_before : BOOLEAN, recurring : BOOLEAN, by : {"start", "kept", "wait", "rule"}]

Group(rt) == GroupOf[rt.def_id]
TopLevelRules == {r \in Rules : GroupOf[r] = NoGroup}

(* before: hunt when the stack was last empty; touched: a command set hunt  *)
(* since; orphaned: the bottom runtime left before those above it.          *)
Seen == [before : BOOLEAN, touched : BOOLEAN, orphaned : BOOLEAN]

Top(e) == e.stack[Len(e.stack)]
OnStack(e, id) == \E i \in 1..Len(e.stack) : e.stack[i].def_id = id

(* task_with_group and effective_rules: what is not in a group is open.     *)
GroupOpen(e, id) == GroupOf[id] \in e.open \cup {NoGroup}
Effective(e) == {r \in Rules : IF GroupOf[r] = NoGroup THEN r \in e.on
                               ELSE GroupOf[r] \in e.open}

Runtime(e, id, steps, recurring, by) ==
    [def_id |-> id, step_idx |-> 0, steps |-> steps, hunt_before |-> e.hunt,
     recurring |-> recurring, by |-> by]

Push(e, rt) == [e EXCEPT !.stack = Append(@, rt)]

(* What is left of a stack when these owners leave, in its order.           *)
Kept(stack, owners) == {i \in DOMAIN stack : Group(stack[i]) \notin owners}
KeptAs(kept, n) == CHOOSE i \in kept : Cardinality(kept \cap 1..i) = n
Without(stack, owners) ==
    LET kept == Kept(stack, owners)
    IN  [n \in 1..Cardinality(kept) |-> stack[KeptAs(kept, n)]]

(* Removes the runtimes of these owners; when the stack empties, the        *)
(* earliest of them gives hunt back.                                        *)
Remove(e, owners) ==
    LET left == Without(e.stack, owners)
    IN  [e EXCEPT !.stack = left,
                  !.hunt = IF left = <<>> /\ e.stack # <<>> THEN e.stack[1].hunt_before ELSE @]

(* Slip: the snapshot of the last task. *)
StopTaskSlip(e) ==
    IF e.stack = <<>> THEN e ELSE [e EXCEPT !.stack = <<>>, !.hunt = Top(e).hunt_before]

StopTask(e) == Remove(e, Groups \cup {NoGroup})

PopTop(e) ==
    IF e.stack = <<>> THEN e
    ELSE [e EXCEPT !.stack = SubSeq(@, 1, Len(@) - 1),
                   !.hunt = IF Len(e.stack) = 1 THEN Top(e).hunt_before ELSE @]

(* Slip: without its tasks. *)
CloseGroupsSlip(e, gs) == [e EXCEPT !.open = @ \ gs]

CloseGroups(e, gs) ==
    Remove([e EXCEPT !.open = @ \ gs], gs \cap e.open)

(* group_close stops the tasks even of a group that was closed before.      *)
GroupClose(e, g) ==
    Remove([e EXCEPT !.open = @ \ {g}], {g})

GroupOpenCmd(e, g) ==
    LET others == IF g \in Exclusive THEN (Exclusive \cap e.open) \ {g} ELSE {}
        f == CloseGroups(e, others)
    IN  [f EXCEPT !.open = @ \cup {g}]

RuleClose(e, r) ==
    Remove([e EXCEPT !.on = @ \ {r}], {NoGroup})

StartTask(e, t) ==
    IF OnStack(e, t) \/ ~GroupOpen(e, t) THEN e
    ELSE Push(e, Runtime(e, t, MaxSteps, t \in Recurring, "start"))

Crowded(open) == \E g, h \in open \cap Exclusive : g # h

(* What a configuration file switches on: any groups, exclusive or not.     *)
Configs == [open : SUBSET Groups, on : SUBSET TopLevelRules]

(* The switches become the file's; the stack is left alone.                 *)
Reload(e, f) ==
    [e EXCEPT !.open = f.open, !.on = f.on, !.filed = TRUE,
              !.stack = [i \in DOMAIN @ |-> IF @[i].by = "start"
                                             THEN [@[i] EXCEPT !.by = "kept"] ELSE @[i]]]

-----------------------------------------------------------------------------
(* Commands, whoever runs them.  "town" stands for every change of map,     *)
(* "other" for all that touches none of this.  A refused `task start` is    *)
(* only reported.                                                           *)
Command ==
    [op : {"start"}, arg : Tasks] \cup [op : {"group open", "group close"}, arg : Groups]
        \cup [op : {"rule open", "rule close"}, arg : Rules]
        \cup [op : {"reload"}, arg : Configs]
        \cup [op : {"hunt on", "hunt off", "task stop", "town", "channel",
                    "other", "error", "quit"}, arg : {NoGroup}]

Fails(e, c) ==
    \/ c.op \in {"rule open", "rule close"} /\ c.arg \notin TopLevelRules
    \/ c.op \in {"error", "quit"}

Result(e, c) ==
    IF Fails(e, c) THEN e
    ELSE CASE c.op = "start" -> StartTask(e, c.arg)
           [] c.op = "task stop" -> StopTask(e)
           [] c.op = "group open" -> GroupOpenCmd(e, c.arg)
           [] c.op = "group close" -> GroupClose(e, c.arg)
           [] c.op = "rule open" -> [e EXCEPT !.on = @ \cup {c.arg}]
           [] c.op = "rule close" -> RuleClose(e, c.arg)
           [] c.op = "reload" -> Reload(e, c.arg)
           [] c.op \in {"hunt on", "hunt off"} -> [e EXCEPT !.hunt = (c.op = "hunt on")]
           [] c.op = "channel" -> [e EXCEPT !.hunt = @ /\ ~e.inGame]
           [] c.op = "town" -> IF e.inGame THEN [e EXCEPT !.hunt = FALSE, !.inGame = FALSE] ELSE e
           [] OTHER -> e

Fits(e) == Len(e.stack) <= MaxStack

(* Every action: the engine becomes e; `sets` if hunt was set or dropped.   *)
Becomes(e, sets) ==
    /\ Fits(e)
    /\ eng' = [e EXCEPT !.filed = @ /\ Crowded(e.open)]
    /\ seen' = [before |-> IF eng.stack = <<>> THEN eng.hunt ELSE seen.before,
                touched |-> eng.stack # <<>> /\ (seen.touched \/ sets),
                orphaned |-> eng.stack # <<>> /\
                    (seen.orphaned \/ (e.stack # <<>> /\ e.stack[1].def_id # eng.stack[1].def_id))]

SetsHunt(c) == c.op \in {"hunt on", "hunt off"}

-----------------------------------------------------------------------------
Init ==
    /\ \E h \in BOOLEAN, f \in Configs :
          eng = [stack |-> <<>>, hunt |-> h, open |-> f.open, on |-> f.on, inGame |-> FALSE,
                 filed |-> Crowded(f.open)]
    /\ firing = {} /\ tick = "no"
    /\ seen = [before |-> FALSE, touched |-> FALSE, orphaned |-> FALSE]

UserCommand(c) ==
    /\ tick = "no" /\ c.op # "quit"
    /\ Becomes(Result(eng, c), SetsHunt(c))
    /\ UNCHANGED <<firing, tick>>

Arrive == /\ tick = "no" /\ ~eng.inGame
          /\ Becomes([eng EXCEPT !.inGame = TRUE], FALSE)
          /\ UNCHANGED <<firing, tick>>

(* reset_session: the stack goes, hunt stays as it is.                      *)
Drop == /\ tick = "no"
        /\ Becomes([eng EXCEPT !.stack = <<>>, !.inGame = FALSE], TRUE)
        /\ UNCHANGED <<firing, tick>>

-----------------------------------------------------------------------------
(* The rules.  Which of them fire is decided before the first one runs.     *)
BeginTick ==
    /\ tick = "no" /\ eng.inGame
    /\ tick' = "rules"
    /\ firing' \in SUBSET Effective(eng)
    /\ UNCHANGED <<eng, seen>>

(* Among them the `task start` after one that named no task.                *)
RuleRuns(r, c) ==
    /\ r \in firing /\ c.op # "quit"
    /\ Becomes(Result(eng, c), SetsHunt(c))
    /\ UNCHANGED <<firing, tick>>

RuleEnds(r) ==
    /\ r \in firing /\ firing' = firing \ {r}
    /\ UNCHANGED <<eng, tick, seen>>

RuleQuits(r) ==
    /\ r \in firing
    /\ tick' = "quit" /\ firing' = {}
    /\ UNCHANGED <<eng, seen>>

(* A wait or while in its actions: the rest becomes an inline task, at most *)
(* one per rule.                                                            *)
RuleWaits(r) ==
    /\ r \in firing /\ firing' = firing \ {r}
    /\ IF OnStack(eng, r)
       THEN UNCHANGED <<eng, seen>>
       ELSE \E n \in 1..MaxSteps : Becomes(Push(eng, Runtime(eng, r, n, FALSE, "wait")), FALSE)
    /\ UNCHANGED tick

(* `task start` in its actions: the task and the rest, whatever its group.  *)
RuleStarts(r, t) ==
    /\ r \in firing /\ firing' = firing \ {r}
    /\ \E n \in 0..MaxSteps : Becomes(Push(eng, Runtime(eng, t, n, FALSE, "rule")), FALSE)
    /\ UNCHANGED tick

-----------------------------------------------------------------------------
(* The task on top.                                                         *)
(* Slip: one step too many. *)
FinishedSlip(rt) == rt.step_idx > rt.steps

Finished(rt) == rt.step_idx >= rt.steps

(* The runtime at n goes on, if it is still the one called id.              *)
Advance(e, n, id) ==
    IF n \in 1..Len(e.stack) /\ e.stack[n].def_id = id
    THEN [e EXCEPT !.stack[n].step_idx = @ + 1] ELSE e

TickTasks(e, sets) == /\ tick = "rules" /\ firing = {} /\ tick' = "no"
                      /\ Becomes(e, sets)
                      /\ UNCHANGED firing

(* The lock is released: the rest of the tick, hunting, runs too.           *)
Released(e) == /\ tick = "rules" /\ firing = {} /\ tick' = "hunt"
               /\ Becomes(e, FALSE)
               /\ UNCHANGED firing

Pops == IF Len(eng.stack) = 1 THEN Released(PopTop(eng)) ELSE TickTasks(PopTop(eng), FALSE)

Idle == IF eng.stack = <<>> THEN Released(eng)
        ELSE ~eng.inGame /\ TickTasks(eng, FALSE)

(* `hunt.until` may end the hunt.                                           *)
HuntUntil == /\ tick = "hunt" /\ tick' = "no"
             /\ \E on \in BOOLEAN : Becomes([eng EXCEPT !.hunt = @ /\ on], FALSE)
             /\ UNCHANGED firing

Driven == eng.stack # <<>> /\ eng.inGame
InStep == Driven /\ ~Finished(Top(eng))

TaskEnds ==
    /\ Driven /\ Finished(Top(eng))
    /\ IF Top(eng).recurring
       THEN TickTasks([eng EXCEPT !.stack[Len(eng.stack)].step_idx = 0], FALSE)
       ELSE Pops

(* A wait that holds; one that is met or capped, or a loop that is over.    *)
StepHolds == InStep /\ TickTasks(eng, FALSE)
StepPasses == InStep /\ TickTasks(Advance(eng, Len(eng.stack), Top(eng).def_id), FALSE)

(* A command, once or as the body of a loop; an error abandons the task.    *)
StepRuns(c) ==
    /\ InStep
    /\ IF Fails(eng, c)
       THEN Pops
       ELSE \/ TickTasks(Result(eng, c), SetsHunt(c))
            \/ TickTasks(Advance(Result(eng, c), Len(eng.stack), Top(eng).def_id), SetsHunt(c))

Next == \/ \E c \in Command : UserCommand(c) \/ StepRuns(c)
        \/ \E r \in Rules : \/ \E c \in Command : RuleRuns(r, c)
                            \/ RuleEnds(r) \/ RuleQuits(r) \/ RuleWaits(r)
                            \/ \E t \in Tasks : RuleStarts(r, t)
        \/ Arrive \/ Drop \/ BeginTick
        \/ Idle \/ HuntUntil \/ TaskEnds \/ StepHolds \/ StepPasses

Spec == Init /\ [][Next]_vars
-----------------------------------------------------------------------------
(* Properties.                                                              *)

(* The engine's fields, and cursors that never run past the end.            *)
TypeOK ==
    /\ eng \in [stack : Seq(TaskRuntime), hunt : BOOLEAN, open : SUBSET Groups,
                on : SUBSET TopLevelRules, inGame : BOOLEAN, filed : BOOLEAN]
    /\ \A i \in 1..Len(eng.stack) : eng.stack[i].step_idx <= eng.stack[i].steps
    /\ firing \subseteq Rules /\ tick \in {"no", "rules", "hunt", "quit"}
    /\ seen \in Seen

(* However the last task leaves (finished, abandoned, stopped, with its     *)
(* group or rule), hunt is again what it was before the first one came,     *)
(* unless a command set it or the first one left early.                     *)
HuntHandedBack ==
    [][eng.stack # <<>> /\ eng'.stack = <<>> /\ ~seen'.touched /\ ~seen.orphaned
          => eng'.hunt = seen.before]_vars

(* The stack is in order.  A started task belongs to an open group for as   *)
(* long as it runs (the gate of start_task, group_close and the exclusive   *)
(* cascade), reloads aside ...                                              *)
StartedInOpenGroup ==
    \A i \in 1..Len(eng.stack) :
        eng.stack[i].by = "start" => GroupOpen(eng, eng.stack[i].def_id)
(* ... two exclusive groups are open together only where a file switched    *)
(* both on and neither was closed since ...                                 *)
OneExclusive == Crowded(eng.open) => eng.filed
(* ... and `task start` and the wait of a rule queue nothing twice.         *)
QueuedOnce ==
    \A i, j \in 1..Len(eng.stack) :
        i < j /\ eng.stack[i].def_id = eng.stack[j].def_id => eng.stack[j].by = "rule"
StackInOrder == StartedInOpenGroup /\ OneExclusive /\ QueuedOnce

(* "Only one exclusive group runs at a time" (runtime_config.rs:402): what  *)
(* the comment, and the guide, say without the exception of a file that     *)
(* switches on two.  The code lets tasks of both be started.                *)
StartedIn == {GroupOf[eng.stack[i].def_id] :
                  i \in {k \in 1..Len(eng.stack) : eng.stack[k].by = "start"}}
OneExclusiveRuns == \A g, h \in StartedIn \cap Exclusive : g = h
=============================================================================
