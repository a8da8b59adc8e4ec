------------------------------ MODULE Combat ------------------------------
(***************************************************************************)
(* A bot on a map: the mobs, drops and reactors the field handlers track,  *)
(* the switches the hunt commands set, and the tick that turns both into   *)
(* packets (state.rs, handlers/field.rs, command/{tick,run}.rs).           *)
(*                                                                         *)
(* The bot is one task: a handler, a command and a tick never interleave,  *)
(* so each is one action.  The map is a line of spots; spot 0 is (0,0),    *)
(* the position of a bot that does not know where it is.  Time is counted  *)
(* in ticks.  `server` is what the server has been told, from the packets. *)
(***************************************************************************)
EXTENDS Naturals, Integers, FiniteSets

CONSTANTS
    Mobs, Drops, Reactors,  \* object ids; Mobs and Drops are numbers, in BTreeMap order
    Far,            \* the spots are 0..Far
    High,           \* spots whose y is below 1, which the discovery move corrects
    SpawnPortals,   \* where the "sp" portal of a map may be; 0: it has none
    Landing,        \* the spot on the ground below (0,0)
    AttackRange, PickupRange, GatherStep, MaxTargets,
    TeleportDelay, AttackCooldown, StandDelay, RetryCooldown,
    GatherInterval, ReactorCooldown, WakeDelay,  \* in ticks
    MaxDropTries,
    Settings,       \* the sets of switches a configuration sets, see Fresh
    Switches,       \* those that are turned, see Toggle
    MaxEvents       \* bound: server messages and commands once the map is announced

ASSUME CombatAssumption ==
    /\ Mobs \subseteq Nat /\ Drops \subseteq Nat /\ Far \in Nat \ {0}
    /\ High \subseteq 0..Far /\ 0 \in High /\ SpawnPortals \subseteq 0..Far /\ Landing \in 1..Far
    /\ {AttackRange, PickupRange, GatherStep, TeleportDelay, AttackCooldown, StandDelay,
        RetryCooldown, GatherInterval, ReactorCooldown, WakeDelay, MaxEvents} \subseteq Nat
    /\ MaxTargets \in 1..15 /\ MaxDropTries \in Nat \ {0}
    /\ Switches \subseteq {"stand", "farm", "pickup", "mine", "pullmine", "skill", "task", "mana"}

Spots == 0..Far
Gone == [gone |-> TRUE]   \* not on the map
Corrected == -1           \* where a move corrected to y = 1 puts the character
Timers == {"teleport", "attack", "gather", "reactor", "entered"}
Longest == [teleport |-> TeleportDelay, gather |-> GatherInterval, reactor |-> ReactorCooldown,
            attack |-> IF AttackCooldown > StandDelay THEN AttackCooldown ELSE StandDelay,
            entered |-> WakeDelay + 1]

VARIABLES
    bot,      \* BotState, see Bot
    server,   \* what the server was told and has granted, see Server
    beat,     \* flips with every tick
    events    \* bound: counts messages and commands

vars == <<bot, server, beat, events>>

-----------------------------------------------------------------------------
Mob == [at : Spots, controlled : BOOLEAN]
Drop == [at : Spots, meso : BOOLEAN, tries : 0..MaxDropTries, rest : 0..RetryCooldown]

(* at: position; told: last_sent_pos; moving: last_stance is 2; task: a     *)
(* task is on the stack; mana: mp covers the attack skill; filtered: the    *)
(* pickup filter rejects items; since: ticks since the last teleport, ...   *)
Bot == [at : Spots, told : Spots, moving : BOOLEAN, discovered : BOOLEAN, sp : SpawnPortals,
        ground : BOOLEAN, mobs : [Mobs -> Mob \cup {Gone}], drops : [Drops -> Drop \cup {Gone}],
        reactors : SUBSET Reactors, hunt : BOOLEAN, stand : BOOLEAN, gather : BOOLEAN,
        farm : BOOLEAN, pickup : BOOLEAN, mine : BOOLEAN, pullmine : BOOLEAN, skill : BOOLEAN, mana : BOOLEAN,
        filtered : BOOLEAN, task : BOOLEAN, ids : [Mobs -> Nat], since : [Timers -> Nat]]

(* What the server saw: where and how the character last moved, the ticks   *)
(* since it last jumped and last hit; granted: the mobs whose control it    *)
(* has handed over; struck: the moves that volleys cut short; early: a      *)
(* volley came too soon; hit: flips with every volley.                      *)
Ways == {"still", "astray", "discover", "hunt", "seek", "move"}
Standing == {"still", "astray"}
Unnoted == {"seek", "move"}       \* `hunt once` and `move` do not set last_stance
Unrecorded == {"astray", "move"}  \* nor do a stand and `move` set last_sent_pos
Server == [at : Spots \cup {Corrected}, how : Ways, calm : 0..TeleportDelay,
           pause : 0..AttackCooldown, granted : SUBSET Mobs,
           struck : SUBSET Ways, early : BOOLEAN, hit : BOOLEAN]

Distance(p, q) == IF p < q THEN q - p ELSE p - q
On(objects) == {o \in DOMAIN objects : objects[o] # Gone}
Nobody == [o \in Mobs |-> Gone]
Empty == [d \in Drops |-> Gone]

(* The packets of a step. *)
MoveTo(p, how) == [type |-> "move", at |-> p, how |-> how]
Hit(targets) == [type |-> "hit", targets |-> targets]
Take(d) == [type |-> "take", drop |-> d]
Pull(o, id) == [type |-> "pull", mob |-> o, id |-> id]
Break(r) == [type |-> "break", reactor |-> r]

Hear(srv, packet) ==
    CASE packet.type = "move" ->
            [srv EXCEPT !.at = packet.at, !.how = packet.how,
                        !.calm = IF packet.how \in {"hunt", "seek"} THEN 0 ELSE @]
      [] packet.type = "hit"  ->
            [srv EXCEPT !.struck = @ \cup ({srv.how} \ Standing),
                        !.early = @ \/ srv.calm < TeleportDelay \/ srv.pause < AttackCooldown,
                        !.hit = ~@, !.pause = 0]

(* A step under way: the bot, what the server has heard of it, the requests *)
(* it has made (what comes of a take, a pull or a hit on a reactor is a     *)
(* message of the server's), whether hunt_loop moved, and the attack        *)
(* hunt_loop has planned.                                                   *)
Begin(b, srv) == [b |-> b, srv |-> srv, asks |-> {}, moved |-> FALSE, plan |-> {}]
Send(s, packet) == [s EXCEPT !.srv = Hear(@, packet)]
Ask(s, packets) == [s EXCEPT !.asks = @ \cup packets]

-----------------------------------------------------------------------------
(* tick, in its order.                                                      *)

(* Standing still where it is: astray if it was not told it moved there. *)
StandStill(s) ==
    Send([s EXCEPT !.b.moving = FALSE],
         MoveTo(s.b.at, IF s.b.at = s.b.told THEN "still" ELSE "astray"))

(* Slip: the resend is left out. *)
ResyncSlip(s) == s

Resync(s) ==
    IF s.b.discovered /\ s.b.at # s.b.told /\ s.b.at # 0
    THEN StandStill([s EXCEPT !.b.told = s.b.at]) ELSE s

CanTeleport(b) == b.since.teleport >= TeleportDelay

TeleportTo(s, p, how) ==
    IF p = s.b.at THEN s
    ELSE Send([s EXCEPT !.b.at = p, !.b.told = p, !.b.since.teleport = 0],
              MoveTo(p, how))

(* The mobs it may attack. *)
Pool(b) == {o \in On(b.mobs) : b.mine => b.mobs[o].controlled}
InRange(b) == {o \in Pool(b) : Distance(b.mobs[o].at, b.at) <= AttackRange}

FirstOf(S, n) == {o \in S : Cardinality({p \in S : p < o}) < n}
NearestOf(b, S, n) ==
    LET Closer(p, o) == LET dp == Distance(b.mobs[p].at, b.at)
                            do == Distance(b.mobs[o].at, b.at)
                        IN  dp < do \/ (dp = do /\ p < o)
    IN  {o \in S : Cardinality({p \in S : Closer(p, o)}) < n}

(* Attacks go out standing: one packet per mob, or one for all. *)
Volley(s, targets) ==
    LET still == IF s.b.moving THEN StandStill(s) ELSE s
    IN  [Send(still, Hit(targets)) EXCEPT !.b.since.attack = 0]

HuntOnce(s) ==
    LET targets == NearestOf(s.b, InRange(s.b), MaxTargets)
        nearest == NearestOf(s.b, Pool(s.b), 1)
        still   == IF s.b.moving THEN StandStill(s) ELSE s
    IN  IF s.b.since.attack < AttackCooldown \/ ~CanTeleport(s.b) THEN s
        ELSE IF targets = {}
        THEN IF nearest = {} THEN s
             ELSE TeleportTo(s, s.b.mobs[CHOOSE o \in nearest : TRUE].at, "seek")
        ELSE IF s.b.skill /\ ~s.b.mana THEN still
        ELSE Volley(s, targets)

(* One step of at most GatherStep towards the bot; 0: all the way. *)
Towards(p, q) ==
    IF GatherStep = 0 \/ Distance(p, q) <= GatherStep THEN q
    ELSE IF p < q THEN p + GatherStep ELSE p - GatherStep

(* Mobs out of range are pulled, each with its own rising moveid.           *)
Gather(s) ==
    LET b == s.b
        pulled == {o \in On(b.mobs) : /\ b.pullmine => b.mobs[o].controlled
                                      /\ Distance(b.mobs[o].at, b.at) > AttackRange}
    IN  IF ~b.gather \/ b.since.gather < GatherInterval THEN s
        ELSE Ask([s EXCEPT
                 !.b.ids = [o \in Mobs |-> IF o \in pulled THEN b.ids[o] + 1 ELSE b.ids[o]],
                 !.b.mobs = [o \in Mobs |-> IF o \in pulled
                                            THEN [b.mobs[o] EXCEPT !.at = Towards(@, b.at)]
                                            ELSE b.mobs[o]],
                 !.b.since.gather = 0],
                 {Pull(o, b.ids[o] + 1) : o \in pulled})

(* Where hunt_loop would go for a drop: beyond the pickup radius, and       *)
(* within it.                                                               *)
FarDrops(b) ==
    {d \in On(b.drops) : /\ b.pickup /\ b.drops[d].rest = 0
                         /\ Distance(b.drops[d].at, b.at) > PickupRange
                         /\ Distance(b.drops[d].at, b.at) <= PickupRange}

Seek(s, p) ==
    IF CanTeleport(s.b)
    THEN [TeleportTo(s, p, "hunt") EXCEPT !.moved = p # s.b.at] ELSE s

HuntLoop(s) ==
    LET b == s.b
        nearest == NearestOf(b, Pool(b), 1)
    IN  IF InRange(b) # {}
        THEN IF b.skill /\ ~b.mana THEN s
             ELSE [s EXCEPT !.plan = FirstOf(InRange(b), MaxTargets)]
        ELSE IF b.stand THEN s
        ELSE IF nearest # {} THEN Seek(s, b.mobs[CHOOSE o \in nearest : TRUE].at)
        ELSE IF FarDrops(b) # {}
        THEN Seek(s, b.drops[CHOOSE d \in FarDrops(b) : TRUE].at)
        ELSE s

(* tick_reactor_hunt: every drop every tick, every reactor once a round.    *)
FarmReactors(s) ==
    LET taken == Ask(s, {Take(d) : d \in On(s.b.drops)})
    IN  IF s.b.since.reactor < ReactorCooldown THEN taken
        ELSE Ask([taken EXCEPT !.b.since.reactor = 0], {Break(r) : r \in s.b.reactors})

(* Slip: a drop is never given up. *)
PickupSlip(s) ==
    LET b == s.b
        tried == {d \in On(b.drops) : /\ Distance(b.drops[d].at, b.at) <= PickupRange
                                      /\ b.drops[d].rest = 0}
    IN  IF ~b.pickup THEN s
        ELSE Ask([s EXCEPT !.b.drops = [d \in Drops |->
                         IF d \in tried THEN [@[d] EXCEPT !.rest = RetryCooldown] ELSE @[d]]],
                 {Take(d) : d \in tried})

(* tick_pickup: the last try is not sent, the drop is given up.             *)
Pickup(s) ==
    LET b == s.b
        tried == {d \in On(b.drops) : /\ Distance(b.drops[d].at, b.at) <= PickupRange
                                      /\ b.drops[d].rest = 0}
        last  == {d \in tried : b.drops[d].tries + 1 >= MaxDropTries}
    IN  IF ~b.pickup THEN s
        ELSE Ask([s EXCEPT !.b.drops = [d \in Drops |->
                         CASE d \in last  -> Gone
                           [] d \in tried \ last -> [@[d] EXCEPT !.tries = @ + 1,
                                                                 !.rest = RetryCooldown]
                           [] OTHER -> @[d]]],
                 {Take(d) : d \in tried \ last})

Attack(s) ==
    IF s.plan # {} /\ s.b.since.attack >= AttackCooldown /\ CanTeleport(s.b)
    THEN Volley(s, s.plan) ELSE s

Settle(s) ==
    IF s.moved THEN [s EXCEPT !.b.moving = TRUE]
    ELSE IF s.b.moving /\ s.b.discovered /\ s.b.since.attack >= StandDelay
    THEN StandStill(s) ELSE s

(* The first move after the arrival: to the portal if the map has one, on   *)
(* the spot if it is known, and blindly once the server has kept silent.    *)
(* What is sent for a high spot is not the spot the bot then believes in.   *)
Discover(s) ==
    LET b == s.b
        Moved(p, sent) == Send([s EXCEPT !.b.at = p, !.b.told = p, !.b.discovered = TRUE,
                                         !.b.moving = TRUE], MoveTo(sent, "discover"))
        Reveal(p) == Moved(p, IF p \in High THEN Corrected ELSE p)
    IN  CASE b.discovered -> s
          [] ~b.discovered /\ b.at # 0 /\ b.sp # 0 -> [Moved(b.sp, b.sp) EXCEPT !.b.ground = TRUE]
          [] ~b.discovered /\ b.at # 0 /\ b.sp = 0 -> Reveal(b.at)
          [] ~b.discovered /\ b.at = 0 /\ b.since.entered > WakeDelay ->
                Reveal(IF b.ground THEN Landing ELSE 0)
          [] OTHER -> s

Aged(b) ==
    [b EXCEPT !.since = [t \in Timers |-> IF b.since[t] < Longest[t] THEN b.since[t] + 1 ELSE b.since[t]],
              !.drops = [d \in Drops |-> IF b.drops[d] # Gone /\ b.drops[d].rest > 0
                                         THEN [b.drops[d] EXCEPT !.rest = @ - 1] ELSE b.drops[d]]]

-----------------------------------------------------------------------------
(* One tick of the server's clocks. *)
Rested(srv) ==
    [srv EXCEPT !.calm = IF @ < TeleportDelay THEN @ + 1 ELSE @,
                !.pause = IF @ < AttackCooldown THEN @ + 1 ELSE @]
Does(s) == bot' = s.b /\ server' = s.srv
Becomes(b) == bot' = b /\ UNCHANGED server
Happens == events < MaxEvents /\ events' = events + 1 /\ UNCHANGED beat

(* once: a rule, or the task, runs `hunt once`; until: hunt.until holds.  A *)
(* task keeps the rest of the tick to itself.  (Each stage is bound as the  *)
(* member of a singleton, so that TLC evaluates it once.)                   *)
Tick ==
    /\ \E once, until \in BOOLEAN :
       \E synced \in {Resync(Begin(Aged(bot), Rested(server)))} :
       \E ruled \in {IF once THEN HuntOnce(synced) ELSE synced} :
          /\ until => bot.hunt
          /\ \/ bot.task /\ Does(ruled)
             \/ /\ ~bot.task
                /\ \E ready \in {Gather(Discover([ruled EXCEPT !.b.hunt = @ /\ ~until]))} :
                   \E fought \in {CASE ready.b.hunt -> HuntLoop(ready)
                                    [] ~ready.b.hunt /\ ready.b.farm -> FarmReactors(ready)
                                    [] OTHER -> ready} :
                   \E hit \in {Attack(Pickup(fought))} : Does(Settle(hit))
    /\ beat' = ~beat
    /\ UNCHANGED events

(* Slip: the broadcast that follows overwrites the control. *)
SpawnMobSlip(o, p) ==
    /\ Happens
    /\ Becomes([bot EXCEPT !.mobs[o] = [at |-> p, controlled |-> FALSE], !.ground = TRUE])

(* A mob in view (0xEE): it must not take back a control already granted.   *)
SpawnMob(o, p) ==
    /\ Happens
    /\ Becomes([bot EXCEPT !.mobs[o] = IF @ = Gone THEN [at |-> p, controlled |-> FALSE] ELSE @,
                           !.ground = TRUE])

(* The server hands a mob over (0xF0).                                      *)
GrantControl(o, p) ==
    /\ Happens
    /\ bot' = [bot EXCEPT !.mobs[o] = [at |-> p, controlled |-> TRUE], !.ground = TRUE]
    /\ server' = [server EXCEPT !.granted = @ \cup {o}]

(* It takes it back (0xF0 with mobid 0), or the mob dies (0xEF, or 0 % left  *)
(* in 0xFC).                                                                *)
LoseMob(o) ==
    /\ Happens /\ bot.mobs[o] # Gone
    /\ bot' = [bot EXCEPT !.mobs[o] = Gone]
    /\ server' = [server EXCEPT !.granted = @ \ {o}]

MobMoves(o, p) ==
    /\ Happens /\ bot.mobs[o] # Gone /\ bot.mobs[o].at # p
    /\ Becomes([bot EXCEPT !.mobs[o].at = p])

(* The server says where the character is: its own spawn, or its own move.  *)
SelfAt(p) == Happens /\ Becomes([bot EXCEPT !.at = p])

(* A drop the filter rejects is not tracked; one announced again starts     *)
(* afresh.                                                                  *)
DropAppears(d, p, meso) ==
    /\ Happens
    /\ meso \/ ~bot.filtered
    /\ Becomes([bot EXCEPT !.drops[d] = [at |-> p, meso |-> meso, tries |-> 0, rest |-> 0]])
DropRemoved(d) == Happens /\ bot.drops[d] # Gone /\ Becomes([bot EXCEPT !.drops[d] = Gone])

ReactorAppears(r) == Happens /\ Becomes([bot EXCEPT !.reactors = @ \cup {r}])
ReactorDestroyed(r) ==
    Happens /\ r \in bot.reactors /\ Becomes([bot EXCEPT !.reactors = @ \ {r}])

(* The bot arrives at a map (SET_FIELD): what the server placed where it    *)
(* will hear later.                                                         *)
EnterMap(sp) ==
    /\ Happens
    /\ bot' = [bot EXCEPT !.at = 0, !.discovered = FALSE, !.sp = sp, !.ground = FALSE,
                          !.mobs = Nobody, !.drops = Empty, !.reactors = {},
                          !.since.entered = 0]
    /\ server' = [server EXCEPT !.at = Corrected, !.how = "still", !.granted = {}]

-----------------------------------------------------------------------------
(* Commands of the user, of a rule or of a task.                            *)
Hunt(on) == Happens /\ bot.hunt # on /\ Becomes([bot EXCEPT !.hunt = on])

HuntOnceNow == Happens /\ Does(HuntOnce(Begin(bot, server)))

(* A switch of the hunt commands; also a task that starts or ends, and mp   *)
(* that falls below the cost of the skill or rises again (0x22).            *)
Toggle(switch) == Happens /\ Becomes([bot EXCEPT ![switch] = ~@])

GatherSwitch ==
    /\ Happens
    /\ Becomes([bot EXCEPT !.gather = ~@, !.ids = IF bot.gather THEN [o \in Mobs |-> 0] ELSE @])

(* `hunt filter`, or a reload: the drops are pruned.                        *)
HuntFilter(rejects) ==
    /\ Happens
    /\ Becomes([bot EXCEPT !.filtered = rejects,
                   !.drops = [d \in Drops |-> IF rejects /\ @[d] # Gone /\ ~@[d].meso
                                              THEN Gone ELSE @[d]]])

(* move: last_sent_pos is left to the next tick.                            *)
Move(p) ==
    /\ Happens /\ bot.ground
    /\ Does([Send(Begin(bot, server), MoveTo(p, "move")) EXCEPT !.b.at = p])

PickupAll ==
    /\ Happens
    /\ Does(Ask(Begin(bot, server), {Take(d) : d \in On(bot.drops)}))

(* A channel change, or a warp: hunting stops until the arrival and after.  *)
Leave(sp) ==
    /\ Happens
    /\ bot' = [bot EXCEPT !.hunt = FALSE, !.at = 0, !.discovered = FALSE, !.sp = sp,
                          !.ground = FALSE, !.mobs = Nobody, !.drops = Empty, !.reactors = {},
                          !.since.entered = 0]
    /\ server' = [server EXCEPT !.at = Corrected, !.how = "still", !.granted = {}]

Fresh(on, sp) ==
    [at |-> 0, told |-> 0, moving |-> FALSE, discovered |-> FALSE, sp |-> sp, ground |-> FALSE,
     mobs |-> Nobody, drops |-> Empty, reactors |-> {}, hunt |-> "hunt" \in on,
     stand |-> "stand" \in on, gather |-> "gather" \in on, farm |-> "farm" \in on,
     pickup |-> "pickup" \in on, mine |-> "mine" \in on, pullmine |-> TRUE,
     skill |-> "skill" \in on, mana |-> TRUE, filtered |-> "filtered" \in on, task |-> FALSE,
     ids |-> [o \in Mobs |-> 0],
     since |-> [t \in Timers |-> IF t = "entered" THEN 0 ELSE Longest[t]]]

(* On arrival, with what the server has announced of the map so far.        *)
Init ==
    /\ \E on \in Settings, sp \in SpawnPortals,
          mobs \in [Mobs -> [at : Spots \ {0}, controlled : BOOLEAN] \cup {Gone}],
          drops \in [Drops -> [at : Spots \ {0}, meso : {TRUE}, tries : {0}, rest : {0}] \cup {Gone}] :
            /\ bot = [Fresh(on, sp) EXCEPT !.mobs = mobs, !.drops = drops, !.ground = On(mobs) # {}]
            /\ server = [at |-> Corrected, how |-> "still", calm |-> TeleportDelay,
                         pause |-> AttackCooldown, struck |-> {}, early |-> FALSE, hit |-> FALSE,
                         granted |-> {o \in On(mobs) : mobs[o].controlled}]
    /\ beat = FALSE /\ events = 0

FromServer ==
    \/ \E o \in Mobs, p \in Spots \ {0} : SpawnMob(o, p) \/ GrantControl(o, p) \/ MobMoves(o, p)
    \/ \E o \in Mobs : LoseMob(o)
    \/ \E p \in Spots \ {0} : SelfAt(p)
    \/ \E d \in Drops, p \in Spots \ {0}, meso \in BOOLEAN : DropAppears(d, p, meso)
    \/ \E d \in Drops : DropRemoved(d)
    \/ \E r \in Reactors : ReactorAppears(r) \/ ReactorDestroyed(r)
    \/ \E sp \in SpawnPortals : EnterMap(sp)

Command ==
    \/ \E on \in BOOLEAN : Hunt(on) \/ HuntFilter(on)
    \/ \E switch \in Switches : Toggle(switch)
    \/ \E p \in Spots \ {0} : Move(p)
    \/ \E sp \in SpawnPortals : Leave(sp)
    \/ HuntOnceNow \/ GatherSwitch \/ PickupAll

Next == Tick \/ FromServer \/ Command

Spec == Init /\ [][Next]_vars /\ WF_vars(Tick)

-----------------------------------------------------------------------------
TypeOK ==
    /\ bot \in Bot /\ server \in Server /\ beat \in BOOLEAN /\ events \in 0..MaxEvents
    /\ \A t \in Timers : bot.since[t] <= Longest[t]
    /\ \A d \in On(bot.drops) : bot.drops[d].meso \/ ~bot.filtered

(* No volley leaves within teleport_delay of a teleport or attack_cooldown  *)
(* of the last one, whether the loop or `hunt once` sends it, and none      *)
(* while the server believes the character moves.  The moves the bot does   *)
(* not record are the exception: `move` and the jump of `hunt once`.        *)
VolleysArePaced == server.struck \subseteq Unnoted /\ ~server.early

(* The bot holds a mob for its own exactly when the server has handed it    *)
(* over and not taken it back, in whatever order broadcasts and grants      *)
(* arrive.                                                                  *)
ControlRemembered ==
    \A o \in Mobs : o \in server.granted <=> bot.mobs[o] # Gone /\ bot.mobs[o].controlled

CombatOK == TypeOK /\ VolleysArePaced /\ ControlRemembered

(* Once a tick is over, the server was last told the spot the bot believes  *)
(* it stands on, whatever moved it since the tick before.  The exceptions:  *)
(* what told it last left no record (`move`, or a stand of `hunt once`      *)
(* before the bot's own spot was sent), or the spot is a high one.          *)
ServerKnowsWhere ==
    [][events' = events /\ bot'.discovered /\ server'.how \notin Unrecorded /\ bot'.at \notin High
          => server'.at = bot'.at]_vars

(* Why: the bot's clocks are never ahead of the server's, a move that is    *)
(* under way is noted, and the record of the last move is of the last move. *)
Timely(b, srv) ==
    /\ b.since.teleport <= srv.calm
    /\ b.since.attack <= srv.pause \/ srv.pause = AttackCooldown
Noted(b, srv) == srv.how \in {"discover", "hunt"} => b.moving
Recorded(b, srv) ==
    b.discovered => /\ srv.how \notin Unrecorded /\ b.told \notin High => srv.at = b.told
                    /\ b.at = 0 => b.told = 0
CombatInv == CombatOK /\ Timely(bot, server) /\ Noted(bot, server) /\ Recorded(bot, server)

Hunting == bot.hunt /\ ~bot.task /\ (bot.skill => bot.mana) /\ ~bot.stand /\ Pool(bot) # {}

(* A bot that goes on hunting, with a mob it may attack, goes on hitting,   *)
(* and a drop in reach is picked up or given up, however often the server   *)
(* is silent about it.                                                      *)
InReach(b) == {d \in On(b.drops) : Distance(b.drops[d].at, b.at) <= PickupRange}
WorkGoesOn ==
    /\ []<>(Hunting => server.hit) /\ []<>(Hunting => ~server.hit)
    /\ []<>(bot.pickup /\ ~bot.task => InReach(bot) = {})
=============================================================================
