------------------------------- MODULE BotRun -------------------------------
(***************************************************************************)
(* One bot: runtime::run and run_once with the packet handlers and the     *)
(* commands that move the bot between its phases                           *)
(* (src/{runtime,state}.rs, src/handlers/{login,field,cashshop}.rs,        *)
(* src/command/run.rs).                                                    *)
(*                                                                         *)
(* run_once selects among a packet, a command line, the tick and the       *)
(* deadline, and handles the one it took to the end before the next: each  *)
(* is one action.  The server is external (docs/PROJECT.md).  It           *)
(* answers, late or never, what the bot has asked on this connection, may  *)
(* repeat its lists, and may move a character that is on a map.  A packet  *)
(* that could not be sent is a request that is never answered.             *)
(***************************************************************************)
EXTENDS Naturals

CONSTANTS
    Maps,
    Interactive,   \* Config.interactive: the user picks world and character
    Reconnect,     \* cfg.reconnect
    ReconnectMax,  \* cfg.reconnect_max, 0 = forever
    HasDuration,   \* Config.duration is set
    MapTimeout,    \* 10 s: a map change, or the way into the cash shop
    ShopTimeout    \* 20 s: the whole round trip

ASSUME BotAssumption ==
    /\ Maps # {}
    /\ Interactive \in BOOLEAN /\ Reconnect \in BOOLEAN /\ HasDuration \in BOOLEAN
    /\ ReconnectMax \in Nat /\ MapTimeout \in Nat /\ ShopTimeout \in Nat

VARIABLES
    pc,        \* where run is, or what it returned
    bot,       \* BotState
    wire,      \* the connection, and what the server may still answer on it
    lists,     \* BotState.worlds and .characters: which of the two are known
    attempts,  \* drops that were retried or given up; only counted against a maximum
    quitSent,  \* a quit waits in rx
    seen       \* history: see Seen

runVars == <<pc, bot, wire, lists, attempts, quitSent, seen>>

-----------------------------------------------------------------------------
Phase == {"Disconnected", "GenderPick", "LoggingIn", "WorldSelect", "CharSelect",
          "EnteringMap", "InGame", "CashShop"}
Returned == {"Quit", "DurationElapsed", "Failed"}
Request == {"login", "gender", "worlds", "chars", "char", "field", "channel", "cs", "shop",
            "leave"}

NoTrip == [map |-> "none"]
ReenterCtx == [map : Maps, restore : BOOLEAN, left : BOOLEAN, age : 0..ShopTimeout + 1]

(* mapAge and age: time since map_enter_time and since the trip started.    *)
BotState == [phase : Phase, ever : BOOLEAN, relogin : BOOLEAN, hunt : BOOLEAN,
             trip : {NoTrip} \cup ReenterCtx, map : Maps \cup {"none"},
             mapAge : 0..MapTimeout + 1]

NewBot == [phase |-> "Disconnected", ever |-> FALSE, relogin |-> FALSE, hunt |-> FALSE,
           trip |-> NoTrip, map |-> "none", mapAge |-> 0]

(* waited: how long the bot has been waiting for a map; entered: it has     *)
(* been on one; rushed: the map timeout fired before that; early: it fired  *)
(* too soon, past the login server; wanted, touched: what hunt should be    *)
(* after a trip, and that a command or a drop interfered with it.           *)
Seen == [waited : 0..MapTimeout + 1, entered : BOOLEAN, rushed : BOOLEAN,
         early : BOOLEAN, wanted : BOOLEAN, touched : BOOLEAN]

InGame(b) == b.phase = "InGame"
OnTrip(b) == b.trip # NoTrip
OnMap == wire.link = "channel" /\ "field" \notin wire.asked

RunInit ==
    /\ pc = "connect" /\ bot = NewBot
    /\ wire = [link |-> "none", asked |-> {}]
    /\ lists = {} /\ attempts = 0 /\ quitSent = FALSE
    /\ seen = [waited |-> 0, entered |-> FALSE, rushed |-> FALSE, early |-> FALSE,
               wanted |-> FALSE, touched |-> FALSE]

-----------------------------------------------------------------------------
(* run: what follows a lost or a failed connection.                         *)

(* Slip: the session's state goes, the trip stays. *)
ResetSessionSlip(b) == [b EXCEPT !.phase = "Disconnected", !.map = "none", !.mapAge = 0]

ResetSession(b) == [b EXCEPT !.phase = "Disconnected", !.map = "none", !.mapAge = 0,
                             !.trip = NoTrip]

Capped(n, most) == IF n > most THEN most ELSE n

GivesUp == \/ ~Reconnect
           \/ ~bot.ever
           \/ ReconnectMax > 0 /\ attempts + 1 >= ReconnectMax

Lost ==
    /\ attempts' = IF Reconnect /\ bot.ever THEN Capped(attempts + 1, ReconnectMax) ELSE attempts
    /\ IF GivesUp
       THEN pc' = "Failed" /\ UNCHANGED bot
       ELSE pc' = "sleep" /\ bot' = [ResetSession(bot) EXCEPT !.relogin = TRUE]
    /\ wire' = [link |-> "none", asked |-> {}]
    /\ seen' = [seen EXCEPT !.touched = @ \/ OnTrip(bot)]
    /\ UNCHANGED <<lists, quitSent>>

ConnectFails == pc = "connect" /\ Lost

ConnectionCloses == pc = "loop" /\ Lost

Connect ==
    /\ pc = "connect"
    /\ \/ pc' = "loop" /\ wire' = [link |-> "login", asked |-> {"login"}]
       \/ pc' = "Failed" /\ UNCHANGED wire  \* the login could not be sent
    /\ UNCHANGED <<bot, lists, attempts, quitSent, seen>>

(* The delay is slept through without a look at rx.                         *)
Wake == pc = "sleep" /\ pc' = "connect"
        /\ UNCHANGED <<bot, wire, lists, attempts, quitSent, seen>>

Elapsed == pc = "loop" /\ HasDuration /\ pc' = "DurationElapsed"
           /\ UNCHANGED <<bot, wire, lists, attempts, quitSent, seen>>

-----------------------------------------------------------------------------
(* Packets of the login server.                                             *)
Packet(request, b, asks) ==
    /\ pc = "loop" /\ request \in wire.asked
    /\ bot' = b
    /\ wire' = [wire EXCEPT !.asked = asks]
    /\ UNCHANGED <<pc, attempts, quitSent, seen>>

(* A refused login is answered and leaves everything as it is.              *)
LoginStatus ==
    /\ \/ Packet("login", [bot EXCEPT !.phase = "WorldSelect"],
                 (wire.asked \ {"login"}) \cup {"worlds"})
       \/ Packet("login", bot, wire.asked \ {"login"})
    /\ UNCHANGED lists

ChooseGender ==
    /\ Packet("login", [bot EXCEPT !.phase = "GenderPick"],
              (wire.asked \ {"login"}) \cup {"gender"})
    /\ UNCHANGED lists

GenderSet ==
    /\ Packet("gender", [bot EXCEPT !.phase = "LoggingIn"],
              (wire.asked \ {"gender"}) \cup {"login"})
    /\ UNCHANGED lists

UserPicks == Interactive /\ ~bot.relogin
SelectWorld(b) == [b EXCEPT !.phase = "CharSelect"]
SelectChar(b, m) == [b EXCEPT !.phase = "EnteringMap", !.map = m]

ServerList ==
    /\ lists' = lists \cup {"worlds"}
    /\ IF bot.phase = "WorldSelect" /\ ~UserPicks
       THEN Packet("worlds", SelectWorld(bot), wire.asked \cup {"chars"})
       ELSE Packet("worlds", bot, wire.asked)

(* waited starts anew with every phase EnteringMap.                         *)
Awaits(b) == /\ bot' = b
             /\ seen' = [seen EXCEPT !.waited = 0]

CharList ==
    /\ pc = "loop" /\ "chars" \in wire.asked
    /\ lists' = lists \cup {"chars"}
    /\ IF bot.phase = "CharSelect" /\ ~UserPicks
       THEN /\ \E m \in Maps : Awaits(SelectChar(bot, m))
            /\ wire' = [wire EXCEPT !.asked = @ \cup {"char"}]
       ELSE UNCHANGED <<bot, wire, seen>>
    /\ UNCHANGED <<pc, attempts, quitSent>>

(* SERVER_IP and the two answers 0x13: the old connection is replaced, or   *)
(* stays although nothing more comes from it.                               *)
(* Slip: map_enter_time is left as it was. *)
ToChannelSlip(request, link, next) ==
    /\ pc = "loop" /\ request \in wire.asked
    /\ Awaits([bot EXCEPT !.phase = "EnteringMap"])
    /\ wire' \in {[link |-> link, asked |-> {next}], [link |-> "none", asked |-> {}]}
    /\ UNCHANGED <<pc, lists, attempts, quitSent>>

ToChannel(request, link, next) ==
    /\ pc = "loop" /\ request \in wire.asked
    /\ Awaits([bot EXCEPT !.phase = "EnteringMap", !.mapAge = 0])
    /\ wire' \in {[link |-> link, asked |-> {next}], [link |-> "none", asked |-> {}]}
    /\ UNCHANGED <<pc, lists, attempts, quitSent>>

ServerIp == ToChannel("char", "channel", "field")
ChangeChannelReply == \/ ToChannel("channel", "channel", "field")
                      \/ ToChannel("cs", "shop", "shop")
                      \/ ToChannel("leave", "channel", "field")

-----------------------------------------------------------------------------
(* Packets of the channel and the cash shop.                                *)

(* complete_reenter: hunt comes back only on the map the trip began on,     *)
(* after the shop was left.                                                 *)
CompleteReenter(b) ==
    IF ~OnTrip(b) THEN b
    ELSE [b EXCEPT !.trip = NoTrip,
                   !.hunt = IF b.map = b.trip.map /\ b.trip.left THEN b.trip.restore ELSE @]

Landed(b) == CompleteReenter([b EXCEPT !.phase = "InGame", !.mapAge = 0])

Lands(b) ==
    /\ bot' = Landed(b)
    /\ seen' = [seen EXCEPT !.entered = TRUE,
                            !.wanted = IF OnTrip(b) /\ ~(b.map = b.trip.map /\ b.trip.left)
                                       THEN b.hunt ELSE @]
    /\ UNCHANGED <<pc, lists, attempts, quitSent>>

(* The character arrives: the packet names no map, or the one it goes to.   *)
SetField ==
    /\ pc = "loop" /\ "field" \in wire.asked
    /\ wire' = [wire EXCEPT !.asked = {}]
    /\ Lands(bot)

SetFieldWarp ==
    /\ pc = "loop" /\ OnMap
    /\ \E m \in Maps : Lands([bot EXCEPT !.map = m])
    /\ UNCHANGED wire

UpdateStatsDenied ==
    /\ pc = "loop" /\ OnMap
    /\ bot.phase = "EnteringMap"
    /\ bot' = [bot EXCEPT !.phase = "InGame"]
    /\ UNCHANGED <<pc, wire, lists, attempts, quitSent, seen>>

SetCashShop ==
    /\ Packet("shop", [bot EXCEPT !.phase = "CashShop"], {})
    /\ UNCHANGED lists

Server == \/ LoginStatus \/ ChooseGender \/ GenderSet \/ ServerList \/ CharList \/ ServerIp
          \/ ChangeChannelReply \/ SetField \/ SetFieldWarp \/ UpdateStatsDenied \/ SetCashShop

-----------------------------------------------------------------------------
(* Commands: from rx, from config.auto, or from a rule or a task in a tick. *)
Command == {"none", "on", "off", "warp", "channel", "reenter"}

(* Slip: the round trip does not ask whether the bot is in game. *)
AllowedSlip(b, c) == /\ c \in {"warp", "channel"} => InGame(b)
                     /\ c = "reenter" => ~OnTrip(b)

Allowed(b, c) == /\ c \in {"warp", "channel", "reenter"} => InGame(b)
                 /\ c = "reenter" => ~OnTrip(b)

Do(b, c) ==
    CASE c = "none" -> b
      [] c = "on" -> [b EXCEPT !.hunt = TRUE]
      [] c \in {"off", "channel"} -> [b EXCEPT !.hunt = FALSE]
      [] c = "warp" -> [b EXCEPT !.hunt = FALSE, !.phase = "EnteringMap", !.mapAge = 0]
      [] c = "reenter" ->
            [b EXCEPT !.hunt = FALSE, !.mapAge = 0,
                      !.trip = [map |-> b.map, restore |-> b.hunt, left |-> FALSE, age |-> 0]]

AsksOf(c) ==
    wire' = IF ~OnMap THEN wire
            ELSE [wire EXCEPT !.asked = @ \cup (CASE c = "channel" -> {"channel"}
                                                  [] c = "reenter" -> {"cs"}
                                                  [] OTHER -> {})]

Wanted(b, c) ==
    [seen EXCEPT !.waited = IF c = "warp" THEN 0 ELSE @,
                 !.wanted = CASE c = "none" -> @
                              [] c = "reenter" -> b.hunt
                              [] OTHER -> c = "on",
                 !.touched = /\ c # "reenter"
                             /\ @ \/ (OnTrip(b) /\ c # "none")]

RunCommand(c) ==
    /\ pc = "loop" /\ c # "none" /\ Allowed(bot, c)
    /\ bot' = Do(bot, c)
    /\ AsksOf(c)
    /\ seen' = Wanted(bot, c)
    /\ UNCHANGED <<pc, lists, attempts, quitSent>>

LoginWorld ==
    /\ pc = "loop" /\ bot.phase = "WorldSelect" /\ "worlds" \in lists
    /\ bot' = SelectWorld(bot)
    /\ wire' = [wire EXCEPT !.asked = @ \cup {"chars"}]
    /\ UNCHANGED <<pc, lists, attempts, quitSent, seen>>

LoginChar ==
    /\ pc = "loop" /\ bot.phase = "CharSelect" /\ "chars" \in lists
    /\ \E m \in Maps : Awaits(SelectChar(bot, m))
    /\ wire' = [wire EXCEPT !.asked = @ \cup {"char"}]
    /\ UNCHANGED <<pc, lists, attempts, quitSent>>

SendQuit == pc \notin Returned /\ quitSent' = TRUE
            /\ UNCHANGED <<pc, bot, wire, lists, attempts, seen>>

(* Slip: the end of a command is not the end of the run. *)
TakeQuitSlip == pc = "loop" /\ quitSent /\ quitSent' = FALSE
                /\ UNCHANGED <<pc, bot, wire, lists, attempts, seen>>

TakeQuit == pc = "loop" /\ quitSent /\ pc' = "Quit" /\ quitSent' = FALSE
            /\ UNCHANGED <<bot, wire, lists, attempts, seen>>

-----------------------------------------------------------------------------
(* The tick.  In game it runs the rules, the tasks and hunt.until, which    *)
(* may run a command; then the four watchdogs look, one after the other.    *)

MapTimedOut(b) == b.phase = "EnteringMap" /\ b.mapAge > MapTimeout
ToInGame(b) == IF MapTimedOut(b) THEN [b EXCEPT !.phase = "InGame"] ELSE b

LeavesShop(b) == b.phase = "CashShop" /\ OnTrip(b) /\ ~b.trip.left
LeaveShop(b) == IF LeavesShop(b) THEN [b EXCEPT !.trip.left = TRUE] ELSE b

EndTrip(b) == [b EXCEPT !.trip = NoTrip, !.hunt = b.trip.restore]

(* Slip: the trip is given up, hunt stays off. *)
DeniedSlip(b) == IF InGame(b) /\ OnTrip(b) /\ ~b.trip.left /\ b.trip.age > MapTimeout
                 THEN [b EXCEPT !.trip = NoTrip] ELSE b

Denied(b) == IF InGame(b) /\ OnTrip(b) /\ ~b.trip.left /\ b.trip.age > MapTimeout
             THEN EndTrip(b) ELSE b

(* Slip: only a trip that has not yet left is given up. *)
StuckSlip(b) == IF b.phase = "CashShop" /\ OnTrip(b) /\ ~b.trip.left
                   /\ b.trip.age > ShopTimeout
                THEN [EndTrip(b) EXCEPT !.phase = "InGame"] ELSE b

Stuck(b) == IF b.phase = "CashShop" /\ OnTrip(b) /\ b.trip.left /\ b.trip.age > ShopTimeout
            THEN [EndTrip(b) EXCEPT !.phase = "InGame"] ELSE b

Watchdogs(b) == Stuck(Denied(LeaveShop(ToInGame(b))))

Tick(c) ==
    LET b == IF InGame(bot) THEN Do([bot EXCEPT !.ever = TRUE], c) ELSE bot
    IN  /\ pc = "loop"
        /\ c # "none" => InGame(bot) /\ Allowed(bot, c)
        /\ bot' = Watchdogs(b)
        /\ IF LeavesShop(b) THEN wire' = [wire EXCEPT !.asked = @ \cup {"leave"}]
           ELSE AsksOf(c)
        /\ seen' = [Wanted(bot, c) EXCEPT
                       !.rushed = @ \/ (MapTimedOut(b) /\ ~seen.entered),
                       !.early = @ \/ (/\ MapTimedOut(b) /\ wire.link # "login"
                                      /\ seen.waited <= MapTimeout)]
        /\ UNCHANGED <<pc, lists, attempts, quitSent>>

(* A rule's `quit`.                                                         *)
TickQuits == pc = "loop" /\ InGame(bot) /\ pc' = "Quit"
             /\ bot' = [bot EXCEPT !.ever = TRUE]
             /\ UNCHANGED <<wire, lists, attempts, quitSent, seen>>

(* Time, as far as the timeouts can tell.                                   *)
Older(b) ==
    LET c == [b EXCEPT !.mapAge = Capped(@ + 1, MapTimeout + 1)]
    IN  IF OnTrip(b) THEN [c EXCEPT !.trip.age = Capped(@ + 1, ShopTimeout + 1)] ELSE c

Pass ==
    /\ pc \notin Returned
    /\ bot' = Older(bot)
    /\ seen' = [seen EXCEPT !.waited = Capped(@ + 1, MapTimeout + 1)]
    /\ UNCHANGED <<pc, wire, lists, attempts, quitSent>>

-----------------------------------------------------------------------------
User == \/ \E c \in Command : RunCommand(c)
        \/ LoginWorld \/ LoginChar \/ SendQuit

RunNext ==
    \/ Connect \/ ConnectFails \/ ConnectionCloses \/ Wake \/ Elapsed
    \/ Server \/ User \/ TakeQuit
    \/ (\E c \in Command : Tick(c)) \/ TickQuits
    \/ Pass

RunSpec == RunInit /\ [][RunNext]_runVars

(* Time passes, a connection attempt ends, and no ready branch of select!   *)
(* is starved: tokio picks among the ready ones at random, so one that is   *)
(* ready again and again is taken.  Server and user owe nothing.            *)
RunFairness ==
    /\ WF_runVars(Pass) /\ WF_runVars(Wake) /\ WF_runVars(Connect \/ ConnectFails)
    /\ SF_runVars(TakeQuit) /\ SF_runVars(Tick("none"))

-----------------------------------------------------------------------------
(* Properties.                                                              *)

(* run returns one of three outcomes and never a bare connection error, so  *)
(* that the console sees a lost server as a failed session.                 *)
RunTypeOK ==
    /\ pc \in {"connect", "loop", "sleep"} \cup Returned
    /\ bot \in BotState
    /\ wire \in [link : {"none", "login", "channel", "shop"}, asked : SUBSET Request]
    /\ lists \subseteq {"worlds", "chars"}
    /\ attempts \in 0..ReconnectMax /\ quitSent \in BOOLEAN
    /\ seen \in Seen

(* A round trip through the cash shop that is over has given hunting back,  *)
(* whichever of SET_FIELD, the denial and the stuck watchdog ended it,      *)
(* unless the user or a drop interfered.                                    *)
HuntSurvivesTrip == OnTrip(bot) \/ seen.touched \/ bot.hunt = seen.wanted

(* No trip outlives its session: after a drop nothing of it is left that    *)
(* would act on the next connection (reset_session).                        *)
NoTripWithoutMap == bot.phase \notin {"EnteringMap", "InGame", "CashShop"} => ~OnTrip(bot)

(* Nothing is given up early: a change of map only after MapTimeout of      *)
(* waiting, never on a clock some earlier change left behind                *)
(* (map_enter_time), and the bot is logged in again by itself only if it    *)
(* had been on a map, unless that timeout fired on the login server.        *)
GivesUpInTime ==
    [][~seen'.early /\ (pc' = "sleep" /\ pc = "loop" => seen.entered \/ seen.rushed)]_runVars

(* A quit ends the run, whatever the connection does meanwhile.             *)
QuitEndsRun == quitSent ~> pc \in Returned

(* A trip moves on: it never keeps the bot in the shop (the leave, the      *)
(* stuck watchdog), and one that has not left the shop ends or leaves it    *)
(* (the denial).                                                            *)
InShop == bot.phase = "CashShop" /\ OnTrip(bot)
Inside == OnTrip(bot) /\ ~bot.trip.left
TripsMoveOn ==
    /\ InShop ~> ~InShop \/ pc \in Returned
    /\ Inside ~> ~Inside \/ pc \in Returned
=============================================================================
