----------------------------- MODULE BotProofs -----------------------------
(* What one bot keeps to, for every set of maps, configuration and timeout. *)
EXTENDS BotRun, TLAPS

InMap == {"EnteringMap", "InGame", "CashShop"}
LoginPhases == {"Disconnected", "GenderPick", "LoggingIn", "WorldSelect", "CharSelect"}

(* A bot that is on a map, or has asked for something only such a bot asks  *)
(* for, knows which map.                                                    *)
Mapped ==
    bot.phase \in InMap \/ wire.asked \cap {"char", "channel", "cs", "leave", "field", "shop"} # {}
        => bot.map \in Maps

(* Before the account is logged in nothing else has been asked, and the     *)
(* phases of the login belong to the login server.                          *)
LoginFirst ==
    /\ pc \in {"connect", "sleep"} => bot.phase = "Disconnected" /\ wire.asked = {}
    /\ wire.asked \cap {"login", "gender"} # {}
         => /\ bot.phase \in {"Disconnected", "GenderPick", "LoggingIn"}
            /\ wire.asked \in {{"login"}, {"gender"}} /\ wire.link = "login"
    /\ pc = "loop" /\ bot.phase \in LoginPhases => wire.link = "login"

(* A trip remembers what hunt should be after it. *)
TripRemembers == OnTrip(bot) /\ ~seen.touched => bot.trip.restore = seen.wanted

(* The clock of a change of map is no older than the wait for the map.      *)
Clock ==
    /\ ~seen.early
    /\ pc = "loop" /\ bot.phase = "EnteringMap" /\ wire.link # "login" => bot.mapAge <= seen.waited

(* A bot that has not been on a map, and whose map timeout has not fired,   *)
(* is in none of the states that follow.                                    *)
BeenThere == seen.entered \/ seen.rushed
NotYet ==
    /\ bot.phase \notin {"InGame", "CashShop"} /\ ~bot.ever
    /\ wire.asked \cap {"cs", "shop"} = {}
    /\ wire.link = "channel" => "field" \in wire.asked
Entry == BeenThere \/ NotYet

BotInv == /\ RunTypeOK /\ Mapped /\ LoginFirst /\ NoTripWithoutMap
          /\ TripRemembers /\ HuntSurvivesTrip /\ Clock /\ Entry

LEMMA Bounds == 0 \in 0..MapTimeout + 1 /\ 0 \in 0..ReconnectMax
BY BotAssumption

LEMMA TripType == \A b \in BotState : OnTrip(b) => b.trip \in ReenterCtx
BY DEF BotState, OnTrip

LEMMA DoType ==
    ASSUME NEW b \in BotState, NEW c \in Command, Allowed(b, c), InGame(b) => b.map \in Maps
    PROVE  LET d == Do(b, c)
           IN  /\ d \in BotState /\ d.map = b.map /\ d.ever = b.ever /\ d.relogin = b.relogin
               /\ d.phase = IF c = "warp" THEN "EnteringMap" ELSE b.phase
               /\ d.mapAge = IF c \in {"warp", "reenter"} THEN 0 ELSE b.mapAge
               /\ c # "reenter" => d.trip = b.trip
               /\ c = "reenter" => /\ d.trip = [map |-> b.map, restore |-> b.hunt, left |-> FALSE, age |-> 0]
                                   /\ d.trip \in ReenterCtx
               /\ d.hunt = IF c = "none" THEN b.hunt ELSE c = "on"
<1> USE DEF BotState
<1>1. CASE c = "none"
  BY <1>1 DEF Do
<1>2. CASE c = "on"
  BY <1>2 DEF Do
<1>3. CASE c \in {"off", "channel"}
  BY <1>3 DEF Do
<1>0. 0 \in 0..MapTimeout + 1 /\ "EnteringMap" \in Phase
  BY Bounds DEF Phase
<1>4. CASE c = "warp"
  <2>1. Do(b, c) = [b EXCEPT !.hunt = FALSE, !.phase = "EnteringMap", !.mapAge = 0]
    BY <1>4 DEF Do
  <2> QED BY <1>0, <1>4, <2>1
<1>5. CASE c = "reenter"
  <2>1. b.map \in Maps
    BY <1>5 DEF Allowed
  <2>2. [map |-> b.map, restore |-> b.hunt, left |-> FALSE, age |-> 0] \in ReenterCtx
    BY <2>1, BotAssumption DEF ReenterCtx
  <2> DEFINE t == [map |-> b.map, restore |-> b.hunt, left |-> FALSE, age |-> 0]
  <2>3. Do(b, c) = [b EXCEPT !.hunt = FALSE, !.mapAge = 0, !.trip = t]
    BY <1>5 DEF Do
  <2>4. t \in ReenterCtx
    BY <2>2
  <2>5. t = [map |-> b.map, restore |-> b.hunt, left |-> FALSE, age |-> 0]
    OBVIOUS
  <2> HIDE DEF t
  <2>6. Do(b, c) \in BotState
    BY <1>0, <2>3, <2>4
  <2>7. /\ Do(b, c).map = b.map /\ Do(b, c).ever = b.ever /\ Do(b, c).relogin = b.relogin
        /\ Do(b, c).phase = b.phase /\ Do(b, c).mapAge = 0 /\ Do(b, c).trip = t
        /\ Do(b, c).hunt = FALSE
    BY <2>3
  <2> QED BY <1>5, <2>4, <2>5, <2>6, <2>7
<1> QED BY <1>1, <1>2, <1>3, <1>4, <1>5 DEF Command

(* What the four watchdogs may do between them. *)
LEMMA WatchdogsType ==
    ASSUME NEW b \in BotState
    PROVE  LET w == Watchdogs(b)
           IN  /\ w \in BotState /\ w.map = b.map /\ w.ever = b.ever /\ w.relogin = b.relogin
               /\ w.mapAge = b.mapAge
               /\ w.phase = b.phase \/ (w.phase = "InGame" /\ (MapTimedOut(b) \/ b.phase = "CashShop"))
               /\ \/ OnTrip(b) /\ ~OnTrip(w) /\ w.hunt = b.trip.restore
                  \/ /\ w.hunt = b.hunt /\ (OnTrip(w) <=> OnTrip(b))
                     /\ OnTrip(b) => w.trip.restore = b.trip.restore
<1> DEFINE x == ToInGame(b)
           y == LeaveShop(x)
           z == Denied(y)
           w == Stuck(z)
           Same(c, d) == /\ d \in BotState /\ d.map = c.map /\ d.ever = c.ever /\ d.relogin = c.relogin
                         /\ d.mapAge = c.mapAge
           Stays(c, d) == d.hunt = c.hunt /\ (OnTrip(d) <=> OnTrip(c))
                          /\ (OnTrip(c) => d.trip.restore = c.trip.restore)
           Ends(c, d) == OnTrip(c) /\ ~OnTrip(d) /\ d.hunt = c.trip.restore
<1>1. Same(b, x) /\ Stays(b, x) /\ (x.phase = b.phase \/ (x.phase = "InGame" /\ MapTimedOut(b)))
  BY DEF ToInGame, BotState, Phase, OnTrip
<1> HIDE DEF x
<1>2. Same(x, y) /\ Stays(x, y) /\ y.phase = x.phase
  <2>1. CASE LeavesShop(x)
    <3>1. x.trip \in ReenterCtx /\ OnTrip(x)
      BY <1>1, <2>1, TripType DEF LeavesShop
    <3>2. [x.trip EXCEPT !.left = TRUE] \in ReenterCtx
      BY <3>1 DEF ReenterCtx
    <3>3. y = [x EXCEPT !.trip = [x.trip EXCEPT !.left = TRUE]]
      BY <1>1, <2>1 DEF LeaveShop, BotState
    <3>4. [x.trip EXCEPT !.left = TRUE] # NoTrip
      BY <3>2 DEF ReenterCtx, NoTrip
    <3>5. [x.trip EXCEPT !.left = TRUE].restore = x.trip.restore
      BY <3>1 DEF ReenterCtx
    <3> HIDE DEF y
    <3> QED BY <1>1, <3>1, <3>2, <3>3, <3>4, <3>5 DEF BotState, OnTrip
  <2>2. CASE ~LeavesShop(x)
    BY <1>1, <2>2 DEF LeaveShop
  <2> QED BY <2>1, <2>2
<1> HIDE DEF y
<1>3. Same(y, z) /\ (Stays(y, z) \/ Ends(y, z)) /\ z.phase = y.phase
  <2>1. CASE InGame(y) /\ OnTrip(y) /\ ~y.trip.left /\ y.trip.age > MapTimeout
    <3>1. z = EndTrip(y) /\ y.trip \in ReenterCtx
      BY <1>2, <2>1, TripType DEF Denied
    <3> QED BY <1>2, <2>1, <3>1 DEF EndTrip, BotState, ReenterCtx, OnTrip
  <2>2. CASE ~(InGame(y) /\ OnTrip(y) /\ ~y.trip.left /\ y.trip.age > MapTimeout)
    BY <1>2, <2>2 DEF Denied
  <2> QED BY <2>1, <2>2
<1> HIDE DEF z
<1>4. /\ Same(z, w) /\ (Stays(z, w) \/ Ends(z, w))
      /\ w.phase = z.phase \/ (w.phase = "InGame" /\ z.phase = "CashShop")
  <2>1. CASE z.phase = "CashShop" /\ OnTrip(z) /\ z.trip.left /\ z.trip.age > ShopTimeout
    <3>1. w = [EndTrip(z) EXCEPT !.phase = "InGame"] /\ z.trip \in ReenterCtx
      BY <1>3, <2>1, TripType DEF Stuck
    <3> QED BY <1>3, <2>1, <3>1 DEF EndTrip, BotState, Phase, ReenterCtx, OnTrip
  <2>2. CASE ~(z.phase = "CashShop" /\ OnTrip(z) /\ z.trip.left /\ z.trip.age > ShopTimeout)
    BY <1>3, <2>2 DEF Stuck
  <2> QED BY <2>1, <2>2
<1>5. w = Watchdogs(b)
  BY DEF Watchdogs, x, y, z
<1> HIDE DEF w
<1> QED BY <1>1, <1>2, <1>3, <1>4, <1>5

LEMMA InitInv == RunInit => BotInv
<1> SUFFICES ASSUME RunInit PROVE BotInv
  OBVIOUS
<1>1. bot \in BotState /\ seen \in Seen
  BY Bounds DEF RunInit, NewBot, BotState, Phase, Seen
<1>2. RunTypeOK
  BY <1>1, Bounds DEF RunInit, RunTypeOK, Request, Returned
<1> QED BY <1>2 DEF RunInit, NewBot, BotInv, Mapped, LoginFirst, NoTripWithoutMap, TripRemembers,
          HuntSurvivesTrip, Clock, Entry, NotYet, OnTrip, InMap, LoginPhases

(* A connection that fails or closes, and the way to the next one.          *)
LEMMA LostStep == BotInv /\ pc \in {"connect", "loop"} /\ Lost => BotInv'
<1> SUFFICES ASSUME BotInv, pc \in {"connect", "loop"}, Lost PROVE BotInv'
  OBVIOUS
<1> USE DEF Lost
<1>1. /\ bot \in BotState /\ seen \in Seen /\ attempts \in 0..ReconnectMax
      /\ quitSent \in BOOLEAN /\ lists \subseteq {"worlds", "chars"}
  BY DEF BotInv, RunTypeOK
<1>2. attempts' \in 0..ReconnectMax
  BY <1>1, BotAssumption DEF Capped
<1>3. seen' \in Seen /\ seen' = [seen EXCEPT !.touched = @ \/ OnTrip(bot)]
  BY <1>1 DEF Seen, OnTrip
<1>4. wire' = [link |-> "none", asked |-> {}] /\ UNCHANGED <<lists, quitSent>>
  OBVIOUS
<1>5. CASE GivesUp
  <2>1. pc' = "Failed" /\ bot' = bot
    BY <1>5
  <2> QED BY <1>1, <1>2, <1>3, <1>4, <2>1 DEF BotInv, RunTypeOK, Returned, Mapped, LoginFirst,
            NoTripWithoutMap, TripRemembers, HuntSurvivesTrip, Clock, Entry, NotYet, BeenThere,
            OnTrip, InMap, Seen
<1>6. CASE ~GivesUp
  <2>1. pc' = "sleep" /\ bot' = [ResetSession(bot) EXCEPT !.relogin = TRUE]
    BY <1>6
  <2>2. /\ bot' \in BotState /\ bot'.phase = "Disconnected" /\ bot'.hunt = bot.hunt
        /\ bot'.trip = NoTrip /\ bot'.ever = bot.ever
    BY <1>1, <2>1, Bounds DEF ResetSession, BotState, Phase
  <2> QED BY <1>1, <1>2, <1>3, <1>4, <2>1, <2>2 DEF BotInv, RunTypeOK, Returned, Mapped, LoginFirst,
            NoTripWithoutMap, TripRemembers, HuntSurvivesTrip, Clock, Entry, NotYet, BeenThere,
            OnTrip, InMap, Seen
<1> QED BY <1>5, <1>6

LEMMA RunStep == BotInv /\ (Connect \/ Wake \/ Elapsed \/ SendQuit \/ TakeQuit \/ TickQuits) => BotInv'
<1> SUFFICES ASSUME BotInv, Connect \/ Wake \/ Elapsed \/ SendQuit \/ TakeQuit \/ TickQuits
             PROVE  BotInv'
  OBVIOUS
<1> USE DEF BotInv, RunTypeOK, Returned, Mapped, LoginFirst, NoTripWithoutMap, TripRemembers,
            HuntSurvivesTrip, Clock, Entry, NotYet, BeenThere, OnTrip, InMap
<1>1. CASE Connect
  BY <1>1 DEF Connect, LoginPhases, Request
<1>2. CASE Wake
  BY <1>2 DEF Wake
<1>3. CASE Elapsed
  BY <1>3 DEF Elapsed
<1>4. CASE SendQuit
  BY <1>4 DEF SendQuit
<1>5. CASE TakeQuit
  BY <1>5 DEF TakeQuit
<1>6. CASE TickQuits
  BY <1>6 DEF TickQuits, BotState, InGame
<1> QED BY <1>1, <1>2, <1>3, <1>4, <1>5, <1>6

(* A character is chosen, by the user or by the configuration.              *)
LEMMA Chosen ==
    ASSUME BotInv, pc = "loop", pc' = "loop", bot.phase = "CharSelect",
           NEW m \in Maps, Awaits(SelectChar(bot, m)),
           wire' = [wire EXCEPT !.asked = @ \cup {"char"}],
           UNCHANGED <<attempts, quitSent>>, lists' \subseteq {"worlds", "chars"}
    PROVE  BotInv'
<1>1. bot \in BotState /\ seen \in Seen
  BY DEF BotInv, RunTypeOK
<1>2. bot' \in BotState /\ bot' = [bot EXCEPT !.phase = "EnteringMap", !.map = m]
  BY <1>1 DEF Awaits, SelectChar, BotState, Phase
<1>3. seen' \in Seen /\ seen' = [seen EXCEPT !.waited = 0]
  BY <1>1, Bounds DEF Awaits, Seen
<1>4. wire.link = "login" /\ wire.asked \cap {"login", "gender"} = {}
  BY DEF BotInv, LoginFirst, LoginPhases
<1>5. RunTypeOK'
  BY <1>2, <1>3 DEF BotInv, RunTypeOK, Request
<1>6. (Mapped /\ LoginFirst /\ NoTripWithoutMap /\ TripRemembers /\ HuntSurvivesTrip)'
  BY <1>1, <1>2, <1>3, <1>4 DEF BotInv, RunTypeOK, Mapped, LoginFirst, NoTripWithoutMap, TripRemembers,
     HuntSurvivesTrip, OnTrip, InMap, LoginPhases, BotState, Seen
<1>7. (Clock /\ Entry)'
  BY <1>1, <1>2, <1>3, <1>4 DEF BotInv, RunTypeOK, Clock, Entry, NotYet, BeenThere, BotState, Seen
<1> QED BY <1>5, <1>6, <1>7 DEF BotInv

(* The packets of the login server. *)
LEMMA LoginStep ==
    BotInv /\ (LoginStatus \/ ChooseGender \/ GenderSet \/ ServerList \/ CharList) => BotInv'
<1> SUFFICES ASSUME BotInv, LoginStatus \/ ChooseGender \/ GenderSet \/ ServerList \/ CharList
             PROVE  BotInv'
  OBVIOUS
<1> USE DEF BotInv, RunTypeOK, Mapped, LoginFirst, NoTripWithoutMap, TripRemembers,
            HuntSurvivesTrip, Clock, Entry, NotYet, BeenThere, OnTrip, InMap, LoginPhases
<1>1. CASE LoginStatus
  BY <1>1 DEF LoginStatus, Packet, BotState, Phase, Request
<1>2. CASE ChooseGender
  BY <1>2 DEF ChooseGender, Packet, BotState, Phase, Request
<1>3. CASE GenderSet
  BY <1>3 DEF GenderSet, Packet, BotState, Phase, Request
<1>4. CASE ServerList
  BY <1>4 DEF ServerList, Packet, SelectWorld, BotState, Phase, Request
<1>5. CASE CharList
  <2>1. CASE bot.phase = "CharSelect" /\ ~UserPicks
    <3>1. PICK m \in Maps : Awaits(SelectChar(bot, m))
      BY <1>5, <2>1 DEF CharList
    <3>2. pc = "loop" /\ pc' = "loop" /\ wire' = [wire EXCEPT !.asked = @ \cup {"char"}]
      BY <1>5, <2>1 DEF CharList
    <3>3. UNCHANGED <<attempts, quitSent>> /\ lists' = lists \cup {"chars"}
      BY <1>5 DEF CharList
    <3> QED BY <2>1, <3>1, <3>2, <3>3, Chosen
  <2>2. CASE ~(bot.phase = "CharSelect" /\ ~UserPicks)
    BY <1>5, <2>2 DEF CharList
  <2> QED BY <2>1, <2>2
<1> QED BY <1>1, <1>2, <1>3, <1>4, <1>5

LEMMA ChannelStep == BotInv /\ (ServerIp \/ ChangeChannelReply) => BotInv'
<1> SUFFICES ASSUME BotInv,
                    NEW request \in {"char", "channel", "cs", "leave"},
                    NEW link \in {"channel", "shop"},
                    NEW next \in {"field", "shop"},
                    link = "channel" <=> next = "field", next = "shop" => request = "cs",
                    ToChannel(request, link, next)
             PROVE  BotInv'
  BY DEF ServerIp, ChangeChannelReply
<1>1. /\ bot \in BotState /\ seen \in Seen /\ attempts \in 0..ReconnectMax
      /\ quitSent \in BOOLEAN /\ lists \subseteq {"worlds", "chars"}
  BY DEF BotInv, RunTypeOK
<1>2. /\ pc = "loop" /\ pc' = "loop" /\ request \in wire.asked /\ UNCHANGED <<lists, attempts, quitSent>>
  BY DEF ToChannel
<1>3. bot' \in BotState /\ bot' = [bot EXCEPT !.phase = "EnteringMap", !.mapAge = 0]
  BY <1>1, Bounds DEF ToChannel, Awaits, BotState, Phase
<1>4. seen' \in Seen /\ seen' = [seen EXCEPT !.waited = 0]
  BY <1>1, Bounds DEF ToChannel, Awaits, Seen
<1>5. \/ wire' = [link |-> link, asked |-> {next}]
      \/ wire' = [link |-> "none", asked |-> {}]
  BY DEF ToChannel
<1>6. bot.map \in Maps
  BY <1>2 DEF BotInv, Mapped
<1>7. RunTypeOK'
  BY <1>1, <1>2, <1>3, <1>4, <1>5 DEF RunTypeOK, Request
<1>8. (TripRemembers /\ HuntSurvivesTrip /\ NoTripWithoutMap /\ Clock)'
  BY <1>1, <1>3, <1>4, <1>5 DEF BotInv, TripRemembers, HuntSurvivesTrip, NoTripWithoutMap, Clock,
     OnTrip, BotState, Seen
<1>9. (Mapped /\ LoginFirst)'
  BY <1>1, <1>2, <1>3, <1>5, <1>6 DEF Mapped, LoginFirst, LoginPhases, BotState
<1>10. Entry'
  BY <1>1, <1>2, <1>3, <1>4, <1>5 DEF BotInv, Entry, NotYet, BeenThere, BotState, Seen
<1> QED BY <1>7, <1>8, <1>9, <1>10 DEF BotInv

(* The character arrives on the map it is expected on, or on another.       *)
LEMMA Arrives ==
    ASSUME BotInv, pc = "loop", NEW m \in Maps, Lands([bot EXCEPT !.map = m]),
           wire.link # "login" \/ "field" \in wire.asked,
           wire' = wire \/ wire' = [wire EXCEPT !.asked = {}]
    PROVE  BotInv'
<1> DEFINE b == [bot EXCEPT !.map = m]
           c == [b EXCEPT !.phase = "InGame", !.mapAge = 0]
<1>1. /\ bot \in BotState /\ seen \in Seen /\ attempts \in 0..ReconnectMax
      /\ quitSent \in BOOLEAN /\ lists \subseteq {"worlds", "chars"}
  BY DEF BotInv, RunTypeOK
<1>2. b \in BotState /\ c \in BotState /\ b.trip = bot.trip /\ c.trip = bot.trip
      /\ b.hunt = bot.hunt /\ c.hunt = bot.hunt /\ b.map = m /\ c.map = m /\ c.phase = "InGame"
  BY <1>1, Bounds DEF BotState, Phase
<1>3. bot' = CompleteReenter(c) /\ UNCHANGED <<pc, lists, attempts, quitSent>>
  BY DEF Lands, Landed
<1>4. seen' = [seen EXCEPT !.entered = TRUE,
                           !.wanted = IF OnTrip(b) /\ ~(b.map = b.trip.map /\ b.trip.left)
                                      THEN b.hunt ELSE @]
  BY DEF Lands
<1> HIDE DEF b, c
<1>5. OnTrip(b) = OnTrip(bot) /\ OnTrip(c) = OnTrip(bot)
  BY <1>2 DEF OnTrip
<1>6. seen' \in Seen /\ seen'.entered /\ seen'.touched = seen.touched /\ seen'.early = seen.early
  BY <1>1, <1>2, <1>4 DEF Seen, BotState
<1>7. /\ bot' \in BotState /\ bot'.phase = "InGame" /\ bot'.map = m /\ bot'.trip = NoTrip
      /\ seen.touched \/ bot'.hunt = seen'.wanted
  <2>1. CASE OnTrip(bot)
    <3>1. c.trip \in ReenterCtx /\ c.trip.restore \in BOOLEAN
      BY <1>2, <1>5, <2>1, TripType DEF ReenterCtx
    <3>2. bot' = [c EXCEPT !.trip = NoTrip,
                           !.hunt = IF c.map = c.trip.map /\ c.trip.left THEN c.trip.restore ELSE @]
      BY <1>3, <1>5, <2>1 DEF CompleteReenter
    <3>3. bot' \in BotState /\ bot'.phase = "InGame" /\ bot'.map = m /\ bot'.trip = NoTrip
      BY <1>2, <3>1, <3>2 DEF BotState
    <3>4. seen.touched \/ bot.trip.restore = seen.wanted
      BY <2>1 DEF BotInv, TripRemembers
    <3>5. CASE c.map = c.trip.map /\ c.trip.left
      <4>1. bot'.hunt = c.trip.restore
        BY <1>2, <3>2, <3>5 DEF BotState
      <4>2. seen'.wanted = seen.wanted
        BY <1>1, <1>2, <1>4, <3>5 DEF Seen
      <4> QED BY <1>2, <3>3, <3>4, <4>1, <4>2
    <3>6. CASE ~(c.map = c.trip.map /\ c.trip.left)
      <4>1. bot'.hunt = c.hunt
        BY <1>2, <3>2, <3>6 DEF BotState
      <4>2. seen'.wanted = b.hunt
        BY <1>1, <1>2, <1>4, <1>5, <2>1, <3>6 DEF Seen
      <4> QED BY <1>2, <3>3, <4>1, <4>2
    <3> QED BY <3>5, <3>6
  <2>2. CASE ~OnTrip(bot)
    <3>1. bot' = c
      BY <1>3, <1>5, <2>2 DEF CompleteReenter
    <3>2. seen'.wanted = seen.wanted
      BY <1>1, <1>4, <1>5, <2>2 DEF Seen
    <3> QED BY <1>2, <2>2, <3>1, <3>2 DEF BotInv, HuntSurvivesTrip, OnTrip
  <2> QED BY <2>1, <2>2
<1>8. RunTypeOK'
  BY <1>1, <1>3, <1>6, <1>7 DEF BotInv, RunTypeOK
<1>9. (Mapped /\ NoTripWithoutMap /\ TripRemembers /\ HuntSurvivesTrip /\ Clock /\ Entry)'
  BY <1>6, <1>7 DEF BotInv, Mapped, NoTripWithoutMap, TripRemembers, HuntSurvivesTrip, Clock, Entry,
     BeenThere, OnTrip
<1>10. LoginFirst'
  BY <1>3, <1>7 DEF BotInv, RunTypeOK, LoginFirst, LoginPhases
<1> QED BY <1>8, <1>9, <1>10 DEF BotInv

LEMMA MapStep ==
    BotInv /\ (SetField \/ SetFieldWarp \/ UpdateStatsDenied \/ SetCashShop) => BotInv'
<1> SUFFICES ASSUME BotInv, SetField \/ SetFieldWarp \/ UpdateStatsDenied \/ SetCashShop
             PROVE  BotInv'
  OBVIOUS
<1>1. CASE SetField
  <2>1. bot.map \in Maps
    BY <1>1 DEF SetField, BotInv, Mapped
  <2>2. bot = [bot EXCEPT !.map = bot.map]
    BY DEF BotInv, RunTypeOK, BotState
  <2> QED BY <1>1, <2>1, <2>2, Arrives DEF SetField
<1>2. CASE SetFieldWarp
  BY <1>2, Arrives DEF SetFieldWarp, OnMap
<1>3. CASE UpdateStatsDenied
  BY <1>3 DEF UpdateStatsDenied, OnMap, BotInv, RunTypeOK, Mapped, LoginFirst, NoTripWithoutMap,
     TripRemembers, HuntSurvivesTrip, Clock, Entry, NotYet, BeenThere, OnTrip, InMap, LoginPhases,
     BotState, Phase
<1>4. CASE SetCashShop
  BY <1>4 DEF SetCashShop, Packet, BotInv, RunTypeOK, Mapped, LoginFirst, NoTripWithoutMap,
     TripRemembers, HuntSurvivesTrip, Clock, Entry, NotYet, BeenThere, OnTrip, InMap, LoginPhases,
     BotState, Phase
<1> QED BY <1>1, <1>2, <1>3, <1>4

LEMMA PickStep == BotInv /\ (LoginWorld \/ LoginChar) => BotInv'
<1> SUFFICES ASSUME BotInv, LoginWorld \/ LoginChar PROVE BotInv'
  OBVIOUS
<1>1. CASE LoginWorld
  BY <1>1 DEF LoginWorld, SelectWorld, BotInv, RunTypeOK, Mapped, LoginFirst, NoTripWithoutMap,
     TripRemembers, HuntSurvivesTrip, Clock, Entry, NotYet, BeenThere, OnTrip, InMap, LoginPhases,
     BotState, Phase, Request
<1>2. CASE LoginChar
  BY <1>2, Chosen DEF LoginChar, BotInv, RunTypeOK
<1> QED BY <1>1, <1>2

(* What a command asks for, it asks for on a map.                           *)
LEMMA AskedFor ==
    ASSUME BotInv, NEW c \in Command, Allowed(bot, c), AsksOf(c)
    PROVE  /\ wire' \in [link : {"none", "login", "channel", "shop"}, asked : SUBSET Request]
           /\ wire'.link = wire.link
           /\ wire'.asked \subseteq wire.asked \cup (IF InGame(bot) THEN {"channel", "cs"} ELSE {})
           /\ wire.asked \subseteq wire'.asked
<1>1. wire \in [link : {"none", "login", "channel", "shop"}, asked : SUBSET Request]
  BY DEF BotInv, RunTypeOK
<1>2. CASE ~OnMap \/ c \notin {"channel", "reenter"}
  BY <1>1, <1>2 DEF AsksOf
<1>3. CASE OnMap /\ c = "channel"
  <2>1. InGame(bot)
    BY <1>3 DEF Allowed
  <2>2. wire' = [wire EXCEPT !.asked = @ \cup {"channel"}]
    BY <1>3 DEF AsksOf
  <2> QED BY <1>1, <2>1, <2>2 DEF Request
<1>4. CASE OnMap /\ c = "reenter"
  <2>1. InGame(bot)
    BY <1>4 DEF Allowed
  <2>2. wire' = [wire EXCEPT !.asked = @ \cup {"cs"}]
    BY <1>4 DEF AsksOf
  <2> QED BY <1>1, <2>1, <2>2 DEF Request
<1> QED BY <1>2, <1>3, <1>4

(* What hunt should be after a command is what the command left it at.      *)
LEMMA WantedAfter ==
    ASSUME BotInv, NEW c \in Command, Allowed(bot, c)
    PROVE  LET d == Do(bot, c)
               s == Wanted(bot, c)
           IN  /\ s \in Seen /\ s.entered = seen.entered /\ s.rushed = seen.rushed
               /\ s.early = seen.early
               /\ s.waited = IF c = "warp" THEN 0 ELSE seen.waited
               /\ OnTrip(d) /\ ~s.touched => d.trip.restore = s.wanted
               /\ OnTrip(d) \/ s.touched \/ d.hunt = s.wanted
               /\ c \in {"none", "on", "off", "channel", "warp"} => d.trip = bot.trip
<1>1. bot \in BotState /\ seen \in Seen
  BY DEF BotInv, RunTypeOK
<1>2. InGame(bot) => bot.map \in Maps
  BY DEF InGame, BotInv, Mapped, InMap
<1> DEFINE d == Do(bot, c)
           s == Wanted(bot, c)
<1>3. /\ d.hunt = IF c = "none" THEN bot.hunt ELSE c = "on"
      /\ c # "reenter" => d.trip = bot.trip
      /\ c = "reenter" => d.trip = [map |-> bot.map, restore |-> bot.hunt, left |-> FALSE, age |-> 0]
      /\ c = "reenter" => d.trip \in ReenterCtx
  BY <1>1, <1>2, DoType
<1>4. s = [seen EXCEPT !.waited = IF c = "warp" THEN 0 ELSE @,
                       !.wanted = CASE c = "none" -> @
                                    [] c = "reenter" -> bot.hunt
                                    [] OTHER -> c = "on",
                       !.touched = /\ c # "reenter"
                                   /\ @ \/ (OnTrip(bot) /\ c # "none")]
  BY DEF Wanted
<1> HIDE DEF d, s
<1>5. /\ s.entered = seen.entered /\ s.rushed = seen.rushed /\ s.early = seen.early
      /\ s.waited = IF c = "warp" THEN 0 ELSE seen.waited
  BY <1>1, <1>4 DEF Seen
<1>6. /\ c = "none" => s.wanted = seen.wanted
      /\ c = "reenter" => s.wanted = bot.hunt
      /\ c \notin {"none", "reenter"} => s.wanted = (c = "on")
  BY <1>1, <1>4 DEF Seen
<1>7. s.touched = (c # "reenter" /\ (seen.touched \/ (OnTrip(bot) /\ c # "none")))
  BY <1>1, <1>4 DEF Seen
<1>8. s.wanted \in BOOLEAN
  BY <1>1, <1>6 DEF BotState, Seen
<1>9. s \in Seen
  BY <1>1, <1>4, <1>5, <1>7, <1>8, Bounds DEF Seen, OnTrip
<1>10. OnTrip(d) /\ ~s.touched => d.trip.restore = s.wanted
  <2>1. CASE c = "reenter"
    BY <1>3, <1>6, <2>1
  <2>2. CASE c # "reenter"
    <3>1. OnTrip(d) = OnTrip(bot) /\ d.trip = bot.trip
      BY <1>3, <2>2 DEF OnTrip
    <3> QED BY <1>6, <1>7, <2>2, <3>1 DEF BotInv, TripRemembers
  <2> QED BY <2>1, <2>2
<1>11. OnTrip(d) \/ s.touched \/ d.hunt = s.wanted
  <2>1. CASE c = "reenter"
    <3>1. d.trip # NoTrip
      BY <1>3, <2>1 DEF ReenterCtx, NoTrip
    <3> QED BY <3>1 DEF OnTrip
  <2>2. CASE c = "none"
    <3>1. OnTrip(d) = OnTrip(bot)
      BY <1>3, <2>2 DEF OnTrip
    <3> QED BY <1>3, <1>6, <1>7, <2>2, <3>1 DEF BotInv, HuntSurvivesTrip
  <2>3. CASE c \notin {"none", "reenter"}
    BY <1>3, <1>6, <2>3
  <2> QED BY <2>1, <2>2, <2>3
<1> QED BY <1>3, <1>5, <1>9, <1>10, <1>11 DEF d, s

LEMMA CommandStep == \A c \in Command : BotInv /\ RunCommand(c) => BotInv'
<1> SUFFICES ASSUME NEW c \in Command, BotInv, RunCommand(c) PROVE BotInv'
  OBVIOUS
<1>1. pc = "loop" /\ Allowed(bot, c) /\ AsksOf(c) /\ UNCHANGED <<pc, lists, attempts, quitSent>>
      /\ bot' = Do(bot, c) /\ seen' = Wanted(bot, c)
  BY DEF RunCommand
<1>2. bot \in BotState /\ seen \in Seen
  BY DEF BotInv, RunTypeOK
<1>3. /\ wire' \in [link : {"none", "login", "channel", "shop"}, asked : SUBSET Request]
      /\ wire'.link = wire.link
      /\ wire'.asked \subseteq wire.asked \cup (IF InGame(bot) THEN {"channel", "cs"} ELSE {})
      /\ wire.asked \subseteq wire'.asked
  BY <1>1, AskedFor
<1>4. InGame(bot) => bot.map \in Maps
  BY DEF InGame, BotInv, Mapped, InMap
<1>5. /\ bot' \in BotState /\ bot'.map = bot.map /\ bot'.ever = bot.ever
      /\ bot'.phase = IF c = "warp" THEN "EnteringMap" ELSE bot.phase
      /\ bot'.mapAge = IF c \in {"warp", "reenter"} THEN 0 ELSE bot.mapAge
      /\ c # "reenter" => bot'.trip = bot.trip
  BY <1>1, <1>2, <1>4, DoType
<1>6. /\ seen' \in Seen /\ seen'.entered = seen.entered /\ seen'.rushed = seen.rushed
      /\ seen'.early = seen.early /\ seen'.waited = IF c = "warp" THEN 0 ELSE seen.waited
      /\ (TripRemembers /\ HuntSurvivesTrip)'
  BY <1>1, WantedAfter DEF TripRemembers, HuntSurvivesTrip, OnTrip
<1>7. c \in {"warp", "reenter", "channel"} => bot.phase = "InGame"
  BY <1>1 DEF Allowed, InGame
<1>8. RunTypeOK'
  BY <1>1, <1>3, <1>5, <1>6 DEF BotInv, RunTypeOK
<1>9. (Mapped /\ NoTripWithoutMap)'
  BY <1>3, <1>4, <1>5, <1>7 DEF BotInv, Mapped, NoTripWithoutMap, OnTrip, InGame, InMap
<1>10. LoginFirst'
  <2>1. bot.phase = "InGame" => wire.asked \cap {"login", "gender"} = {}
    BY DEF BotInv, LoginFirst
  <2>2. CASE InGame(bot)
    BY <1>1, <1>3, <1>5, <2>1, <2>2 DEF LoginFirst, InGame, LoginPhases
  <2>3. CASE ~InGame(bot)
    BY <1>1, <1>3, <1>5, <1>7, <2>3 DEF BotInv, LoginFirst, InGame, LoginPhases
  <2> QED BY <2>2, <2>3
<1>11. Clock'
  BY <1>1, <1>2, <1>3, <1>5, <1>6, <1>7, Bounds DEF BotInv, Clock, BotState, Seen
<1>12. Entry'
  <2>1. CASE InGame(bot)
    BY <1>6, <2>1 DEF BotInv, Entry, NotYet, BeenThere, InGame
  <2>2. CASE ~InGame(bot)
    BY <1>3, <1>5, <1>6, <1>7, <2>2 DEF BotInv, Entry, NotYet, BeenThere, InGame
  <2> QED BY <2>1, <2>2
<1> QED BY <1>6, <1>8, <1>9, <1>10, <1>11, <1>12 DEF BotInv

(* A tick: a command at most, then the four watchdogs.                      *)
LEMMA TickStep == \A c \in Command : BotInv /\ Tick(c) => BotInv'
<1> SUFFICES ASSUME NEW c \in Command, BotInv, Tick(c) PROVE BotInv'
  OBVIOUS
<1> DEFINE on == [bot EXCEPT !.ever = TRUE]
           b == IF InGame(bot) THEN Do(on, c) ELSE bot
           d == Do(bot, c)
           w == Watchdogs(b)
           s == Wanted(bot, c)
<1>1. /\ bot \in BotState /\ seen \in Seen /\ wire.asked \subseteq Request
      /\ wire \in [link : {"none", "login", "channel", "shop"}, asked : SUBSET Request]
  BY DEF BotInv, RunTypeOK
<1>2. /\ pc = "loop" /\ UNCHANGED <<pc, lists, attempts, quitSent>> /\ bot' = w
      /\ c # "none" => InGame(bot) /\ Allowed(bot, c)
      /\ IF LeavesShop(b) THEN wire' = [wire EXCEPT !.asked = @ \cup {"leave"}] ELSE AsksOf(c)
      /\ seen' = [s EXCEPT
                     !.rushed = @ \/ (MapTimedOut(b) /\ ~seen.entered),
                     !.early = @ \/ (/\ MapTimedOut(b) /\ wire.link # "login"
                                    /\ seen.waited <= MapTimeout)]
  BY DEF Tick
<1>3. Allowed(bot, c)
  BY <1>2 DEF Allowed
<1>4. InGame(bot) => bot.map \in Maps
  BY DEF InGame, BotInv, Mapped, InMap
<1>5. on \in BotState /\ on.phase = bot.phase /\ on.map = bot.map /\ on.trip = bot.trip
      /\ on.hunt = bot.hunt /\ on.mapAge = bot.mapAge
  BY <1>1 DEF BotState
<1>6. Allowed(on, c)
  BY <1>3, <1>5 DEF Allowed, InGame, OnTrip
<1>7. /\ s \in Seen /\ s.entered = seen.entered /\ s.rushed = seen.rushed /\ s.early = seen.early
      /\ s.waited = IF c = "warp" THEN 0 ELSE seen.waited
      /\ OnTrip(d) /\ ~s.touched => d.trip.restore = s.wanted
      /\ OnTrip(d) \/ s.touched \/ d.hunt = s.wanted
  BY <1>3, WantedAfter
<1>8. /\ b \in BotState /\ b.map = bot.map /\ b.hunt = d.hunt /\ b.trip = d.trip
      /\ b.phase = IF c = "warp" THEN "EnteringMap" ELSE bot.phase
      /\ b.mapAge = IF c \in {"warp", "reenter"} THEN 0 ELSE bot.mapAge
      /\ ~InGame(bot) => b = bot /\ c = "none"
      /\ c # "reenter" => b.trip = bot.trip
  <2>1. CASE InGame(bot)
    <3>1. /\ Do(on, c) \in BotState /\ Do(on, c).map = on.map
          /\ Do(on, c).phase = IF c = "warp" THEN "EnteringMap" ELSE on.phase
          /\ Do(on, c).mapAge = IF c \in {"warp", "reenter"} THEN 0 ELSE on.mapAge
          /\ c # "reenter" => Do(on, c).trip = on.trip
          /\ c = "reenter" => Do(on, c).trip = [map |-> on.map, restore |-> on.hunt, left |-> FALSE, age |-> 0]
          /\ Do(on, c).hunt = IF c = "none" THEN on.hunt ELSE c = "on"
      <4>1. InGame(on) => on.map \in Maps
        BY <1>4, <1>5 DEF InGame
      <4> HIDE DEF on
      <4> QED BY <1>5, <1>6, <4>1, DoType
    <3>2. /\ c # "reenter" => d.trip = bot.trip
          /\ c = "reenter" => d.trip = [map |-> bot.map, restore |-> bot.hunt, left |-> FALSE, age |-> 0]
          /\ d.hunt = IF c = "none" THEN bot.hunt ELSE c = "on"
      BY <1>1, <1>3, <1>4, DoType
    <3>3. b = Do(on, c)
      BY <2>1
    <3> HIDE DEF b, d, on
    <3> QED BY <1>5, <2>1, <3>1, <3>2, <3>3
  <2>2. CASE ~InGame(bot)
    <3>1. c = "none"
      BY <1>2, <2>2
    <3>2. d = bot
      BY <3>1 DEF Do
    <3>3. b = bot
      BY <2>2
    <3> HIDE DEF b, d, on
    <3> QED BY <1>1, <2>2, <3>1, <3>2, <3>3
  <2> QED BY <2>1, <2>2
<1> HIDE DEF b, d, on, s
<1>9. /\ w \in BotState /\ w.map = b.map /\ w.mapAge = b.mapAge
      /\ w.phase = b.phase \/ (w.phase = "InGame" /\ (MapTimedOut(b) \/ b.phase = "CashShop"))
      /\ \/ OnTrip(b) /\ ~OnTrip(w) /\ w.hunt = b.trip.restore
         \/ /\ w.hunt = b.hunt /\ (OnTrip(w) <=> OnTrip(b))
            /\ OnTrip(b) => w.trip.restore = b.trip.restore
      /\ w.ever = b.ever
  BY <1>8, WatchdogsType
<1> HIDE DEF w
<1>10. /\ seen' \in Seen /\ seen'.entered = seen.entered /\ seen'.waited = s.waited
       /\ seen'.wanted = s.wanted /\ seen'.touched = s.touched
       /\ seen'.rushed = (seen.rushed \/ (MapTimedOut(b) /\ ~seen.entered))
       /\ seen'.early = (seen.early \/ (/\ MapTimedOut(b) /\ wire.link # "login"
                                        /\ seen.waited <= MapTimeout))
  BY <1>2, <1>7 DEF Seen
<1>11. /\ wire' \in [link : {"none", "login", "channel", "shop"}, asked : SUBSET Request]
       /\ wire'.link = wire.link
       /\ wire.asked \subseteq wire'.asked
       /\ wire'.asked \subseteq wire.asked \cup (IF LeavesShop(b) THEN {"leave"}
                                                ELSE IF InGame(bot) THEN {"channel", "cs"} ELSE {})
  <2>1. CASE LeavesShop(b)
    <3>1. wire' = [wire EXCEPT !.asked = @ \cup {"leave"}]
      BY <1>2, <2>1
    <3> QED BY <1>1, <2>1, <3>1 DEF Request
  <2>2. CASE ~LeavesShop(b)
    BY <1>2, <1>3, <2>2, AskedFor
  <2> QED BY <2>1, <2>2
<1>12. LeavesShop(b) => bot.phase = "CashShop" /\ bot.map \in Maps
  <2>1. LeavesShop(b) => bot.phase = "CashShop"
    BY <1>8 DEF LeavesShop
  <2> QED BY <2>1 DEF BotInv, Mapped, InMap
<1>13. w.phase \in InMap => bot.phase \in InMap
  BY <1>2, <1>8, <1>9 DEF InMap, MapTimedOut, InGame
<1>14. w.phase \notin InMap => bot.phase = w.phase /\ w.trip = bot.trip
  <2>1. CASE w.phase \notin InMap
    <3>1. b.phase = w.phase /\ b = bot
      BY <1>2, <1>8, <1>9, <2>1 DEF InMap, InGame
    <3>2. ~OnTrip(bot)
      BY <2>1, <3>1 DEF BotInv, NoTripWithoutMap, InMap
    <3> QED BY <1>9, <3>1, <3>2 DEF OnTrip
  <2> QED BY <2>1
<1>15. RunTypeOK'
  BY <1>2, <1>9, <1>10, <1>11 DEF BotInv, RunTypeOK
<1>16. Mapped'
  BY <1>2, <1>4, <1>8, <1>9, <1>11, <1>12, <1>13 DEF BotInv, Mapped, InMap, InGame
<1>17. LoginFirst'
  <2>1. wire'.asked \cap {"login", "gender"} = wire.asked \cap {"login", "gender"}
    BY <1>11
  <2>2. bot.phase \in {"InGame", "CashShop"} => wire.asked \cap {"login", "gender"} = {}
    BY DEF BotInv, LoginFirst
  <2>3. w.phase \in LoginPhases => wire.link = "login"
    BY <1>2, <1>14 DEF BotInv, LoginFirst, LoginPhases, InMap
  <2>4. CASE wire.asked \cap {"login", "gender"} # {}
    <3>1. bot.phase \in {"Disconnected", "GenderPick", "LoggingIn"} /\ b = bot
          /\ wire.asked \in {{"login"}, {"gender"}} /\ wire.link = "login"
      BY <1>8, <2>4 DEF BotInv, LoginFirst, InGame
    <3>2. w.phase = bot.phase
      BY <1>9, <3>1 DEF MapTimedOut
    <3>3. wire'.asked = wire.asked
      BY <1>11, <1>12, <3>1 DEF InGame
    <3> QED BY <1>2, <1>11, <2>3, <3>1, <3>2, <3>3 DEF LoginFirst
  <2>5. CASE wire.asked \cap {"login", "gender"} = {}
    BY <1>2, <1>11, <2>1, <2>3, <2>5 DEF LoginFirst
  <2> QED BY <2>4, <2>5
<1>18. NoTripWithoutMap'
  BY <1>2, <1>14 DEF BotInv, NoTripWithoutMap, OnTrip, InMap
<1>19. TripRemembers' /\ HuntSurvivesTrip'
  BY <1>2, <1>7, <1>8, <1>9, <1>10 DEF TripRemembers, HuntSurvivesTrip, OnTrip
<1>20. Clock'
  <2>0. ~seen.early /\ (~seen'.early <=> ~(/\ MapTimedOut(b) /\ wire.link # "login"
                                         /\ seen.waited <= MapTimeout))
    BY <1>10 DEF BotInv, Clock
  <2>1. CASE c = "warp"
    <3>1. ~MapTimedOut(b)
      BY <1>8, <2>1, BotAssumption DEF MapTimedOut
    <3>2. w.mapAge <= seen'.waited
      BY <1>7, <1>8, <1>9, <1>10, <2>1
    <3> QED BY <1>2, <2>0, <3>1, <3>2 DEF Clock
  <2>2. CASE c # "warp"
    <3>1. b.phase = "EnteringMap" => b = bot
      BY <1>8, <2>2 DEF InGame
    <3>2. MapTimedOut(b) => b = bot /\ bot.phase = "EnteringMap" /\ bot.mapAge > MapTimeout
      BY <3>1 DEF MapTimedOut
    <3>3. bot.mapAge \in Nat /\ seen.waited \in Nat /\ MapTimeout \in Nat
      BY <1>1, BotAssumption DEF BotState, Seen
    <3>4. MapTimedOut(b) /\ wire.link # "login" => seen.waited > MapTimeout
      BY <1>2, <3>2, <3>3 DEF BotInv, Clock
    <3>5. ~seen'.early
      BY <2>0, <3>3, <3>4
    <3>6. w.phase = "EnteringMap" => b = bot /\ w.mapAge = bot.mapAge
      BY <1>9, <3>1
    <3> QED BY <1>2, <1>7, <1>9, <1>10, <1>11, <2>2, <3>1, <3>5, <3>6 DEF BotInv, Clock
  <2> QED BY <2>1, <2>2
<1>21. Entry'
  <2>1. CASE BeenThere
    BY <1>10, <2>1 DEF Entry, BeenThere
  <2>2. CASE ~BeenThere /\ MapTimedOut(b)
    BY <1>10, <2>2 DEF Entry, BeenThere
  <2>3. CASE ~BeenThere /\ ~MapTimedOut(b)
    <3>1. NotYet
      BY <2>3 DEF BotInv, Entry
    <3>2. b = bot /\ ~LeavesShop(b)
      BY <1>8, <1>12, <3>1 DEF NotYet, InGame
    <3>3. w.phase = bot.phase /\ w.ever = bot.ever
      BY <1>9, <2>3, <3>1, <3>2 DEF NotYet
    <3>4. wire'.asked = wire.asked
      BY <1>11, <3>1, <3>2 DEF NotYet, InGame
    <3> QED BY <1>2, <1>11, <3>1, <3>3, <3>4 DEF Entry, NotYet
  <2> QED BY <2>1, <2>2, <2>3
<1> QED BY <1>15, <1>16, <1>17, <1>18, <1>19, <1>20, <1>21 DEF BotInv

LEMMA PassStep == BotInv /\ Pass => BotInv'
<1> SUFFICES ASSUME BotInv, Pass PROVE BotInv'
  OBVIOUS
<1>1. /\ bot \in BotState /\ seen \in Seen
      /\ bot.mapAge \in Nat /\ seen.waited \in Nat /\ MapTimeout \in Nat /\ ShopTimeout \in Nat
  BY BotAssumption DEF BotInv, RunTypeOK, BotState, Seen
<1>2. pc \notin Returned /\ UNCHANGED <<pc, wire, lists, attempts, quitSent>>
  BY DEF Pass
<1>3. seen' \in Seen /\ seen' = [seen EXCEPT !.waited = Capped(@ + 1, MapTimeout + 1)]
  BY <1>1 DEF Pass, Capped, Seen
<1> DEFINE o == [bot EXCEPT !.mapAge = Capped(@ + 1, MapTimeout + 1)]
<1>4. o \in BotState /\ o.trip = bot.trip /\ o.phase = bot.phase /\ o.hunt = bot.hunt
      /\ o.map = bot.map /\ o.ever = bot.ever
      /\ o.mapAge = Capped(bot.mapAge + 1, MapTimeout + 1)
  BY <1>1 DEF Capped, BotState
<1>5. bot' = IF OnTrip(bot) THEN [o EXCEPT !.trip.age = Capped(@ + 1, ShopTimeout + 1)] ELSE o
  BY DEF Pass, Older
<1> HIDE DEF o
<1>6. /\ bot' \in BotState /\ bot'.phase = bot.phase /\ bot'.hunt = bot.hunt /\ bot'.map = bot.map
      /\ bot'.ever = bot.ever /\ bot'.mapAge = Capped(bot.mapAge + 1, MapTimeout + 1)
      /\ (bot'.trip # NoTrip) = OnTrip(bot) /\ (OnTrip(bot) => bot'.trip.restore = bot.trip.restore)
  <2>1. CASE OnTrip(bot)
    <3>1. bot.trip \in ReenterCtx
      BY <1>1, <2>1, TripType
    <3> DEFINE t == [bot.trip EXCEPT !.age = Capped(@ + 1, ShopTimeout + 1)]
    <3>2. t \in ReenterCtx /\ t.restore = bot.trip.restore /\ t # NoTrip
      BY <1>1, <3>1 DEF ReenterCtx, Capped, NoTrip
    <3>3. bot' = [o EXCEPT !.trip = t]
      BY <1>4, <1>5, <2>1 DEF BotState
    <3> HIDE DEF t
    <3> QED BY <1>4, <2>1, <3>2, <3>3 DEF BotState
  <2>2. CASE ~OnTrip(bot)
    BY <1>4, <1>5, <2>2 DEF OnTrip
  <2> QED BY <2>1, <2>2
<1>7. RunTypeOK'
  BY <1>2, <1>3, <1>6 DEF BotInv, RunTypeOK
<1>8. (Mapped /\ LoginFirst /\ NoTripWithoutMap)'
  BY <1>2, <1>6 DEF BotInv, Mapped, LoginFirst, NoTripWithoutMap, OnTrip
<1>9. /\ seen'.entered = seen.entered /\ seen'.rushed = seen.rushed /\ seen'.early = seen.early
      /\ seen'.wanted = seen.wanted /\ seen'.touched = seen.touched
      /\ seen'.waited = Capped(seen.waited + 1, MapTimeout + 1)
  BY <1>1, <1>3 DEF Seen
<1>10. (TripRemembers /\ HuntSurvivesTrip /\ Entry)'
  BY <1>2, <1>6, <1>9 DEF BotInv, TripRemembers, HuntSurvivesTrip, Entry, NotYet, BeenThere, OnTrip
<1>11. Clock'
  BY <1>1, <1>2, <1>6, <1>9 DEF BotInv, Clock, Capped
<1> QED BY <1>7, <1>8, <1>10, <1>11 DEF BotInv

-----------------------------------------------------------------------------
LEMMA BotStep == BotInv /\ [RunNext]_runVars => BotInv'
<1> SUFFICES ASSUME BotInv, [RunNext]_runVars PROVE BotInv'
  OBVIOUS
<1>1. CASE Connect \/ Wake \/ Elapsed \/ SendQuit \/ TakeQuit \/ TickQuits
  BY <1>1, RunStep
<1>2. CASE ConnectFails \/ ConnectionCloses
  BY <1>2, LostStep DEF ConnectFails, ConnectionCloses
<1>3. CASE Server
  BY <1>3, LoginStep, ChannelStep, MapStep DEF Server
<1>4. CASE LoginWorld \/ LoginChar
  BY <1>4, PickStep
<1>5. CASE \E c \in Command : RunCommand(c)
  BY <1>5, CommandStep
<1>6. CASE \E c \in Command : Tick(c)
  BY <1>6, TickStep
<1>7. CASE Pass
  BY <1>7, PassStep
<1>8. CASE UNCHANGED runVars
  BY <1>8 DEF runVars, BotInv, RunTypeOK, Mapped, LoginFirst, NoTripWithoutMap, TripRemembers,
     HuntSurvivesTrip, Clock, Entry, NotYet, BeenThere, OnTrip
<1> QED BY <1>1, <1>2, <1>3, <1>4, <1>5, <1>6, <1>7, <1>8 DEF RunNext, User

LEMMA BotInvariant == RunSpec => []BotInv
BY InitInv, BotStep, PTL DEF RunSpec

(* run returns one of three outcomes, never a bare connection error, and    *)
(* every field of the bot keeps its type, for every configuration.          *)
THEOREM BotTypes == RunSpec => []RunTypeOK
<1>1. BotInv => RunTypeOK
  BY DEF BotInv
<1> QED BY <1>1, BotInvariant, PTL

(* A round trip that is over has given hunting back, for every timeout.     *)
THEOREM TripGivesBack == RunSpec => []HuntSurvivesTrip
<1>1. BotInv => HuntSurvivesTrip
  BY DEF BotInv
<1> QED BY <1>1, BotInvariant, PTL

(* No trip outlives its session.                                            *)
THEOREM TripNeedsMap == RunSpec => []NoTripWithoutMap
<1>1. BotInv => NoTripWithoutMap
  BY DEF BotInv
<1> QED BY <1>1, BotInvariant, PTL

(* Nothing is given up early, and a relogin needs a game.                   *)
THEOREM NothingEarly == RunSpec => GivesUpInTime
<1>1. BotInv /\ BotInv' /\ [RunNext]_runVars
        => [~seen'.early /\ (pc' = "sleep" /\ pc = "loop" => seen.entered \/ seen.rushed)]_runVars
  <2> SUFFICES ASSUME BotInv, BotInv', RunNext, pc' = "sleep", pc = "loop"
               PROVE  seen.entered \/ seen.rushed
    BY DEF BotInv, Clock
  <2>1. ConnectionCloses
    BY DEF RunNext, Server, User, Connect, ConnectFails, Wake, Elapsed, TakeQuit, TickQuits, Pass,
       Tick, RunCommand, LoginWorld, LoginChar, SendQuit, LoginStatus, ChooseGender, GenderSet,
       ServerList, CharList, ServerIp, ChangeChannelReply, ToChannel, Packet, SetField,
       SetFieldWarp, UpdateStatsDenied, SetCashShop, Lands
  <2>2. bot.ever
    BY <2>1 DEF ConnectionCloses, Lost, GivesUp
  <2> QED BY <2>2 DEF BotInv, Entry, NotYet, BeenThere
<1> QED BY <1>1, BotInvariant, PTL DEF RunSpec, GivesUpInTime
=============================================================================
