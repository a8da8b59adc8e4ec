---------------------------- MODULE CombatProofs ----------------------------
(* Combat: CombatInv is inductive, and a tick ends with the server told.    *)
EXTENDS Combat, TLAPS

(* A step under way is a record of these, whatever it has asked.            *)
IsStep(s) == s \in [b : Bot, srv : Server, asks : {s.asks}, moved : BOOLEAN, plan : SUBSET Mobs]

(* What holds of the bot and the server at every point of a step.           *)
Control(b, srv) ==
    \A o \in Mobs : o \in srv.granted <=> b.mobs[o] # Gone /\ b.mobs[o].controlled
Bounded(b) ==
    /\ \A t \in Timers : b.since[t] <= Longest[t]
    /\ \A d \in On(b.drops) : b.drops[d].meso \/ ~b.filtered
Sane(b, srv) ==
    /\ Bounded(b) /\ srv.struck \subseteq Unnoted /\ ~srv.early
    /\ Control(b, srv) /\ Timely(b, srv)

(* Only at the end of a tick is a move of hunt_loop noted; what has moved   *)
(* plans no attack.                                                         *)
InStep(s) ==
    /\ IsStep(s) /\ Sane(s.b, s.srv) /\ Recorded(s.b, s.srv)
    /\ s.srv.how \in {"discover", "hunt"} => s.b.moving \/ s.moved
    /\ s.moved => s.plan = {}

Synced(b) == b.discovered => b.at = b.told

-----------------------------------------------------------------------------
LEMMA Numbers ==
    /\ Far \in Nat /\ Far > 0 /\ High \subseteq Spots /\ 0 \in High /\ 0 \in Spots
    /\ SpawnPortals \subseteq Spots /\ Landing \in Spots /\ Landing # 0
    /\ TeleportDelay \in Nat /\ AttackCooldown \in Nat /\ StandDelay \in Nat /\ RetryCooldown \in Nat
    /\ GatherInterval \in Nat /\ ReactorCooldown \in Nat /\ WakeDelay \in Nat /\ GatherStep \in Nat
    /\ MaxDropTries \in Nat /\ MaxDropTries > 0 /\ MaxEvents \in Nat
    /\ Corrected \notin Spots
BY CombatAssumption DEF Spots, Corrected

LEMMA Clocks ==
    /\ \A t \in Timers : Longest[t] \in Nat
    /\ Longest["teleport"] = TeleportDelay /\ AttackCooldown <= Longest["attack"]
BY Numbers DEF Timers, Longest

LEMMA GoneIsNoMob == Gone \notin Mob /\ \A m \in Mob : m.at \in Spots /\ m.controlled \in BOOLEAN
BY DEF Gone, Mob

LEMMA GoneIsNoDrop == Gone \notin Drop
BY DEF Gone, Drop

(* A stand changes what the server saw of the last move, and moving.        *)
LEMMA StandKeeps ==
    ASSUME NEW s, InStep(s)
    PROVE  LET r == StandStill(s)
           IN /\ InStep(r) /\ r.moved = s.moved /\ r.plan = s.plan
              /\ r.b = [s.b EXCEPT !.moving = FALSE]
              /\ r.srv = [s.srv EXCEPT !.at = s.b.at, !.how = IF s.b.at = s.b.told THEN "still" ELSE "astray"]
              /\ Synced(s.b) => Synced(r.b)
<1> DEFINE r == StandStill(s)
           way == IF s.b.at = s.b.told THEN "still" ELSE "astray"
           srv == [s.srv EXCEPT !.at = s.b.at, !.how = way]
           b == [s.b EXCEPT !.moving = FALSE]
<1>1. IsStep(s) /\ s.b \in Bot /\ s.srv \in Server
  BY DEF InStep, IsStep
<1>2. way \in {"still", "astray"}
  OBVIOUS
<1> HIDE DEF way
<1>3. Hear(s.srv, MoveTo(s.b.at, way)) = srv
  BY <1>1, <1>2 DEF Hear, MoveTo, Server
<1>4. r = [[s EXCEPT !.b = b] EXCEPT !.srv = srv]
  BY <1>1, <1>3 DEF StandStill, Send, IsStep, way
<1>5. srv \in Server /\ b \in Bot
  BY <1>1, <1>2 DEF Server, Bot, Ways
<1> HIDE DEF srv, b, r
<1>6. IsStep(r) /\ r.b = b /\ r.srv = srv /\ r.moved = s.moved /\ r.plan = s.plan
  BY <1>1, <1>4, <1>5 DEF IsStep
<1>7. Sane(b, srv)
  BY <1>1 DEF InStep, Sane, Bounded, Control, Timely, b, srv, Bot, Server
<1>8. Recorded(b, srv)
  BY <1>1 DEF InStep, Recorded, b, srv, way, Bot, Server, Unrecorded
<1>9. srv.how \notin {"discover", "hunt"}
  BY <1>1, <1>2 DEF srv, Server
<1>10. InStep(r)
  BY <1>6, <1>7, <1>8, <1>9 DEF InStep
<1>11. Synced(s.b) => Synced(b)
  BY <1>1 DEF Synced, b, Bot
<1> QED BY <1>6, <1>10, <1>11 DEF r, b, srv, way

(* A teleport moves both, and both know of it.                              *)
LEMMA TeleportKeeps ==
    ASSUME NEW s, InStep(s), NEW p \in Spots, NEW how \in {"seek", "hunt"}
    PROVE  LET r == TeleportTo(s, p, how)
           IN /\ IsStep(r) /\ Sane(r.b, r.srv) /\ Recorded(r.b, r.srv)
              /\ r.moved = s.moved /\ r.plan = s.plan
              /\ r.b.moving = s.b.moving
              /\ IF p = s.b.at THEN r = s ELSE r.srv.how = how
              /\ Synced(s.b) => Synced(r.b)
<1> DEFINE r == TeleportTo(s, p, how)
           srv == [s.srv EXCEPT !.at = p, !.how = how, !.calm = 0]
           b == [s.b EXCEPT !.at = p, !.told = p, !.since.teleport = 0]
<1>1. IsStep(s) /\ s.b \in Bot /\ s.srv \in Server
  BY DEF InStep, IsStep
<1>2. CASE p = s.b.at
  <2>1. r = s
    BY <1>2 DEF TeleportTo
  <2> QED BY <1>2, <2>1 DEF InStep
<1>3. CASE p # s.b.at
  <2>1. Hear(s.srv, MoveTo(p, how)) = srv
    <3> DEFINE m == MoveTo(p, how)
    <3>1. m.type = "move" /\ m.at = p /\ m.how = how /\ m.how \in {"hunt", "seek"}
      BY DEF MoveTo
    <3> HIDE DEF m
    <3>2. Hear(s.srv, m) = [s.srv EXCEPT !.at = p, !.how = how, !.calm = 0]
      BY <3>1 DEF Hear
    <3> QED BY <3>2 DEF m
  <2>2. r = [[s EXCEPT !.b = b] EXCEPT !.srv = srv]
    <3>1. [s EXCEPT !.b.at = p, !.b.told = p, !.b.since.teleport = 0] = [s EXCEPT !.b = b]
      BY <1>1 DEF IsStep, Bot
    <3>2. r = Send([s EXCEPT !.b.at = p, !.b.told = p, !.b.since.teleport = 0], MoveTo(p, how))
      BY <1>3, Zenon DEF TeleportTo
    <3>3. r = Send([s EXCEPT !.b = b], MoveTo(p, how))
      BY <3>1, <3>2
    <3> HIDE DEF b, r
    <3> QED BY <1>1, <2>1, <3>3 DEF Send, IsStep
  <2>3. srv \in Server /\ b \in Bot
    <3>1. 0 \in 0..TeleportDelay /\ how \in Ways
      BY Numbers DEF Ways
    <3>2. srv \in Server
      BY <1>1, <3>1 DEF Server
    <3>3. b \in Bot
      BY <1>1 DEF Bot, Timers
    <3> QED BY <3>2, <3>3
  <2>4. /\ b.at = p /\ b.told = p /\ b.since["teleport"] = 0 /\ b.since["attack"] = s.b.since["attack"]
        /\ b.mobs = s.b.mobs /\ b.drops = s.b.drops /\ b.filtered = s.b.filtered
        /\ b.moving = s.b.moving /\ b.discovered = s.b.discovered
        /\ \A t \in Timers : b.since[t] = s.b.since[t] \/ b.since[t] = 0
    BY <1>1 DEF Bot, Timers
  <2>5. /\ srv.at = p /\ srv.how = how /\ srv.calm = 0 /\ srv.pause = s.srv.pause
        /\ srv.struck = s.srv.struck /\ srv.early = s.srv.early /\ srv.granted = s.srv.granted
    BY <1>1 DEF Server
  <2> HIDE DEF srv, b, r
  <2>6. IsStep(r) /\ r.b = b /\ r.srv = srv /\ r.plan = s.plan /\ r.moved = s.moved
    BY <1>1, <2>2, <2>3 DEF IsStep
  <2>7. Sane(b, srv)
    BY <2>4, <2>5, Clocks DEF InStep, Sane, Bounded, Control, Timely
  <2>8. Recorded(b, srv)
    BY <2>4, <2>5 DEF Recorded
  <2>9. Synced(r.b)
    BY <2>4, <2>6 DEF Synced
  <2> QED BY <1>3, <2>4, <2>5, <2>6, <2>7, <2>8, <2>9 DEF r
<1> QED BY <1>2, <1>3

(* A step that changes neither what the server saw nor the clocks that pace *)
(* volleys, nor where the bot is or is told to be.                          *)
Quiet(s, r) ==
    /\ IsStep(r) /\ r.srv = s.srv /\ r.moved = s.moved /\ r.plan = s.plan
    /\ Bounded(r.b) /\ Control(r.b, r.srv)
    /\ r.b.since["teleport"] = s.b.since["teleport"] /\ r.b.since["attack"] = s.b.since["attack"]
    /\ r.b.moving = s.b.moving /\ r.b.at = s.b.at /\ r.b.told = s.b.told
    /\ r.b.discovered = s.b.discovered

LEMMA QuietKeeps ==
    ASSUME NEW s, InStep(s), NEW r, Quiet(s, r)
    PROVE  InStep(r) /\ r.moved = s.moved /\ r.plan = s.plan /\ (Synced(s.b) => Synced(r.b))
<1>1. Sane(r.b, r.srv) /\ Recorded(r.b, r.srv)
  BY DEF InStep, Sane, Timely, Recorded, Quiet
<1>2. InStep(r)
  BY <1>1 DEF InStep, Quiet
<1> QED BY <1>2 DEF Quiet, Synced

LEMMA AskKeeps ==
    ASSUME NEW s, IsStep(s), NEW b \in Bot, NEW asks
    PROVE  LET r == Ask([s EXCEPT !.b = b], asks)
           IN IsStep(r) /\ r.b = b /\ r.srv = s.srv /\ r.moved = s.moved /\ r.plan = s.plan
BY DEF IsStep, Ask

(* A volley leaves standing, and when both clocks allow it.                 *)
LEMMA VolleyKeeps ==
    ASSUME NEW s, InStep(s), ~s.moved, NEW targets,
           s.b.since.attack >= AttackCooldown, CanTeleport(s.b)
    PROVE  LET r == Volley(s, targets)
           IN InStep(r) /\ r.moved = s.moved /\ r.plan = s.plan /\ (Synced(s.b) => Synced(r.b))
<1> DEFINE t == IF s.b.moving THEN StandStill(s) ELSE s
           srv == [t.srv EXCEPT !.struck = @ \cup ({t.srv.how} \ Standing),
                                !.early = @ \/ t.srv.calm < TeleportDelay \/ t.srv.pause < AttackCooldown,
                                !.hit = ~@, !.pause = 0]
           b == [t.b EXCEPT !.since.attack = 0]
           r == Volley(s, targets)
<1>1. s.b \in Bot /\ IsStep(s)
  BY DEF InStep, IsStep
<1>2. /\ InStep(t) /\ t.moved = s.moved /\ t.plan = s.plan /\ (Synced(s.b) => Synced(t.b))
      /\ t.b.since = s.b.since /\ t.srv.how \notin {"discover", "hunt"}
  <2>1. CASE s.b.moving
    <3>1. t.b = [s.b EXCEPT !.moving = FALSE] /\ InStep(t) /\ t.moved = s.moved /\ t.plan = s.plan
          /\ (Synced(s.b) => Synced(t.b))
      BY <2>1, StandKeeps
    <3>2. ~t.b.moving /\ t.b.since = s.b.since
      BY <1>1, <3>1 DEF Bot
    <3> HIDE DEF t
    <3> QED BY <3>1, <3>2 DEF InStep
  <2>2. CASE ~s.b.moving
    BY <2>2 DEF InStep
  <2> QED BY <2>1, <2>2
<1> HIDE DEF t
<1>3. t.b \in Bot /\ t.srv \in Server /\ IsStep(t)
  BY <1>2 DEF InStep, IsStep
<1>4. ~(t.srv.calm < TeleportDelay) /\ ~(t.srv.pause < AttackCooldown)
  <2>1. t.b.since["attack"] >= AttackCooldown /\ t.b.since["teleport"] >= TeleportDelay
        /\ t.b.since["attack"] \in Nat /\ t.b.since["teleport"] \in Nat
        /\ t.srv.calm \in Nat /\ t.srv.pause \in Nat
    BY <1>2, <1>3, Numbers DEF CanTeleport, Bot, Timers, Server
  <2>2. Timely(t.b, t.srv)
    BY <1>2 DEF InStep, Sane
  <2> QED BY <2>1, <2>2, Numbers DEF Timely
<1>5. srv \in Server /\ b \in Bot
  <2>1. 0 \in 0..AttackCooldown
    BY Numbers
  <2>2. t.srv.how \in Ways
    BY <1>3 DEF Server
  <2>3. srv \in Server
    BY <1>3, <2>1, <2>2 DEF Server
  <2>4. b \in Bot
    BY <1>3 DEF Bot, Timers
  <2> QED BY <2>3, <2>4
<1>6. Hear(t.srv, Hit(targets)) = srv
  BY DEF Hear, Hit
<1>7. r = [[t EXCEPT !.srv = srv] EXCEPT !.b = b]
  <2>1. r = [Send(t, Hit(targets)) EXCEPT !.b.since.attack = 0]
    BY DEF Volley, t
  <2>2. Send(t, Hit(targets)) = [t EXCEPT !.srv = srv]
    BY <1>6 DEF Send
  <2>3. [t EXCEPT !.srv = srv].b = t.b
    BY <1>3 DEF IsStep
  <2> HIDE DEF srv, r
  <2> QED BY <2>1, <2>2, <2>3
<1>8. /\ srv.struck = t.srv.struck \cup ({t.srv.how} \ Standing) /\ srv.granted = t.srv.granted
      /\ srv.calm = t.srv.calm /\ srv.pause = 0 /\ srv.how = t.srv.how /\ srv.at = t.srv.at
  BY <1>3 DEF Server
<1>9. ~srv.early
  <2>1. ~t.srv.early
    BY <1>2 DEF InStep, Sane
  <2> QED BY <1>3, <1>4, <2>1 DEF Server
<1>10. /\ b.at = t.b.at /\ b.told = t.b.told /\ b.discovered = t.b.discovered /\ b.moving = t.b.moving
       /\ b.mobs = t.b.mobs /\ b.drops = t.b.drops /\ b.filtered = t.b.filtered
       /\ b.since["teleport"] = t.b.since["teleport"] /\ b.since["attack"] = 0
       /\ \A x \in Timers : b.since[x] = t.b.since[x] \/ b.since[x] = 0
  BY <1>3 DEF Bot, Timers
<1> HIDE DEF srv, b, r
<1>11. IsStep(r) /\ r.b = b /\ r.srv = srv /\ r.moved = t.moved /\ r.plan = t.plan
  BY <1>3, <1>5, <1>7 DEF IsStep
<1>12. srv.struck \subseteq Unnoted
  <2>1. t.srv.struck \subseteq Unnoted
    BY <1>2 DEF InStep, Sane
  <2>2. t.srv.how \in Ways
    BY <1>3 DEF Server
  <2> QED BY <1>2, <1>8, <2>1, <2>2 DEF Unnoted, Ways, Standing
<1>13. Sane(b, srv)
  <2>1. Bounded(b)
    BY <1>2, <1>10, Clocks DEF InStep, Sane, Bounded
  <2>2. Control(b, srv)
    BY <1>2, <1>8, <1>10 DEF InStep, Sane, Control
  <2>3. Timely(b, srv)
    BY <1>2, <1>8, <1>10 DEF InStep, Sane, Timely
  <2> QED BY <1>9, <1>12, <2>1, <2>2, <2>3 DEF Sane
<1>14. Recorded(b, srv)
  BY <1>2, <1>8, <1>10 DEF InStep, Recorded
<1>15. InStep(r)
  BY <1>2, <1>8, <1>11, <1>13, <1>14 DEF InStep
<1> QED BY <1>2, <1>10, <1>11, <1>15 DEF r, Synced

LEMMA NearestType ==
    ASSUME NEW b \in Bot, NEW n
    PROVE  /\ NearestOf(b, Pool(b), n) \subseteq Pool(b) /\ Pool(b) \subseteq Mobs
           /\ \A o \in Pool(b) : b.mobs[o] # Gone /\ b.mobs[o].at \in Spots
           /\ InRange(b) \subseteq Mobs /\ FirstOf(InRange(b), n) \subseteq Mobs
<1>1. NearestOf(b, Pool(b), n) \subseteq Pool(b)
  BY DEF NearestOf
<1>2. Pool(b) \subseteq Mobs /\ \A o \in Pool(b) : b.mobs[o] # Gone
  BY DEF Pool, On, Bot
<1>3. \A o \in Pool(b) : b.mobs[o].at \in Spots
  BY <1>2 DEF Bot, Mob
<1>4. InRange(b) \subseteq Mobs /\ FirstOf(InRange(b), n) \subseteq Mobs
  BY <1>2 DEF InRange, FirstOf
<1> QED BY <1>1, <1>2, <1>3, <1>4

LEMMA HuntOnceKeeps ==
    ASSUME NEW s, InStep(s), ~s.moved
    PROVE  LET r == HuntOnce(s)
           IN InStep(r) /\ r.moved = s.moved /\ r.plan = s.plan /\ (Synced(s.b) => Synced(r.b))
<1> DEFINE targets == NearestOf(s.b, InRange(s.b), MaxTargets)
           nearest == NearestOf(s.b, Pool(s.b), 1)
           still   == IF s.b.moving THEN StandStill(s) ELSE s
           r == HuntOnce(s)
           Kept == InStep(r) /\ r.moved = s.moved /\ r.plan = s.plan /\ (Synced(s.b) => Synced(r.b))
<1>1. s.b \in Bot /\ s.b.since.attack \in Nat
  BY DEF InStep, IsStep, Bot, Timers
<1>2. CASE s.b.since.attack < AttackCooldown \/ ~CanTeleport(s.b)
  <2>1. r = s
    BY <1>2 DEF HuntOnce
  <2> QED BY <2>1
<1>3. CASE ~(s.b.since.attack < AttackCooldown \/ ~CanTeleport(s.b)) /\ targets = {}
  <2>1. CASE nearest = {}
    <3>1. r = s
      BY <1>3, <2>1 DEF HuntOnce
    <3> QED BY <3>1
  <2>2. CASE nearest # {}
    <3> DEFINE p == s.b.mobs[CHOOSE o \in nearest : TRUE].at
    <3>1. p \in Spots
      BY <1>1, <2>2, NearestType
    <3>2. r = TeleportTo(s, p, "seek")
      BY <1>3, <2>2 DEF HuntOnce
    <3> HIDE DEF p, r
    <3>3. /\ IsStep(r) /\ Sane(r.b, r.srv) /\ Recorded(r.b, r.srv)
          /\ r.moved = s.moved /\ r.plan = s.plan
          /\ IF p = s.b.at THEN r = s ELSE r.srv.how = "seek"
          /\ Synced(s.b) => Synced(r.b)
      BY <3>1, <3>2, TeleportKeeps
    <3>4. InStep(r)
      BY <3>3 DEF InStep
    <3> QED BY <3>3, <3>4 DEF r
  <2> QED BY <2>1, <2>2
<1>4. CASE ~(s.b.since.attack < AttackCooldown \/ ~CanTeleport(s.b)) /\ targets # {}
  <2>1. CASE s.b.skill /\ ~s.b.mana
    <3>1. r = still
      BY <1>4, <2>1 DEF HuntOnce
    <3>2. CASE s.b.moving
      BY <3>1, <3>2, StandKeeps
    <3>3. CASE ~s.b.moving
      BY <3>1, <3>3
    <3> QED BY <3>2, <3>3
  <2>2. CASE ~(s.b.skill /\ ~s.b.mana)
    <3>1. r = Volley(s, targets)
      BY <1>4, <2>2 DEF HuntOnce
    <3>2. s.b.since.attack >= AttackCooldown /\ CanTeleport(s.b)
      BY <1>1, <1>4, Numbers
    <3> HIDE DEF targets, r
    <3>3. InStep(r) /\ r.moved = s.moved /\ r.plan = s.plan /\ (Synced(s.b) => Synced(r.b))
      BY <3>1, <3>2, VolleyKeeps
    <3> QED BY <3>3 DEF r
  <2> QED BY <2>1, <2>2
<1> QED BY <1>2, <1>3, <1>4

(* hunt_loop's jump: noted at the end of the tick, see Settle.              *)
LEMMA SeekKeeps ==
    ASSUME NEW s, InStep(s), s.plan = {}, ~s.moved, NEW p \in Spots
    PROVE  LET r == Seek(s, p) IN InStep(r) /\ r.plan = s.plan /\ (Synced(s.b) => Synced(r.b))
<1> DEFINE t == TeleportTo(s, p, "hunt")
           r == [t EXCEPT !.moved = p # s.b.at]
<1>1. CASE ~CanTeleport(s.b)
  BY <1>1 DEF Seek
<1>2. CASE CanTeleport(s.b)
  <2>1. /\ IsStep(t) /\ Sane(t.b, t.srv) /\ Recorded(t.b, t.srv)
        /\ t.moved = s.moved /\ t.plan = s.plan
        /\ IF p = s.b.at THEN t = s ELSE t.srv.how = "hunt"
        /\ Synced(s.b) => Synced(t.b)
    BY TeleportKeeps
  <2> HIDE DEF t
  <2>2. CASE p = s.b.at
    <3>1. t = s /\ r = [s EXCEPT !.moved = FALSE] /\ s.moved = FALSE
      BY <2>1, <2>2 DEF InStep, IsStep
    <3>2. r = s
      BY <2>1, <3>1 DEF IsStep
    <3> QED BY <1>2, <3>2 DEF Seek, t
  <2>3. CASE p # s.b.at
    <3>1. r = [t EXCEPT !.moved = TRUE]
      BY <2>3
    <3> HIDE DEF r
    <3>2. IsStep(r) /\ r.b = t.b /\ r.srv = t.srv /\ r.plan = t.plan /\ r.moved = TRUE
      BY <2>1, <3>1 DEF IsStep
    <3>3. InStep(r)
      BY <2>1, <3>2 DEF InStep
    <3> QED BY <1>2, <2>1, <3>2, <3>3 DEF Seek, t, r
  <2> QED BY <2>2, <2>3
<1> QED BY <1>1, <1>2

LEMMA HuntLoopKeeps ==
    ASSUME NEW s, InStep(s), s.plan = {}, ~s.moved
    PROVE  LET r == HuntLoop(s) IN InStep(r) /\ (Synced(s.b) => Synced(r.b))
<1> DEFINE b == s.b
           nearest == NearestOf(b, Pool(b), 1)
           r == HuntLoop(s)
<1>1. s.b \in Bot /\ IsStep(s)
  BY DEF InStep, IsStep
<1>2. CASE InRange(b) # {}
  <2>1. CASE b.skill /\ ~b.mana
    <3>1. r = s
      BY <1>2, <2>1 DEF HuntLoop
    <3> QED BY <3>1
  <2>2. CASE ~(b.skill /\ ~b.mana)
    <3> DEFINE plan == FirstOf(InRange(b), MaxTargets)
    <3>1. r = [s EXCEPT !.plan = plan]
      BY <1>2, <2>2 DEF HuntLoop
    <3>2. plan \subseteq Mobs
      BY <1>1, NearestType
    <3> HIDE DEF plan, r
    <3>3. IsStep(r) /\ r.b = s.b /\ r.srv = s.srv /\ r.moved = s.moved
      BY <1>1, <3>1, <3>2 DEF IsStep
    <3>4. InStep(r)
      BY <3>3 DEF InStep
    <3> QED BY <3>3, <3>4 DEF r
  <2> QED BY <2>1, <2>2
<1>3. CASE InRange(b) = {} /\ ~b.stand /\ nearest # {}
  <2> DEFINE p == b.mobs[CHOOSE o \in nearest : TRUE].at
  <2>1. p \in Spots
    BY <1>1, <1>3, NearestType
  <2>2. r = Seek(s, p)
    BY <1>3 DEF HuntLoop
  <2> HIDE DEF p, r
  <2> QED BY <2>1, <2>2, SeekKeeps DEF r
<1>4. CASE InRange(b) = {} /\ ~b.stand /\ nearest = {} /\ FarDrops(b) # {}
  <2> DEFINE d == CHOOSE d \in FarDrops(b) : TRUE
             p == b.drops[d].at
  <2>1. d \in Drops /\ b.drops[d] # Gone
    BY <1>1, <1>4 DEF FarDrops, On, Bot
  <2>2. p \in Spots
    BY <1>1, <2>1 DEF Bot, Drop
  <2>3. r = Seek(s, p)
    BY <1>3, <1>4 DEF HuntLoop
  <2> HIDE DEF p, r
  <2> QED BY <2>2, <2>3, SeekKeeps DEF r
<1>5. CASE InRange(b) = {} /\ (b.stand \/ (nearest = {} /\ FarDrops(b) = {}))
  <2>1. r = s
    BY <1>5 DEF HuntLoop
  <2> QED BY <2>1
<1> QED BY <1>2, <1>3, <1>4, <1>5

LEMMA AttackKeeps ==
    ASSUME NEW s, InStep(s)
    PROVE  LET r == Attack(s) IN InStep(r) /\ (Synced(s.b) => Synced(r.b))
<1>1. CASE s.plan # {} /\ s.b.since.attack >= AttackCooldown /\ CanTeleport(s.b)
  <2>1. ~s.moved /\ Attack(s) = Volley(s, s.plan)
    BY <1>1 DEF InStep, Attack
  <2> QED BY <1>1, <2>1, VolleyKeeps
<1>2. CASE ~(s.plan # {} /\ s.b.since.attack >= AttackCooldown /\ CanTeleport(s.b))
  BY <1>2 DEF Attack
<1> QED BY <1>1, <1>2

(* At the end of a tick a move under way is one the bot has noted.          *)
LEMMA SettleKeeps ==
    ASSUME NEW s, InStep(s)
    PROVE  LET r == Settle(s)
           IN InStep(r) /\ Noted(r.b, r.srv) /\ (Synced(s.b) => Synced(r.b))
<1>1. IsStep(s) /\ s.b \in Bot
  BY DEF InStep, IsStep
<1>2. CASE s.moved
  <2> DEFINE b == [s.b EXCEPT !.moving = TRUE]
             r == [s EXCEPT !.b = b]
  <2>1. Settle(s) = r
    BY <1>2 DEF Settle
  <2>2. /\ b \in Bot /\ b.moving /\ b.at = s.b.at /\ b.told = s.b.told /\ b.discovered = s.b.discovered
        /\ b.since = s.b.since /\ b.mobs = s.b.mobs /\ b.drops = s.b.drops /\ b.filtered = s.b.filtered
    BY <1>1 DEF Bot
  <2> HIDE DEF b
  <2>3. IsStep(r) /\ r.b = b /\ r.srv = s.srv /\ r.moved = s.moved /\ r.plan = s.plan
    BY <1>1, <2>2 DEF IsStep
  <2> HIDE DEF r
  <2>4. Sane(b, s.srv) /\ Recorded(b, s.srv)
    BY <2>2 DEF InStep, Sane, Bounded, Control, Timely, Recorded
  <2>5. InStep(r) /\ Noted(r.b, r.srv)
    BY <2>2, <2>3, <2>4 DEF InStep, Noted
  <2> QED BY <2>1, <2>2, <2>3, <2>5 DEF Synced
<1>3. CASE ~s.moved /\ (s.b.moving /\ s.b.discovered /\ s.b.since.attack >= StandDelay)
  <2> DEFINE r == StandStill(s)
  <2>1. Settle(s) = r
    BY <1>3 DEF Settle
  <2>2. InStep(r) /\ r.moved = s.moved /\ (Synced(s.b) => Synced(r.b))
    BY StandKeeps
  <2>3. Noted(r.b, r.srv)
    BY <1>3, <2>2 DEF InStep, Noted
  <2> QED BY <2>1, <2>2, <2>3
<1>4. CASE ~s.moved /\ ~(s.b.moving /\ s.b.discovered /\ s.b.since.attack >= StandDelay)
  BY <1>4 DEF Settle, InStep, Noted
<1> QED BY <1>2, <1>3, <1>4

-----------------------------------------------------------------------------
(* The stages that only ask.                                                *)
LEMMA TowardsType ==
    ASSUME NEW p \in Spots, NEW q \in Spots
    PROVE  Towards(p, q) \in Spots
<1>1. Far \in Nat /\ GatherStep \in Nat /\ p \in 0..Far /\ q \in 0..Far
  BY Numbers DEF Spots
<1>2. CASE GatherStep = 0 \/ Distance(p, q) <= GatherStep
  BY <1>2 DEF Towards
<1>3. CASE ~(GatherStep = 0 \/ Distance(p, q) <= GatherStep) /\ p < q
  <2>1. Towards(p, q) = p + GatherStep
    BY <1>3 DEF Towards
  <2> QED BY <1>1, <1>3, <2>1 DEF Distance, Spots
<1>4. CASE ~(GatherStep = 0 \/ Distance(p, q) <= GatherStep) /\ ~(p < q)
  <2>1. Towards(p, q) = p - GatherStep
    BY <1>4 DEF Towards
  <2> QED BY <1>1, <1>4, <2>1 DEF Distance, Spots
<1> QED BY <1>2, <1>3, <1>4

LEMMA GatherKeeps ==
    ASSUME NEW s, InStep(s)
    PROVE  LET r == Gather(s)
           IN InStep(r) /\ r.moved = s.moved /\ r.plan = s.plan /\ (Synced(s.b) => Synced(r.b))
<1> DEFINE r == Gather(s)
           pulled == {o \in On(s.b.mobs) : /\ s.b.pullmine => s.b.mobs[o].controlled
                                           /\ Distance(s.b.mobs[o].at, s.b.at) > AttackRange}
           asks == {Pull(o, s.b.ids[o] + 1) : o \in pulled}
           ids == [o \in Mobs |-> IF o \in pulled THEN s.b.ids[o] + 1 ELSE s.b.ids[o]]
           mobs == [o \in Mobs |-> IF o \in pulled
                                   THEN [s.b.mobs[o] EXCEPT !.at = Towards(@, s.b.at)] ELSE s.b.mobs[o]]
           b == [s.b EXCEPT !.ids = ids, !.mobs = mobs, !.since.gather = 0]
<1>1. s.b \in Bot /\ IsStep(s)
  BY DEF InStep, IsStep
<1>2. CASE ~s.b.gather \/ s.b.since.gather < GatherInterval
  <2>1. r = s
    BY <1>2 DEF Gather
  <2> QED BY <2>1
<1>3. CASE ~(~s.b.gather \/ s.b.since.gather < GatherInterval)
  <2>1. pulled \subseteq Mobs /\ \A o \in pulled : s.b.mobs[o] \in Mob
    BY <1>1 DEF On, Bot
  <2>2. r = Ask([s EXCEPT !.b.ids = ids, !.b.mobs = mobs, !.b.since.gather = 0], asks)
    BY <1>3 DEF Gather
  <2>3. ids \in [Mobs -> Nat]
    BY <1>1 DEF Bot
  <2>4. \A o \in Mobs : mobs[o] = IF o \in pulled THEN [s.b.mobs[o] EXCEPT !.at = Towards(@, s.b.at)]
                                   ELSE s.b.mobs[o]
    OBVIOUS
  <2>5. \A o \in Mobs : IF o \in pulled
                        THEN mobs[o] \in Mob /\ mobs[o].controlled = s.b.mobs[o].controlled
                        ELSE mobs[o] = s.b.mobs[o]
    <3> SUFFICES ASSUME NEW o \in pulled
                 PROVE  mobs[o] \in Mob /\ mobs[o].controlled = s.b.mobs[o].controlled
      BY <2>4
    <3>1. s.b.mobs[o] \in Mob /\ s.b.at \in Spots
      BY <1>1, <2>1 DEF Bot
    <3>2. Towards(s.b.mobs[o].at, s.b.at) \in Spots
      BY <3>1, TowardsType DEF Mob
    <3>3. mobs[o] = [s.b.mobs[o] EXCEPT !.at = Towards(s.b.mobs[o].at, s.b.at)]
      BY <2>1, <2>4
    <3> QED BY <3>1, <3>2, <3>3 DEF Mob
  <2>6. mobs \in [Mobs -> Mob \cup {Gone}]
    <3>1. \A o \in Mobs : mobs[o] \in Mob \cup {Gone}
      BY <1>1, <2>5 DEF Bot
    <3> QED BY <3>1
  <2> HIDE DEF pulled, asks, ids, mobs
  <2>7. /\ b \in Bot /\ b.at = s.b.at /\ b.told = s.b.told /\ b.discovered = s.b.discovered
        /\ b.moving = s.b.moving /\ b.drops = s.b.drops /\ b.filtered = s.b.filtered
        /\ b.since["teleport"] = s.b.since["teleport"] /\ b.since["attack"] = s.b.since["attack"]
        /\ b.mobs = mobs
    BY <1>1, <2>3, <2>6 DEF Bot, Timers
  <2>8. \A t \in Timers : b.since[t] = s.b.since[t] \/ b.since[t] = 0
    BY <1>1 DEF Bot, Timers
  <2>9. [s EXCEPT !.b.ids = ids, !.b.mobs = mobs, !.b.since.gather = 0] = [s EXCEPT !.b = b]
    BY <1>1 DEF IsStep, Bot
  <2> HIDE DEF b, r
  <2>10. Bounded(b)
    BY <2>7, <2>8, Clocks DEF InStep, Sane, Bounded
  <2>11. Control(b, s.srv)
    BY <2>1, <2>5, <2>7, GoneIsNoMob DEF InStep, Sane, Control
  <2>12. IsStep(r) /\ r.b = b /\ r.srv = s.srv /\ r.moved = s.moved /\ r.plan = s.plan
    BY <1>1, <2>2, <2>7, <2>9, AskKeeps
  <2>13. Quiet(s, r)
    BY <2>7, <2>10, <2>11, <2>12 DEF Quiet
  <2> QED BY <2>13, QuietKeeps DEF r
<1> QED BY <1>2, <1>3

LEMMA FarmReactorsKeeps ==
    ASSUME NEW s, InStep(s)
    PROVE  LET r == FarmReactors(s)
           IN InStep(r) /\ r.moved = s.moved /\ r.plan = s.plan /\ (Synced(s.b) => Synced(r.b))
<1> DEFINE takes == {Take(d) : d \in On(s.b.drops)}
           taken == Ask(s, takes)
           b == [s.b EXCEPT !.since.reactor = 0]
           breaks == {Break(x) : x \in taken.b.reactors}
           r == FarmReactors(s)
<1>1. s.b \in Bot /\ IsStep(s) /\ Bounded(s.b) /\ Control(s.b, s.srv)
  BY DEF InStep, IsStep, Sane
<1> HIDE DEF takes
<1>2. IsStep(taken) /\ taken.b = s.b /\ taken.srv = s.srv /\ taken.moved = s.moved /\ taken.plan = s.plan
  BY <1>1 DEF IsStep, Ask
<1>3. CASE s.b.since.reactor < ReactorCooldown
  <2>1. r = taken
    BY <1>3 DEF FarmReactors, takes
  <2> HIDE DEF taken, r
  <2>2. Quiet(s, r)
    BY <1>1, <1>2, <2>1 DEF Quiet
  <2> QED BY <2>2, QuietKeeps DEF r
<1>4. CASE ~(s.b.since.reactor < ReactorCooldown)
  <2>1. r = Ask([taken EXCEPT !.b.since.reactor = 0], {Break(x) : x \in s.b.reactors})
    BY <1>4 DEF FarmReactors, takes
  <2> HIDE DEF taken, breaks, r
  <2>2. [taken EXCEPT !.b.since.reactor = 0] = [taken EXCEPT !.b = b]
    BY <1>1, <1>2 DEF IsStep, Bot
  <2>3. /\ b \in Bot /\ b.at = s.b.at /\ b.told = s.b.told /\ b.discovered = s.b.discovered
        /\ b.moving = s.b.moving /\ b.drops = s.b.drops /\ b.filtered = s.b.filtered
        /\ b.since["teleport"] = s.b.since["teleport"] /\ b.since["attack"] = s.b.since["attack"]
        /\ b.mobs = s.b.mobs
    BY <1>1 DEF Bot, Timers
  <2>4. \A t \in Timers : b.since[t] = s.b.since[t] \/ b.since[t] = 0
    BY <1>1 DEF Bot, Timers
  <2> HIDE DEF b
  <2>5. Bounded(b) /\ Control(b, s.srv)
    BY <1>1, <2>3, <2>4, Clocks DEF Bounded, Control
  <2>6. IsStep(r) /\ r.b = b /\ r.srv = taken.srv /\ r.moved = taken.moved /\ r.plan = taken.plan
    BY <1>2, <2>1, <2>2, <2>3, AskKeeps
  <2>7. Quiet(s, r)
    BY <1>2, <2>3, <2>5, <2>6 DEF Quiet
  <2> QED BY <2>7, QuietKeeps DEF r
<1> QED BY <1>3, <1>4

(* A drop given up is gone; one tried is what it was, tried once more.      *)
LEMMA PickupKeeps ==
    ASSUME NEW s, InStep(s)
    PROVE  LET r == Pickup(s)
           IN InStep(r) /\ r.moved = s.moved /\ r.plan = s.plan /\ (Synced(s.b) => Synced(r.b))
<1> DEFINE r == Pickup(s)
           tried == {d \in On(s.b.drops) : /\ Distance(s.b.drops[d].at, s.b.at) <= PickupRange
                                           /\ s.b.drops[d].rest = 0}
           last == {d \in tried : s.b.drops[d].tries + 1 >= MaxDropTries}
           asks == {Take(d) : d \in tried \ last}
           After(d) == CASE d \in last  -> Gone
                         [] d \in tried \ last -> [s.b.drops[d] EXCEPT !.tries = @ + 1, !.rest = RetryCooldown]
                         [] OTHER -> s.b.drops[d]
           drops == [d \in Drops |-> After(d)]
           b == [s.b EXCEPT !.drops = drops]
<1>1. s.b \in Bot /\ IsStep(s) /\ Bounded(s.b) /\ Control(s.b, s.srv)
  BY DEF InStep, IsStep, Sane
<1>2. CASE ~s.b.pickup
  <2>1. r = s
    BY <1>2 DEF Pickup
  <2> QED BY <2>1
<1>3. CASE s.b.pickup
  <2>1. r = Ask([s EXCEPT !.b.drops = drops], asks)
    <3>1. [s EXCEPT !.b.drops = [d \in Drops |->
                         CASE d \in last  -> Gone
                           [] d \in tried \ last -> [@[d] EXCEPT !.tries = @ + 1,
                                                                 !.rest = RetryCooldown]
                           [] OTHER -> @[d]]] = [s EXCEPT !.b.drops = drops]
      BY <1>1 DEF IsStep, Bot
    <3> QED BY <1>3, <3>1 DEF Pickup
  <2>2. tried \subseteq Drops /\ last \subseteq tried /\ \A d \in tried : s.b.drops[d] \in Drop
    BY <1>1 DEF On, Bot
  <2>3. \A d \in Drops : drops[d] = IF d \in last THEN Gone
                                    ELSE IF d \in tried
                                    THEN [s.b.drops[d] EXCEPT !.tries = @ + 1, !.rest = RetryCooldown]
                                    ELSE s.b.drops[d]
    BY <2>2
  <2>4. \A d \in tried \ last : drops[d] \in Drop /\ drops[d].meso = s.b.drops[d].meso
    <3> SUFFICES ASSUME NEW d \in tried \ last
                 PROVE  drops[d] \in Drop /\ drops[d].meso = s.b.drops[d].meso
      OBVIOUS
    <3>1. s.b.drops[d] \in Drop /\ drops[d] = [s.b.drops[d] EXCEPT !.tries = @ + 1, !.rest = RetryCooldown]
      BY <2>2, <2>3
    <3>2. s.b.drops[d].tries + 1 \in 0..MaxDropTries /\ RetryCooldown \in 0..RetryCooldown
      <4>1. s.b.drops[d].tries \in Nat
        <5>1. s.b.drops[d] \in Drop
          BY <3>1
        <5>2. \A x \in Drop : x.tries \in 0..MaxDropTries
          BY DEF Drop
        <5>3. s.b.drops[d].tries \in 0..MaxDropTries
          BY ONLY <5>1, <5>2
        <5> QED BY ONLY <5>3, Numbers
      <4>2. ~(s.b.drops[d].tries + 1 >= MaxDropTries)
        OBVIOUS
      <4> QED BY ONLY <4>1, <4>2, Numbers
    <3> HIDE DEF drops, tried, last
    <3> QED BY <3>1, <3>2 DEF Drop
  <2> HIDE DEF tried, last, asks, drops
  <2>5. drops \in [Drops -> Drop \cup {Gone}]
    <3>1. \A d \in Drops : drops[d] \in Drop \cup {Gone}
      BY <1>1, <2>3, <2>4 DEF Bot
    <3> QED BY <3>1 DEF drops
  <2>6. /\ b \in Bot /\ b.at = s.b.at /\ b.told = s.b.told /\ b.discovered = s.b.discovered
        /\ b.moving = s.b.moving /\ b.mobs = s.b.mobs /\ b.filtered = s.b.filtered
        /\ b.since = s.b.since /\ b.drops = drops
    BY <1>1, <2>5 DEF Bot
  <2>7. [s EXCEPT !.b.drops = drops] = [s EXCEPT !.b = b]
    BY <1>1 DEF IsStep
  <2> HIDE DEF b, r
  <2>8. \A d \in On(drops) : drops[d].meso \/ ~s.b.filtered
    <3> SUFFICES ASSUME NEW d \in On(drops) PROVE drops[d].meso \/ ~s.b.filtered
      OBVIOUS
    <3>1. d \in Drops /\ drops[d] # Gone
      BY <2>5 DEF On
    <3>2. CASE d \in tried \ last
      <4>1. d \in On(s.b.drops)
        BY <3>2 DEF tried
      <4> QED BY <1>1, <2>4, <3>2, <4>1 DEF Bounded
    <3>3. CASE d \notin tried
      <4>1. drops[d] = s.b.drops[d] /\ d \in On(s.b.drops)
        BY <1>1, <2>2, <2>3, <3>1, <3>3 DEF On, Bot
      <4> QED BY <1>1, <4>1 DEF Bounded
    <3> QED BY <2>3, <3>1, <3>2, <3>3
  <2>9. Bounded(b) /\ Control(b, s.srv)
    BY <1>1, <2>6, <2>8 DEF Bounded, Control
  <2>10. IsStep(r) /\ r.b = b /\ r.srv = s.srv /\ r.moved = s.moved /\ r.plan = s.plan
    BY <1>1, <2>1, <2>6, <2>7, AskKeeps
  <2>11. Quiet(s, r)
    BY <2>6, <2>9, <2>10 DEF Quiet
  <2> QED BY <2>11, QuietKeeps DEF r
<1> QED BY <1>2, <1>3

-----------------------------------------------------------------------------
(* The first move of a map is recorded and noted, whatever is sent of it.   *)
Placed(b, p, g) == [b EXCEPT !.at = p, !.told = p, !.discovered = TRUE, !.moving = TRUE, !.ground = g]
Arrived(s, p, sent, g) ==
    [[s EXCEPT !.b = Placed(s.b, p, g)] EXCEPT !.srv = [s.srv EXCEPT !.at = sent, !.how = "discover"]]

LEMMA MovedKeeps ==
    ASSUME NEW s, InStep(s), NEW p \in Spots, NEW sent, sent = p \/ (sent = Corrected /\ p \in High),
           NEW g \in BOOLEAN
    PROVE  LET r == Arrived(s, p, sent, g)
           IN InStep(r) /\ r.moved = s.moved /\ r.plan = s.plan /\ Synced(r.b)
<1> DEFINE b == Placed(s.b, p, g)
           srv == [s.srv EXCEPT !.at = sent, !.how = "discover"]
           r == Arrived(s, p, sent, g)
<1>1. s.b \in Bot /\ s.srv \in Server /\ IsStep(s)
  BY DEF InStep, IsStep
<1>3. /\ b \in Bot /\ b.at = p /\ b.told = p /\ b.discovered /\ b.moving
      /\ b.since = s.b.since /\ b.mobs = s.b.mobs /\ b.drops = s.b.drops /\ b.filtered = s.b.filtered
  BY <1>1 DEF Placed, Bot
<1>4. /\ srv \in Server /\ srv.at = sent /\ srv.how = "discover" /\ srv.calm = s.srv.calm
      /\ srv.pause = s.srv.pause /\ srv.struck = s.srv.struck /\ srv.early = s.srv.early
      /\ srv.granted = s.srv.granted
  <2>1. sent \in Spots \cup {Corrected} /\ "discover" \in Ways
    BY DEF Ways
  <2> QED BY <1>1, <2>1 DEF Server
<1>5. r = [[s EXCEPT !.b = b] EXCEPT !.srv = srv]
  BY DEF Arrived
<1> HIDE DEF b, srv, r
<1>9. IsStep(r) /\ r.b = b /\ r.srv = srv /\ r.moved = s.moved /\ r.plan = s.plan
  BY <1>1, <1>3, <1>4, <1>5 DEF IsStep
<1>6. Sane(b, srv)
  BY <1>3, <1>4 DEF InStep, Sane, Bounded, Control, Timely
<1>7. Recorded(b, srv)
  BY <1>3, <1>4 DEF Recorded
<1>8. InStep(r)
  BY <1>3, <1>4, <1>6, <1>7, <1>9 DEF InStep
<1> QED BY <1>3, <1>8, <1>9 DEF Synced, r

LEMMA HearMove ==
    ASSUME NEW srv \in Server, NEW p
    PROVE  Hear(srv, MoveTo(p, "discover")) = [srv EXCEPT !.at = p, !.how = "discover"]
BY DEF Hear, MoveTo, Server

LEMMA DiscoverKeeps ==
    ASSUME NEW s, InStep(s)
    PROVE  LET r == Discover(s)
           IN InStep(r) /\ r.moved = s.moved /\ r.plan = s.plan /\ (Synced(s.b) => Synced(r.b))
<1> DEFINE b == s.b
           Moved(p, sent) == Send([s EXCEPT !.b.at = p, !.b.told = p, !.b.discovered = TRUE,
                                            !.b.moving = TRUE], MoveTo(sent, "discover"))
           Reveal(p) == Moved(p, IF p \in High THEN Corrected ELSE p)
           r == Discover(s)
           Kept(x) == InStep(x) /\ x.moved = s.moved /\ x.plan = s.plan /\ Synced(x.b)
<1>1. s.b \in Bot /\ s.srv \in Server /\ IsStep(s) /\ b.ground \in BOOLEAN /\ b.at \in Spots /\ b.sp \in Spots
  BY Numbers DEF InStep, IsStep, Bot
<1>2. \A p, sent : Moved(p, sent) = Arrived(s, p, sent, b.ground)
  <2> SUFFICES ASSUME NEW p, NEW sent PROVE Moved(p, sent) = Arrived(s, p, sent, b.ground)
    OBVIOUS
  <2>1. [s EXCEPT !.b.at = p, !.b.told = p, !.b.discovered = TRUE, !.b.moving = TRUE]
          = [s EXCEPT !.b = Placed(b, p, b.ground)]
    BY ZenonT(40), <1>1 DEF Placed, IsStep, Bot
  <2>2. Hear(s.srv, MoveTo(sent, "discover")) = [s.srv EXCEPT !.at = sent, !.how = "discover"]
    BY <1>1, HearMove
  <2>3. [s EXCEPT !.b = Placed(b, p, b.ground)].srv = s.srv
    BY <1>1 DEF IsStep
  <2> QED BY <2>1, <2>2, <2>3 DEF Send, Arrived
<1> HIDE DEF Moved
<1>3. \A p \in Spots : [Moved(p, p) EXCEPT !.b.ground = TRUE] = Arrived(s, p, p, TRUE)
  <2> SUFFICES ASSUME NEW p \in Spots PROVE [Arrived(s, p, p, b.ground) EXCEPT !.b.ground = TRUE] = Arrived(s, p, p, TRUE)
    BY <1>2
  <2>1. [Placed(b, p, b.ground) EXCEPT !.ground = TRUE] = Placed(b, p, TRUE)
    BY <1>1 DEF Placed, Bot
  <2> QED BY <1>1, <2>1 DEF Arrived, IsStep
<1>4. ASSUME NEW p \in Spots, NEW sent, sent = p \/ (sent = Corrected /\ p \in High), NEW g \in BOOLEAN
      PROVE  Kept(Arrived(s, p, sent, g))
  BY <1>4, MovedKeeps
<1>5. ASSUME NEW p \in Spots PROVE Kept(Reveal(p))
  <2>1. Reveal(p) = Arrived(s, p, IF p \in High THEN Corrected ELSE p, b.ground)
    BY <1>2
  <2> QED BY <1>1, <1>4, <2>1
<1>6. CASE b.discovered
  <2>1. r = s
    BY <1>6 DEF Discover
  <2> QED BY <2>1
<1>7. CASE ~b.discovered /\ b.at # 0 /\ b.sp # 0
  <2>1. r = [Moved(b.sp, b.sp) EXCEPT !.b.ground = TRUE]
    BY <1>7 DEF Discover, Moved
  <2>2. r = Arrived(s, b.sp, b.sp, TRUE)
    BY <1>1, <1>3, <2>1
  <2>3. Kept(Arrived(s, b.sp, b.sp, TRUE))
    BY <1>1, <1>4
  <2> HIDE DEF r
  <2> QED BY <2>2, <2>3 DEF r
<1>8. CASE ~b.discovered /\ b.at # 0 /\ b.sp = 0
  <2>1. r = Reveal(b.at)
    BY <1>8 DEF Discover, Moved
  <2> HIDE DEF Reveal
  <2> QED BY <1>1, <1>5, <2>1
<1>9. CASE ~b.discovered /\ b.at = 0 /\ b.since.entered > WakeDelay
  <2>1. r = Reveal(IF b.ground THEN Landing ELSE 0)
    BY <1>9 DEF Discover, Moved
  <2> HIDE DEF Reveal
  <2> QED BY <1>1, <1>5, <2>1, Numbers
<1>10. CASE ~b.discovered /\ b.at = 0 /\ ~(b.since.entered > WakeDelay)
  <2>1. r = s
    BY <1>10 DEF Discover
  <2> QED BY <2>1
<1> QED BY <1>6, <1>7, <1>8, <1>9, <1>10

(* The resend leaves the server told, and the record right.                 *)
LEMMA ResyncKeeps ==
    ASSUME NEW s, InStep(s)
    PROVE  LET r == Resync(s)
           IN InStep(r) /\ r.moved = s.moved /\ r.plan = s.plan /\ Synced(r.b)
<1> DEFINE b == [s.b EXCEPT !.told = s.b.at, !.moving = FALSE]
           srv == [s.srv EXCEPT !.at = s.b.at, !.how = "still"]
           r == Resync(s)
<1>1. s.b \in Bot /\ s.srv \in Server /\ IsStep(s)
  BY DEF InStep, IsStep
<1>2. CASE ~(s.b.discovered /\ s.b.at # s.b.told /\ s.b.at # 0)
  <2>1. r = s
    BY <1>2 DEF Resync
  <2>2. Synced(s.b)
    BY <1>2 DEF InStep, Recorded, Synced
  <2> QED BY <2>1, <2>2
<1>3. CASE s.b.discovered /\ s.b.at # s.b.told /\ s.b.at # 0
  <2> DEFINE t == [s EXCEPT !.b.told = s.b.at]
  <2>1. r = StandStill(t)
    BY <1>3 DEF Resync
  <2>2. /\ t.b = [s.b EXCEPT !.told = s.b.at] /\ t.srv = s.srv /\ IsStep(t) /\ t.b \in Bot
        /\ t.moved = s.moved /\ t.plan = s.plan /\ t.b.at = t.b.told /\ t.b.at = s.b.at
    BY <1>1 DEF IsStep, Bot
  <2> HIDE DEF t, r
  <2>3. r = Send([t EXCEPT !.b.moving = FALSE], MoveTo(s.b.at, "still"))
    BY <2>1, <2>2 DEF StandStill
  <2>4. Hear(s.srv, MoveTo(s.b.at, "still")) = srv
    BY <1>1 DEF Hear, MoveTo, Server
  <2>5. [t EXCEPT !.b.moving = FALSE] = [t EXCEPT !.b = b]
    BY <1>1, <2>2 DEF IsStep, Bot
  <2>6. [t EXCEPT !.b = b].srv = s.srv
    BY <2>2 DEF IsStep
  <2> HIDE DEF b, srv
  <2>7. r = [[t EXCEPT !.b = b] EXCEPT !.srv = srv]
    BY <2>3, <2>4, <2>5, <2>6 DEF Send
  <2>8. /\ b \in Bot /\ b.at = s.b.at /\ b.told = s.b.at /\ b.discovered = s.b.discovered
        /\ b.since = s.b.since /\ b.mobs = s.b.mobs /\ b.drops = s.b.drops /\ b.filtered = s.b.filtered
    BY <1>1 DEF b, Bot
  <2>9. /\ srv \in Server /\ srv.at = s.b.at /\ srv.how = "still" /\ srv.calm = s.srv.calm
        /\ srv.pause = s.srv.pause /\ srv.struck = s.srv.struck /\ srv.early = s.srv.early
        /\ srv.granted = s.srv.granted
    <3>1. s.b.at \in Spots /\ "still" \in Ways
      BY <1>1 DEF Bot, Ways
    <3> QED BY <1>1, <3>1 DEF srv, Server
  <2>10. IsStep(r) /\ r.b = b /\ r.srv = srv /\ r.moved = s.moved /\ r.plan = s.plan
    BY <2>2, <2>7, <2>8, <2>9 DEF IsStep
  <2>11. Sane(b, srv)
    BY <2>8, <2>9 DEF InStep, Sane, Bounded, Control, Timely
  <2>12. Recorded(b, srv)
    BY <2>8, <2>9 DEF Recorded
  <2>13. InStep(r)
    BY <2>9, <2>10, <2>11, <2>12 DEF InStep
  <2> QED BY <2>8, <2>10, <2>13 DEF Synced, r
<1> QED BY <1>2, <1>3

-----------------------------------------------------------------------------
(* From the state between two actions into a step, and back.                *)
Held(b, srv) == b \in Bot /\ srv \in Server /\ Sane(b, srv) /\ Noted(b, srv) /\ Recorded(b, srv)

LEMMA InvIsHeld == CombatInv <=> Held(bot, server) /\ beat \in BOOLEAN /\ events \in 0..MaxEvents
BY DEF CombatInv, CombatOK, TypeOK, VolleysArePaced, ControlRemembered, Held, Sane, Bounded, Control

LEMMA BeginKeeps ==
    ASSUME NEW b, NEW srv, Held(b, srv)
    PROVE  LET s == Begin(b, srv)
           IN InStep(s) /\ s.b = b /\ s.srv = srv /\ ~s.moved /\ s.plan = {}
BY DEF Begin, InStep, IsStep, Held, Noted

LEMMA EndKeeps ==
    ASSUME NEW s, InStep(s), ~s.moved
    PROVE  Held(s.b, s.srv)
BY DEF InStep, IsStep, Held, Noted

(* Time passes for both, and no faster for the bot.                         *)
LEMMA AgedKeeps ==
    ASSUME NEW b, NEW srv, Held(b, srv)
    PROVE  Held(Aged(b), Rested(srv))
<1> DEFINE since == [t \in Timers |-> IF b.since[t] < Longest[t] THEN b.since[t] + 1 ELSE b.since[t]]
           drops == [d \in Drops |-> IF b.drops[d] # Gone /\ b.drops[d].rest > 0
                                     THEN [b.drops[d] EXCEPT !.rest = @ - 1] ELSE b.drops[d]]
           a == Aged(b)
           r == Rested(srv)
<1>1. b \in Bot /\ srv \in Server /\ Bounded(b) /\ Control(b, srv) /\ Timely(b, srv)
  BY DEF Held, Sane
<1>2. a = [b EXCEPT !.since = since, !.drops = drops]
  BY <1>1 DEF Aged, Bot
<1>3. since \in [Timers -> Nat] /\ \A t \in Timers : since[t] <= Longest[t]
  BY <1>1, Clocks DEF Bot, Bounded
<1>4. \A d \in Drops : /\ drops[d] \in Drop \cup {Gone}
                       /\ drops[d] = Gone <=> b.drops[d] = Gone
                       /\ drops[d] # Gone => drops[d].meso = b.drops[d].meso
  <2> SUFFICES ASSUME NEW d \in Drops
               PROVE  /\ drops[d] \in Drop \cup {Gone}
                      /\ drops[d] = Gone <=> b.drops[d] = Gone
                      /\ drops[d] # Gone => drops[d].meso = b.drops[d].meso
    OBVIOUS
  <2>1. CASE b.drops[d] # Gone /\ b.drops[d].rest > 0
    <3>1. b.drops[d] \in Drop
      BY <1>1, <2>1 DEF Bot
    <3>2. \A x \in Drop : x.rest \in 0..RetryCooldown
      BY DEF Drop
    <3>3. b.drops[d].rest \in 0..RetryCooldown /\ b.drops[d].rest > 0
      BY ONLY <2>1, <3>1, <3>2
    <3>4. b.drops[d].rest - 1 \in 0..RetryCooldown
      BY ONLY <3>3, Numbers
    <3>5. drops[d] = [b.drops[d] EXCEPT !.rest = b.drops[d].rest - 1]
      BY <2>1
    <3> HIDE DEF drops
    <3>6. drops[d] \in Drop /\ drops[d].meso = b.drops[d].meso
      BY <3>1, <3>4, <3>5 DEF Drop
    <3> QED BY <2>1, <3>6, GoneIsNoDrop
  <2>2. CASE ~(b.drops[d] # Gone /\ b.drops[d].rest > 0)
    <3>1. drops[d] = b.drops[d]
      BY <2>2
    <3> HIDE DEF drops
    <3> QED BY <1>1, <3>1 DEF Bot
  <2> QED BY <2>1, <2>2
<1>5. drops \in [Drops -> Drop \cup {Gone}]
  BY <1>4
<1>6. since["teleport"] = (IF b.since["teleport"] < TeleportDelay THEN b.since["teleport"] + 1 ELSE b.since["teleport"])
      /\ since["attack"] = (IF b.since["attack"] < Longest["attack"] THEN b.since["attack"] + 1 ELSE b.since["attack"])
  BY Clocks DEF Timers
<1> HIDE DEF since, drops
<1>7. /\ a \in Bot /\ a.since = since /\ a.drops = drops /\ a.mobs = b.mobs /\ a.filtered = b.filtered
      /\ a.at = b.at /\ a.told = b.told /\ a.discovered = b.discovered /\ a.moving = b.moving
  BY ZenonT(30), <1>1, <1>2, <1>3, <1>5 DEF Bot
<1>8. /\ r \in Server /\ r.granted = srv.granted /\ r.how = srv.how /\ r.at = srv.at
      /\ r.struck = srv.struck /\ r.early = srv.early
      /\ r.calm = (IF srv.calm < TeleportDelay THEN srv.calm + 1 ELSE srv.calm)
      /\ r.pause = (IF srv.pause < AttackCooldown THEN srv.pause + 1 ELSE srv.pause)
  <2> DEFINE calm == IF srv.calm < TeleportDelay THEN srv.calm + 1 ELSE srv.calm
             pause == IF srv.pause < AttackCooldown THEN srv.pause + 1 ELSE srv.pause
  <2>1. srv.calm \in 0..TeleportDelay /\ srv.pause \in 0..AttackCooldown
    BY <1>1 DEF Server
  <2>2. calm \in 0..TeleportDelay /\ pause \in 0..AttackCooldown
    BY ONLY <2>1, Numbers
  <2>3. r = [srv EXCEPT !.calm = calm, !.pause = pause]
    BY <1>1 DEF Rested, Server
  <2> HIDE DEF calm, pause, r
  <2>4. /\ r \in Server /\ r.granted = srv.granted /\ r.how = srv.how /\ r.at = srv.at
        /\ r.struck = srv.struck /\ r.early = srv.early /\ r.calm = calm /\ r.pause = pause
    BY <1>1, <2>2, <2>3 DEF Server
  <2> QED BY <2>4 DEF calm, pause, r
<1>9. /\ b.since["teleport"] \in Nat /\ b.since["attack"] \in Nat
      /\ srv.calm \in 0..TeleportDelay /\ srv.pause \in 0..AttackCooldown
      /\ b.since["teleport"] <= TeleportDelay
  BY <1>1, Clocks DEF Bot, Bounded, Timers, Server
<1> HIDE DEF a, r
<1>10. Timely(a, r)
  <2>1. /\ b.since["teleport"] <= srv.calm
        /\ b.since["attack"] <= srv.pause \/ srv.pause = AttackCooldown
    BY <1>1 DEF Timely
  <2>2. a.since["teleport"] <= r.calm
    BY <1>6, <1>7, <1>8, <1>9, <2>1, Numbers
  <2>3. a.since["attack"] <= r.pause \/ r.pause = AttackCooldown
    BY <1>6, <1>7, <1>8, <1>9, <2>1, Numbers
  <2> QED BY <2>2, <2>3 DEF Timely
<1>11. Bounded(a)
  <2> SUFFICES ASSUME NEW d \in On(a.drops) PROVE a.drops[d].meso \/ ~a.filtered
    BY <1>3, <1>7 DEF Bounded
  <2>1. d \in Drops /\ drops[d] # Gone /\ d \in On(b.drops)
    BY <1>1, <1>4, <1>5, <1>7 DEF On, Bot
  <2> QED BY <1>1, <1>4, <1>7, <2>1 DEF Bounded
<1>12. Control(a, r)
  BY <1>1, <1>7, <1>8 DEF Control
<1> QED BY <1>7, <1>8, <1>10, <1>11, <1>12 DEF Held, Sane, Noted, Recorded, a, r

LEMMA SwitchKeeps ==
    ASSUME NEW s, InStep(s), NEW off \in BOOLEAN
    PROVE  LET r == [s EXCEPT !.b.hunt = @ /\ off]
           IN InStep(r) /\ r.moved = s.moved /\ r.plan = s.plan /\ (Synced(s.b) => Synced(r.b))
<1> DEFINE hunt == s.b.hunt /\ off
           b == [s.b EXCEPT !.hunt = hunt]
           r == [s EXCEPT !.b = b]
<1>1. s.b \in Bot /\ IsStep(s) /\ Bounded(s.b) /\ Control(s.b, s.srv)
  BY DEF InStep, IsStep, Sane
<1>2. [s EXCEPT !.b.hunt = @ /\ off] = r
  BY <1>1, Zenon DEF IsStep, Bot
<1>3. hunt \in BOOLEAN
  OBVIOUS
<1> HIDE DEF hunt
<1>4. /\ b \in Bot /\ b.at = s.b.at /\ b.told = s.b.told /\ b.discovered = s.b.discovered
      /\ b.moving = s.b.moving /\ b.mobs = s.b.mobs /\ b.drops = s.b.drops
      /\ b.filtered = s.b.filtered /\ b.since = s.b.since
  BY <1>1, <1>3 DEF Bot
<1> HIDE DEF b
<1>5. IsStep(r) /\ r.b = b /\ r.srv = s.srv /\ r.moved = s.moved /\ r.plan = s.plan
  BY <1>1, <1>4 DEF IsStep
<1>6. Bounded(b) /\ Control(b, s.srv)
  BY <1>1, <1>4 DEF Bounded, Control
<1>7. Quiet(s, r)
  BY <1>4, <1>5, <1>6 DEF Quiet
<1> HIDE DEF r
<1>8. InStep(r) /\ r.moved = s.moved /\ r.plan = s.plan /\ (Synced(s.b) => Synced(r.b))
  BY <1>7, QuietKeeps
<1> QED BY <1>2, <1>8

(* The whole tick, in its order: resent first, noted last.                  *)
LEMMA TickKeeps ==
    ASSUME CombatInv, Tick
    PROVE  Held(bot', server') /\ Synced(bot')
<1>1. PICK once \in BOOLEAN, until \in BOOLEAN :
        \E synced \in {Resync(Begin(Aged(bot), Rested(server)))} :
        \E ruled \in {IF once THEN HuntOnce(synced) ELSE synced} :
          /\ until => bot.hunt
          /\ \/ bot.task /\ Does(ruled)
             \/ /\ ~bot.task
                /\ \E ready \in {Gather(Discover([ruled EXCEPT !.b.hunt = @ /\ ~until]))} :
                   \E fought \in {CASE ready.b.hunt -> HuntLoop(ready)
                                    [] ~ready.b.hunt /\ ready.b.farm -> FarmReactors(ready)
                                    [] OTHER -> ready} :
                   \E hit \in {Attack(Pickup(fought))} : Does(Settle(hit))
  BY DEF Tick
<1> DEFINE begun == Begin(Aged(bot), Rested(server))
           synced == Resync(begun)
           ruled == IF once THEN HuntOnce(synced) ELSE synced
           off == ~until
           on == [ruled EXCEPT !.b.hunt = @ /\ off]
           placed == Discover(on)
           ready == Gather(placed)
           fought == CASE ready.b.hunt -> HuntLoop(ready)
                       [] ~ready.b.hunt /\ ready.b.farm -> FarmReactors(ready)
                       [] OTHER -> ready
           taken == Pickup(fought)
           hit == Attack(taken)
           At(s) == InStep(s) /\ ~s.moved /\ s.plan = {} /\ Synced(s.b)
<1>2. (bot.task /\ Does(ruled)) \/ (~bot.task /\ Does(Settle(hit)))
  BY <1>1
<1>3. Held(Aged(bot), Rested(server))
  BY InvIsHeld, AgedKeeps
<1>4. InStep(begun) /\ ~begun.moved /\ begun.plan = {}
  <2> HIDE DEF begun
  <2> QED BY <1>3, BeginKeeps DEF begun
<1> HIDE DEF begun
<1>5. At(synced)
  <2> HIDE DEF synced
  <2> QED BY <1>4, ResyncKeeps DEF synced
<1> HIDE DEF synced
<1>6. At(ruled)
  <2>1. CASE once
    BY <1>5, <2>1, HuntOnceKeeps
  <2>2. CASE ~once
    BY <1>5, <2>2
  <2> QED BY <2>1, <2>2
<1> HIDE DEF ruled
<1>7. At(on)
  <2>1. off \in BOOLEAN
    OBVIOUS
  <2> HIDE DEF off, on
  <2> QED BY <1>6, <2>1, SwitchKeeps DEF on
<1> HIDE DEF on
<1>8. At(placed)
  <2> HIDE DEF placed
  <2> QED BY <1>7, DiscoverKeeps DEF placed
<1> HIDE DEF placed
<1>9. At(ready)
  <2> HIDE DEF ready
  <2> QED BY <1>8, GatherKeeps DEF ready
<1> HIDE DEF ready
<1>10. InStep(fought) /\ Synced(fought.b)
  <2>1. CASE ready.b.hunt
    BY <1>9, <2>1, HuntLoopKeeps
  <2>2. CASE ~ready.b.hunt /\ ready.b.farm
    BY <1>9, <2>2, FarmReactorsKeeps
  <2>3. CASE ~ready.b.hunt /\ ~ready.b.farm
    BY <1>9, <2>3
  <2> QED BY <2>1, <2>2, <2>3
<1> HIDE DEF fought
<1>11. InStep(taken) /\ Synced(taken.b)
  <2> HIDE DEF taken
  <2> QED BY <1>10, PickupKeeps DEF taken
<1> HIDE DEF taken
<1>12. InStep(hit) /\ Synced(hit.b)
  <2> HIDE DEF hit
  <2> QED BY <1>11, AttackKeeps DEF hit
<1> HIDE DEF hit
<1>13. CASE bot.task /\ Does(ruled)
  BY <1>6, <1>13, EndKeeps DEF Does
<1>14. CASE ~bot.task /\ Does(Settle(hit))
  <2> DEFINE s == Settle(hit)
  <2>1. InStep(s) /\ Noted(s.b, s.srv) /\ Synced(s.b)
    BY <1>12, SettleKeeps
  <2> HIDE DEF s
  <2>2. Held(s.b, s.srv)
    BY <2>1 DEF Held, InStep, IsStep
  <2> QED BY <1>14, <2>1, <2>2 DEF Does, s
<1> QED BY <1>2, <1>13, <1>14

-----------------------------------------------------------------------------
(* The actions between ticks.  Most leave alone what the server saw of the  *)
(* character, where it is and the clocks of the volleys.                    *)
Elsewhere(b, c) ==
    /\ c \in Bot /\ Bounded(c)
    /\ c.at = b.at /\ c.told = b.told /\ c.discovered = b.discovered /\ c.moving = b.moving
    /\ c.since = b.since

LEMMA ElsewhereKeeps ==
    ASSUME NEW b, NEW srv, Held(b, srv), NEW c, Elsewhere(b, c),
           NEW granted \in SUBSET Mobs, Control(c, [srv EXCEPT !.granted = granted])
    PROVE  Held(c, [srv EXCEPT !.granted = granted])
<1> DEFINE s == [srv EXCEPT !.granted = granted]
<1>1. s \in Server /\ s.granted = granted /\ s.at = srv.at /\ s.how = srv.how /\ s.calm = srv.calm
      /\ s.pause = srv.pause /\ s.struck = srv.struck /\ s.early = srv.early
  BY DEF Held, Server
<1> HIDE DEF s
<1>2. Sane(c, s)
  BY <1>1 DEF Held, Sane, Elsewhere, Timely, s
<1>3. Noted(c, s) /\ Recorded(c, s)
  BY <1>1 DEF Held, Noted, Recorded, Elsewhere
<1> QED BY <1>1, <1>2, <1>3 DEF Held, Elsewhere, s

LEMMA BotElsewhere ==
    ASSUME NEW b, NEW srv, Held(b, srv), NEW c, Elsewhere(b, c), Control(c, srv)
    PROVE  Held(c, srv)
<1>1. srv = [srv EXCEPT !.granted = srv.granted] /\ srv.granted \in SUBSET Mobs
  BY DEF Held, Server
<1> QED BY <1>1, ElsewhereKeeps

(* One mob replaced.                                                        *)
LEMMA MobElsewhere ==
    ASSUME NEW b, NEW srv, Held(b, srv), NEW o \in Mobs, NEW m \in Mob \cup {Gone}, NEW g \in BOOLEAN
    PROVE  LET c == [b EXCEPT !.mobs = [b.mobs EXCEPT ![o] = m], !.ground = g]
           IN Elsewhere(b, c) /\ c.mobs = [b.mobs EXCEPT ![o] = m]
<1> DEFINE mobs == [b.mobs EXCEPT ![o] = m]
           c == [b EXCEPT !.mobs = mobs, !.ground = g]
<1>1. b \in Bot /\ Bounded(b)
  BY DEF Held, Sane
<1>2. mobs \in [Mobs -> Mob \cup {Gone}]
  BY <1>1 DEF Bot
<1> HIDE DEF mobs
<1>3. /\ c \in Bot /\ c.at = b.at /\ c.told = b.told /\ c.discovered = b.discovered
      /\ c.moving = b.moving /\ c.since = b.since /\ c.drops = b.drops /\ c.filtered = b.filtered
      /\ c.mobs = mobs
  BY <1>1, <1>2 DEF Bot
<1> HIDE DEF c
<1> QED BY <1>1, <1>3 DEF Elsewhere, Bounded, c, mobs

LEMMA MobControl ==
    ASSUME NEW b, NEW srv, Held(b, srv), NEW o \in Mobs, NEW m, NEW c,
           c.mobs = [b.mobs EXCEPT ![o] = m],
           NEW s, \A q \in Mobs \ {o} : q \in s.granted <=> q \in srv.granted,
           o \in s.granted <=> m # Gone /\ m.controlled
    PROVE  Control(c, s)
<1>1. b.mobs \in [Mobs -> Mob \cup {Gone}] /\ Control(b, srv)
  BY DEF Held, Sane, Bot
<1> QED BY <1>1 DEF Control

LEMMA SpawnMobKeeps ==
    ASSUME Held(bot, server), NEW o \in Mobs, NEW p \in Spots, SpawnMob(o, p)
    PROVE  Held(bot', server')
<1> DEFINE m == IF bot.mobs[o] = Gone THEN [at |-> p, controlled |-> FALSE] ELSE bot.mobs[o]
           c == [bot EXCEPT !.mobs = [bot.mobs EXCEPT ![o] = m], !.ground = TRUE]
<1>1. bot \in Bot /\ Control(bot, server)
  BY DEF Held, Sane
<1>2. m \in Mob \cup {Gone}
  BY <1>1 DEF Bot, Mob
<1>3. o \in server.granted <=> m # Gone /\ m.controlled
  BY <1>1, GoneIsNoMob DEF Control
<1>4. bot' = c /\ server' = server
  BY <1>1 DEF SpawnMob, Becomes, Bot
<1> HIDE DEF m
<1>5. Elsewhere(bot, c) /\ c.mobs = [bot.mobs EXCEPT ![o] = m]
  BY <1>2, MobElsewhere
<1> HIDE DEF c
<1>6. Control(c, server)
  BY <1>3, <1>5, MobControl
<1> QED BY <1>4, <1>5, <1>6, BotElsewhere

LEMMA GrantControlKeeps ==
    ASSUME Held(bot, server), NEW o \in Mobs, NEW p \in Spots, GrantControl(o, p)
    PROVE  Held(bot', server')
<1> DEFINE m == [at |-> p, controlled |-> TRUE]
           c == [bot EXCEPT !.mobs = [bot.mobs EXCEPT ![o] = m], !.ground = TRUE]
           granted == server.granted \cup {o}
           s == [server EXCEPT !.granted = granted]
<1>1. bot \in Bot /\ server \in Server
  BY DEF Held
<1>2. m \in Mob /\ m # Gone /\ m.controlled
  <2>1. m \in Mob /\ m.controlled
    BY DEF Mob
  <2> HIDE DEF m
  <2> QED BY <2>1, GoneIsNoMob
<1>3. bot' = c /\ server' = s /\ granted \in SUBSET Mobs /\ s.granted = granted
  BY <1>1 DEF GrantControl, Bot, Server
<1> HIDE DEF m, s
<1>5. Elsewhere(bot, c) /\ c.mobs = [bot.mobs EXCEPT ![o] = m]
  <2>1. m \in Mob \cup {Gone} /\ TRUE \in BOOLEAN
    BY <1>2
  <2> QED BY <2>1, MobElsewhere
<1> HIDE DEF c
<1>6. Control(c, s)
  BY <1>2, <1>3, <1>5, MobControl
<1> QED BY <1>3, <1>5, <1>6, ElsewhereKeeps DEF s

LEMMA LoseMobKeeps ==
    ASSUME Held(bot, server), NEW o \in Mobs, LoseMob(o)
    PROVE  Held(bot', server')
<1> DEFINE c == [bot EXCEPT !.mobs = [bot.mobs EXCEPT ![o] = Gone], !.ground = bot.ground]
           granted == server.granted \ {o}
           s == [server EXCEPT !.granted = granted]
<1>1. bot \in Bot /\ server \in Server /\ bot.ground \in BOOLEAN
  BY DEF Held, Bot
<1>2. bot' = c /\ server' = s /\ granted \in SUBSET Mobs /\ s.granted = granted
  BY <1>1 DEF LoseMob, Bot, Server
<1> HIDE DEF s
<1>3. Elsewhere(bot, c) /\ c.mobs = [bot.mobs EXCEPT ![o] = Gone]
  <2>1. Gone \in Mob \cup {Gone}
    OBVIOUS
  <2>2. \A g \in BOOLEAN : LET d == [bot EXCEPT !.mobs = [bot.mobs EXCEPT ![o] = Gone], !.ground = g]
                           IN Elsewhere(bot, d) /\ d.mobs = [bot.mobs EXCEPT ![o] = Gone]
    BY <2>1, MobElsewhere
  <2> QED BY <1>1, <2>2
<1> HIDE DEF c
<1>4. Control(c, s)
  BY <1>2, <1>3, MobControl
<1> QED BY <1>2, <1>3, <1>4, ElsewhereKeeps DEF s

LEMMA MobMovesKeeps ==
    ASSUME Held(bot, server), NEW o \in Mobs, NEW p \in Spots, MobMoves(o, p)
    PROVE  Held(bot', server')
<1> DEFINE m == [bot.mobs[o] EXCEPT !.at = p]
           c == [bot EXCEPT !.mobs = [bot.mobs EXCEPT ![o] = m], !.ground = bot.ground]
<1>1. bot \in Bot /\ Control(bot, server) /\ bot.ground \in BOOLEAN
  BY DEF Held, Sane, Bot
<1>2. bot.mobs[o] # Gone /\ bot.mobs[o] \in Mob
  BY <1>1 DEF MobMoves, Bot
<1>3. m \in Mob /\ m # Gone /\ m.controlled = bot.mobs[o].controlled
  BY <1>2, GoneIsNoMob DEF Mob
<1>4. bot' = c /\ server' = server
  BY <1>1 DEF MobMoves, Becomes, Bot
<1> HIDE DEF m
<1>5. Elsewhere(bot, c) /\ c.mobs = [bot.mobs EXCEPT ![o] = m]
  <2>1. m \in Mob \cup {Gone}
    BY <1>3
  <2>2. \A g \in BOOLEAN : LET d == [bot EXCEPT !.mobs = [bot.mobs EXCEPT ![o] = m], !.ground = g]
                           IN Elsewhere(bot, d) /\ d.mobs = [bot.mobs EXCEPT ![o] = m]
    BY ZenonT(40), <2>1, MobElsewhere
  <2> QED BY <1>1, <2>2
<1> HIDE DEF c
<1>6. o \in server.granted <=> m # Gone /\ m.controlled
  BY <1>1, <1>2, <1>3 DEF Control
<1>7. Control(c, server)
  BY <1>5, <1>6, MobControl
<1> QED BY <1>4, <1>5, <1>7, BotElsewhere

(* One that leaves the mobs alone as well.                                  *)
LEMMA MobsAlone ==
    ASSUME Held(bot, server), NEW c, Elsewhere(bot, c), c.mobs = bot.mobs,
           bot' = c, server' = server
    PROVE  Held(bot', server')
<1>1. Control(c, server)
  BY DEF Held, Sane, Control
<1> QED BY <1>1, BotElsewhere

LEMMA DropAppearsKeeps ==
    ASSUME Held(bot, server), NEW d \in Drops, NEW p \in Spots, NEW meso \in BOOLEAN,
           DropAppears(d, p, meso)
    PROVE  Held(bot', server')
<1> DEFINE x == [at |-> p, meso |-> meso, tries |-> 0, rest |-> 0]
           drops == [bot.drops EXCEPT ![d] = x]
           c == [bot EXCEPT !.drops = drops]
<1>1. bot \in Bot /\ Bounded(bot) /\ (meso \/ ~bot.filtered)
  BY DEF Held, Sane, DropAppears
<1>2. x \in Drop /\ x.meso = meso
  <2>1. 0 \in 0..MaxDropTries /\ 0 \in 0..RetryCooldown
    BY Numbers
  <2> QED BY <2>1 DEF Drop
<1>3. bot' = c /\ server' = server
  BY <1>1 DEF DropAppears, Becomes, Bot
<1> HIDE DEF x
<1>4. drops \in [Drops -> Drop \cup {Gone}]
  BY <1>1, <1>2 DEF Bot
<1>5. \A e \in On(drops) : drops[e].meso \/ ~bot.filtered
  BY <1>1, <1>2 DEF Bounded, On, Bot
<1> HIDE DEF drops
<1>6. Elsewhere(bot, c) /\ c.mobs = bot.mobs
  BY <1>1, <1>4, <1>5 DEF Elsewhere, Bounded, Bot
<1> HIDE DEF c
<1> QED BY <1>3, <1>6, MobsAlone

LEMMA DropRemovedKeeps ==
    ASSUME Held(bot, server), NEW d \in Drops, DropRemoved(d)
    PROVE  Held(bot', server')
<1> DEFINE drops == [bot.drops EXCEPT ![d] = Gone]
           c == [bot EXCEPT !.drops = drops]
<1>1. bot \in Bot /\ Bounded(bot)
  BY DEF Held, Sane
<1>2. bot' = c /\ server' = server
  BY <1>1 DEF DropRemoved, Becomes, Bot
<1>3. drops \in [Drops -> Drop \cup {Gone}]
  BY <1>1 DEF Bot
<1>4. \A e \in On(drops) : drops[e].meso \/ ~bot.filtered
  BY <1>1 DEF Bounded, On, Bot
<1> HIDE DEF drops
<1>5. Elsewhere(bot, c) /\ c.mobs = bot.mobs
  BY <1>1, <1>3, <1>4 DEF Elsewhere, Bounded, Bot
<1> HIDE DEF c
<1> QED BY <1>2, <1>5, MobsAlone

(* `hunt filter` prunes exactly the drops it rejects.                       *)
LEMMA HuntFilterKeeps ==
    ASSUME Held(bot, server), NEW rejects \in BOOLEAN, HuntFilter(rejects)
    PROVE  Held(bot', server')
<1> DEFINE drops == [d \in Drops |-> IF rejects /\ bot.drops[d] # Gone /\ ~bot.drops[d].meso
                                     THEN Gone ELSE bot.drops[d]]
           c == [bot EXCEPT !.filtered = rejects, !.drops = drops]
<1>1. bot \in Bot /\ Bounded(bot)
  BY DEF Held, Sane
<1>2. bot' = c /\ server' = server
  BY <1>1 DEF HuntFilter, Becomes, Bot
<1>3. drops \in [Drops -> Drop \cup {Gone}]
  BY <1>1 DEF Bot
<1>4. \A e \in On(drops) : drops[e].meso \/ ~rejects
  BY <1>1, <1>3 DEF On
<1> HIDE DEF drops
<1>5. Elsewhere(bot, c) /\ c.mobs = bot.mobs
  BY <1>1, <1>3, <1>4 DEF Elsewhere, Bounded, Bot
<1> HIDE DEF c
<1> QED BY <1>2, <1>5, MobsAlone

(* The switches, and the lists nothing here reads.                          *)
LEMMA SwitchesKeep ==
    ASSUME Held(bot, server),
           \/ \E r \in Reactors : ReactorAppears(r) \/ ReactorDestroyed(r)
           \/ \E on \in BOOLEAN : Hunt(on)
           \/ \E switch \in Switches : Toggle(switch)
           \/ GatherSwitch
    PROVE  Held(bot', server')
<1> USE DEF Becomes, Elsewhere, Bounded
<1>1. bot \in Bot /\ Bounded(bot)
  BY DEF Held, Sane
<1>2. CASE \E r \in Reactors : ReactorAppears(r)
  <2>1. PICK r \in Reactors : bot' = [bot EXCEPT !.reactors = bot.reactors \cup {r}] /\ server' = server
    BY <1>1, <1>2 DEF ReactorAppears, Bot
  <2>2. bot.reactors \cup {r} \in SUBSET Reactors
    BY <1>1 DEF Bot
  <2> DEFINE reactors == bot.reactors \cup {r}
  <2> HIDE DEF reactors
  <2>3. Elsewhere(bot, [bot EXCEPT !.reactors = reactors])
        /\ [bot EXCEPT !.reactors = reactors].mobs = bot.mobs
    BY <1>1, <2>2 DEF Bot, reactors
  <2> QED BY <2>1, <2>3, MobsAlone DEF reactors
<1>3. CASE \E r \in Reactors : ReactorDestroyed(r)
  <2>1. PICK r \in Reactors : bot' = [bot EXCEPT !.reactors = bot.reactors \ {r}] /\ server' = server
    BY <1>1, <1>3 DEF ReactorDestroyed, Bot
  <2>2. bot.reactors \ {r} \in SUBSET Reactors
    BY <1>1 DEF Bot
  <2> DEFINE reactors == bot.reactors \ {r}
  <2> HIDE DEF reactors
  <2>3. Elsewhere(bot, [bot EXCEPT !.reactors = reactors])
        /\ [bot EXCEPT !.reactors = reactors].mobs = bot.mobs
    BY <1>1, <2>2 DEF Bot, reactors
  <2> QED BY <2>1, <2>3, MobsAlone DEF reactors
<1>4. CASE \E on \in BOOLEAN : Hunt(on)
  <2>1. PICK on \in BOOLEAN : bot' = [bot EXCEPT !.hunt = on] /\ server' = server
    BY <1>4 DEF Hunt
  <2>2. Elsewhere(bot, [bot EXCEPT !.hunt = on]) /\ [bot EXCEPT !.hunt = on].mobs = bot.mobs
    BY <1>1 DEF Bot
  <2> QED BY <2>1, <2>2, MobsAlone
<1>5. CASE GatherSwitch
  <2> DEFINE ids == IF bot.gather THEN [o \in Mobs |-> 0] ELSE bot.ids
             on == ~bot.gather
             c == [bot EXCEPT !.gather = on, !.ids = ids]
  <2>1. bot' = c /\ server' = server
    BY <1>1, <1>5 DEF GatherSwitch, Bot
  <2>2. ids \in [Mobs -> Nat] /\ on \in BOOLEAN
    BY <1>1 DEF Bot
  <2> HIDE DEF ids, on
  <2>3. Elsewhere(bot, c) /\ c.mobs = bot.mobs
    BY <1>1, <2>2 DEF Bot
  <2> HIDE DEF c
  <2> QED BY <2>1, <2>3, MobsAlone
<1>6. CASE \E switch \in Switches : Toggle(switch)
  <2>1. PICK switch \in Switches : bot' = [bot EXCEPT ![switch] = ~bot[switch]] /\ server' = server
    BY <1>1, <1>6 DEF Toggle, Bot
  <2> DEFINE on == ~bot[switch]
             c == [bot EXCEPT ![switch] = on]
  <2>2. on \in BOOLEAN
    OBVIOUS
  <2>3. switch \in {"stand", "farm", "pickup", "mine", "pullmine", "skill", "task", "mana"}
    BY CombatAssumption
  <2>4. bot' = c /\ server' = server
    BY <2>1
  <2> HIDE DEF on
  <2>5. Elsewhere(bot, c) /\ c.mobs = bot.mobs
    BY <1>1, <2>2, <2>3 DEF Bot
  <2> HIDE DEF c
  <2> QED BY <2>4, <2>5, MobsAlone
<1> QED BY <1>2, <1>3, <1>4, <1>5, <1>6

(* The actions that move the character.                                     *)
LEMMA SelfAtKeeps ==
    ASSUME Held(bot, server), NEW p \in Spots \ {0}, SelfAt(p)
    PROVE  Held(bot', server')
<1> DEFINE c == [bot EXCEPT !.at = p]
<1>1. bot \in Bot /\ Sane(bot, server)
  BY DEF Held
<1>2. bot' = c /\ server' = server
  BY DEF SelfAt, Becomes
<1>3. /\ c \in Bot /\ c.at = p /\ c.told = bot.told /\ c.discovered = bot.discovered
      /\ c.moving = bot.moving /\ c.since = bot.since /\ c.mobs = bot.mobs /\ c.drops = bot.drops
      /\ c.filtered = bot.filtered
  BY <1>1 DEF Bot
<1> HIDE DEF c
<1>4. Sane(c, server)
  BY <1>1, <1>3 DEF Sane, Bounded, Control, Timely
<1> QED BY <1>2, <1>3, <1>4 DEF Held, Noted, Recorded

LEMMA MoveKeeps ==
    ASSUME Held(bot, server), NEW p \in Spots \ {0}, Move(p)
    PROVE  Held(bot', server')
<1> DEFINE c == [bot EXCEPT !.at = p]
           srv == [server EXCEPT !.at = p, !.how = "move"]
           s == Begin(bot, server)
<1>1. bot \in Bot /\ server \in Server /\ Sane(bot, server)
  BY DEF Held
<1>2. Hear(server, MoveTo(p, "move")) = srv
  BY <1>1 DEF Hear, MoveTo, Server
<1>3. bot' = c /\ server' = srv
  <2>1. IsStep(s) /\ s.b = bot /\ s.srv = server
    BY <1>1 DEF Begin, IsStep
  <2> HIDE DEF s
  <2>2. [Send(s, MoveTo(p, "move")) EXCEPT !.b.at = p] = [[s EXCEPT !.srv = srv] EXCEPT !.b = c]
    BY <1>2, <2>1 DEF Send, IsStep
  <2>3. Does([[s EXCEPT !.srv = srv] EXCEPT !.b = c])
    BY <2>2 DEF Move, s
  <2> HIDE DEF c, srv
  <2> QED BY <2>1, <2>3 DEF Does, IsStep
<1>4. /\ c \in Bot /\ c.at = p /\ c.told = bot.told /\ c.discovered = bot.discovered
      /\ c.moving = bot.moving /\ c.since = bot.since /\ c.mobs = bot.mobs /\ c.drops = bot.drops
      /\ c.filtered = bot.filtered
  BY <1>1 DEF Bot
<1>5. /\ srv \in Server /\ srv.how = "move" /\ srv.granted = server.granted
      /\ srv.calm = server.calm /\ srv.pause = server.pause /\ srv.struck = server.struck
      /\ srv.early = server.early
  BY <1>1 DEF Server, Ways
<1> HIDE DEF c, srv
<1>6. Sane(c, srv)
  BY <1>1, <1>4, <1>5 DEF Sane, Bounded, Control, Timely
<1> QED BY <1>3, <1>4, <1>5, <1>6 DEF Held, Noted, Recorded, Unrecorded

(* Nothing of the map that is left is believed on the next.                 *)
LEMMA ArrivalKeeps ==
    ASSUME Held(bot, server), NEW sp \in SpawnPortals, NEW hunt \in BOOLEAN,
           bot' = [bot EXCEPT !.hunt = hunt, !.at = 0, !.discovered = FALSE, !.sp = sp,
                              !.ground = FALSE, !.mobs = Nobody, !.drops = Empty, !.reactors = {},
                              !.since.entered = 0],
           server' = [server EXCEPT !.at = Corrected, !.how = "still", !.granted = {}]
    PROVE  Held(bot', server')
<1> DEFINE c == [bot EXCEPT !.hunt = hunt, !.at = 0, !.discovered = FALSE, !.sp = sp,
                            !.ground = FALSE, !.mobs = Nobody, !.drops = Empty, !.reactors = {},
                            !.since.entered = 0]
           srv == [server EXCEPT !.at = Corrected, !.how = "still", !.granted = {}]
<1>1. bot \in Bot /\ server \in Server /\ Sane(bot, server)
  BY DEF Held
<1>2. Nobody \in [Mobs -> Mob \cup {Gone}] /\ Empty \in [Drops -> Drop \cup {Gone}]
      /\ (\A o \in Mobs : Nobody[o] = Gone) /\ On(Empty) = {}
  BY DEF Nobody, Empty, On
<1>3. /\ c \in Bot /\ ~c.discovered /\ c.moving = bot.moving
      /\ c.mobs = Nobody /\ c.drops = Empty /\ c.filtered = bot.filtered
      /\ c.since["teleport"] = bot.since["teleport"] /\ c.since["attack"] = bot.since["attack"]
      /\ \A t \in Timers : c.since[t] = bot.since[t] \/ c.since[t] = 0
  <2> DEFINE since == [bot.since EXCEPT !["entered"] = 0]
             fresh == [bot EXCEPT !.hunt = hunt, !.at = 0, !.discovered = FALSE, !.sp = sp,
                                  !.ground = FALSE, !.mobs = Nobody, !.drops = Empty,
                                  !.reactors = {}, !.since = since]
  <2>1. /\ since \in [Timers -> Nat] /\ since["teleport"] = bot.since["teleport"]
        /\ since["attack"] = bot.since["attack"]
        /\ \A t \in Timers : since[t] = bot.since[t] \/ since[t] = 0
    BY <1>1 DEF Bot, Timers
  <2>2. c = fresh
    BY <1>1 DEF Bot
  <2>3. 0 \in Spots /\ {} \in SUBSET Reactors
    BY Numbers
  <2> HIDE DEF c, since
  <2>4. fresh \in Bot
    BY <1>1, <1>2, <2>1, <2>3 DEF Bot
  <2>5. /\ ~fresh.discovered /\ fresh.moving = bot.moving /\ fresh.mobs = Nobody
        /\ fresh.drops = Empty /\ fresh.filtered = bot.filtered /\ fresh.since = since
    BY <1>1 DEF Bot
  <2> HIDE DEF fresh
  <2> QED BY <2>1, <2>2, <2>4, <2>5
<1>4. /\ srv \in Server /\ srv.how = "still" /\ srv.granted = {}
      /\ srv.calm = server.calm /\ srv.pause = server.pause /\ srv.struck = server.struck
      /\ srv.early = server.early
  BY <1>1 DEF Server, Ways
<1> HIDE DEF c, srv
<1>5. Bounded(c)
  BY <1>1, <1>2, <1>3, Clocks DEF Sane, Bounded
<1>6. Sane(c, srv)
  BY <1>1, <1>2, <1>3, <1>4, <1>5 DEF Sane, Control, Timely
<1>7. Held(c, srv)
  BY <1>3, <1>4, <1>6 DEF Held, Noted, Recorded
<1> QED BY <1>7 DEF c, srv

LEMMA EnterMapKeeps ==
    ASSUME Held(bot, server), NEW sp \in SpawnPortals, EnterMap(sp)
    PROVE  Held(bot', server')
<1>1. bot \in Bot
  BY DEF Held
<1>2. bot.hunt \in BOOLEAN /\ bot = [bot EXCEPT !.hunt = bot.hunt]
  BY <1>1 DEF Bot
<1>3. bot' = [bot EXCEPT !.hunt = bot.hunt, !.at = 0, !.discovered = FALSE, !.sp = sp,
                         !.ground = FALSE, !.mobs = Nobody, !.drops = Empty, !.reactors = {},
                         !.since.entered = 0]
  BY <1>2 DEF EnterMap
<1>4. server' = [server EXCEPT !.at = Corrected, !.how = "still", !.granted = {}]
  BY DEF EnterMap
<1> QED BY <1>2, <1>3, <1>4, ArrivalKeeps

LEMMA LeaveKeeps ==
    ASSUME Held(bot, server), NEW sp \in SpawnPortals, Leave(sp)
    PROVE  Held(bot', server')
BY ArrivalKeeps DEF Leave

LEMMA HuntOnceNowKeeps ==
    ASSUME Held(bot, server), HuntOnceNow
    PROVE  Held(bot', server')
<1> DEFINE s == Begin(bot, server)
           r == HuntOnce(s)
<1>1. InStep(s) /\ ~s.moved
  <2> HIDE DEF s
  <2> QED BY BeginKeeps DEF s
<1>2. Does(r)
  BY DEF HuntOnceNow
<1> HIDE DEF s
<1>3. InStep(r) /\ ~r.moved
  BY <1>1, HuntOnceKeeps
<1> HIDE DEF r
<1> QED BY <1>2, <1>3, EndKeeps DEF Does

LEMMA PickupAllKeeps ==
    ASSUME Held(bot, server), PickupAll
    PROVE  Held(bot', server')
BY DEF PickupAll, Does, Ask, Begin

-----------------------------------------------------------------------------
LEMMA InitHeld == Init => Held(bot, server)
<1> SUFFICES ASSUME Init PROVE Held(bot, server)
  OBVIOUS
<1> DEFINE Early == [Mobs -> [at : Spots \ {0}, controlled : BOOLEAN] \cup {Gone}]
           Lying == [Drops -> [at : Spots \ {0}, meso : {TRUE}, tries : {0}, rest : {0}] \cup {Gone}]
<1>1. PICK on \in Settings, sp \in SpawnPortals, mobs \in Early, drops \in Lying :
        /\ bot = [Fresh(on, sp) EXCEPT !.mobs = mobs, !.drops = drops, !.ground = On(mobs) # {}]
        /\ server = [at |-> Corrected, how |-> "still", calm |-> TeleportDelay,
                     pause |-> AttackCooldown, struck |-> {}, early |-> FALSE, hit |-> FALSE,
                     granted |-> {o \in On(mobs) : mobs[o].controlled}]
  BY DEF Init
<1> DEFINE granted == {o \in On(mobs) : mobs[o].controlled}
<1>2. mobs \in [Mobs -> Mob \cup {Gone}]
  BY DEF Mob
<1>3. drops \in [Drops -> Drop \cup {Gone}] /\ \A d \in On(drops) : drops[d].meso
  <2>1. 0 \in 0..MaxDropTries /\ 0 \in 0..RetryCooldown
    BY Numbers
  <2> DEFINE Piece == [at : Spots \ {0}, meso : {TRUE}, tries : {0}, rest : {0}]
  <2>2. \A x \in Piece : x \in Drop /\ x.meso
    BY <2>1 DEF Drop
  <2>3. drops \in [Drops -> Piece \cup {Gone}]
    OBVIOUS
  <2> HIDE DEF Piece
  <2> QED BY <2>2, <2>3 DEF On
<1>4. granted \in SUBSET Mobs /\ \A o \in Mobs : o \in granted <=> mobs[o] # Gone /\ mobs[o].controlled
  BY <1>2 DEF On
<1> DEFINE since == [t \in Timers |-> IF t = "entered" THEN 0 ELSE Longest[t]]
<1>5. since \in [Timers -> Nat] /\ (\A t \in Timers : since[t] <= Longest[t])
      /\ since["teleport"] = TeleportDelay
  BY Clocks, Numbers DEF Timers
<1>6. [o \in Mobs |-> 0] \in [Mobs -> Nat] /\ Nobody \in [Mobs -> Mob \cup {Gone}]
      /\ Empty \in [Drops -> Drop \cup {Gone}]
  BY DEF Nobody, Empty
<1> DEFINE b == Fresh(on, sp)
<1> HIDE DEF since, granted
<1>7. /\ b \in Bot /\ ~b.discovered /\ b.since = since
  BY <1>5, <1>6, Numbers DEF Fresh, Bot, since
<1> HIDE DEF b
<1>8. /\ bot \in Bot /\ ~bot.discovered /\ bot.since = since /\ bot.mobs = mobs /\ bot.drops = drops
  BY ZenonT(40), <1>1, <1>2, <1>3, <1>7 DEF Bot, b
<1>9. /\ server \in Server /\ server.how = "still" /\ server.granted = granted
      /\ server.calm = TeleportDelay /\ server.pause = AttackCooldown /\ server.struck = {}
      /\ ~server.early
  <2>1. TeleportDelay \in 0..TeleportDelay /\ AttackCooldown \in 0..AttackCooldown
    BY Numbers
  <2> QED BY <1>1, <1>4, <2>1 DEF Server, Ways, granted
<1>10. Bounded(bot)
  BY <1>3, <1>5, <1>8 DEF Bounded
<1>11. Control(bot, server)
  BY <1>4, <1>8, <1>9 DEF Control
<1>12. Timely(bot, server)
  BY <1>5, <1>8, <1>9, Numbers DEF Timely
<1> QED BY <1>8, <1>9, <1>10, <1>11, <1>12 DEF Held, Sane, Noted, Recorded

(* Every action, and what it does with the bound.                           *)
LEMMA NextKeeps ==
    ASSUME CombatInv, [Next]_vars
    PROVE  CombatInv' /\ (events' = events => Synced(bot') \/ UNCHANGED vars)
<1>1. Held(bot, server) /\ beat \in BOOLEAN /\ events \in 0..MaxEvents
  BY InvIsHeld
<1>2. ASSUME Held(bot', server'), Happens
      PROVE  CombatInv' /\ events' # events
  <2>1. beat' \in BOOLEAN /\ events' \in 0..MaxEvents /\ events' # events
    BY <1>1, <1>2, Numbers DEF Happens
  <2> QED BY <1>2, <2>1, InvIsHeld DEF CombatInv, CombatOK, TypeOK, VolleysArePaced, ControlRemembered,
          Held, Sane, Bounded, Control
<1>3. CASE Tick
  <2>1. Held(bot', server') /\ Synced(bot')
    BY <1>3, TickKeeps
  <2>2. beat' \in BOOLEAN /\ events' = events
    BY <1>3 DEF Tick
  <2> QED BY <1>1, <2>1, <2>2 DEF CombatInv, CombatOK, TypeOK, VolleysArePaced, ControlRemembered,
          Held, Sane, Bounded, Control
<1>4. CASE FromServer
  <2>1. CASE \E o \in Mobs, p \in Spots \ {0} : SpawnMob(o, p) \/ GrantControl(o, p) \/ MobMoves(o, p)
    <3>1. Held(bot', server') /\ Happens
      BY <1>1, <2>1, SpawnMobKeeps, GrantControlKeeps, MobMovesKeeps DEF SpawnMob, GrantControl, MobMoves
    <3> QED BY <1>2, <3>1
  <2>2. CASE \E o \in Mobs : LoseMob(o)
    <3>1. Held(bot', server') /\ Happens
      BY <1>1, <2>2, LoseMobKeeps DEF LoseMob
    <3> QED BY <1>2, <3>1
  <2>3. CASE \E p \in Spots \ {0} : SelfAt(p)
    <3>1. Held(bot', server') /\ Happens
      BY <1>1, <2>3, SelfAtKeeps DEF SelfAt
    <3> QED BY <1>2, <3>1
  <2>4. CASE \E d \in Drops, p \in Spots \ {0}, meso \in BOOLEAN : DropAppears(d, p, meso)
    <3>1. Held(bot', server') /\ Happens
      BY <1>1, <2>4, DropAppearsKeeps DEF DropAppears
    <3> QED BY <1>2, <3>1
  <2>5. CASE \E d \in Drops : DropRemoved(d)
    <3>1. Held(bot', server') /\ Happens
      BY <1>1, <2>5, DropRemovedKeeps DEF DropRemoved
    <3> QED BY <1>2, <3>1
  <2>6. CASE \E r \in Reactors : ReactorAppears(r) \/ ReactorDestroyed(r)
    <3>1. Held(bot', server') /\ Happens
      BY <1>1, <2>6, SwitchesKeep DEF ReactorAppears, ReactorDestroyed
    <3> QED BY <1>2, <3>1
  <2>7. CASE \E sp \in SpawnPortals : EnterMap(sp)
    <3>1. Held(bot', server') /\ Happens
      BY <1>1, <2>7, EnterMapKeeps DEF EnterMap
    <3> QED BY <1>2, <3>1
  <2> QED BY <1>4, <2>1, <2>2, <2>3, <2>4, <2>5, <2>6, <2>7 DEF FromServer
<1>5. CASE Command
  <2>1. CASE \E on \in BOOLEAN : Hunt(on)
    <3>1. Held(bot', server') /\ Happens
      BY <1>1, <2>1, SwitchesKeep DEF Hunt
    <3> QED BY <1>2, <3>1
  <2>2. CASE \E on \in BOOLEAN : HuntFilter(on)
    <3>1. Held(bot', server') /\ Happens
      BY <1>1, <2>2, HuntFilterKeeps DEF HuntFilter
    <3> QED BY <1>2, <3>1
  <2>3. CASE \E switch \in Switches : Toggle(switch)
    <3>1. Held(bot', server') /\ Happens
      BY <1>1, <2>3, SwitchesKeep DEF Toggle
    <3> QED BY <1>2, <3>1
  <2>4. CASE \E p \in Spots \ {0} : Move(p)
    <3>1. Held(bot', server') /\ Happens
      BY <1>1, <2>4, MoveKeeps DEF Move
    <3> QED BY <1>2, <3>1
  <2>5. CASE \E sp \in SpawnPortals : Leave(sp)
    <3>1. Held(bot', server') /\ Happens
      BY <1>1, <2>5, LeaveKeeps DEF Leave
    <3> QED BY <1>2, <3>1
  <2>6. CASE HuntOnceNow
    <3>1. Held(bot', server') /\ Happens
      BY <1>1, <2>6, HuntOnceNowKeeps DEF HuntOnceNow
    <3> QED BY <1>2, <3>1
  <2>7. CASE GatherSwitch
    <3>1. Held(bot', server') /\ Happens
      BY <1>1, <2>7, SwitchesKeep DEF GatherSwitch
    <3> QED BY <1>2, <3>1
  <2>8. CASE PickupAll
    <3>1. Held(bot', server') /\ Happens
      BY <1>1, <2>8, PickupAllKeeps DEF PickupAll
    <3> QED BY <1>2, <3>1
  <2> QED BY <1>5, <2>1, <2>2, <2>3, <2>4, <2>5, <2>6, <2>7, <2>8 DEF Command
<1>6. CASE UNCHANGED vars
  BY <1>6 DEF vars, CombatInv, CombatOK, TypeOK, VolleysArePaced, ControlRemembered, Timely, Noted, Recorded
<1> QED BY <1>3, <1>4, <1>5, <1>6 DEF Next

(* Volleys are paced and still, control is remembered, and the records the  *)
(* bot keeps of its moves are right (tick.rs, handlers/field.rs), for any   *)
(* map, any delays and any number of mobs, drops and reactors.              *)
THEOREM CombatSafe == Spec => []CombatInv
<1>1. Init => CombatInv
  <2> SUFFICES ASSUME Init PROVE CombatInv
    OBVIOUS
  <2>1. beat \in BOOLEAN /\ events \in 0..MaxEvents
    <3>1. beat = FALSE /\ events = 0
      BY Zenon DEF Init
    <3>2. 0 \in 0..MaxEvents
      BY Numbers
    <3> QED BY <3>1, <3>2
  <2> QED BY <2>1, InitHeld, InvIsHeld
<1>2. CombatInv /\ [Next]_vars => CombatInv'
  BY NextKeeps
<1> QED BY <1>1, <1>2, PTL DEF Spec

(* A tick ends with the server told where the bot believes it stands, apart *)
(* from what ServerKnowsWhere excepts (tick.rs, the resend of a tick).      *)
THEOREM TicksTell == Spec => ServerKnowsWhere
<1> DEFINE Told == events' = events /\ bot'.discovered /\ server'.how \notin Unrecorded
                   /\ bot'.at \notin High => server'.at = bot'.at
<1>1. CombatInv /\ [Next]_vars => [Told]_vars
  <2> SUFFICES ASSUME CombatInv, [Next]_vars, ~UNCHANGED vars, events' = events,
                      bot'.discovered, server'.how \notin Unrecorded, bot'.at \notin High
               PROVE  server'.at = bot'.at
    OBVIOUS
  <2>1. CombatInv' /\ Synced(bot')
    BY NextKeeps
  <2>2. Recorded(bot', server')
    BY <2>1 DEF CombatInv
  <2> QED BY <2>1, <2>2 DEF Synced, Recorded
<1> QED BY <1>1, CombatSafe, PTL DEF Spec, ServerKnowsWhere
=============================================================================
