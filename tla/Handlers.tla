------------------------------ MODULE Handlers ------------------------------
(***************************************************************************)
(* From the body of a packet to what the bot knows (handlers/*.rs): which  *)
(* parser reads it and what of the answer is believed.  What the other     *)
(* modules follow step by step (phases, reenter, hunt, windows) is left to *)
(* them; here a packet meets a character in game and its knowledge.        *)
(***************************************************************************)
EXTENDS Parsers, FiniteSets

CONSTANTS Me, Ignored   \* the character's id; items the pickup filter denies
ASSUME HandlersAssumption == Me \in Int

(* A handler's result: the cursor, and what is known after it. *)
Now(c, k) == [c |-> c, known |-> k]
Without(map, key) == [x \in DOMAIN map \ {key} |-> map[x]]

Player(name, x, y) == [mob |-> 0, x |-> x, y |-> y, fh |-> 0, controlled |-> FALSE, name |-> name]
Mob(m) == [mob |-> m.mob, x |-> m.x, y |-> m.y, fh |-> m.fh, controlled |-> m.controlled, name |-> <<>>]

SpawnMob(parsed, own, k) ==
    LET m == parsed.v IN
    IF ~parsed.ok THEN Now(parsed.c, k)
    ELSE IF m.mob = 0 THEN Now(parsed.c, [k EXCEPT !.around = Without(@, m.oid)])
    ELSE Now(parsed.c,
           [k EXCEPT !.ground = IF m.y > @ THEN m.y ELSE @,
                     !.around = IF ~own /\ m.oid \in DOMAIN @ THEN @ ELSE Put(@, m.oid, Mob(m))])
SpawnPlayer(c, k) ==
    LET head == Take(c, <<Get(4), Skip(1), Text>>)
        cid == Value(head, 1)
        self == ParseSelf(head)
        seen == [k EXCEPT !.around = Put(@, cid, Player(head.got[2], 0, 0))]
    IN IF cid # Me THEN Now(head, seen)
       ELSE Now(self.c, [seen EXCEPT !.at = IF self.v[2] \in -9..9 THEN @ ELSE self.v])
Moved(k, oid, at) ==
    IF oid \in DOMAIN k.around /\ at # <<>>
    THEN [k EXCEPT !.around[oid].x = at[1], !.around[oid].y = at[2]] ELSE k
MovePlayer(c, k) ==
    LET head == Take(c, <<Get(4), Skip(4)>>)
        cid == Value(head, 1)
        moves == ParseMoves(head)
    IN Now(moves.c, [Moved(k, cid, moves.at) EXCEPT !.at = IF cid = Me /\ moves.at # <<>> THEN moves.at ELSE @])
MoveMob(c, k) ==
    LET head == Take(c, <<Get(4), Skip(3), Skip(4), Skip(4)>>)
        moves == ParseMoves(head)
    IN Now(moves.c, Moved(k, Value(head, 1), moves.at))
Gone(c, k) == [k EXCEPT !.around = Without(@, Value(Take(c, <<Get(4)>>), 1))]
MobHp(c, k) ==
    LET hp == Take(c, <<Get(4), Get(1)>>)
    IN Now(hp, IF Unsigned(hp.got[2]) = 0 THEN Gone(c, k) ELSE k)
OwnAttack(c, k) ==
    LET a == ParseAttack(c)
    IN Now(a.c, IF a.v.cid = Me THEN [k EXCEPT !.told = <<a.v.skill>> \o a.v.oids] ELSE k)

DropSeen(c, k) ==
    LET d == ParseDrop(c) IN
    Now(d.c, IF ~d.v.meso /\ d.v.id \in {0} \cup Ignored THEN k
             ELSE [k EXCEPT !.drops = Put(@, d.v.oid, [id |-> d.v.id, meso |-> d.v.meso, x |-> d.v.x, y |-> d.v.y])])
DropGone(c, k) ==
    LET d == Take(c, <<Skip(1), Get(4)>>) IN Now(d, [k EXCEPT !.drops = Without(@, Value(d, 1))])

UpdateStats(c, k) ==
    LET u == ParseStats(Take(c, <<Get(1)>>))
    IN Now(u.c, [k EXCEPT !.self = [s \in DOMAIN @ |-> IF s \in DOMAIN u.v THEN u.v[s] ELSE @[s]]])
NextTrained(at) == Take(at, <<Get(4), Get(4), Get(4), Skip(9)>>)
Trained(at, n, k) ==
    LET came == {i \in 1..n : ~at[i].failed}
    IN Now(at[n], [k EXCEPT !.skills = Merged(Mapped([i \in came |-> Value(at[i], 1)], [i \in came |-> Value(at[i], 2) % 256]), @)])
Training(head, n, k) == Trained(Walk(head, n, NextTrained), n, k)
UpdateSkills(c, k) ==
    LET head == Take(c, <<Get(1), Get(2)>>)
    IN IF head.failed \/ Unsigned(head.got[1]) # 1 THEN Now(head, k) ELSE Training(head, Times(Value(head, 2)), k)

(* SET_FIELD: what was on the map and in the cash shop is left behind,      *)
(* whether or not what follows can be read, and the character is taken over *)
(* whole or not at all.                                                     *)
Arrived(k) ==
    LET self == {o \in DOMAIN k.around : o = Me /\ k.around[o].mob = 0}
    IN [k EXCEPT !.around = [o \in self |-> k.around[o]],
                 !.drops = None, !.npcs = None, !.reactors = None, !.at = <<0, 0>>, !.ground = 0,
                 !.sale = <<>>, !.cash = <<>>, !.self.nx = 0, !.self.points = 0]
Become(ci, k) ==
    IF ~ci.ok THEN k
    ELSE [k EXCEPT !.self = [s \in DOMAIN @ |-> IF s \in DOMAIN ci.v THEN ci.v[s] ELSE @[s]],
                   !.bag = ci.v.bag, !.worn = ci.v.worn, !.skills = ci.v.skills]
Transferred(ci, k) == Now(ci.c, Arrived(Become(ci, k)))
Warped(to, k) == Now(to, Arrived([k EXCEPT !.map = Value(to, 1)]))
Landing(mode, k) ==
    CASE Value(mode, 3) = 1 -> Transferred(ParseCharInfo(mode), k)
      [] Value(mode, 3) = 3 -> Warped(Take(mode, <<Skip(3), Get(4), Get(1)>>), k)
      [] OTHER -> Now(mode, k)
OnChannel(mode, k) == [k EXCEPT !.channel = Value(mode, 1) + 1]
LandedIn(mode, k) == Landing(mode, OnChannel(mode, k))
Landed(c, k) == LandedIn(Take(c, <<Get(4), Get(1), Get(1)>>), k)
Gained(c, k) ==
    LET head == Take(c, <<Skip(1), Get(1), Get(1), Get(1), Get(2)>>)
        item == ParseItem(head)
        slot == Value(head, 4)
    IN IF Unsigned(head.got[1]) = 0 \/ Unsigned(head.got[2]) # 0 \/ ~item.ok THEN Now(item.c, k)
       ELSE Now(item.c, IF slot < 0 THEN [k EXCEPT !.worn = Put(@, slot, item.v)]
                        ELSE [k EXCEPT !.bag = Put(@, <<Unsigned(head.got[3]), slot>>, item.v)])

SpawnNpc(c, k) ==
    LET n == Take(c, <<Get(4), Get(4), Skip(4), Get(2), Get(2)>>)
        id == Take(c, <<Get(4), Get(4)>>)
    IN Now(n, IF id.failed THEN k
              ELSE [k EXCEPT !.npcs = Put(@, Value(n, 1), [id |-> Value(n, 2), x |-> Value(n, 3), y |-> Value(n, 4)])])
RemoveNpc(c, k) == LET n == Take(c, <<Get(4)>>) IN Now(n, [k EXCEPT !.npcs = Without(@, Value(n, 1))])
SpawnReactor(c, k) ==
    LET r == Take(c, <<Get(4), Get(4), Get(1), Get(2), Get(2)>>)
    IN Now(IF r.failed THEN r ELSE Take(r, <<Skip(1), Text>>),
           IF r.failed THEN k
           ELSE [k EXCEPT !.reactors = Put(@, Value(r, 1), [state |-> Unsigned(r.got[3]), x |-> Value(r, 4), y |-> Value(r, 5)])])
ReactorHit(c, k) ==
    LET head == Take(c, <<Get(4), Get(1)>>)
        oid == Value(head, 1)
        place == Take(head, <<Get(2), Get(2)>>)
    IN IF head.failed \/ oid \notin DOMAIN k.reactors THEN Now(head, k)
       ELSE Now(place, [k EXCEPT !.reactors[oid] = [state |-> Unsigned(head.got[2]), x |-> Value(place, 1), y |-> Value(place, 2)]])
ReactorGone(c, k) ==
    LET r == Take(c, <<Get(4)>>) IN Now(r, IF r.failed THEN k ELSE [k EXCEPT !.reactors = Without(@, Value(r, 1))])
NextKey(at) == Take(at, <<Get(1), Get(4)>>)
Bound(at, k) ==
    Now(at[Keys], IF at[Keys].failed THEN k
                  ELSE [k EXCEPT !.keymap = [i \in 1..Keys |-> <<Unsigned(at[i].got[1]), Value(at[i], 2)>>]])
Keymap(c, k) == Bound(Walk(Take(c, <<Skip(1)>>), Keys, NextKey), k)

OnSale(s, k) == Now(s.c, [k EXCEPT !.sale = IF s.ok THEN s.v ELSE <<>>])
EnterShop(c, k) == OnSale(ParseCashShop(c), k)
Balance(c, k) ==
    LET b == Take(c, <<Get(4), Get(4)>>) IN Now(b, [k EXCEPT !.self.nx = Value(b, 1), !.self.points = Value(b, 2)])
NextCash(at) == ParseCashItem(at).c
Stored(at, n, k) == Now(Take(at[n], <<Skip(4)>>), [k EXCEPT !.cash = [i \in 1..n |-> ParseCashItem(at[i - 1]).v]])
Storage(count, n, k) == Stored(Walk(count, n, NextCash), n, k)
CashList(count, k) == Storage(count, Times(Value(count, 1)), k)
CashItems(c, k) ==
    LET sub == Take(c, <<Get(1)>>)
        bought == ParseCashItem(sub)
    IN CASE Unsigned(sub.got[1]) = 66 -> CashList(Take(sub, <<Get(2)>>), k)
         [] Unsigned(sub.got[1]) = 76 -> Now(bought.c, [k EXCEPT !.cash = Append(@, bought.v)])
         [] OTHER -> Now(sub, k)

(* Every world is listed once, by its first entry. *)
NextWorld(at) == ParseWorld(at).c
NoWorld(at) == ~Available(at) \/ ~ParseWorld(at).ok
Firsts(worlds) ==
    LET first == {i \in DOMAIN worlds : \A j \in 1..i - 1 : worlds[j].id # worlds[i].id}
    IN [n \in 1..Cardinality(first) |-> worlds[CHOOSE i \in first : Cardinality({j \in first : j <= i}) = n]]
Listing(at, end, k) ==
    Now(IF Available(at[end]) THEN NextWorld(at[end]) ELSE at[end],
        [k EXCEPT !.worlds = Firsts(@ \o [i \in 1..end |-> ParseWorld(at[i - 1]).v])])
AllWorlds(at, k) == Listing(at, Turns(at, NoWorld), k)
Worlds(c, k) == AllWorlds(Walk(c, Len(c.bytes) + 1, NextWorld), k)
NextCharacter(at) == ParseCharacter(at).c
Roster(at, n, k) ==
    LET read == Cardinality({i \in 1..n : ~at[i].stuck})
    IN Now(IF read = n THEN Take(at[n], <<Skip(2), Get(4)>>) ELSE at[n],
           [k EXCEPT !.characters = @ \o [i \in 1..read |-> ParseCharacter(at[i - 1]).v]])
AllCharacters(head, n, k) == Roster(Walk(head, n, NextCharacter), n, k)
CharacterList(head, k) == AllCharacters(head, Unsigned(head.got[1]), k)
Characters(c, k) == CharacterList(Take(c, <<Skip(1), Skip(4), Get(1)>>), k)

Told(m, k) == Now(m.c, IF m.ok /\ m.v[2] # <<>> THEN [k EXCEPT !.told = m.v[1] \o m.v[2]] ELSE k)
Offered(t, k) == Now(t.c, IF t.ok THEN [k EXCEPT !.offered = Append(@, t.v)] ELSE k)

(* The dispatcher (mod.rs, handle). *)
Handled(op, bytes, k) ==
    LET c == Reader(bytes)
        gone == Take(c, <<Get(4)>>)
        names == [p \in {e \in DOMAIN k.around : k.around[e].mob = 0} |-> k.around[p].name]
    IN CASE op = "SPAWN_MONSTER" -> SpawnMob(ParseMob(c), FALSE, k)
         [] op = "SPAWN_MONSTER_CONTROL" -> SpawnMob(ParseControl(c), TRUE, k)
         [] op = "SPAWN_PLAYER" -> SpawnPlayer(c, k)
         [] op = "MOVE_PLAYER" -> MovePlayer(c, k)
         [] op = "MOVE_MONSTER" -> MoveMob(c, k)
         [] op = "SHOW_MONSTER_HP" -> MobHp(c, k)
         [] op \in {"KILL_MONSTER", "REMOVE_PLAYER_FROM_MAP"} -> Now(gone, Gone(c, k))
         [] op = "CLOSE_RANGE_ATTACK" -> OwnAttack(c, k)
         [] op = "DROP_ITEM_FROM_MAPOBJECT" -> DropSeen(c, k)
         [] op = "REMOVE_ITEM_FROM_MAP" -> DropGone(c, k)
         [] op = "UPDATE_STATS" -> UpdateStats(c, k)
         [] op = "UPDATE_SKILLS" -> UpdateSkills(c, k)
         [] op = "SET_FIELD" -> Landed(c, k)
         [] op = "MODIFY_INVENTORY_ITEM" -> Gained(c, k)
         [] op = "SPAWN_NPC" -> SpawnNpc(c, k)
         [] op = "REMOVE_NPC" -> RemoveNpc(c, k)
         [] op = "REACTOR_SPAWN" -> SpawnReactor(c, k)
         [] op = "REACTOR_HIT" -> ReactorHit(c, k)
         [] op = "REACTOR_DESTROY" -> ReactorGone(c, k)
         [] op = "KEYMAP" -> Keymap(c, k)
         [] op = "SET_CASH_SHOP" -> EnterShop(c, k)
         [] op = "CS_UPDATE" -> Balance(c, k)
         [] op = "CS_OPERATION" -> CashItems(c, k)
         [] op = "SERVERLIST" -> Worlds(c, k)
         [] op = "CHARLIST" -> Characters(c, k)
         [] op = "MULTICHAT" -> Told(ParseMultiChat(c), k)
         [] op = "WHISPER" -> Told(ParseWhisper(c), k)
         [] op = "CHATTEXT" -> Told(ParseChatText(c, names), k)
         [] op = "SET_WEEK_EVENT_MESSAGE" -> Told(ParseYellow(c), k)
         [] op = "SERVERMESSAGE" -> Told(ParseServerMessage(c), k)
         [] op = "TRADE_ITEM_ADD" -> Offered(ParseTradeItem(c), k)
=============================================================================
