--------------------------- MODULE ServerPackets ---------------------------
(***************************************************************************)
(* Bodies as a server of this version writes them, each with what it       *)
(* means.  The server is not part of the repository: the layouts are the   *)
(* ones the parsers' comments and tests name.  One packet for every way a  *)
(* parser can go: both mob layouts, items with and without a unique id, a  *)
(* pet, a rechargeable stack, the four movement shapes, a fourth-job skill.*)
(***************************************************************************)
EXTENDS Handlers

CONSTANT SelfBytes   \* what a look of the run leaves of a spawn, SelfBlock

Uid == [i \in 1..8 |-> i]
Item(id, qty, type, uid, upgrades) == [id |-> id, qty |-> qty, type |-> type, uid |-> uid, upgrades |-> upgrades]

UidBytes(uid) == IF uid = Zeros(8) THEN U8(0) ELSE U8(1) \o uid
SerialBytes(uid) == IF uid = Zeros(8) THEN Zeros(8) ELSE <<>>
ChargeBytes(id) == IF id \div 10000 \in {207, 233} THEN [i \in 1..8 |-> 9] ELSE <<>>
Blessed == U8(1) \o Str(<<88>>)   \* by a friend of that name
Unblessed == U8(0)
EquipBytes(id, uid, upgrades) ==
    U8(1) \o I32(id) \o UidBytes(uid) \o Zeros(8)
    \o U8(upgrades) \o Zeros(31) \o Str(<<65>>) \o Zeros(12) \o SerialBytes(uid) \o Zeros(12)
StackBytes(id, qty) ==
    U8(2) \o I32(id) \o U8(0) \o Zeros(8) \o I16(qty) \o Str(<<>>) \o Zeros(2) \o ChargeBytes(id)
PetBytes(id) == U8(3) \o I32(id) \o U8(1) \o Uid \o Zeros(8) \o [i \in 1..35 |-> 3]

Sword == Item(1302000, 1, 1, Zeros(8), 7)
Cloak == Item(1102041, 1, 1, Uid, 0)
Stars == Item(2070000, 500, 2, Zeros(8), 0)
Potion == Item(2000003, 30, 2, Zeros(8), 0)
SwordBytes == EquipBytes(1302000, Zeros(8), 7)
CloakBytes == EquipBytes(1102041, Uid, 0)

Name == <<66, 67>>
NamePadded == Name \o Zeros(11)
AbilityBytes == I16(11) \o I16(12) \o I16(13) \o I16(14)   \* str, dex, int, luk
StatBytes(hp) ==
    U8(30) \o I16(112) \o AbilityBytes \o I16(hp) \o I16(400) \o I16(55) \o I16(66) \o I16(2) \o I16(3)
    \o I32(70000) \o Zeros(19)
WornBytes ==   \* the sword, and with cash the cloaks at -101 and -100
    U8(11) \o SwordBytes \o U8(0) \o U8(1) \o CloakBytes \o U8(100) \o CloakBytes \o U8(0)
BagBytes ==    \* the five tabs
    U8(4) \o SwordBytes \o U8(0) \o U8(1) \o StackBytes(2070000, 500) \o U8(2) \o StackBytes(2000003, 30) \o U8(0)
    \o Zeros(2) \o U8(1) \o PetBytes(5000001) \o U8(0)
BodyBytes(hp, bless) ==
    I32(Me) \o NamePadded \o Zeros(34) \o StatBytes(hp) \o U8(20) \o bless
    \o I32(123456) \o Zeros(25) \o WornBytes \o BagBytes
Character(k, hp) ==
    [k.self EXCEPT !.name = Name, !.level = 30, !.str = 11, !.dex = 12, !.int = 13, !.luk = 14, !.hp = hp, !.maxhp = 400,
                   !.mp = 55, !.maxmp = 66, !.ap = 2, !.sp = 3, !.exp = 70000, !.meso = 123456, !.nx = 0, !.points = 0]
(* On another map there is nothing yet, and the cash shop is behind.        *)
Elsewhere(k) ==
    [k EXCEPT !.around = IF Me \in DOMAIN @ THEN [o \in {Me} |-> @[Me]] ELSE None, !.at = <<0, 0>>, !.ground = 0,
              !.drops = None, !.npcs = None, !.reactors = None,
              !.sale = <<>>, !.cash = <<>>, !.self.nx = 0, !.self.points = 0]
Wearing == [s \in {-11, -101, -100} |-> IF s = -11 THEN Sword ELSE Cloak]
Carrying == [s \in {<<1, 4>>, <<2, 1>>, <<2, 2>>} |->
              IF s = <<1, 4>> THEN Sword ELSE IF s = <<2, 1>> THEN Stars ELSE Potion]
SkillBytes == I16(3) \o I32(1001005) \o I32(5) \o I32(1121000) \o I32(2) \o I32(30) \o I32(1300000) \o I32(0)
Learned == [s \in {1001005, 1121000} |-> IF s = 1001005 THEN 5 ELSE 2]
LookBytes == Zeros(11) \o U8(5) \o I32(1040002) \o U8(255) \o U8(1) \o I32(1000) \o U8(255) \o Zeros(16)
CashBytes(sn) == Uid \o Zeros(8) \o I32(5000) \o I32(sn) \o I16(1) \o Zeros(29)
Cash(sn) == [uid |-> Uid, id |-> 5000, sn |-> sn, qty |-> 1]

MobAt(x, y, fh, own) == [mob |-> 100100, x |-> x, y |-> y, fh |-> fh, controlled |-> own, name |-> <<>>]
Walked ==
    U8(4) \o U8(0) \o Point(10, 20) \o Zeros(6) \o U8(2) \o I16(1)
          \o U8(15) \o Point(11, 21) \o Zeros(8) \o U8(2) \o I16(1)
          \o U8(10) \o U8(1)
          \o U8(1) \o Zeros(4) \o U8(4) \o I16(1)
Hop == U8(2) \o U8(3) \o Point(-50, 60) \o Zeros(2) \o U8(4) \o I16(1) \o U8(14) \o Zeros(6) \o U8(4) \o I16(1)

RingBytes ==   \* a crush ring, a friendship ring, a wedding, and what follows them
    I16(1) \o Zeros(33) \o I16(1) \o Zeros(37) \o I16(1) \o Zeros(25) \o Zeros(75)
SaleBytes ==   \* two offers, with different fields left out
    I16(2) \o I32(801) \o I32(1 + 4 + 16 + 1024) \o I32(5010) \o I32(900) \o U8(1) \o U8(1)
           \o I32(802) \o I32(1 + 2 + 65536) \o I32(5011) \o I16(3) \o U8(2)

Says(op, bytes, known) == [op |-> op, bytes |-> bytes, means |-> known]

(* What the server may say to a bot that knows k, and what the bot should   *)
(* know then.                                                               *)
Packets(k) ==
    [ mob |-> Says("SPAWN_MONSTER", I32(21) \o U8(1) \o I32(100100) \o Zeros(15) \o <<8>> \o Zeros(4) \o Point(5, 215) \o U8(2) \o Zeros(2) \o I16(3),
                   [k EXCEPT !.around = Put(@, 21, MobAt(5, 215, 3, FALSE)), !.ground = 215]),
      plainmob |-> Says("SPAWN_MONSTER", I32(21) \o U8(1) \o I32(100100) \o Zeros(16) \o Point(5, -215) \o U8(2) \o Zeros(2) \o I16(3),
                   [k EXCEPT !.around = Put(@, 21, MobAt(5, -215, 3, FALSE))]),
      variant |-> Says("SPAWN_MONSTER_CONTROL", U8(1) \o I32(21) \o U8(1) \o I32(100100) \o Zeros(15) \o <<136>> \o Zeros(6) \o Point(5, 115) \o U8(2),
                   [k EXCEPT !.around = Put(@, 21, MobAt(5, 115, 0, TRUE)), !.ground = 115]),
      known |-> Says("SPAWN_MONSTER", I32(9) \o U8(1) \o I32(100100) \o Zeros(15) \o <<8>> \o Zeros(4) \o Point(5, 5) \o U8(2) \o Zeros(2) \o I16(3), k),
      released |-> Says("SPAWN_MONSTER_CONTROL", U8(0) \o I32(9), [k EXCEPT !.around = Without(@, 9)]),
      stunned |-> Says("SPAWN_MONSTER", I32(22) \o U8(1) \o I32(100100) \o <<1>> \o Zeros(15) \o Zeros(13), k),
      player |-> Says("SPAWN_PLAYER", I32(12) \o U8(30) \o Str(<<80>>), [k EXCEPT !.around = Put(@, 12, Player(<<80>>, 0, 0))]),
      self |-> Says("SPAWN_PLAYER", I32(Me) \o U8(30) \o Str(Name) \o Str(<<71>>) \o Zeros(6 + 16) \o SelfBytes \o LookBytes \o Zeros(20) \o Point(300, 92) \o U8(4),
                   [k EXCEPT !.around = Put(@, Me, Player(Name, 0, 0)), !.at = <<300, 92>>]),
      moves |-> Says("MOVE_PLAYER", I32(Me) \o Zeros(4) \o Walked,
                   [k EXCEPT !.at = <<11, 21>>, !.around[Me].x = 11, !.around[Me].y = 21]),
      mobmoves |-> Says("MOVE_MONSTER", I32(9) \o Zeros(11) \o Hop, [k EXCEPT !.around[9].x = -50, !.around[9].y = 60]),
      hurt |-> Says("SHOW_MONSTER_HP", I32(9) \o U8(40), k),
      dead |-> Says("SHOW_MONSTER_HP", I32(9) \o U8(0), [k EXCEPT !.around = Without(@, 9)]),
      killed |-> Says("KILL_MONSTER", I32(9) \o U8(1), [k EXCEPT !.around = Without(@, 9)]),
      attack |-> Says("CLOSE_RANGE_ATTACK", I32(Me) \o U8(2 * 16 + 2) \o U8(30) \o U8(5) \o I32(1001005) \o Zeros(9) \o I32(9) \o U8(7) \o Zeros(8) \o I32(21) \o U8(7) \o Zeros(8),
                   [k EXCEPT !.told = <<1001005, 9, 21>>]),
      drop |-> Says("DROP_ITEM_FROM_MAPOBJECT", U8(1) \o I32(51) \o U8(0) \o I32(4000001) \o Zeros(5) \o Point(7, 8) \o Zeros(4),
                   [k EXCEPT !.drops = Put(@, 51, [id |-> 4000001, meso |-> FALSE, x |-> 7, y |-> 8])]),
      denied |-> Says("DROP_ITEM_FROM_MAPOBJECT", U8(1) \o I32(52) \o U8(0) \o I32(4000002) \o Zeros(5) \o Point(7, 8) \o Zeros(4), k),
      meso |-> Says("DROP_ITEM_FROM_MAPOBJECT", U8(1) \o I32(53) \o U8(1) \o I32(4000002) \o Zeros(5) \o Point(7, 8) \o Zeros(4),
                   [k EXCEPT !.drops = Put(@, 53, [id |-> 4000002, meso |-> TRUE, x |-> 7, y |-> 8])]),
      taken |-> Says("REMOVE_ITEM_FROM_MAP", U8(2) \o I32(5), [k EXCEPT !.drops = Without(@, 5)]),
      stats |-> Says("UPDATE_STATS", U8(0) \o I32(1 + 8 + 64 + 256 + 4096 + 8192 + 65536 + 262144 + 524288 + 1048576)
                       \o U8(1) \o U8(31) \o I16(9) \o I16(25) \o I16(410) \o I16(5) \o I32(80000) \o I16(3) \o I32(-1) \o Zeros(24),
                   [k EXCEPT !.self.level = 31, !.self.str = 9, !.self.hp = 25, !.self.maxhp = 410, !.self.ap = 5,
                             !.self.exp = 80000, !.self.meso = -1]),
      skills |-> Says("UPDATE_SKILLS", U8(1) \o I16(1) \o I32(1001005) \o I32(6) \o I32(0) \o Zeros(9),
                   [k EXCEPT !.skills = Put(@, 1001005, 6)]),
      landed |-> Says("SET_FIELD", I32(4) \o U8(1) \o U8(1) \o Zeros(24) \o BodyBytes(90, Blessed) \o SkillBytes,
                   [Elsewhere(k) EXCEPT !.channel = 5, !.self = Character(k, 90),
                                        !.bag = Carrying, !.worn = Wearing, !.skills = Learned]),
      warped |-> Says("SET_FIELD", I32(4) \o U8(0) \o U8(3) \o Zeros(3) \o I32(103000000) \o U8(2) \o I16(50) \o Zeros(8),
                   [Elsewhere(k) EXCEPT !.channel = 5, !.map = 103000000]),
      gained |-> Says("MODIFY_INVENTORY_ITEM", U8(0) \o U8(1) \o U8(0) \o U8(2) \o I16(9) \o StackBytes(2070000, 500),
                   [k EXCEPT !.bag = Put(@, <<2, 9>>, Stars)]),
      donned |-> Says("MODIFY_INVENTORY_ITEM", U8(0) \o U8(1) \o U8(0) \o U8(1) \o I16(-5) \o CloakBytes,
                   [k EXCEPT !.worn = Put(@, -5, Cloak)]),
      npc |-> Says("SPAWN_NPC", I32(61) \o I32(9010) \o Zeros(4) \o Point(70, 80),
                   [k EXCEPT !.npcs = Put(@, 61, [id |-> 9010, x |-> 70, y |-> 80])]),
      npcleaves |-> Says("REMOVE_NPC", I32(6), [k EXCEPT !.npcs = Without(@, 6)]),
      reactor |-> Says("REACTOR_SPAWN", I32(71) \o I32(2000) \o U8(0) \o Point(3, 4) \o U8(0) \o Str(<<82>>),
                   [k EXCEPT !.reactors = Put(@, 71, [state |-> 0, x |-> 3, y |-> 4])]),
      hit |-> Says("REACTOR_HIT", I32(7) \o U8(2) \o Point(5, 6) \o Zeros(4), [k EXCEPT !.reactors[7] = [state |-> 2, x |-> 5, y |-> 6]]),
      broken |-> Says("REACTOR_DESTROY", I32(7) \o U8(3) \o Point(5, 6), [k EXCEPT !.reactors = Without(@, 7)]),
      keymap |-> Says("KEYMAP", Zeros(1) \o U8(4) \o I32(10) \o Zeros(5 * (Keys - 2)) \o U8(5) \o I32(54),
                   [k EXCEPT !.keymap = [i \in 1..Keys |-> IF i = 1 THEN <<4, 10>> ELSE IF i = Keys THEN <<5, 54>> ELSE <<0, 0>>]]),
      shop |-> Says("SET_CASH_SHOP", Zeros(9) \o BodyBytes(90, Unblessed) \o Zeros(10) \o RingBytes \o Str(<<65>>) \o I32(2) \o Zeros(8) \o SaleBytes \o Zeros(8),
                   [k EXCEPT !.sale = <<[sn |-> 801, id |-> 5010, price |-> 900], [sn |-> 802, id |-> 5011, price |-> 0]>>]),
      balance |-> Says("CS_UPDATE", I32(1200) \o I32(34), [k EXCEPT !.self.nx = 1200, !.self.points = 34]),
      stored |-> Says("CS_OPERATION", U8(66) \o I16(2) \o CashBytes(1) \o CashBytes(2) \o Zeros(4), [k EXCEPT !.cash = <<Cash(1), Cash(2)>>]),
      bought |-> Says("CS_OPERATION", U8(76) \o CashBytes(3), [k EXCEPT !.cash = Append(@, Cash(3))]),
      worlds |-> Says("SERVERLIST", U8(3) \o Str(<<87>>) \o U8(0) \o Str(<<>>) \o Zeros(4) \o U8(2) \o Zeros(4)
                      \o Str(<<49>>) \o I32(10) \o Zeros(3) \o Str(<<50>>) \o I32(20) \o Zeros(3) \o Zeros(2),
                   [k EXCEPT !.worlds = Append(@, [id |-> 3, name |-> <<87>>, loads |-> <<10, 20>>])]),
      lastworld |-> Says("SERVERLIST", U8(255), k),
      characters |-> Says("CHARLIST", Zeros(5) \o U8(2)
                      \o I32(77) \o NamePadded \o Zeros(34) \o U8(30) \o I16(900) \o Zeros(43) \o LookBytes \o Zeros(2)
                      \o I32(78) \o NamePadded \o Zeros(34) \o U8(30) \o I16(112) \o Zeros(43) \o LookBytes \o Zeros(1)
                      \o Zeros(2) \o I32(6),
                   [k EXCEPT !.characters = <<[id |-> 77, name |-> Name, job |-> 900], [id |-> 78, name |-> Name, job |-> 112]>>]),
      party |-> Says("MULTICHAT", U8(1) \o Str(<<80>>) \o Str(<<72, 73>>), [k EXCEPT !.told = <<80, 72, 73>>]),
      whisper |-> Says("WHISPER", U8(18) \o Str(<<80>>) \o I16(0) \o Str(<<72>>), [k EXCEPT !.told = <<80, 72>>]),
      chat |-> Says("CHATTEXT", I32(Me) \o U8(0) \o Str(<<72>>) \o U8(0), [k EXCEPT !.told = k.around[Me].name \o <<72>>]),
      yellow |-> Says("SET_WEEK_EVENT_MESSAGE", U8(255) \o Str(<<72>>), [k EXCEPT !.told = <<72>>]),
      notice |-> Says("SERVERMESSAGE", U8(4) \o U8(1) \o Str(<<72>>) \o Zeros(4), [k EXCEPT !.told = <<72>>]),
      silent |-> Says("SERVERMESSAGE", U8(4) \o U8(0), k),
      offer |-> Says("TRADE_ITEM_ADD", U8(1) \o U8(3) \o SwordBytes, [k EXCEPT !.offered = Append(@, Sword)]) ]
=============================================================================
