------------------------------ MODULE Parsers ------------------------------
(***************************************************************************)
(* What the bot makes of the bodies the server sends (parsers/*.rs).  A    *)
(* parser takes a cursor and gives it back in `c`, with `ok` if it has an  *)
(* answer and the answer in `v`.  A loop that can no longer end leaves the *)
(* cursor `stuck`: nothing after it is ever executed.                      *)
(***************************************************************************)
EXTENDS Cursor

CONSTANTS
    Keys,          \* keys of a keymap packet, 90 in the program
    SelfBlock      \* bytes between a player's buff mask and its look, 127
ASSUME ParsersAssumption == Keys \in Nat

Reader(bytes) == [bytes |-> bytes, pos |-> 0, failed |-> FALSE, got |-> <<>>, stuck |-> FALSE]
Value(c, k) == Signed(c.got[k])
Answer(c, v) == [c |-> c, ok |-> TRUE, v |-> v]
Nothing(c) == [c |-> c, ok |-> FALSE, v |-> <<>>]
(* Slip: nobody asks whether the cursor has failed. *)
CheckedSlip(c, v) == Answer(c, v)
Checked(c, v) == IF c.failed THEN Nothing(c) ELSE Answer(c, v)

Put(map, key, value) == [k \in DOMAIN map \cup {key} |-> IF k = key THEN value ELSE map[k]]
None == [k \in {} |-> k]
Merged(new, old) == [k \in DOMAIN new \cup DOMAIN old |-> IF k \in DOMAIN new THEN new[k] ELSE old[k]]
(* A list read into a map: the last value of a key is the one that stays.   *)
Latest(turns) == CHOOSE i \in turns : \A j \in turns : j <= i
Mapped(keys, values) ==
    [k \in {keys[i] : i \in DOMAIN keys} |-> values[Latest({i \in DOMAIN keys : keys[i] = k})]]

(* -- items (inventory.rs) ------------------------------------------------ *)
EquipLayout(unique) ==
    <<Get(1), Get(1)>> \o [i \in 1..15 |-> Get(2)] \o <<SkipText, Get(2), Get(1), Get(1), Get(4), Get(4)>>
    \o (IF unique THEN <<>> ELSE <<Skip(8)>>) \o <<Skip(12)>>
KindOf(type, id) == IF type = 1 THEN "equip" ELSE IF id \div 10000 = 500 THEN "pet" ELSE "stack"
ItemLayout(kind, id, unique) ==
    CASE kind = "equip" -> EquipLayout(unique)
      [] kind = "pet" -> <<Skip(35)>>
      [] kind = "stack" -> <<Get(2), SkipText, Skip(2)>> \o (IF id \div 10000 \in {207, 233} THEN <<Skip(8)>> ELSE <<>>)
TheItem(kind, type, id, uid, rest) ==
    Checked(rest, [id |-> id, uid |-> uid,
                   qty |-> IF kind = "stack" THEN Value(rest, 1) ELSE 1,
                   type |-> CASE kind = "equip" -> 1 [] kind = "pet" -> 5 [] kind = "stack" -> type,
                   upgrades |-> IF kind = "equip" THEN Value(rest, 1) ELSE 0])
BodyOfItem(kind, type, id, unique, body) ==
    IF body.failed THEN Nothing(body)
    ELSE TheItem(kind, type, id, IF unique THEN body.got[1] ELSE Zeros(8), Take(body, ItemLayout(kind, id, unique)))
ItemAfter(head) ==
    LET type == Value(head, 1)
        id == Value(head, 2)
        unique == Unsigned(head.got[3]) # 0
    IN BodyOfItem(KindOf(type, id), type, id, unique, Take(head, (IF unique THEN <<Get(8)>> ELSE <<>>) \o <<Skip(8)>>))
ParseItem(c) == ItemAfter(Take(c, <<Get(1), Get(4), Get(1)>>))

(* A block of items, each behind the byte of its slot, ended by a zero. *)
NextSlot(at) == Take(ParseItem(at).c, <<Get(1)>>)
NoSlot(at) == at.failed \/ Unsigned(at.got[1]) = 0
Stocked(at, slots, items) ==
    LET end == Turns(at, NoSlot)
        item == [i \in 0..end - 1 |-> ParseItem(at[i])]
        read == {i \in 0..end - 1 : item[i].ok}
    IN [c |-> at[end],
        items |-> Merged(Mapped([i \in read |-> slots[Unsigned(at[i].got[1])]], [i \in read |-> item[i].v]), items)]
Block(c, slots, items) == Stocked(Walk(Take(c, <<Get(1)>>), Len(c.bytes) + 1, NextSlot), slots, items)

BodySlot == [p \in 1..255 |-> -p]
CashSlot == [p \in 1..255 |-> IF p < 100 THEN -(100 + p) ELSE -p]
BagSlot(tab) == [p \in 1..255 |-> <<tab, p>>]

(* -- skills (skill.rs) --------------------------------------------------- *)
FourthJob(id) == ((id \div 10000) % 100) \in {12, 22, 32, 42, 52, 62, 72, 82, 92}
NextSkill(at) ==
    LET two == Take(at, <<Get(4), Get(4)>>)
    IN Fields(two, IF FourthJob(Value(two, 1)) THEN <<Skip(4)>> ELSE <<>>)
SkillsRead(at, n) ==
    LET learned == {i \in 1..n : Value(at[i], 2) > 0}
    IN Checked(at[n], Mapped([i \in learned |-> Value(at[i], 1)], [i \in learned |-> Value(at[i], 2) % 256]))
AllSkills(count, n) == IF count.failed THEN Nothing(count) ELSE SkillsRead(Walk(count, n, NextSkill), n)
SkillsOf(count) == AllSkills(count, Times(Value(count, 1)))
ParseSkills(c) == SkillsOf(Take(c, <<Get(2)>>))

(* -- the character (field.rs, parse_charinfo) ---------------------------- *)
StatsLayout ==
    <<Get(4), Padded(13), Skip(34), Get(1)>> \o [i \in 1..11 |-> Get(2)] \o <<Get(4), Skip(19)>>
Meso(c) ==
    LET bless == Take(c, <<Skip(1), Get(1)>>)
    IN Take(bless, (IF Unsigned(bless.got[1]) = 1 THEN <<SkipText>> ELSE <<>>) \o <<Get(4), Skip(25)>>)
CashAfter(body) == Block(body.c, CashSlot, body.items)
Equipped(c) == CashAfter(Block(c, BodySlot, None))
(* The five tabs; the items of the last one are read and forgotten. *)
Tab(block, tab) == Block(block.c, BagSlot(tab), block.items)
Emptied(block) == [block EXCEPT !.c = Block(block.c, BagSlot(5), None).c]
Bag(c) == Emptied(Tab(Tab(Tab(Tab([c |-> c, items |-> None], 1), 2), 3), 4))
Whole(stats, meso, worn, bag) ==
    Answer(bag.c,
      [name |-> stats.got[2], level |-> Unsigned(stats.got[3]),
       str |-> Value(stats, 5), dex |-> Value(stats, 6), int |-> Value(stats, 7), luk |-> Value(stats, 8),
       hp |-> Value(stats, 9), maxhp |-> Value(stats, 10), mp |-> Value(stats, 11), maxmp |-> Value(stats, 12),
       ap |-> Value(stats, 13), sp |-> Value(stats, 14), exp |-> Value(stats, 15), meso |-> meso,
       worn |-> worn, bag |-> bag.items])
WornAfter(stats, meso, worn) == Whole(stats, Value(meso, 1), worn.items, Bag(worn.c))
MesoAfter(stats, meso) == IF meso.failed THEN Nothing(meso) ELSE WornAfter(stats, meso, Equipped(meso))
BodyAfter(stats) == IF stats.failed THEN Nothing(stats) ELSE MesoAfter(stats, Meso(stats))
ParseBody(c) == BodyAfter(Take(c, StatsLayout))
SkillsAfter(body, skills) == IF skills.ok THEN Answer(skills.c, Merged(body, [skills |-> skills.v])) ELSE skills
WithSkills(body) == IF body.ok THEN SkillsAfter(body.v, ParseSkills(body.c)) ELSE body
ParseCharInfo(c) == WithSkills(ParseBody(Take(c, <<Skip(24)>>)))

(* -- the look of a character (login.rs, parse_look) ---------------------- *)
(* The loop ends at the byte 255 and nowhere else: a cursor that has failed  *)
(* reads zeros, each a slot with an id.                                     *)
NextWorn(at) == Take(at, <<Skip(4), Get(1)>>)
NoneWorn(at) == at.failed \/ Unsigned(at.got[1]) = 255
Undressed(last) == IF last.failed THEN [last EXCEPT !.stuck = TRUE] ELSE last
LastWorn(at) == Undressed(at[Turns(at, NoneWorn)])
Worn(slot) == LastWorn(Walk(slot, Len(slot.bytes) + 1, NextWorn))
Look(c) ==
    LET visible == Worn(Take(c, <<Skip(11), Get(1)>>))
        masked == Worn(Take(visible, <<Get(1)>>))
    IN Take(masked, <<Get(4), Skip(12)>>)

(* -- the login screens (login.rs) ---------------------------------------- *)
NextLoad(at) == Take(at, <<SkipText, Get(4), Skip(3)>>)
World(id, name, at, n) ==
    Answer(Take(at[n], <<Skip(2)>>), [id |-> id, name |-> name, loads |-> [i \in 1..n |-> Value(at[i], 1)]])
Channels(id, head, n) == World(id, head.got[1], Walk(head, n, NextLoad), n)
WorldAfter(id, head) == Channels(id, head, Unsigned(head.got[4]))
WorldOf(id) ==
    IF Value(id, 1) = -1 THEN Nothing(id)
    ELSE WorldAfter(Value(id, 1), Take(id, <<Text, Get(1), Text, Skip(4), Get(1), Skip(4)>>))
ParseWorld(c) == WorldOf(Take(c, <<Get(1)>>))
ParseCharacter(c) ==
    LET id == Take(c, <<Get(4), Padded(13), Skip(34), Get(1), Get(2)>>)
        job == Value(id, 4)
        look == Look(Take(id, <<Skip(24 + 2 + 12 + 5)>>))
    IN Answer(Take(look, <<Skip(IF job = 900 THEN 2 ELSE 1)>>),
              [id |-> Value(id, 1), name |-> id.got[2], job |-> job])

(* -- things on the map (field.rs) ---------------------------------------- *)
(* Four words of status decide the layout: none, the empty one with its     *)
(* int, the variant server's, or statuses whose length nobody knows.        *)
Variant == <<Zeros(4), Zeros(4), Zeros(4), <<0, 0, 0, 136>>>>
Plain   == <<Zeros(4), Zeros(4), Zeros(4), Zeros(4)>>
Empty   == <<Zeros(4), Zeros(4), Zeros(4), <<0, 0, 0, 8>>>>
SpawnTail(c, oid, mob, controlled) ==
    LET mask == Take(c, <<Get(4), Get(4), Get(4), Get(4)>>)
        place == Take(mask, IF mask.got = Variant THEN <<Skip(6), Get(2), Get(2), Get(1)>>
                            ELSE (IF mask.got = Empty THEN <<Skip(4)>> ELSE <<>>)
                                 \o <<Get(2), Get(2), Get(1), Skip(2), Get(2)>>)
    IN IF mask.got \notin {Variant, Plain, Empty} THEN Nothing(mask)
       ELSE Answer(place, [oid |-> oid, mob |-> mob, x |-> Value(place, 1), y |-> Value(place, 2),
                           fh |-> IF mask.got = Variant THEN 0 ELSE Value(place, 4), controlled |-> controlled])
ParseMob(c) ==
    LET head == Take(c, <<Get(4), Skip(1), Get(4)>>)
    IN SpawnTail(head, Value(head, 1), Value(head, 2), FALSE)
(* Aggro 0: the server takes the mob away; told by a mob of id 0. *)
ParseControl(c) ==
    LET head == Take(c, <<Get(1), Get(4)>>)
        more == Take(head, <<Skip(1), Get(4)>>)
    IN IF Unsigned(head.got[1]) = 0
       THEN Answer(head, [oid |-> Value(head, 2), mob |-> 0, x |-> 0, y |-> 0, fh |-> 0, controlled |-> FALSE])
       ELSE SpawnTail(more, Value(head, 2), Value(more, 1), TRUE)
ParseDrop(c) ==
    LET d == Take(c, <<Skip(1), Get(4), Get(1), Get(4), Skip(5), Get(2), Get(2), Skip(4)>>)
    IN Answer(d, [oid |-> Value(d, 1), meso |-> Unsigned(d.got[2]) # 0, id |-> Value(d, 3),
                  x |-> Value(d, 4), y |-> Value(d, 5)])
(* The bot's own spawn, at fixed distances around its look. *)
ParseSelf(c) ==
    LET look == Look(Take(c, <<SkipText, Skip(6), Skip(16), Skip(SelfBlock)>>))
        place == Take(look, <<Skip(20), Get(2), Get(2), Get(1)>>)
    IN Answer(place, <<Value(place, 1), Value(place, 2)>>)
Hit(at, hits) == Take(at, <<Get(4), Skip(1)>> \o [j \in 1..hits |-> Get(4)])
Struck(cid, skill, at, n) == Answer(at[n], [cid |-> cid, skill |-> skill, oids |-> [i \in 1..n |-> Value(at[i], 1)]])
ParseAttack(c) ==
    LET head == Take(c, <<Get(4), Get(1), Skip(1), Get(1)>>)
        used == Unsigned(head.got[3]) # 0
        skill == Take(head, IF used THEN <<Get(4)>> ELSE <<>>)
        times == Unsigned(head.got[2])
    IN Struck(Value(head, 1), IF used THEN Value(skill, 1) ELSE 0,
              Walk(Take(skill, <<Skip(9)>>), times \div 16, LAMBDA x : Hit(x, times % 16)), times \div 16)

(* -- movement (movement.rs): every command has a layout of its own -------- *)
Absolute == {0, 5, 15, 17}
Hops == {3, 4, 7, 8, 9, 11}
FragmentLayout(command) ==
    CASE command \in Absolute -> <<Get(2), Get(2), Skip(6)>> \o (IF command = 15 THEN <<Skip(2)>> ELSE <<>>)
      [] command \in Hops -> <<Get(2), Get(2), Skip(2)>>
      [] command \in {1, 2, 6, 12, 13, 16, 18, 19, 22} -> <<Skip(4)>>
      [] command = 14 -> <<Skip(6)>>
      [] command = 10 -> <<Skip(1)>>
      [] OTHER -> <<>>
NextFragment(at) ==
    LET command == Take(at, <<Get(1)>>)
        kind == Unsigned(command.got[1])
    IN Fields(command, FragmentLayout(kind) \o (IF kind = 10 THEN <<>> ELSE <<Skip(3)>>))
(* The last position a list of fragments names, and where the cursor is then. *)
Ended(at, n) ==
    LET named == {i \in 1..n : Unsigned(at[i].got[1]) \in Absolute \cup Hops}
        last == at[Latest(named)]
    IN [c |-> at[n], at |-> IF named = {} THEN <<>> ELSE <<Value(last, 2), Value(last, 3)>>]
ParseMoves(c) ==
    LET count == Take(c, <<Get(1)>>)
        n == Unsigned(count.got[1])
    IN Ended(Walk(count, n, NextFragment), n)

(* -- what changed about the character (field.rs, parse_stats_update) ------ *)
(* One field per bit of the mask, in this order. *)
StatField ==
    <<<<1, 1, "skin">>, <<2, 4, "face">>, <<4, 4, "hair">>, <<64, 1, "level">>, <<128, 2, "job">>,
      <<256, 2, "str">>, <<512, 2, "dex">>, <<1024, 2, "int">>, <<2048, 2, "luk">>, <<4096, 2, "hp">>,
      <<8192, 2, "maxhp">>, <<16384, 2, "mp">>, <<32768, 2, "maxmp">>, <<65536, 2, "ap">>, <<131072, 2, "sp">>,
      <<262144, 4, "exp">>, <<524288, 2, "fame">>, <<1048576, 4, "meso">>>>
Unread == {"skin", "face", "hair", "job", "fame"}
(* One bit, or none: a field that is not there is a number of no bytes.     *)
Has(mask, field) == (mask \div field[1]) % 2 = 1
Present(fields, mask) == [i \in 1..Len(fields) |-> Get(IF Has(mask, fields[i]) THEN fields[i][2] ELSE 0)]
ParseStats(c) ==
    LET head == Take(c, <<Get(4)>>)
        mask == Unsigned(head.got[1])
        read == Take(head, Present(StatField, mask))
        rest == Take(read, (IF (mask \div 8) % 8 # 0 THEN <<Skip(24)>> ELSE <<>>)
                           \o (IF (mask \div 2097152) % 2 = 1 THEN <<Skip(4)>> ELSE <<>>))
        told == {i \in 1..Len(StatField) : Has(mask, StatField[i]) /\ StatField[i][3] \notin Unread}
    IN Answer(rest, Mapped([i \in told |-> StatField[i][3]], [i \in told |-> Value(read, i)]))

(* -- the cash shop (cashshop.rs) ----------------------------------------- *)
SaleField ==
    <<<<1, 4, "id">>, <<2, 2, "count">>, <<4, 4, "price">>, <<8, 1, "unk1">>, <<16, 1, "priority">>, <<32, 2, "period">>,
      <<64, 4, "zero">>, <<128, 4, "meso">>, <<256, 1, "unk2">>, <<512, 1, "gender">>, <<1024, 1, "show">>,
      <<2048, 1, "mark">>, <<4096, 1, "unk3">>, <<8192, 2, "a">>, <<16384, 2, "b">>, <<32768, 2, "c">>>>
Package(members) == Take(members, <<Skip(4 * Unsigned(members.got[1]))>>)
OnOffer(sn, flags, read) ==
    LET Said(i) == IF Has(flags, SaleField[i]) THEN Value(read, i) ELSE 0
    IN Checked(IF (flags \div 65536) % 2 = 1 THEN Package(Take(read, <<Get(1)>>)) ELSE read,
               [sn |-> sn, id |-> Said(1), price |-> Said(3)])
SaleOf(head, flags) ==
    IF head.failed THEN Nothing(head) ELSE OnOffer(Value(head, 1), flags, Take(head, Present(SaleField, flags)))
SaleHead(head) == SaleOf(head, Unsigned(head.got[2]))
ParseSale(c) == SaleHead(Take(c, <<Get(4), Get(4)>>))
ParseCashItem(c) ==
    LET i == Take(c, <<Get(8), Skip(8), Get(4), Get(4), Get(2), Skip(29)>>)
    IN Answer(i, [uid |-> i.got[1], id |-> Value(i, 2), sn |-> Value(i, 3), qty |-> Value(i, 4)])
ShopTail(c) ==
    LET crush == Take(c, <<Skip(10), Get(2)>>)
        friend == Take(crush, <<Skip(33 * Times(Value(crush, 1))), Get(2)>>)
        wed == Take(friend, <<Skip(37 * Times(Value(friend, 1))), Get(2)>>)
    IN Take(wed, <<Skip(IF Value(wed, 1) # 0 THEN 25 ELSE 0), Skip(75)>>)
NextSale(at) == ParseSale(at).c
Listed(at, n) == Checked(at[n], [i \in 1..n |-> ParseSale(at[i - 1]).v])
Goods(count, n) == IF count.failed THEN Nothing(count) ELSE Listed(Walk(count, n, NextSale), n)
GoodsOf(count) == Goods(count, Times(Value(count, 1)))
Fixed(fixed) == GoodsOf(Take(fixed, <<Skip(4 * Value(fixed, 1)), Get(2)>>))
GoodsAfter(tail) == Fixed(Take(tail, <<SkipText, Get(4)>>))
SaleAfter(body) == IF body.ok THEN GoodsAfter(ShopTail(body.c)) ELSE body
ParseCashShop(c) == SaleAfter(ParseBody(Take(c, <<Skip(9)>>)))

(* -- chat and trade (chat.rs, trade.rs) ---------------------------------- *)
ParseMultiChat(c) == LET m == Take(c, <<Get(1), Text, Text>>) IN Checked(m, <<m.got[2], m.got[3]>>)
ParseWhisper(c) ==
    LET mode == Take(c, <<Get(1)>>)
        m == Take(mode, <<Text, Get(2), Text>>)
    IN IF Unsigned(mode.got[1]) = 18 THEN Checked(m, <<m.got[1], m.got[3]>>) ELSE Nothing(mode)
ParseChatText(c, names) ==
    LET m == Take(c, <<Get(4), Skip(1), Text, Skip(1)>>)
        cid == Value(m, 1)
    IN Checked(m, <<IF cid \in DOMAIN names THEN names[cid] ELSE <<cid>>, m.got[2]>>)
ParseYellow(c) ==
    LET mark == Take(c, <<Get(1)>>)
        m == Take(mark, <<Text>>)
    IN IF Value(mark, 1) = -1 THEN Checked(m, <<<<>>, m.got[1]>>) ELSE Nothing(mark)
ParseServerMessage(c) ==
    LET kind == Take(c, <<Get(1)>>)
        flag == Take(kind, IF Unsigned(kind.got[1]) = 4 THEN <<Get(1)>> ELSE <<>>)
        m == Take(flag, <<Text>>)
    IN IF flag.got = <<<<0>>>> THEN Answer(flag, <<<<>>, <<>>>>) ELSE Checked(m, <<<<>>, m.got[1]>>)
ParseTradeItem(c) ==
    LET head == Take(c, <<Get(1), Skip(1)>>)
        item == ParseItem(head)
    IN IF head.failed THEN Nothing(head) ELSE IF item.ok THEN Answer(item.c, item.v) ELSE item
=============================================================================
