---------------------------- MODULE BotPackets ----------------------------
(***************************************************************************)
(* The bodies the bot sends (packets/*.rs), behind the opcode, and what a  *)
(* server reads from them: the handlers the builders' comments name, which *)
(* refuse a body that is too short or not used up.                         *)
(***************************************************************************)
EXTENDS ServerPackets, SequencesExt

CONSTANT Tick   \* milliseconds since the program started, four bytes

(* -- combat.rs, movement.rs ---------------------------------------------- *)
MaxTargets == 15
Within(n, low, high) == IF n < low THEN low ELSE IF n > high THEN high ELSE n
AttackHead(count, hits, skill, facing) ==
    Zeros(9) \o U8(16 * count + hits) \o Zeros(8) \o I32(skill) \o Zeros(12)
    \o <<0, facing % 2, 23>> \o Zeros(1) \o U8(4) \o I32(Tick)
(* Slip: the count is cut to what the nibble holds, the targets are not. *)
skill_attackSlip(skill, hits, targets, x, y, facing) ==
    LET h == Within(hits, 1, 15)
        Damage(t) == FlattenSeq([i \in 1..h |-> I32(IF i <= Len(t.hits) THEN t.hits[i] ELSE 0)])
    IN AttackHead(Within(Len(targets), 0, MaxTargets), h, skill, facing)
       \o FlattenSeq([i \in 1..Len(targets) |-> I32(targets[i].oid) \o Zeros(14) \o Damage(targets[i]) \o Zeros(4)])
       \o Point(x, y)
skill_attack(skill, hits, targets, x, y, facing) ==
    LET n == Within(Len(targets), 0, MaxTargets)
        h == Within(hits, 1, 15)
        Damage(t) == FlattenSeq([i \in 1..h |-> I32(IF i <= Len(t.hits) THEN t.hits[i] ELSE 0)])
    IN AttackHead(n, h, skill, facing)
       \o FlattenSeq([i \in 1..n |-> I32(targets[i].oid) \o Zeros(14) \o Damage(targets[i]) \o Zeros(4)])
       \o Point(x, y)
close_attack(oid, x, y, damage, facing) ==
    AttackHead(1, 1, 0, facing) \o I32(oid) \o Zeros(14) \o I32(damage) \o Zeros(4) \o Point(x, y)
damage_reactor(oid, px) == I32(oid) \o I32(0) \o I16(4) \o I16(0) \o I16(px) \o I32(0)
special_move(skill, level, x, y, facing) ==
    Zeros(4) \o I32(skill) \o U8(level) \o Point(x, y) \o U8(IF facing % 2 = 1 THEN 0 ELSE 1)
cancel_buff(skill) == I32(skill)
change_keymap(keys) ==
    I32(Tick) \o I32(Len(keys)) \o FlattenSeq([i \in 1..Len(keys) |-> I32(keys[i][1]) \o U8(keys[i][2]) \o I32(keys[i][3])])
move_player(x, y, wobble, state, duration) ==
    Zeros(33) \o <<1, 0>> \o Point(x, y) \o Point(wobble, 0) \o I16(0) \o U8(state) \o I16(duration) \o U8(0) \o Zeros(8)
move_monster(oid, id, x, y, tx, ty) ==
    I32(oid) \o I16(id) \o <<0, 255>> \o I32(0) \o U8(0) \o I32(1) \o I32(16768460) \o I32(16768460)
    \o Point(x, y) \o <<1, 0>> \o Point(tx, ty) \o Zeros(6) \o U8(2) \o I16(1) \o U8(0) \o Zeros(8)
strange_report(random) == U8(1) \o I32(random) \o I32(0)

(* -- login.rs, map.rs, cashshop.rs, chat.rs, item.rs, stats.rs ------------ *)
login(account, password) == Str(account) \o Str(password) \o [i \in 1..20 |-> i]
set_gender(female, account) == U8(female) \o Str(account)
charlist_request(world, channel) == U8(world) \o U8(channel)
select_char(cid) == I32(cid)
change_channel(channel) == U8(channel) \o I32(Tick)
change_map(portal, x, y) == U8(0) \o I32(-1) \o Str(portal) \o Point(x, y) \o I16(0)
change_map_special(portal, x, y) == U8(0) \o Str(portal) \o Point(x, y)
buy(sn, points) == U8(3) \o U8(points) \o I32(sn)
take_out(uid) == U8(13) \o uid
store(uid, tab) == U8(14) \o uid \o U8(tab)
general_chat(message, show) == Str(message) \o U8(show)
whisper(to, message) == U8(6) \o Str(to) \o Str(message)
pickup(oid, x, y) == I32(Tick) \o U8(0) \o Point(x, y) \o I32(oid)
use_item(slot, item) == I32(Tick) \o I16(slot) \o I32(item)
use_upgrade_scroll(slot, dst, ws) == I32(Tick) \o I16(slot) \o I16(dst) \o I16(ws)
use_reward_item(slot, item) == I16(slot) \o I32(item)
drop_item(tab, slot, qty) == I32(Tick) \o U8(tab) \o I16(slot) \o I16(0) \o I16(qty)
move_item(src, dst) == I32(Tick) \o U8(1) \o I16(src) \o I16(dst) \o I16(-1)
drop_meso(amount) == I32(Tick) \o I32(amount)
distribute_ap(stat) == I32(Tick) \o I32(stat)
distribute_sp(skill) == I32(Tick) \o I32(skill)

(* -- npc.rs, party.rs, trade.rs ------------------------------------------- *)
npc_talk_more(last, selection) == <<last, 1>> \o I32(selection)
npc_talk_text(text) == <<2, 1>> \o Str(text)
npc_shop_buy(item, qty) == U8(0) \o I16(0) \o I32(item) \o I16(qty)
npc_shop_sell(slot, item, qty) == U8(1) \o I16(slot) \o I32(item) \o I16(qty)
accept_invite(party) == U8(27) \o I32(party)
party_invite(name) == U8(4) \o Str(name)
join(party) == U8(3) \o I32(party) \o U8(0)
expel(cid) == U8(5) \o I32(cid)
trade_invite(name) == <<2, 3>> \o Str(name) \o I32(0)
put_item(tab, slot, qty, place) == <<14, tab>> \o I16(slot) \o I16(qty) \o U8(place)
put_meso(meso) == U8(15) \o I32(meso)

(* -- what the server reads ----------------------------------------------- *)
Sends(bytes, layout, means) == [bytes |-> bytes, layout |-> layout, means |-> means]
Long == [i \in 1..300 |-> 65]
Requests ==
    {Sends(close_attack(9, -5, 6, 120, 1), <<Skip(9), Get(1), Skip(8), Get(4), Skip(13), Get(1), Skip(7), Get(4), Skip(14), Get(4), Skip(4), Get(2), Get(2)>>,
       <<17, 0, 1, 9, 120, -5, 6>>),
     Sends(damage_reactor(7, -300), <<Get(4), Get(4), Get(2), Skip(2), Get(2), Skip(4)>>, <<7, 0, 4, -300>>),
     Sends(special_move(1121000, 20, 5, 6, 1), <<Skip(4), Get(4), Get(1), Get(2), Get(2), Get(1)>>, <<1121000, 20, 5, 6, 0>>),
     Sends(cancel_buff(1001003), <<Get(4)>>, <<1001003>>),
     Sends(change_keymap(<<<<59, 1, 1001003>>, <<60, 0, 0>>>>), <<Skip(4), Get(4), Get(4), Get(1), Get(4), Get(4), Get(1), Get(4)>>, <<2, 59, 1, 1001003, 60, 0, 0>>),
     Sends(move_player(-7, 92, 125, 3, 56), <<Skip(33), Get(1), Get(1), Get(2), Get(2), Skip(6), Get(1), Get(2), Get(1), Skip(8)>>, <<1, 0, -7, 92, 3, 56, 0>>),
     Sends(move_monster(9, 300, 10, 20, -12, 20), <<Get(4), Get(2), Get(1), Skip(5), Skip(1), Get(4), Skip(8), Get(2), Get(2), Get(1), Get(1), Get(2), Get(2), Skip(6), Get(1), Get(2), Get(1), Skip(8)>>,
       <<9, 300, 0, 1, 10, 20, 1, 0, -12, 20, 2, 1, 0>>),
     Sends(strange_report(-9), <<Get(1), Get(4), Skip(4)>>, <<1, -9>>),
     Sends(login(<<65>>, Long), <<Text, Text, Skip(20)>>, <<<<65>>, Long>>),
     Sends(set_gender(1, <<65>>), <<Get(1), Text>>, <<1, <<65>>>>),
     Sends(charlist_request(0, 19), <<Get(1), Get(1)>>, <<0, 19>>),
     Sends(select_char(70001), <<Get(4)>>, <<70001>>),
     Sends(change_channel(4), <<Get(1), Skip(4)>>, <<4>>),
     Sends(change_map(<<105>>, -3, 4), <<Get(1), Get(4), Text, Get(2), Get(2), Get(2)>>, <<0, -1, <<105>>, -3, 4, 0>>),
     Sends(change_map_special(<<105>>, -3, 4), <<Skip(1), Text, Get(2), Get(2)>>, <<<<105>>, -3, 4>>),
     Sends(buy(10001, 1), <<Get(1), Get(1), Get(4)>>, <<3, 1, 10001>>),
     Sends(take_out(Uid), <<Get(1), Padded(8)>>, <<13, Uid>>),
     Sends(store(Uid, 2), <<Get(1), Padded(8), Get(1)>>, <<14, Uid, 2>>),
     Sends(general_chat(Long, 0), <<Text, Get(1)>>, <<Long, 0>>),
     Sends(whisper(<<80>>, Long), <<Get(1), Text, Text>>, <<6, <<80>>, Long>>),
     Sends(pickup(51, 5, -6), <<Skip(5), Get(2), Get(2), Get(4)>>, <<5, -6, 51>>),
     Sends(use_item(9, 2000003), <<Skip(4), Get(2), Get(4)>>, <<9, 2000003>>),
     Sends(use_upgrade_scroll(7, -11, 1), <<Skip(4), Get(2), Get(2), Get(2)>>, <<7, -11, 1>>),
     Sends(use_reward_item(3, 2022000), <<Get(2), Get(4)>>, <<3, 2022000>>),
     Sends(drop_item(4, 12, 300), <<Skip(4), Get(1), Get(2), Get(2), Get(2)>>, <<4, 12, 0, 300>>),
     Sends(move_item(7, -11), <<Skip(4), Get(1), Get(2), Get(2), Get(2)>>, <<1, 7, -11, -1>>),
     Sends(drop_meso(50000), <<Skip(4), Get(4)>>, <<50000>>),
     Sends(distribute_ap(256), <<Skip(4), Get(4)>>, <<256>>),
     Sends(distribute_sp(1001005), <<Skip(4), Get(4)>>, <<1001005>>),
     Sends(npc_talk_more(4, 257), <<Get(1), Get(1), Get(4)>>, <<4, 1, 257>>),
     Sends(npc_talk_text(Long), <<Get(1), Get(1), Text>>, <<2, 1, Long>>),
     Sends(npc_shop_buy(2000000, 300), <<Get(1), Skip(2), Get(4), Get(2)>>, <<0, 2000000, 300>>),
     Sends(npc_shop_sell(9, 2000003, 300), <<Get(1), Get(2), Get(4), Get(2)>>, <<1, 9, 2000003, 300>>),
     Sends(accept_invite(70001), <<Get(1), Get(4)>>, <<27, 70001>>),
     Sends(party_invite(Long), <<Get(1), Text>>, <<4, Long>>),
     Sends(join(70001), <<Get(1), Get(4), Skip(1)>>, <<3, 70001>>),
     Sends(expel(70001), <<Get(1), Get(4)>>, <<5, 70001>>),
     Sends(trade_invite(<<80>>), <<Get(1), Get(1), Text, Skip(4)>>, <<2, 3, <<80>>>>),
     Sends(put_item(2, 9, 300, 1), <<Get(1), Get(1), Get(2), Get(2), Get(1)>>, <<14, 2, 9, 300, 1>>),
     Sends(put_meso(70000), <<Get(1), Get(4)>>, <<15, 70000>>)}
Understood(r) ==
    LET c == Take(Reader(r.bytes), r.layout)
        Meant(i) == IF r.layout[i].kind = "get" THEN {"number"} ELSE IF r.layout[i].kind \in {"text", "padded"} THEN {"text"} ELSE {}
        kinds == SelectSeq([i \in 1..Len(r.layout) |-> Meant(i)], LAMBDA k : k # {})
    IN /\ ~c.failed /\ Remaining(c) = 0 /\ Len(c.got) = Len(r.means)
       /\ \A i \in 1..Len(c.got) : IF kinds[i] = {"number"} THEN Value(c, i) = r.means[i] ELSE c.got[i] = r.means[i]
(* An attack: the nibbles of one byte say how often to read what. *)
AttackUnderstood(bytes) ==
    LET head == Take(Reader(bytes), <<Skip(9), Get(1), Skip(8), Get(4), Skip(21)>>)
        hits == Unsigned(head.got[1]) % 16
        block == <<Get(4), Skip(14)>> \o [i \in 1..hits |-> Get(4)] \o <<Skip(4)>>
        read[i \in 0..(Unsigned(head.got[1]) \div 16)] ==
          IF i = 0 THEN Now(head, <<>>)
          ELSE LET before == read[i - 1]
                   one == Take(before.c, block)
               IN Now(one, Append(before.known, [oid |-> Value(one, 1), hits |-> [j \in 1..hits |-> Value(one, j + 1)]]))
        all == read[Unsigned(head.got[1]) \div 16]
        end == Take(all.c, <<Get(2), Get(2)>>)
    IN [whole |-> ~end.failed /\ Remaining(end) = 0, targets |-> all.known]
=============================================================================
