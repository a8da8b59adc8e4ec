-------------------------------- MODULE Bag -------------------------------
(***************************************************************************)
(* The inventory and the worn equipment (handlers/field.rs,                *)
(* handle_inventory_update) and the commands that pick an item from them   *)
(* (command/run.rs): use, drop, sell, equip, unequip.  The bot's copy is   *)
(* moved by the server's updates alone; the commands choose places from    *)
(* that copy, however old it is.  `chest` is the server's inventory; it is *)
(* external.                                                               *)
(***************************************************************************)
EXTENDS Line, Integers, FiniteSets, SequencesExt

CONSTANTS
    Gear,        \* equipment: one of a kind, quantity 0
    Wares,       \* what stacks
    Body,        \* the body slots one kind of gear may take, negative
    Slots,       \* slots of a tab
    MaxStack,
    MaxLoot,     \* bound: items the character finds
    MaxOrders    \* bound: commands

ASSUME BagAssumption ==
    /\ Body \subseteq Int /\ Body # {} /\ \A b \in Body : b < 0
    /\ Slots \in Nat \ {0} /\ MaxStack \in Nat \ {0} /\ {MaxLoot, MaxOrders} \subseteq Nat /\ Gear \cap Wares = {}
    /\ Wares # {} /\ \E f \in [1..Slots -> Gear] : IsInjective(f)
    /\ "empty" \notin Gear \cup Wares   \* what an empty place shows

VARIABLES
    bag,      \* the bot's inventory and equipped
    chest,    \* the server's
    loot,     \* bound: items found
    orders    \* bound: commands given

bagVars == <<bag, chest, loot, orders>>

Equip == 1
Use == 2
Empty == [id |-> "empty"]
Places == ({Equip, Use} \X (1..Slots)) \cup ({Equip} \X Body)
Bodily == {Equip} \X Body
Stack == [id : Gear, qty : {0}] \cup [id : Wares, qty : 1..MaxStack]
Bags == [Places -> Stack \cup {Empty}]

BagTypeOK == bag \in Bags /\ chest \in Bags /\ loot \in 0..MaxLoot /\ orders \in 0..MaxOrders

(* Some gear and a full and a broken stack of wares. *)
BagInit ==
    /\ loot = 0 /\ orders = 0
    /\ LET gear == CHOOSE f \in [1..Slots -> Gear] : IsInjective(f)
           ware == CHOOSE w \in Wares : TRUE
       IN  bag = [p \in Places |->
                     CASE p \in Bodily -> Empty
                       [] p[1] = Use  -> [id |-> ware, qty |-> IF p[2] = 1 THEN MaxStack ELSE 1]
                       [] OTHER       -> [id |-> gear[p[2]], qty |-> 0]]
    /\ chest = bag

-----------------------------------------------------------------------------
(* MODIFY_INVENTORY_ITEM. *)

(* What lay at the target is gone from the copy. *)
Moved(b, from, to) ==
    IF b[from] = Empty THEN b ELSE [b EXCEPT ![from] = Empty, ![to] = b[from]]

HandleInventoryUpdate(b, m) ==
    CASE m.mode = "add"      -> [b EXCEPT ![m.at] = m.item]
      [] m.mode = "quantity" -> IF b[m.at] = Empty THEN b ELSE [b EXCEPT ![m.at].qty = m.qty]
      [] m.mode = "move"     -> Moved(b, m.at, m.to)
      [] m.mode = "remove"   -> [b EXCEPT ![m.at] = Empty]
      [] m.mode = "charinfo" -> m.bag

BagMessage ==
    \E m \in First(inbox) :
        Handle(m) /\ bag' = HandleInventoryUpdate(bag, m) /\ UNCHANGED <<chest, loot, orders>>

-----------------------------------------------------------------------------
(* The commands. *)
Before(p, q) == p[1] < q[1] \/ (p[1] = q[1] /\ p[2] < q[2])
(* The one list of the places of a set in the order of the map. *)
InOrder(S) == {f \in [1..Cardinality(S) -> S] : \A i, j \in DOMAIN f : i < j => Before(f[i], f[j])}
Holding(id) == {p \in Places \ Bodily : bag[p].id = id}
(* The first in the order of the map. *)
Foremost(S) == {p \in S : \A q \in S \ {p} : Before(p, q)}
AtMost(n, m) == IF n < m THEN n ELSE m
AtLeast(n, m) == IF n < m THEN m ELSE n
Amount(p) == AtLeast(bag[p].qty, 1)

Requests(packets) ==
    /\ orders < MaxOrders /\ orders' = orders + 1
    /\ packets # <<>> /\ SendPackets(packets) /\ UNCHANGED <<bag, chest, loot>>

UseItem(id) ==
    \E p \in Foremost({q \in Holding(id) : q[1] = Use}) :
        Requests(<<[op |-> "use", at |-> p, id |-> id]>>)

(* With a slot given, only from there. *)
DropItem(id, qty, slots) ==
    \E p \in Foremost({q \in Holding(id) : q[2] \in slots}) :
        Requests(<<[op |-> "drop", at |-> p, qty |-> AtMost(AtLeast(qty, 1), Amount(p))]>>)

Sale(p, qty) == [op |-> "sell", at |-> p, id |-> bag[p].id, qty |-> qty]

Stacks(id) == InOrder({p \in Holding(id) : bag[p].qty > 0})
Sum(items) ==
    LET upTo[k \in 0..Len(items)] == IF k = 0 THEN 0 ELSE upTo[k - 1] + items[k].qty
    IN  upTo[Len(items)]
AllOf(stacks) == Sum([k \in DOMAIN stacks |-> bag[stacks[k]]])

(* Slip: a stack is sold whole, however much of it was asked for.           *)
SellFromSlip(s, p) == [left |-> s.left - bag[p].qty, out |-> Append(s.out, Sale(p, bag[p].qty))]
SellFrom(s, p) == [left |-> s.left - AtMost(s.left, bag[p].qty),
                   out  |-> Append(s.out, Sale(p, AtMost(s.left, bag[p].qty)))]

(* Stack by stack until the quantity is reached; 0 sells all there is.      *)
Sales(stacks, qty) ==
    LET want == IF qty <= 0 THEN AllOf(stacks) ELSE AtMost(qty, AllOf(stacks))
        after[k \in 0..Len(stacks)] ==
            IF k = 0 THEN [left |-> want, out |-> <<>>]
            ELSE LET s == after[k - 1] IN IF s.left <= 0 THEN s ELSE SellFrom(s, stacks[k])
    IN  after[Len(stacks)].out

Sell(id, qty) == \E stacks \in Stacks(id) : Requests(Sales(stacks, qty))
SellSlot(id, qty, slot) ==
    \E p \in Foremost({q \in Holding(id) : q[2] = slot}) :
        Requests(<<Sale(p, IF qty <= 0 THEN Amount(p) ELSE AtMost(qty, bag[p].qty))>>)

(* A whole tab; `sellammo` is the same for the ammunition of the USE tab.   *)
SellType(tab) ==
    \E full \in InOrder({p \in Places \ Bodily : p[1] = tab /\ bag[p] # Empty}) :
        Requests([i \in DOMAIN full |-> Sale(full[i], Amount(full[i]))])

Worn(b) == {p \in Bodily : b[p] # Empty}
Highest(S) == {p \in S : \A q \in S : q[2] <= p[2]}
Lowest(S) == {p \in S : \A q \in S : q[2] >= p[2]}
EquipItem(id) ==
    \E from \in Foremost({q \in Holding(id) : q[1] = Equip}),
       to \in Lowest(Bodily \ Worn(bag)) :
        Requests(<<[op |-> "wear", at |-> from, to |-> to]>>)

(* To the first free slot, or the first slot of a full tab.                 *)
UnequipItem(id) ==
    LET free == {q \in Places \ Bodily : q[1] = Equip /\ bag[q] = Empty} IN
    \E from \in Lowest({q \in Worn(bag) : bag[q].id = id}),
       to \in IF free = {} THEN {<<Equip, 1>>} ELSE Foremost(free) :
        Requests(<<[op |-> "doff", at |-> from, to |-> to]>>)

-----------------------------------------------------------------------------
(* The server: it moves, takes and adds, and says so.  It checks what it is *)
(* asked for, and like the handler it moves to empty places only.           *)
Grants(r) ==
    /\ r.at \in Places /\ chest[r.at] # Empty
    /\ CASE r.op = "drop" -> r.qty \in 1..AtLeast(chest[r.at].qty, 1)
         [] r.op = "sell" -> r.id = chest[r.at].id /\ r.qty \in 1..AtLeast(chest[r.at].qty, 1)
         [] r.op = "use"  -> r.id = chest[r.at].id
         [] OTHER         -> r.to \in Places /\ chest[r.to] = Empty

Takes(r, n) ==
    IF chest[r.at].qty > n
    THEN /\ chest' = [chest EXCEPT ![r.at].qty = @ - n]
         /\ Answer(r, <<[mode |-> "quantity", at |-> r.at, qty |-> chest[r.at].qty - n]>>)
    ELSE /\ chest' = [chest EXCEPT ![r.at] = Empty]
         /\ Answer(r, <<[mode |-> "remove", at |-> r.at]>>)

KeeperServes ==
    \E r \in First(outbox) :
        /\ UNCHANGED <<bag, loot, orders>>
        /\ \/ ~Grants(r) /\ Answer(r, <<>>) /\ UNCHANGED chest
           \/ Grants(r) /\ r.op = "use" /\ Takes(r, 1)
           \/ Grants(r) /\ r.op \in {"drop", "sell"} /\ Takes(r, r.qty)
           \/ /\ Grants(r) /\ r.op \in {"wear", "doff"}
              /\ chest' = [chest EXCEPT ![r.at] = Empty, ![r.to] = chest[r.at]]
              /\ Answer(r, <<[mode |-> "move", at |-> r.at, to |-> r.to]>>)

Finds ==
    /\ loot < MaxLoot /\ loot' = loot + 1 /\ UNCHANGED <<bag, orders>>
    /\ \E id \in Wares, p \in Foremost({q \in Places \ Bodily : q[1] = Use /\ chest[q] = Empty}) :
          /\ chest' = [chest EXCEPT ![p] = [id |-> id, qty |-> 1]]
          /\ Tell(<<[mode |-> "add", at |-> p, item |-> [id |-> id, qty |-> 1]]>>)

(* The copy is kept over a reconnect; the charinfo of the next login        *)
(* replaces it (field.rs:89).                                               *)
BagBreaks == Break /\ UNCHANGED bagVars
BagReturns == Return(<<[mode |-> "charinfo", bag |-> chest]>>) /\ UNCHANGED bagVars

BagNext ==
    \/ BagMessage \/ KeeperServes \/ Finds \/ BagBreaks \/ BagReturns
    \/ \E id \in Wares : UseItem(id)
    \/ \E id \in Gear \cup Wares, qty \in 0..2 :
          \/ DropItem(id, qty, 1..Slots) \/ Sell(id, qty)
          \/ \E slot \in 1..Slots : DropItem(id, qty, {slot}) \/ SellSlot(id, qty, slot)
    \/ \E tab \in {Equip, Use} : SellType(tab)
    \/ \E id \in Gear : EquipItem(id) \/ UnequipItem(id)

-----------------------------------------------------------------------------
(* Once everything is said, the copy is the server's inventory, although    *)
(* commands crossed updates and named places that had changed hands         *)
(* (field.rs:878).                                                          *)
InSync == Quiet => bag = chest

(* `sell <id> <n>` runs over all stacks and asks for exactly n or for all  *)
(* there is, for no more than a stack has, each stack once (run.rs:1285).  *)
SellsWhatIsAsked ==
    \A id \in Wares, qty \in 0..(MaxStack * Slots + 1) : \A stacks \in Stacks(id) :
        LET all == AllOf(stacks)
            sales == Sales(stacks, qty)
        IN  /\ ToSet(stacks) = {p \in Places \ Bodily : bag[p].id = id}
            /\ Sum(sales) = IF qty = 0 \/ qty > all THEN all ELSE qty
            /\ \A i \in DOMAIN sales : sales[i].qty \in 1..bag[sales[i].at].qty
            /\ \A i, j \in DOMAIN sales : sales[i].at = sales[j].at => i = j
=============================================================================
