------------------------------- MODULE MCWire -------------------------------
EXTENDS Wire, TLC

AnySize == "move" :> 1 @@ "long" :> 2
Mask == [i \in 1..SelfBlock |-> 9]
(* A character in the middle of a map: a mob of its own, itself, another    *)
(* player, a drop, an npc, a reactor, some potions, and what it saw of the  *)
(* cash shop.                                                               *)
Known ==
    [around |-> [e \in {8, 9, 77} |-> IF e = 9 THEN MobAt(10, 20, 1, TRUE) ELSE Player(<<e>>, 0, 0)],
     channel |-> 2, map |-> 100000000, ground |-> 20, at |-> <<30, 40>>,
     drops |-> [o \in {5} |-> [id |-> 4000000, meso |-> FALSE, x |-> 1, y |-> 2]],
     npcs |-> [o \in {6} |-> [id |-> 9000, x |-> 1, y |-> 2]],
     reactors |-> [o \in {7} |-> [state |-> 0, x |-> 1, y |-> 2]],
     self |-> [name |-> <<77>>, level |-> 10, str |-> 4, dex |-> 5, int |-> 6, luk |-> 7, hp |-> 50, maxhp |-> 60,
               mp |-> 30, maxmp |-> 40, ap |-> 1, sp |-> 8, exp |-> 7, meso |-> 90, nx |-> 100, points |-> 10],
     bag |-> [s \in {<<2, 9>>} |-> Potion], worn |-> None, skills |-> [s \in {1000} |-> 1],
     keymap |-> <<>>, sale |-> <<[sn |-> 1, id |-> 5009, price |-> 5]>>, cash |-> <<Cash(4)>>, worlds |-> <<>>, characters |-> <<>>,
     told |-> <<>>, offered |-> <<>>]
=============================================================================
