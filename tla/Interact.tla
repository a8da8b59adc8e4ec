----------------------------- MODULE Interact -----------------------------
(***************************************************************************)
(* What a bot keeps about the people and the things around it: the trade,  *)
(* the party, the dialog or shop, and the inventory.  The four meet on the *)
(* one connection of Line and share nothing else, so that a behaviour is   *)
(* about one of them: `focus`.                                             *)
(***************************************************************************)
EXTENDS Trade, Party, Dialog, Bag

VARIABLE focus   \* which of the four the behaviour is about

vars == <<line, tradeVars, partyVars, dialogVars, bagVars, focus>>

TypeOK == TradeTypeOK /\ PartyTypeOK /\ DialogTypeOK /\ BagTypeOK

Init ==
    /\ LineInit /\ TradeInit /\ PartyInit /\ DialogInit /\ BagInit
    /\ focus \in {"trade", "party", "dialog", "bag"}
    /\ focus # "party" => party = Alone

Trading    == focus = "trade" /\ TradeNext /\ UNCHANGED <<partyVars, dialogVars, bagVars, focus>>
Grouping   == focus = "party" /\ PartyNext /\ UNCHANGED <<tradeVars, dialogVars, bagVars, focus>>
Conversing == focus = "dialog" /\ DialogNext /\ UNCHANGED <<tradeVars, partyVars, bagVars, focus>>
Packing    == focus = "bag" /\ BagNext /\ UNCHANGED <<tradeVars, partyVars, dialogVars, focus>>

Next == Trading \/ Grouping \/ Conversing \/ Packing

(* The bot's loop handles what arrives and evaluates its rules, the server  *)
(* reads what it is sent, and a lost connection is made again.              *)
Fairness ==
    /\ WF_vars(focus = "trade" /\ TradeMessage /\ UNCHANGED <<partyVars, dialogVars, bagVars, focus>>)
    /\ WF_vars(focus = "trade" /\ ServerReads /\ UNCHANGED <<partyVars, dialogVars, bagVars, focus>>)
    /\ WF_vars(focus = "trade" /\ ConfirmByRule /\ UNCHANGED <<partyVars, dialogVars, bagVars, focus>>)
    /\ WF_vars(focus = "trade" /\ TradeReturns /\ UNCHANGED <<partyVars, dialogVars, bagVars, focus>>)

Spec == Init /\ [][Next]_vars /\ Fairness

-----------------------------------------------------------------------------
(* Each of the four pictures, with the fields it is made of: the trade, the *)
(* party and the copy of the inventory are those the server and the other   *)
(* players have (WindowsAgree, PartiesAgree, InSync), ...                   *)
PeersAgree == TypeOK /\ WindowsAgree /\ PartiesAgree /\ InSync
(* ... a popup offers what there is, a task answers the page it waited for  *)
(* (PopupsHaveChoices, TaskAnswersItsPage), ...                             *)
DialogSound == PopupsHaveChoices /\ TaskAnswersItsPage
(* ... and a sale asks for what was typed, however the copy stands when it  *)
(* is typed (SellsWhatIsAsked).                                             *)
BagSound == SellsWhatIsAsked
=============================================================================
