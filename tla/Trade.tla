------------------------------- MODULE Trade ------------------------------
(***************************************************************************)
(* Trading with another player (handlers/trade.rs, the trade commands of   *)
(* command/run.rs).  The bot keeps its own picture of the window, moved by *)
(* its commands as soon as they are sent and by the server's messages when *)
(* they come.  `window` is the server's window, with the other player in   *)
(* it; it is external, and answers as the packets of packets/trade.rs and  *)
(* parsers/trade.rs say.                                                   *)
(***************************************************************************)
EXTENDS Line

CONSTANTS
    Traders,       \* other players
    Nobody,
    MaxGoods,      \* bound: items a player puts up
    MaxWindows     \* bound: windows and invitations, one after the other

ASSUME TradeAssumption == Nobody \notin Traders /\ {MaxGoods, MaxWindows} \subseteq Nat

VARIABLES
    trade,    \* the bot's TradeState
    window    \* the server's window and how many there were

tradeVars == <<trade, window>>

(* items, meso: what the other player put up; mine, theirs: confirmed by    *)
(* the bot, by the other player.                                            *)
Fresh(count) == [stage |-> "none", with |-> Nobody, items |-> 0, meso |-> FALSE,
                 mine |-> FALSE, theirs |-> FALSE, count |-> count]
Closed == [active |-> FALSE, partner |-> Nobody, invite |-> Nobody, items |-> 0,
           meso |-> FALSE, partnerLocked |-> FALSE, locked |-> FALSE]
Unnamed == "?"

TradeTypeOK ==
    /\ trade \in [active : BOOLEAN, partner : Traders \cup {Nobody, Unnamed},
                  invite : Traders \cup {Nobody}, items : 0..MaxGoods, meso : BOOLEAN,
                  partnerLocked : BOOLEAN, locked : BOOLEAN]
    /\ window.stage \in {"none", "invited", "open", "joined"}
    /\ window.with \in Traders \cup {Nobody} /\ window.count \in 0..MaxWindows

TradeInit == trade = Closed /\ window = Fresh(0)

-----------------------------------------------------------------------------
(* The server's messages, as the handler takes them. *)
Invited(t, name) == [t EXCEPT !.invite = name]

Started(t) ==
    LET name == IF t.invite # Nobody THEN t.invite
                ELSE IF t.partner = Nobody THEN Unnamed ELSE t.partner
    IN  [Closed EXCEPT !.active = TRUE, !.partner = name]

Over(t) == Closed

HandlePlayerInteraction(t, m) ==
    CASE m.act = "INVITE"                      -> Invited(t, m.name)
      [] m.act = "START"                       -> Started(t)
      [] m.act = "ITEM_ADD" /\ m.number = 1    -> [t EXCEPT !.items = @ + 1]
      [] m.act = "MESO_SET" /\ m.number = 1    -> [t EXCEPT !.meso = TRUE]
      [] m.act = "CONFIRM"                     -> [t EXCEPT !.partnerLocked = TRUE]
      [] m.act = "MESSAGE"                     -> Over(t)
      [] OTHER                                 -> t      \* PARTNER_ADD, our own goods

TradeMessage ==
    \E m \in First(inbox) :
        Handle(m) /\ trade' = HandlePlayerInteraction(trade, m) /\ UNCHANGED window

-----------------------------------------------------------------------------
(* The trade commands.  One that is refused changes nothing. *)
Sends(act) == SendPackets(<<[act |-> act]>>) /\ UNCHANGED window

Invite(name) ==
    /\ ~trade.active /\ trade.invite = Nobody
    /\ SendPackets(<<[act |-> "create"], [act |-> "invite", name |-> name]>>)
    /\ UNCHANGED <<trade, window>>

(* Slip: an open window is marked as confirmed, the packet forgotten. *)
ConfirmSlip ==
    /\ trade.active /\ ~trade.locked /\ trade' = [trade EXCEPT !.locked = TRUE]
    /\ UNCHANGED <<line, window>>
Confirm ==
    /\ trade.active /\ ~trade.locked
    /\ Sends("confirm")
    /\ trade' = [trade EXCEPT !.locked = TRUE]

Accept ==
    \/ Confirm
    \/ /\ ~trade.active /\ trade.invite # Nobody
       /\ Sends("accept")
       /\ trade' = [trade EXCEPT !.invite = Nobody]

Decline ==
    /\ trade.invite # Nobody
    /\ Sends("decline")
    /\ trade' = [trade EXCEPT !.invite = Nobody]

(* The partner's name is left as it is. *)
Quit ==
    /\ trade.active \/ trade.invite # Nobody
    /\ Sends("quit")
    /\ trade' = [Closed EXCEPT !.partner = trade.partner]

(* `trade put`, of an item the inventory holds, and `trade meso`. *)
Put ==
    /\ trade.active /\ ~trade.locked
    /\ Len(outbox) + 1 < MaxQueue   \* bound: leaves room for a confirmation
    /\ \E goods \in {"put", "meso"} : Sends(goods)
    /\ UNCHANGED trade

(* A rule `trade_partner_locked==1` whose action is `trade accept`. *)
ConfirmByRule == trade.partnerLocked /\ Confirm

-----------------------------------------------------------------------------
(* The server and the other players.  A confirmation sent before the other  *)
(* player has come counts: the bot takes it as made (run.rs:1592).          *)
Says(act) == [act |-> act, number |-> 0]
Theirs(act) == [act |-> act, number |-> 1]
Ends == window' = Fresh(window.count)
Opened(stage, with) ==
    /\ window.count < MaxWindows
    /\ window' = [Fresh(window.count + 1) EXCEPT !.stage = stage, !.with = with]

Accepted(r) ==
    CASE r.act = "create"                 -> window.stage = "none" /\ window.count < MaxWindows
      [] r.act = "invite"                 -> window.stage = "open" /\ window.with = Nobody
      [] r.act \in {"accept", "decline"}  -> window.stage = "invited"
      [] r.act = "quit"                   -> window.stage # "none"
      [] OTHER                            -> window.stage \in {"open", "joined"}

ServerReads ==
    \E r \in First(outbox) :
        /\ UNCHANGED trade
        /\ \/ ~Accepted(r) /\ Answer(r, <<>>) /\ UNCHANGED window
           \/ /\ Accepted(r)
              /\ \/ /\ r.act = "create" /\ Opened("open", Nobody)
                    /\ Answer(r, <<Says("START")>>)
                 \/ /\ r.act = "invite" /\ window' = [window EXCEPT !.with = r.name]
                    /\ Answer(r, <<>>)
                 \/ /\ r.act = "accept" /\ window' = [window EXCEPT !.stage = "joined"]
                    /\ Answer(r, <<Says("START")>>)
                 \/ r.act = "decline" /\ Ends /\ Answer(r, <<>>)
                 \/ r.act = "quit" /\ Ends /\ Answer(r, <<Says("MESSAGE")>>)
                 \/ /\ r.act \in {"put", "meso"} /\ UNCHANGED window
                    /\ Answer(r, <<Says(IF r.act = "put" THEN "ITEM_ADD" ELSE "MESO_SET")>>)
                 \/ /\ r.act = "confirm" /\ ~window.theirs
                    /\ window' = [window EXCEPT !.mine = TRUE] /\ Answer(r, <<>>)
                 \/ /\ r.act = "confirm" /\ window.theirs
                    /\ Ends /\ Answer(r, <<Says("MESSAGE")>>)

TraderActs ==
    /\ UNCHANGED trade
    /\ \/ \E p \in Traders :
             /\ window.stage = "none" /\ Opened("invited", p)
             /\ Tell(<<[act |-> "INVITE", name |-> p]>>)
       \/ /\ window.stage = "open" /\ window.with # Nobody
          /\ window' = [window EXCEPT !.stage = "joined"] /\ Tell(<<Says("PARTNER_ADD")>>)
       \/ /\ window.stage = "joined" /\ ~window.theirs /\ window.items < MaxGoods
          /\ window' = [window EXCEPT !.items = @ + 1] /\ Tell(<<Theirs("ITEM_ADD")>>)
       \/ /\ window.stage = "joined" /\ ~window.theirs /\ ~window.meso
          /\ window' = [window EXCEPT !.meso = TRUE] /\ Tell(<<Theirs("MESO_SET")>>)
       \/ /\ window.stage = "joined" /\ ~window.theirs /\ ~window.mine
          /\ window' = [window EXCEPT !.theirs = TRUE] /\ Tell(<<Says("CONFIRM")>>)
       \/ /\ window.stage = "joined" /\ ~window.theirs /\ window.mine
          /\ Ends /\ Tell(<<Says("CONFIRM"), Says("MESSAGE")>>)
       \/ window.stage = "joined" /\ Ends /\ Tell(<<Says("MESSAGE")>>)
       \/ window.stage = "invited" /\ Ends /\ \E told \in {<<>>, <<Says("MESSAGE")>>} : Tell(told)

(* The server ends the trade of a connection that is gone; the bot forgets  *)
(* it before it connects again (runtime.rs, reset_session).                 *)
TradeBreaks == Break /\ Ends /\ trade' = Closed
TradeReturns == Return(<<>>) /\ UNCHANGED tradeVars

TradeNext ==
    \/ TradeMessage \/ ServerReads \/ TraderActs \/ TradeBreaks \/ TradeReturns
    \/ Accept \/ Decline \/ Quit \/ Put \/ ConfirmByRule
    \/ \E p \in Traders : Invite(p)

-----------------------------------------------------------------------------
(* Once everything is said, the bot and the server agree on whether there  *)
(* is a window and what the other player put up and confirmed, and the bot *)
(* thinks it has confirmed only what it has, whatever was cancelled,       *)
(* declined or accepted while messages crossed (handlers/trade.rs:30,      *)
(* command/run.rs:1588).                                                   *)
WindowsAgree ==
    Quiet => /\ trade.active <=> window.stage \in {"open", "joined"}
             /\ trade.active =>
                    /\ trade.locked => window.mine
                    /\ trade.partnerLocked = window.theirs
                    /\ trade.items = window.items /\ trade.meso = window.meso

(* Under the rule that accepts, a partner who has confirmed does not wait   *)
(* for ever (GUIDE.md:434).                                                 *)
TradeConcludes == (window.stage = "joined" /\ window.theirs) ~> (window.stage # "joined")
=============================================================================
