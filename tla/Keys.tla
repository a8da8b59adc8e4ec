------------------------------- MODULE Keys -------------------------------
(***************************************************************************)
(* What the keys of the console do (App::on_key of app.rs) and what they   *)
(* do it to: the account on the screen, the layers over the input line     *)
(* (picker, NPC and shop popups, board, help, bag) and the login wizard of *)
(* one account.  A frame (poll_events) copies what the bot on the screen   *)
(* shows into `snap`; keys read the copy.  The bots are external here: see *)
(* Dialog and Bag for what changes their lists.                            *)
(***************************************************************************)
EXTENDS Naturals, Sequences, FiniteSets, SequencesExt

CONSTANTS
    Accounts,   \* the profiles that are attached
    NoOne,      \* no account
    Rows,       \* bound: entries of a list
    ShopRows,   \* bound: goods of a shop
    MaxNews,    \* bound: changes on the bots' side
    MaxDigits   \* digits of a quantity, five in the program
ASSUME KeysAssumption ==
    /\ NoOne \notin Accounts /\ Accounts # {} /\ IsFiniteSet(Accounts)
    /\ Rows \in Nat \ {0} /\ ShopRows \in Nat \ {0} /\ MaxNews \in Nat /\ MaxDigits \in Nat \ {0}

VARIABLES
    interactive,  \* the program was started without a login: one bot, no session set
    order,        \* the accounts, as listed
    sel,          \* the one that is selected
    bot,          \* what each bot shows
    live,         \* accounts whose bot runs
    known,        \* accounts that have a password; the first lacks one
    tx,           \* the account cmd_tx points at
    snap,         \* the copy of the last frame, and whose it is
    ui,           \* the layers, see Screen
    sent,         \* the command of the last step, if it was one
    news          \* bound

keysVars == <<interactive, order, sel, bot, live, known, tx, snap, ui, sent, news>>

Lists == 0..Rows
Phases == {"blank", "login", "gender", "world", "char", "play"}   \* "blank": no copy could be made
View == [phase : Phases, rows : Lists, menu : Lists, seq : Nat, wares : 0..ShopRows, wseq : Nat,
         busy : BOOLEAN, gear : 0..1, goods : 0..1]
Fresh == [phase |-> "play", rows |-> 0, menu |-> 0, seq |-> 0, wares |-> 0, wseq |-> 0,
          busy |-> FALSE, gear |-> 0, goods |-> 0]
Snapshot(a) == [of |-> a, view |-> bot[a]]
Blank(a) == [of |-> a, view |-> [Fresh EXCEPT !.phase = "blank"]]

(* picker: its list and the world picked before a channel. Cursors count    *)
(* from 1.                                                                  *)
Pickers == {"none", "gender", "world", "channel", "char"}
Screen == [stage : {"running", "wizard"}, target : Accounts \cup {NoOne},
           picker : Pickers, at : 1..(Rows + 1),
           npc : BOOLEAN, npcSeen : Nat, npcAt : 1..Rows,
           shop : BOOLEAN, shopSeen : Nat, shopAt : 1..ShopRows, qty : 0..MaxDigits,
           board : BOOLEAN, help : BOOLEAN, bag : BOOLEAN, bagAt : 1..2,
           npmenu : BOOLEAN, shopMenu : BOOLEAN, forceQuit : BOOLEAN]
Commands == [kind : {"none", "line", "quit", "login", "reply", "buy", "bag", "start"},
             to : Accounts \cup {NoOne}, of : Accounts \cup {NoOne}, i : Nat, n : Nat]

KeysTypeOK ==
    /\ interactive \in BOOLEAN /\ sel \in Accounts \cup {NoOne} /\ tx \in Accounts
    /\ ToSet(order) \subseteq Accounts /\ bot \in [Accounts -> View]
    /\ live \subseteq Accounts /\ known \subseteq Accounts
    /\ snap \in [of : Accounts, view : View] /\ ui \in Screen /\ sent \in Commands
    /\ news \in 0..MaxNews

Quiet == [kind |-> "none", to |-> NoOne, of |-> NoOne, i |-> 1, n |-> 1]
KeysInit ==
    /\ interactive \in BOOLEAN
    /\ order \in IF interactive THEN {<<a>> : a \in Accounts} ELSE {SetToSeq(Accounts)}
    /\ sel = order[1] /\ tx = sel
    /\ bot = [a \in Accounts |-> [Fresh EXCEPT !.phase = IF interactive THEN "login" ELSE @]] /\ snap = Snapshot(sel)
    /\ live = (IF interactive THEN {sel} ELSE {}) /\ known = Accounts \ {sel}
    /\ ui = [stage |-> "running", target |-> NoOne, picker |-> "none", at |-> 1,
             npc |-> FALSE, npcSeen |-> 0, npcAt |-> 1,
             shop |-> FALSE, shopSeen |-> 0, shopAt |-> 1, qty |-> 0,
             board |-> FALSE, help |-> FALSE, bag |-> FALSE, bagAt |-> 1,
             npmenu |-> FALSE, shopMenu |-> FALSE, forceQuit |-> FALSE]
    /\ sent = Quiet /\ news = 0

Silent == sent' = Quiet

-----------------------------------------------------------------------------
(* The bots.  Only the picker asks for the phase, and only with an           *)
(* interactive login: an account of a set is in "play" here all along.      *)
Advance(v) ==
    CASE v.phase = "login"  -> [v EXCEPT !.phase = "gender"]
      [] v.phase = "gender" -> [v EXCEPT !.phase = "world", !.rows = Rows]
      [] v.phase = "world"  -> [v EXCEPT !.phase = "char", !.rows = Rows]
      [] OTHER              -> [v EXCEPT !.phase = "play", !.rows = 0]
Drop(v) == [v EXCEPT !.phase = IF interactive THEN "login" ELSE "play", !.rows = 0, !.menu = 0,
                     !.seq = @ + 1, !.wares = 0, !.wseq = @ + 1]
InGame(v) ==
    {[v EXCEPT !.menu = n, !.seq = @ + 1] : n \in Lists}
    \cup {[v EXCEPT !.wares = n, !.wseq = @ + 1, !.menu = 0, !.seq = @ + 1] : n \in 0..ShopRows}
    \cup {[v EXCEPT !.busy = ~@]}
    \cup {[v EXCEPT !.gear = n] : n \in 0..1} \cup {[v EXCEPT !.goods = n] : n \in 0..1}
BotShows ==
    /\ \E a \in live :
        \/ bot[a].phase # "play" /\ bot' = [bot EXCEPT ![a] = Advance(@)] /\ UNCHANGED news
        \/ /\ news < MaxNews /\ news' = news + 1
           /\ \E v \in {Drop(bot[a])} \cup IF bot[a].phase = "play" THEN InGame(bot[a]) ELSE {} :
                bot' = [bot EXCEPT ![a] = v]
    /\ UNCHANGED <<interactive, order, sel, live, known, tx, snap, ui>> /\ Silent

-----------------------------------------------------------------------------
(* A frame. *)
AutoPicker(s, u) ==
    IF ~interactive \/ u.stage # "running" \/ u.picker # "none" THEN u
    ELSE CASE s.view.phase = "gender" -> [u EXCEPT !.picker = "gender", !.at = 1]
           [] s.view.phase \in {"world", "char"} /\ s.view.rows > 0 ->
                [u EXCEPT !.picker = s.view.phase, !.at = 1]
           [] OTHER -> u

AutoNpcPick(s, u) ==
    CASE u.stage # "running" -> u
      [] u.stage = "running" /\ s.view.busy -> [u EXCEPT !.npc = FALSE]
      [] OTHER ->
            IF ~u.npmenu \/ s.view.seq = u.npcSeen THEN u
            ELSE [u EXCEPT !.npcSeen = s.view.seq, !.npc = s.view.menu > 0, !.npcAt = 1]

AutoShopPick(s, u) ==
    CASE u.stage # "running" -> u
      [] u.stage = "running" /\ s.view.busy ->
            [u EXCEPT !.shop = FALSE, !.qty = IF u.shop THEN 0 ELSE @]
      [] OTHER ->
            IF ~u.shopMenu \/ s.view.wseq = u.shopSeen THEN u
            ELSE [u EXCEPT !.shopSeen = s.view.wseq, !.shop = s.view.wares > 0, !.qty = 0, !.shopAt = 1]

(* The bot's state may be locked by its task: the copy stays as it is. *)
Frame ==
    \E s \in {snap, Snapshot(snap.of)} :
        /\ snap' = s
        /\ ui' = LET u == IF s.view.phase # snap.view.phase THEN [ui EXCEPT !.picker = "none"] ELSE ui
                 IN  AutoShopPick(s, AutoNpcPick(s, AutoPicker(s, u)))
        /\ UNCHANGED <<interactive, order, sel, bot, live, known, tx, news>> /\ Silent

(* The account on the screen changes: the copy is made anew, or is blank    *)
(* when the bot holds its state.                                            *)
(* Slip: the copy of the other account stays until the next frame. *)
SyncFromSelectedSlip(a) == tx' = a /\ snap' \in {Snapshot(a), snap}
SyncFromSelected(a) == tx' = a /\ snap' \in {Snapshot(a), Blank(a)}

-----------------------------------------------------------------------------
(* Which layer a key goes to. *)
Layer(u) ==
    CASE u.stage = "wizard" -> "wizard"
      [] u.stage # "wizard" /\ u.picker # "none" -> "picker"
      [] OTHER -> IF u.npc THEN "npc" ELSE IF u.shop THEN "shop" ELSE IF u.board THEN "board"
                  ELSE IF u.help THEN "help" ELSE IF u.bag THEN "bag" ELSE "input"
On(layer) == Layer(ui) = layer

Esc(u) ==
    CASE Layer(u) = "wizard" -> [u EXCEPT !.stage = "running", !.target = NoOne]
      [] Layer(u) = "npc"    -> [u EXCEPT !.npc = FALSE]
      [] Layer(u) = "shop"   -> IF u.qty > 0 THEN [u EXCEPT !.qty = 0] ELSE [u EXCEPT !.shop = FALSE]
      [] Layer(u) = "board"  -> [u EXCEPT !.board = FALSE]
      [] Layer(u) = "help"   -> [u EXCEPT !.help = FALSE]
      [] Layer(u) = "bag"    -> [u EXCEPT !.bag = FALSE]
      [] OTHER               -> u
PressEsc ==
    /\ ui' = Esc(ui) /\ Silent
    /\ UNCHANGED <<interactive, order, sel, bot, live, known, tx, snap, news>>

(* A command, with the entry it is about: `i` of the `n` the copy has. *)
Send(kind, i, n) == sent' = [kind |-> kind, to |-> tx, of |-> snap.of, i |-> i, n |-> n]

(* Ctrl+C asks the bot to quit, and when it is the second within a second   *)
(* leaves.  Board, help and bag do not hear it; the wizard leaves at once.  *)
OnCtrlC ==
    /\ UNCHANGED <<interactive, order, sel, bot, live, known, tx, snap, news>>
    /\ \/ (\E layer \in {"picker", "npc", "shop", "input"} : On(layer)) /\ Send("quit", 1, 1) /\ UNCHANGED ui
       \/ (\E layer \in {"picker", "npc", "shop", "input", "wizard"} : On(layer))
          /\ ui' = [ui EXCEPT !.forceQuit = TRUE] /\ Silent

-----------------------------------------------------------------------------
(* The picker and the popups.  Up and down go round.                        *)
Around(i, n) == {(i % n) + 1, ((i + n - 2) % n) + 1}
PickerLength ==
    CASE ui.picker = "gender" -> 2
      [] ui.picker \in {"world", "char"} -> IF snap.view.rows = 0 THEN 1 ELSE snap.view.rows
      [] OTHER -> Rows
PickerMove == On("picker") /\ \E i \in Around(ui.at, PickerLength) : ui' = [ui EXCEPT !.at = i] /\ Silent
PickerConfirm ==
    /\ On("picker")
    /\ \/ ui.picker = "world" /\ ui' = [ui EXCEPT !.picker = "channel", !.at = 1] /\ Silent
       \/ ui.picker # "world" /\ UNCHANGED ui /\ Send("login", ui.at, PickerLength)

NpcPickMove ==
    /\ On("npc") /\ snap.view.menu > 0 /\ Silent
    /\ \E i \in Around(ui.npcAt, snap.view.menu) : ui' = [ui EXCEPT !.npcAt = i]
NpcPickConfirm ==
    /\ On("npc") /\ ui.npcAt <= snap.view.menu
    /\ ui' = [ui EXCEPT !.npcSeen = snap.view.seq, !.npc = FALSE]
    /\ Send("reply", ui.npcAt, snap.view.menu)

ShopPickMove ==
    /\ On("shop") /\ snap.view.wares > 0 /\ Silent
    /\ \E i \in Around(ui.shopAt, snap.view.wares) : ui' = [ui EXCEPT !.shopAt = i]
ShopPickDigits ==
    /\ On("shop") /\ Silent
    /\ \/ ui.qty < MaxDigits /\ ui' = [ui EXCEPT !.qty = @ + 1]
       \/ ui.qty > 0 /\ ui' = [ui EXCEPT !.qty = @ - 1]
ShopPickConfirm ==
    /\ On("shop") /\ ui.shopAt <= snap.view.wares
    /\ UNCHANGED ui /\ Send("buy", ui.shopAt, snap.view.wares)

Popup ==
    /\ \/ PickerMove \/ PickerConfirm \/ NpcPickMove \/ NpcPickConfirm
       \/ ShopPickMove \/ ShopPickDigits \/ ShopPickConfirm
    /\ UNCHANGED <<interactive, order, sel, bot, live, known, tx, snap, news>>

-----------------------------------------------------------------------------
(* Board, help and bag. *)
BoardAndHelp ==
    \/ On("board") /\ ui' = [ui EXCEPT !.board = FALSE]
    \/ On("help") /\ ui' = [ui EXCEPT !.help = FALSE]

(* The gear comes first; the filter by panel and the way of selling that    *)
(* `m` switches are left out.                                               *)
BagItems == snap.view.gear + snap.view.goods
BagMove ==
    \/ ui.bagAt > 1 /\ ui' = [ui EXCEPT !.bagAt = @ - 1]
    \/ ui.bagAt < BagItems /\ ui' = [ui EXCEPT !.bagAt = @ + 1]
    \/ ui.bagAt > BagItems /\ ui' = [ui EXCEPT !.bagAt = IF BagItems = 0 THEN 1 ELSE BagItems]
BagDrop  == ui.bagAt <= BagItems /\ Send("bag", ui.bagAt, BagItems)
BagEquip == ui.bagAt <= BagItems /\ ui.bagAt <= snap.view.gear /\ Send("bag", ui.bagAt, snap.view.gear)
BagEnter == snap.view.wares > 0 /\ BagDrop
Panels ==
    /\ \/ BoardAndHelp /\ Silent
       \/ On("bag") /\ BagMove /\ Silent
       \/ On("bag") /\ (BagDrop \/ BagEquip \/ BagEnter) /\ UNCHANGED ui
    /\ UNCHANGED <<interactive, order, sel, bot, live, known, tx, snap, news>>

-----------------------------------------------------------------------------
(* The input line: what is typed is for the selected account.               *)
Submit ==
    /\ On("input")
    /\ \/ UNCHANGED ui /\ Send("line", 1, 1)
       \/ ui' = [ui EXCEPT !.bag = TRUE, !.help = FALSE] /\ Silent
       \/ \E on \in BOOLEAN : /\ Silent
                              /\ \/ ui' = [ui EXCEPT !.npmenu = on, !.npc = @ /\ on]
                                 \/ ui' = [ui EXCEPT !.shopMenu = on, !.shop = @ /\ on]
    /\ UNCHANGED <<interactive, order, sel, bot, live, known, tx, snap, news>>
F1F2 ==
    /\ On("input") /\ Silent
    /\ \/ ui' = [ui EXCEPT !.help = TRUE]
       \/ ~interactive /\ Len(order) > 1 /\ ui' = [ui EXCEPT !.board = TRUE]
    /\ UNCHANGED <<interactive, order, sel, bot, live, known, tx, snap, news>>

(* Alt+Up and Alt+Down. *)
IndexOf(a) == CHOOSE i \in 1..Len(order) : order[i] = a
SelectSessionMove ==
    /\ On("input") /\ ~interactive /\ Len(order) > 1
    /\ Silent
    /\ \E i \in Around(IndexOf(sel), Len(order)) : sel' = order[i] /\ SyncFromSelected(order[i])
    /\ UNCHANGED <<interactive, order, bot, live, known, ui, news>>

(* `profiles remove`: not while its bot runs.  The next account, or the     *)
(* last, is selected; without any, the screen keeps the one that was.       *)
RemoveProfile ==
    /\ On("input") /\ ~interactive /\ Silent
    /\ \E k \in 1..Len(order) :
        LET rest == RemoveAt(order, k)
            i    == IndexOf(sel)
            j    == IF i > Len(rest) THEN Len(rest) ELSE i
        IN  /\ order[k] \notin live /\ order' = rest
            /\ IF rest = <<>> THEN sel' = NoOne /\ UNCHANGED <<tx, snap>>
               ELSE sel' = rest[j] /\ SyncFromSelected(rest[j])
    /\ UNCHANGED <<interactive, bot, live, known, ui, news>>

(* F4, and a typed `start`: stops the bot of the account, or starts it,     *)
(* and asks for the password first when there is none.                      *)
Started(a, meant) == /\ live' = live \cup {a}
                     /\ sent' = [kind |-> "start", to |-> a, of |-> meant, i |-> 1, n |-> 1]
ToggleSelectedSession ==
    /\ On("input") /\ ~interactive /\ sel # NoOne
    /\ \/ sel \in live /\ live' = live \ {sel} /\ UNCHANGED ui /\ Silent
       \/ sel \notin live /\ sel \in known /\ Started(sel, snap.of) /\ UNCHANGED ui
       \/ /\ sel \notin live /\ sel \notin known
          /\ ui' = [ui EXCEPT !.stage = "wizard", !.target = sel] /\ UNCHANGED live /\ Silent
    /\ UNCHANGED <<interactive, order, sel, bot, known, tx, snap, news>>

(* The wizard's Enter: the password is for the account it was opened for.   *)
ApplyWizardToSession ==
    /\ On("wizard")
    /\ known' = known \cup {ui.target}
    /\ ui' = [ui EXCEPT !.stage = "running", !.target = NoOne] /\ Started(sel, ui.target)
    /\ UNCHANGED <<interactive, order, sel, bot, tx, snap, news>>

KeysNext ==
    /\ ~ui.forceQuit
    /\ \/ BotShows \/ Frame \/ PressEsc \/ OnCtrlC \/ Popup \/ Panels
       \/ Submit \/ F1F2 \/ SelectSessionMove \/ RemoveProfile \/ ToggleSelectedSession
       \/ ApplyWizardToSession

-----------------------------------------------------------------------------
(* What a key sends goes to the account the user was looking at, and an     *)
(* entry of a list is one the copy on the screen has; the account that is   *)
(* started is the one its password was asked for.                           *)
SentToItsOwner == sent.kind # "none" => sent.of = sent.to /\ sent.i \in 1..sent.n

(* However the layers were piled up, a few Esc lead back to the input line, *)
(* where text can be typed: no popup opens over another for good.           *)
Escs[k \in 0..6] == IF k = 0 THEN ui ELSE Esc(Escs[k - 1])
EscGetsOut == ui.picker = "none" => Layer(Escs[6]) = "input"
=============================================================================
