------------------------------ MODULE Dialog ------------------------------
(***************************************************************************)
(* Talking to an NPC and trading with its shop: the handlers of NPC_TALK   *)
(* and OPEN_NPC_SHOP (handlers/field.rs), the npc and shop commands of     *)
(* command/run.rs, the console's option and shop popups (app.rs), and a    *)
(* task that talks by itself, waiting for `dialog==1` before each answer.  *)
(* `npc` is the server's side of the conversation; it is external.         *)
(***************************************************************************)
EXTENDS Line

CONSTANT MaxPages   \* bound: pages and shops the server opens, maps entered
ASSUME DialogAssumption == MaxPages \in Nat \ {0}

VARIABLES
    talk,     \* the bot's dialog and shop, see Talk
    npc,      \* the page the server waits on, see NpcSide
    ui,       \* the popups, see Popups
    keys,     \* commands the popups sent, not run yet
    step,     \* what the task on the stack does next; "none": no task
    events    \* bound, and the number of the last page

dialogVars == <<talk, npc, ui, keys, step, events>>

Pages == 0..MaxPages   \* 0: none
(* page: the page that came last; menu: the page whose options are kept.    *)
Talk == [open : BOOLEAN, page : Pages, menu : Pages, seq : Nat,
         shop : BOOLEAN, items : Pages, shopseq : Nat]
(* crossed: an answer of the task was for another page than the one it met. *)
NpcSide == [page : Pages, shop : BOOLEAN, crossed : BOOLEAN]
(* menu, items: what the last frame saw.  meant: the user was in a           *)
(* conversation, or had one on screen, when a task started.                 *)
Popups == [menu : Pages, seq : Nat, npcOpen : BOOLEAN, npcSeen : Nat,
           items : Pages, shopseq : Nat, shopOpen : BOOLEAN, shopSeen : Nat,
           meant : BOOLEAN]

DialogTypeOK ==
    /\ talk \in Talk /\ npc \in NpcSide /\ ui \in Popups /\ events \in 0..MaxPages
    /\ step \in {"none", "talk", "answer"} /\ Len(keys) <= 1

DialogInit ==
    /\ talk = [open |-> FALSE, page |-> 0, menu |-> 0, seq |-> 0,
               shop |-> FALSE, items |-> 0, shopseq |-> 0]
    /\ npc = [page |-> 0, shop |-> FALSE, crossed |-> FALSE]
    /\ ui = [menu |-> 0, seq |-> 0, npcOpen |-> FALSE, npcSeen |-> 0, items |-> 0, shopseq |-> 0,
             shopOpen |-> FALSE, shopSeen |-> 0, meant |-> FALSE]
    /\ keys = <<>> /\ step = "none" /\ events = 0

-----------------------------------------------------------------------------
(* The handlers. *)
ClearNpcMenu(t) == [t EXCEPT !.menu = 0, !.seq = @ + 1]
ClearShop(t) == [t EXCEPT !.items = 0, !.shopseq = @ + 1]

HandleNpcTalk(t, m) ==
    [t EXCEPT !.open = TRUE, !.page = m.page, !.menu = IF m.menu THEN m.page ELSE 0,
              !.seq = @ + 1]

HandleOpenNpcShop(t, m) ==
    ClearNpcMenu([t EXCEPT !.shop = TRUE, !.items = m.page, !.shopseq = @ + 1, !.open = FALSE])

(* A map, and a connection that is set up again. *)
CloseAll(t) == ClearShop(ClearNpcMenu([t EXCEPT !.shop = FALSE, !.open = FALSE]))

DialogMessage ==
    \E m \in First(inbox) :
        /\ Handle(m)
        /\ talk' = CASE m.op = "talk" -> HandleNpcTalk(talk, m)
                     [] m.op = "shop" -> HandleOpenNpcShop(talk, m)
                     [] m.op = "map"  -> CloseAll(talk)
        /\ UNCHANGED <<npc, ui, keys, step, events>>

-----------------------------------------------------------------------------
(* The commands.  Each closes the dialog as soon as it is sent.             *)
(* Slip: it stays open. *)
NpcDialogAdvanceSlip == UNCHANGED talk
NpcDialogAdvance == talk' = [talk EXCEPT !.open = FALSE]

(* `npc <id>`; reply, next, prev, yes, no, number and text; cancel.         *)
(* `meets` is the page the sender has in mind.                              *)
NpcTalk(who) == SendPackets(<<[op |-> "talk", who |-> who]>>) /\ NpcDialogAdvance
NpcAnswer(meets, who) ==
    SendPackets(<<[op |-> "answer", meets |-> meets, who |-> who]>>) /\ NpcDialogAdvance
NpcCancel == SendPackets(<<[op |-> "cancel", who |-> "user"]>>) /\ NpcDialogAdvance
NpcBuy == SendPackets(<<[op |-> "buy", who |-> "user"]>>) /\ UNCHANGED talk
ShopLeave == /\ SendPackets(<<[op |-> "leave", who |-> "user"]>>)
             /\ talk' = ClearShop([talk EXCEPT !.shop = FALSE])

(* Typed by the user while no task runs. *)
UserTypes ==
    /\ step = "none" /\ UNCHANGED <<npc, ui, keys, step, events>>
    /\ \/ NpcTalk("user") \/ NpcCancel
       \/ talk.page # 0 /\ NpcAnswer(talk.page, "user")
       \/ talk.shop /\ (NpcBuy \/ ShopLeave)

(* A command a popup sent, run by the bot's loop. *)
RunKey ==
    /\ keys # <<>> /\ keys' = Tail(keys)
    /\ \/ Head(keys).op = "reply" /\ NpcAnswer(Head(keys).menu, "user")
       \/ Head(keys).op = "buy" /\ NpcBuy
    /\ UNCHANGED <<npc, ui, step, events>>

(* A task: `npc <id>`, then answers, each with `wait: dialog==1`. *)
TaskStarts ==
    /\ online /\ step = "none" /\ step' = "talk"
    /\ ui' = [ui EXCEPT !.meant = @ \/ ui.npcOpen \/ keys # <<>> \/ outbox # <<>> \/ inbox # <<>> \/ npc.page # 0]
    /\ UNCHANGED <<line, talk, npc, keys, events>>
TaskTalks ==
    /\ step = "talk" /\ NpcTalk("task") /\ step' = "answer"
    /\ UNCHANGED <<npc, ui, keys, events>>
TaskAnswers ==
    /\ step = "answer" /\ talk.open /\ NpcAnswer(talk.page, "task")
    /\ UNCHANGED <<npc, ui, keys, step, events>>
TaskEnds == step # "none" /\ step' = "none" /\ UNCHANGED <<line, talk, npc, ui, keys, events>>

-----------------------------------------------------------------------------
(* The console. *)

AutoNpcPick(u) ==
    IF step # "none" THEN [u EXCEPT !.npcOpen = FALSE]
    ELSE IF u.seq = u.npcSeen THEN u
    ELSE [u EXCEPT !.npcSeen = u.seq, !.npcOpen = u.menu # 0]

AutoShopPick(u) ==
    IF step # "none" THEN [u EXCEPT !.shopOpen = FALSE]
    ELSE IF u.shopseq = u.shopSeen THEN u
    ELSE [u EXCEPT !.shopSeen = u.shopseq, !.shopOpen = u.items # 0]

Frame ==
    /\ ui' = AutoShopPick(AutoNpcPick(
                 [ui EXCEPT !.menu = talk.menu, !.seq = talk.seq,
                            !.items = talk.items, !.shopseq = talk.shopseq]))
    /\ UNCHANGED <<line, talk, npc, keys, step, events>>

(* Keys go to the option popup first.  Nobody else closes one. *)
NpcPickConfirm ==
    /\ ui.npcOpen /\ ui.menu # 0 /\ Len(keys) = 0
    /\ keys' = <<[op |-> "reply", menu |-> ui.menu]>>
    /\ ui' = [ui EXCEPT !.npcSeen = ui.seq, !.npcOpen = FALSE]
    /\ UNCHANGED <<line, talk, npc, step, events>>
ShopPickConfirm ==
    /\ ~ui.npcOpen /\ ui.shopOpen /\ ui.items # 0 /\ Len(keys) = 0
    /\ keys' = <<[op |-> "buy"]>>
    /\ UNCHANGED <<line, talk, npc, ui, step, events>>
Esc ==
    /\ \/ ui.npcOpen /\ ui' = [ui EXCEPT !.npcOpen = FALSE]
       \/ ~ui.npcOpen /\ ui.shopOpen /\ ui' = [ui EXCEPT !.shopOpen = FALSE]
    /\ UNCHANGED <<line, talk, npc, keys, step, events>>

-----------------------------------------------------------------------------
(* The server. *)
Page(n, menu) == [op |-> "talk", page |-> n, menu |-> menu]
Shows(r, menu) ==
    /\ events < MaxPages /\ events' = events + 1
    /\ npc' = [npc EXCEPT !.page = events + 1] /\ Answer(r, <<Page(events + 1, menu)>>)
Crosses(r) == npc.crossed \/ (r.who = "task" /\ npc.page \notin {0, r.meets})

NpcServes ==
    \E r \in First(outbox) :
        /\ UNCHANGED <<talk, ui, keys, step>>
        /\ \/ /\ r.op = "talk" /\ npc.page = 0 /\ ~npc.shop
              /\ \E menu \in BOOLEAN : Shows(r, menu)
           \/ /\ r.op = "talk" /\ (npc.page # 0 \/ npc.shop \/ events = MaxPages)
              /\ Answer(r, <<>>) /\ UNCHANGED <<npc, events>>
           \/ /\ r.op = "answer" /\ npc.page # 0 /\ events < MaxPages
              /\ events' = events + 1
              /\ \/ \E menu \in BOOLEAN :
                       /\ npc' = [npc EXCEPT !.page = events + 1, !.crossed = Crosses(r)]
                       /\ Answer(r, <<Page(events + 1, menu)>>)
                 \/ /\ npc' = [page |-> 0, shop |-> TRUE, crossed |-> Crosses(r)]
                    /\ Answer(r, <<[op |-> "shop", page |-> events + 1]>>)
                 \/ /\ npc' = [npc EXCEPT !.page = 0, !.crossed = Crosses(r)] /\ Answer(r, <<>>)
           \/ /\ r.op = "answer" /\ (npc.page = 0 \/ events = MaxPages)
              /\ npc' = [npc EXCEPT !.crossed = Crosses(r)]
              /\ Answer(r, <<>>) /\ UNCHANGED events
           \/ /\ r.op = "cancel" /\ npc' = [npc EXCEPT !.page = 0]
              /\ Answer(r, <<>>) /\ UNCHANGED events
           \/ /\ r.op = "leave" /\ npc' = [npc EXCEPT !.shop = FALSE]
              /\ Answer(r, <<>>) /\ UNCHANGED events
           \/ r.op = "buy" /\ Answer(r, <<>>) /\ UNCHANGED <<npc, events>>

EnterMap ==
    /\ events < MaxPages /\ events' = events + 1
    /\ npc' = [npc EXCEPT !.page = 0, !.shop = FALSE]
    /\ Tell(<<[op |-> "map"]>>) /\ UNCHANGED <<talk, ui, keys, step>>

(* A lost connection drops the task as well (runtime.rs, reset_session).    *)
DialogBreaks ==
    /\ Break /\ talk' = CloseAll(talk) /\ step' = "none"
    /\ npc' = [npc EXCEPT !.page = 0, !.shop = FALSE] /\ UNCHANGED <<ui, keys, events>>
DialogReturns ==
    /\ events < MaxPages /\ events' = events + 1
    /\ Return(<<[op |-> "map"]>>) /\ UNCHANGED <<talk, npc, ui, keys, step>>

DialogNext ==
    \/ DialogMessage \/ UserTypes \/ RunKey
    \/ TaskStarts \/ TaskTalks \/ TaskAnswers \/ TaskEnds
    \/ Frame \/ NpcPickConfirm \/ ShopPickConfirm \/ Esc
    \/ NpcServes \/ EnterMap \/ DialogBreaks \/ DialogReturns

-----------------------------------------------------------------------------
(* A popup the console has on screen has something to choose: menus are     *)
(* replaced and shops closed by the server, by commands and by new maps,    *)
(* and the popup learns of it by a number alone (app.rs:876, :915).         *)
PopupsHaveChoices ==
    /\ ui.npcOpen => ui.menu # 0
    /\ ui.shopOpen => ui.items # 0

(* An answer of a task meets the page it was waiting for, provided the user *)
(* was in no conversation when it started: each answer closes the dialog,   *)
(* so `dialog==1` is the next page, and the popups are put away before they *)
(* can answer (run.rs:299, app.rs:865).                                     *)
TaskAnswersItsPage == ui.meant \/ ~npc.crossed
=============================================================================
