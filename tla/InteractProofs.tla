--------------------------- MODULE InteractProofs ---------------------------
(***************************************************************************)
(* What Interact keeps, for every number of players, pages, slots and      *)
(* packets under way.  A dialog is followed through the one exchange that  *)
(* is under way (section 2).  A picture the bot has of the server's state  *)
(* is not that state, but becomes it: some sequence of pictures leads from *)
(* the bot's, by the messages still to be handled, to one that agrees with *)
(* the server (sections 3 to 5).  A behaviour is about one of the four,    *)
(* and leaves the others as they were at first.                            *)
(***************************************************************************)
EXTENDS Interact, FiniteSetTheorems, SequenceTheorems, WellFoundedInduction, TLAPS

-----------------------------------------------------------------------------
(* 1. Queues.                                                               *)

(* The packet in front, and what is left behind it.                         *)
LEMMA FrontOf ==
    ASSUME NEW S, NEW q \in Seq(S), NEW m \in First(q)
    PROVE  /\ Len(q) \in Nat /\ Len(q) > 0 /\ m = q[1] /\ m \in S
           /\ Tail(q) \in Seq(S) /\ Len(Tail(q)) = Len(q) - 1
           /\ \A i \in 1..(Len(q) - 1) : Tail(q)[i] = q[i + 1]
<1>1. Len(q) \in Nat /\ 1 \in 1..Len(q) /\ m = q[1]
  BY LenProperties DEF First
<1>2. q # <<>>
  BY <1>1, EmptySeq
<1> QED BY <1>1, <1>2, HeadTailProperties, ElementOfSeq

(* One packet more, and none more.                                          *)
LEMMA OneMore ==
    ASSUME NEW S, NEW q \in Seq(S), NEW x \in S
    PROVE  /\ q \o <<x>> \in Seq(S) /\ Len(q) \in Nat /\ Len(q \o <<x>>) = Len(q) + 1
           /\ (q \o <<x>>)[Len(q) + 1] = x
           /\ \A i \in 1..Len(q) : (q \o <<x>>)[i] = q[i]
<1>1. <<x>> \in Seq(S) /\ Len(<<x>>) = 1 /\ <<x>>[1] = x
  OBVIOUS
<1> HIDE DEF First
<1> QED BY <1>1, ConcatProperties, LenProperties

LEMMA OneAndOne ==
    ASSUME NEW S, NEW x \in S, NEW y \in S
    PROVE  <<x>> \in Seq(S) /\ <<y>> \in Seq(S) /\ <<x>> \o <<y>> = <<x, y>>
<1>1. <<x>> \in Seq(S) /\ Len(<<x>>) = 1 /\ <<x>>[1] = x /\ <<x, y>> \in Seq(S)
      /\ Len(<<x, y>>) = 2 /\ <<x, y>>[1] = x /\ <<x, y>>[2] = y /\ <<y>> \in Seq(S)
  OBVIOUS
<1> DEFINE c == <<x>> \o <<y>>
           d == <<x, y>>
<1>2. c \in Seq(S) /\ Len(c) = 2 /\ c[2] = y /\ \A i \in 1..1 : c[i] = <<x>>[i]
  BY <1>1, OneMore
<1> HIDE DEF c
<1>3. c[1] = x
  BY <1>1, <1>2
<1>4. \A i \in 1..Len(c) : c[i] = d[i]
  BY <1>1, <1>2, <1>3
<1>5. c = d
  <2> HIDE DEF d
  <2>1. d \in Seq(S) /\ Len(d) = Len(c)
    BY <1>1, <1>2 DEF d
  <2> QED BY <1>2, <1>4, <2>1, SeqEqual
<1> QED BY <1>1, <1>5 DEF c

LEMMA NoMore == ASSUME NEW S, NEW q \in Seq(S) PROVE q \o <<>> = q
BY ConcatEmptySeq

LEMMA NoneYet == ASSUME NEW S PROVE <<>> \in Seq(S) /\ Len(<<>>) = 0
BY EmptySeq

(* The messages of q, in order and each by a step of R, make b of a: h is   *)
(* what there is of S before, between and after them.                       *)
Carries(h, q, R) ==
    Len(h) = Len(q) + 1 /\ \A i \in 1..Len(q) : <<h[i], q[i], h[i + 1]>> \in R
Makes(S, R, a, q, b) == \E h \in Seq(S) : h[1] = a /\ h[Len(q) + 1] = b /\ Carries(h, q, R)

LEMMA MakesNothing == ASSUME NEW S, NEW R, NEW a \in S PROVE Makes(S, R, a, <<>>, a)
<1>1. PICK h \in Seq(S) : Len(h) = 1 /\ h[1] = a
  <2>1. <<a>> \in Seq(S) /\ Len(<<a>>) = 1 /\ <<a>>[1] = a
    OBVIOUS
  <2> QED BY <2>1
<1> QED BY <1>1, NoneYet DEF Makes, Carries

LEMMA MakesFirst ==
    ASSUME NEW S, NEW N, NEW R, NEW a, NEW b, NEW q \in Seq(N), Makes(S, R, a, q, b), NEW m \in First(q)
    PROVE  \E c \in S : <<a, m, c>> \in R /\ Makes(S, R, c, Tail(q), b)
<1>0. PICK h \in Seq(S) : h[1] = a /\ h[Len(q) + 1] = b /\ Carries(h, q, R)
  BY DEF Makes
<1>1. /\ Len(q) \in Nat /\ Len(q) > 0 /\ m = q[1]
      /\ Tail(q) \in Seq(N) /\ Len(Tail(q)) = Len(q) - 1
      /\ \A i \in 1..(Len(q) - 1) : Tail(q)[i] = q[i + 1]
  BY FrontOf
<1>2. Len(h) = Len(q) + 1 /\ h # <<>>
  BY <1>0, <1>1, EmptySeq DEF Carries
<1>3. /\ Tail(h) \in Seq(S) /\ Len(Tail(h)) = Len(h) - 1
      /\ \A i \in 1..(Len(h) - 1) : Tail(h)[i] = h[i + 1]
  BY <1>2, HeadTailProperties
<1>4. 2 \in 1..Len(h) /\ 1 \in 1..Len(q) /\ 1 \in 1..(Len(h) - 1) /\ Len(q) \in 1..(Len(h) - 1)
  BY <1>1, <1>2
<1>5. Tail(h)[1] = h[2] /\ h[2] \in S /\ <<h[1], m, h[2]>> \in R
  <2>1. <<h[1], q[1], h[1 + 1]>> \in R
    BY <1>0, <1>4 DEF Carries
  <2> QED BY <1>1, <1>3, <1>4, <2>1, ElementOfSeq
<1>6. Tail(h)[Len(Tail(q)) + 1] = h[Len(q) + 1]
  BY <1>1, <1>3, <1>4
<1>7. ASSUME NEW i \in 1..Len(Tail(q)) PROVE <<Tail(h)[i], Tail(q)[i], Tail(h)[i + 1]>> \in R
  <2>1. i \in 1..(Len(h) - 1) /\ i + 1 \in 1..(Len(h) - 1) /\ i + 1 \in 1..Len(q)
        /\ i \in 1..(Len(q) - 1)
    BY <1>1, <1>2
  <2>2. <<h[i + 1], q[i + 1], h[(i + 1) + 1]>> \in R
    BY <1>0, <2>1 DEF Carries
  <2> QED BY <1>1, <1>3, <2>1, <2>2
<1>8. Carries(Tail(h), Tail(q), R)
  BY <1>1, <1>2, <1>3, <1>7 DEF Carries
<1>9. Makes(S, R, h[2], Tail(q), b)
  BY <1>0, <1>3, <1>5, <1>6, <1>8 DEF Makes
<1> QED BY <1>0, <1>5, <1>9

LEMMA MakesOneMore ==
    ASSUME NEW S, NEW N, NEW R, NEW a, NEW b, NEW q \in Seq(N), Makes(S, R, a, q, b), NEW m \in N,
           NEW c \in S, <<b, m, c>> \in R
    PROVE  Makes(S, R, a, q \o <<m>>, c)
<1>0. PICK h \in Seq(S) : h[1] = a /\ h[Len(q) + 1] = b /\ Carries(h, q, R)
  BY DEF Makes
<1> DEFINE g == h \o <<c>>
           p == q \o <<m>>
<1>1. /\ Len(q) \in Nat /\ Len(p) = Len(q) + 1 /\ p[Len(q) + 1] = m
      /\ \A i \in 1..Len(q) : p[i] = q[i]
  BY OneMore
<1>2. /\ g \in Seq(S) /\ Len(g) = Len(h) + 1 /\ g[Len(h) + 1] = c
      /\ \A i \in 1..Len(h) : g[i] = h[i]
  BY OneMore
<1> HIDE DEF g, p
<1>3. Len(h) = Len(q) + 1
  BY <1>0 DEF Carries
<1>4. g[1] = h[1] /\ g[Len(p) + 1] = c /\ Len(g) = Len(p) + 1
  BY <1>1, <1>2, <1>3
<1>5. ASSUME NEW i \in 1..Len(p) PROVE <<g[i], p[i], g[i + 1]>> \in R
  <2>1. CASE i \in 1..Len(q)
    <3>1. i \in 1..Len(h) /\ i + 1 \in 1..Len(h)
      BY <1>1, <1>3, <2>1
    <3> QED BY <1>0, <1>1, <1>2, <2>1, <3>1 DEF Carries
  <2>2. CASE i = Len(q) + 1
    BY <1>0, <1>1, <1>2, <1>3, <2>2
  <2> QED BY <1>1, <2>1, <2>2
<1>6. Carries(g, p, R)
  BY <1>4, <1>5 DEF Carries
<1>7. Makes(S, R, a, p, c)
  BY <1>0, <1>2, <1>4, <1>6 DEF Makes
<1> QED BY <1>7 DEF p

(* A single message, as after coming back.                                  *)
LEMMA MakesOne ==
    ASSUME NEW S, NEW N, NEW R, NEW a \in S, NEW m \in N, NEW c \in S, <<a, m, c>> \in R
    PROVE  Makes(S, R, a, <<m>>, c)
<1>1. Makes(S, R, a, <<>>, a) /\ <<>> \in Seq(N) /\ <<>> \o <<m>> = <<m>>
  BY MakesNothing, NoneYet
<1> QED BY <1>1, MakesOneMore

(* What is changed in front, by G, is overruled by a message or stays so.   *)
LEMMA MakesOtherwise ==
    ASSUME NEW S, NEW N, NEW R, NEW G \in [S -> S], NEW a, NEW b, NEW q \in Seq(N), Makes(S, R, a, q, b),
           \A x, y \in S, m \in N :
               <<x, m, y>> \in R => <<G[x], m, y>> \in R \/ <<G[x], m, G[y]>> \in R
    PROVE  Makes(S, R, G[a], q, b) \/ Makes(S, R, G[a], q, G[b])
<1>1. PICK h \in Seq(S) : h[1] = a /\ h[Len(q) + 1] = b /\ Carries(h, q, R)
  BY DEF Makes
<1>2. Len(q) \in Nat /\ Len(h) = Len(q) + 1 /\ \A i \in 1..Len(h) : h[i] \in S
  BY <1>1, LenProperties, ElementOfSeq DEF Carries
<1> DEFINE Overruled(k) == <<G[h[k]], q[k], h[k + 1]>> \in R
           Past(i) == \E k \in 1..(i - 1) : Overruled(k)
           g == [i \in 1..Len(h) |-> IF Past(i) THEN h[i] ELSE G[h[i]]]
<1>3. g \in Seq(S) /\ Len(g) = Len(h)
  <2>1. g \in [1..Len(h) -> S]
    BY <1>2
  <2> HIDE DEF g
  <2> QED BY <1>2, <2>1, SeqDef, LenProperties
<1>4. ASSUME NEW i \in 1..Len(q) PROVE <<g[i], q[i], g[i + 1]>> \in R
  <2>1. i \in 1..Len(h) /\ i + 1 \in 1..Len(h) /\ q[i] \in N /\ <<h[i], q[i], h[i + 1]>> \in R
    BY <1>1, <1>2, ElementOfSeq DEF Carries
  <2>2. Past(i + 1) <=> Past(i) \/ Overruled(i)
    <3>1. \A k : k \in 1..((i + 1) - 1) <=> k \in 1..(i - 1) \/ k = i
      BY <1>2
    <3> HIDE DEF Overruled
    <3> QED BY <3>1
  <2>3. g[i] = (IF Past(i) THEN h[i] ELSE G[h[i]])
        /\ g[i + 1] = (IF Past(i) \/ Overruled(i) THEN h[i + 1] ELSE G[h[i + 1]])
    BY <2>1, <2>2
  <2>4. Overruled(i) \/ <<G[h[i]], q[i], G[h[i + 1]]>> \in R
    BY <1>2, <2>1
  <2>5. CASE Past(i)
    BY <2>1, <2>3, <2>5
  <2>6. CASE ~Past(i) /\ Overruled(i)
    BY <2>3, <2>6
  <2>7. CASE ~Past(i) /\ ~Overruled(i)
    BY <2>3, <2>4, <2>7
  <2> QED BY <2>5, <2>6, <2>7
<1>5. Carries(g, q, R)
  BY <1>2, <1>3, <1>4 DEF Carries
<1>6. g[1] = G[a]
  <2>1. ~Past(1) /\ 1 \in 1..Len(h)
    BY <1>2
  <2> QED BY <1>1, <2>1
<1>7. g[Len(q) + 1] \in {b, G[b]}
  <2>1. Len(q) + 1 \in 1..Len(h)
    BY <1>2
  <2> HIDE DEF Past
  <2> QED BY <1>1, <2>1
<1> QED BY <1>3, <1>5, <1>6, <1>7 DEF Makes

LEMMA MakesOfOne ==
    ASSUME NEW S, NEW N, NEW R, NEW a, NEW b, NEW q \in Seq(N), Makes(S, R, a, q, b) PROVE a \in S
<1>1. PICK h \in Seq(S) : h[1] = a /\ Carries(h, q, R)
  BY DEF Makes
<1>2. 1 \in 1..Len(h)
  BY <1>1, LenProperties DEF Carries
<1> QED BY <1>1, <1>2, ElementOfSeq

(* Nothing under way: the picture is the outcome.                           *)
LEMMA MakesItself ==
    ASSUME NEW S, NEW R, NEW a, NEW b, Makes(S, R, a, <<>>, b) PROVE a = b
BY NoneYet DEF Makes

-----------------------------------------------------------------------------
(* 2. The dialog.                                                           *)

PageNews == [op : {"talk"}, page : Pages, menu : BOOLEAN] \cup [op : {"shop"}, page : Pages]
            \cup [op : {"map"}]
PageRequest == [op : {"talk"}, who : {"user", "task"}]
               \cup [op : {"answer"}, meets : Pages, who : {"user", "task"}]
               \cup [op : {"cancel", "buy", "leave"}, who : {"user"}]
PopupKey == [op : {"reply"}, menu : Pages] \cup [op : {"buy"}]

DialogKinds ==
    /\ DialogTypeOK /\ keys \in Seq(PopupKey)
    /\ inbox \in Seq(PageNews) /\ outbox \in Seq(PageRequest) /\ online \in BOOLEAN

(* What the popups were made from is what the bot shows, or the number of   *)
(* what it shows is higher by now; a popup is of the last number seen.      *)
PopupsFollow(t, u) ==
    /\ u.seq <= t.seq /\ (u.seq = t.seq => u.menu = t.menu)
    /\ u.shopseq <= t.shopseq /\ (u.shopseq = t.shopseq => u.items = t.items)
    /\ u.npcOpen => u.menu # 0 /\ u.npcSeen = u.seq
    /\ u.shopOpen => u.items # 0 /\ u.shopSeen = u.shopseq

(* The requests of the task that are on their way, and the pages.           *)
Asked == {i \in 1..Len(outbox) : outbox[i].who = "task"}
Came == {i \in 1..Len(inbox) : inbox[i].op = "talk"}

(* Nothing of the user's that moves the conversation is before the task's   *)
(* request, and the page it answers is still there, or none is.             *)
TaskIsFirst ==
    \A i \in Asked : /\ \A j \in 1..(i - 1) : outbox[j].op = "buy"
                     /\ outbox[i].op = "answer" => npc.page \in {0, outbox[i].meets}
(* While the task runs the user does not speak but to buy, ...              *)
UserIsSilent ==
    step # "none" => /\ ~ui.npcOpen /\ \A i \in 1..Len(keys) : keys[i].op = "buy"
                     /\ \A i \in 1..Len(outbox) : outbox[i].who = "user" => outbox[i].op = "buy"
(* ... and the exchange is at one place: asked for, on its way, or open.    *)
OneExchange ==
    /\ step = "talk" => Asked = {} /\ Came = {} /\ npc.page = 0
    /\ step = "answer" =>
          /\ Asked # {} => ~talk.open /\ Came = {}
          /\ \A i \in Came : ~talk.open /\ npc.page \in {0, inbox[i].page} /\ Came = {i}
          /\ talk.open => npc.page \in {0, talk.page}

TaskAlone == ~npc.crossed /\ TaskIsFirst /\ UserIsSilent /\ OneExchange
DialogOK == DialogKinds /\ PopupsFollow(talk, ui) /\ (ui.meant \/ TaskAlone)
DialogInv == /\ focus = "dialog" => DialogOK
             /\ focus # "dialog" => DialogTypeOK /\ ~npc.crossed /\ ~ui.npcOpen /\ ~ui.shopOpen

(* Whoever replaces a menu or a shop counts on, so that the popups follow.  *)
LEMMA ShopCleared ==
    ASSUME NEW t \in Talk, NEW u \in Popups, PopupsFollow(t, u)
    PROVE  ClearShop(t) \in Talk /\ PopupsFollow(ClearShop(t), u)
<1> DEFINE r == [t EXCEPT !.items = 0, !.shopseq = @ + 1]
<1>1. 0 \in Pages /\ t.shopseq + 1 \in Nat
  BY DialogAssumption DEF Talk, Pages
<1>2. r \in Talk /\ r.seq = t.seq /\ r.menu = t.menu /\ r.shopseq = t.shopseq + 1
  BY <1>1 DEF Talk
<1>3. ClearShop(t) = r
  BY DEF ClearShop
<1> HIDE DEF r
<1> QED BY <1>2, <1>3 DEF PopupsFollow, Talk, Popups

LEMMA MenuReplaced ==
    ASSUME NEW t \in Talk, NEW u \in Popups, PopupsFollow(t, u), NEW n \in Pages
    PROVE  /\ [t EXCEPT !.menu = n, !.seq = @ + 1] \in Talk
           /\ PopupsFollow([t EXCEPT !.menu = n, !.seq = @ + 1], u)
<1> DEFINE r == [t EXCEPT !.menu = n, !.seq = @ + 1]
<1>1. t.seq + 1 \in Nat
  BY DEF Talk
<1>2. r \in Talk /\ r.shopseq = t.shopseq /\ r.items = t.items /\ r.seq = t.seq + 1
  BY <1>1 DEF Talk
<1> HIDE DEF r
<1>3. PopupsFollow(r, u)
  BY <1>2 DEF PopupsFollow, Talk, Popups
<1> QED BY <1>2, <1>3 DEF r

(* What a request of the user does to the line and to the exchange.         *)
LEMMA UserSends ==
    ASSUME DialogKinds, NEW r \in PageRequest, r.who = "user", SendPackets(<<r>>)
    PROVE  /\ outbox' \in Seq(PageRequest) /\ inbox' = inbox /\ online' = online /\ online
           /\ Len(outbox') = Len(outbox) + 1 /\ Len(outbox) \in Nat
           /\ outbox'[Len(outbox) + 1] = r
           /\ \A i \in 1..Len(outbox) : outbox'[i] = outbox[i]
           /\ Asked' = Asked /\ Came' = Came
<1>1. outbox' = outbox \o <<r>> /\ outbox \in Seq(PageRequest)
  BY DEF SendPackets, DialogKinds
<1>2. /\ outbox' \in Seq(PageRequest) /\ inbox' = inbox /\ online' = online /\ online
      /\ Len(outbox') = Len(outbox) + 1 /\ Len(outbox) \in Nat
      /\ outbox'[Len(outbox) + 1] = r
      /\ \A i \in 1..Len(outbox) : outbox'[i] = outbox[i]
  BY <1>1, OneMore DEF SendPackets
<1>3. Asked' = Asked /\ Came' = Came
  BY <1>2 DEF Asked, Came
<1> QED BY <1>2, <1>3

(* What a request of the task does to them.                                 *)
LEMMA TaskSends ==
    ASSUME DialogKinds, NEW r \in PageRequest, r.who = "task", SendPackets(<<r>>)
    PROVE  /\ outbox' \in Seq(PageRequest) /\ inbox' = inbox /\ online' = online /\ online
           /\ Len(outbox') = Len(outbox) + 1 /\ Len(outbox) \in Nat
           /\ outbox'[Len(outbox) + 1] = r
           /\ \A i \in 1..Len(outbox) : outbox'[i] = outbox[i]
           /\ Asked' = Asked \cup {Len(outbox) + 1} /\ Came' = Came
<1>1. outbox' = outbox \o <<r>> /\ outbox \in Seq(PageRequest)
  BY DEF SendPackets, DialogKinds
<1>2. /\ outbox' \in Seq(PageRequest) /\ inbox' = inbox /\ online' = online /\ online
      /\ Len(outbox') = Len(outbox) + 1 /\ Len(outbox) \in Nat
      /\ outbox'[Len(outbox) + 1] = r
      /\ \A i \in 1..Len(outbox) : outbox'[i] = outbox[i]
  BY <1>1, OneMore DEF SendPackets
<1>3. Asked' = Asked \cup {Len(outbox) + 1} /\ Came' = Came
  BY <1>2 DEF Asked, Came
<1> QED BY <1>2, <1>3

(* A request of the user keeps the dialog: before a task there is nothing   *)
(* to keep but the place of a request that is left over, and during a task  *)
(* the user only buys.                                                      *)
LEMMA UserKeeps ==
    ASSUME DialogOK, NEW r \in PageRequest, r.who = "user", SendPackets(<<r>>),
           UNCHANGED <<npc, ui, step, events>>,
           step = "none" \/ (r.op = "buy" /\ talk' = talk),
           talk' \in {talk, [talk EXCEPT !.open = FALSE], ClearShop([talk EXCEPT !.shop = FALSE])},
           keys' \in Seq(PopupKey), Len(keys') <= 1,
           (\A i \in 1..Len(keys) : keys[i].op = "buy") => \A i \in 1..Len(keys') : keys'[i].op = "buy"
    PROVE  DialogOK'
<1>1. DialogKinds /\ PopupsFollow(talk, ui) /\ talk \in Talk /\ ui \in Popups
  BY DEF DialogOK, DialogKinds, DialogTypeOK
<1>2. /\ outbox' \in Seq(PageRequest) /\ inbox' = inbox /\ online' = online
      /\ Len(outbox') = Len(outbox) + 1 /\ Len(outbox) \in Nat
      /\ outbox'[Len(outbox) + 1] = r
      /\ \A i \in 1..Len(outbox) : outbox'[i] = outbox[i]
      /\ Asked' = Asked /\ Came' = Came
  BY <1>1, UserSends
<1>3. /\ talk' \in Talk /\ PopupsFollow(talk', ui)
  <2>1. CASE talk' = talk
    BY <1>1, <2>1
  <2>2. CASE talk' = [talk EXCEPT !.open = FALSE]
    BY <1>1, <2>2 DEF Talk, PopupsFollow
  <2>3. CASE talk' = ClearShop([talk EXCEPT !.shop = FALSE])
    <3>1. [talk EXCEPT !.shop = FALSE] \in Talk /\ PopupsFollow([talk EXCEPT !.shop = FALSE], ui)
      BY <1>1 DEF Talk, PopupsFollow
    <3> QED BY <1>1, <2>3, <3>1, ShopCleared
  <2> QED BY <2>1, <2>2, <2>3
<1>4. DialogKinds'
  BY <1>1, <1>2, <1>3 DEF DialogKinds, DialogTypeOK
<1>5. ASSUME TaskAlone PROVE TaskAlone'
  <2>1. TaskIsFirst'
    <3> SUFFICES ASSUME NEW i \in Asked'
                 PROVE  /\ \A j \in 1..(i - 1) : outbox'[j].op = "buy"
                        /\ outbox'[i].op = "answer" => npc'.page \in {0, outbox'[i].meets}
      BY DEF TaskIsFirst
    <3>1. i \in Asked /\ i \in 1..Len(outbox) /\ outbox'[i] = outbox[i]
          /\ \A j \in 1..(i - 1) : j \in 1..Len(outbox) /\ outbox'[j] = outbox[j]
      BY <1>2 DEF Asked
    <3> QED BY <3>1, <1>5 DEF TaskAlone, TaskIsFirst
  <2>2. UserIsSilent'
    BY <1>2, <1>5 DEF TaskAlone, UserIsSilent
  <2>3. OneExchange'
    BY <1>2, <1>5 DEF TaskAlone, OneExchange
  <2> QED BY <1>5, <2>1, <2>2, <2>3 DEF TaskAlone
<1> QED BY <1>3, <1>4, <1>5 DEF DialogOK

LEMMA UserTypesKeeps == ASSUME DialogOK, UserTypes PROVE DialogOK'
<1>1. DialogKinds /\ talk.page \in Pages /\ keys \in Seq(PopupKey) /\ Len(keys) <= 1
  BY DEF DialogOK, DialogKinds, DialogTypeOK, Talk
<1>2. step = "none" /\ UNCHANGED <<npc, ui, keys, step, events>>
  BY DEF UserTypes
<1>3. PICK r \in PageRequest :
          /\ r.who = "user" /\ SendPackets(<<r>>)
          /\ talk' \in {talk, [talk EXCEPT !.open = FALSE], ClearShop([talk EXCEPT !.shop = FALSE])}
  <2>1. CASE NpcTalk("user")
    <3>1. [op |-> "talk", who |-> "user"] \in PageRequest
      BY DEF PageRequest
    <3> QED BY <3>1, <2>1 DEF NpcTalk, NpcDialogAdvance
  <2>2. CASE NpcCancel
    <3>1. [op |-> "cancel", who |-> "user"] \in PageRequest
      BY DEF PageRequest
    <3> QED BY <3>1, <2>2 DEF NpcCancel, NpcDialogAdvance
  <2>3. CASE NpcAnswer(talk.page, "user")
    <3>1. [op |-> "answer", meets |-> talk.page, who |-> "user"] \in PageRequest
      BY <1>1 DEF PageRequest
    <3> QED BY <2>3, <3>1 DEF NpcAnswer, NpcDialogAdvance
  <2>4. CASE NpcBuy
    <3>1. [op |-> "buy", who |-> "user"] \in PageRequest
      BY DEF PageRequest
    <3> QED BY <3>1, <2>4 DEF NpcBuy
  <2>5. CASE ShopLeave
    <3>1. [op |-> "leave", who |-> "user"] \in PageRequest
      BY DEF PageRequest
    <3> QED BY <3>1, <2>5 DEF ShopLeave
  <2> QED BY <2>1, <2>2, <2>3, <2>4, <2>5 DEF UserTypes
<1> QED BY <1>1, <1>2, <1>3, UserKeeps

LEMMA RunKeyKeeps == ASSUME DialogOK, RunKey PROVE DialogOK'
<1>1. DialogKinds /\ keys \in Seq(PopupKey) /\ Len(keys) <= 1 /\ keys # <<>>
  BY DEF DialogOK, DialogKinds, DialogTypeOK, RunKey
<1>2. Len(keys) = 1 /\ Head(keys) = keys[1] /\ keys[1] \in PopupKey
      /\ Tail(keys) \in Seq(PopupKey) /\ Len(Tail(keys)) = 0
  <2>1. Len(keys) \in Nat /\ Len(keys) # 0 /\ Len(keys) <= 1
    BY <1>1, LenProperties, EmptySeq
  <2>2. \A n \in Nat : n # 0 /\ n <= 1 => n = 1
    OBVIOUS
  <2>3. Len(keys) = 1
    BY <2>1, <2>2, Zenon
  <2> QED BY <1>1, <2>3, HeadTailProperties, ElementOfSeq
<1>3. UNCHANGED <<npc, ui, step, events>> /\ keys' = Tail(keys)
  BY DEF RunKey
<1>4. CASE keys[1].op = "buy" /\ NpcBuy
  <2>1. [op |-> "buy", who |-> "user"] \in PageRequest
    BY DEF PageRequest
  <2> QED BY <1>1, <1>2, <1>3, <1>4, <2>1, UserKeeps DEF NpcBuy
<1>5. CASE keys[1].op = "reply" /\ NpcAnswer(keys[1].menu, "user")
  <2> DEFINE r == [op |-> "answer", meets |-> keys[1].menu, who |-> "user"]
  <2>1. r \in PageRequest /\ r.who = "user"
    BY <1>2, <1>5 DEF PageRequest, PopupKey
  <2>2. SendPackets(<<r>>) /\ talk' = [talk EXCEPT !.open = FALSE]
    BY <1>5 DEF NpcAnswer, NpcDialogAdvance
  <2> HIDE DEF r
  <2>3. CASE step = "none"
    BY <1>1, <1>2, <1>3, <2>1, <2>2, <2>3, UserKeeps
  <2>4. CASE step # "none"
    <3>1. ui.meant
      BY <1>2, <1>5, <2>4 DEF DialogOK, TaskAlone, UserIsSilent
    <3>2. DialogKinds' /\ PopupsFollow(talk', ui')
      <4>1. outbox' \in Seq(PageRequest) /\ inbox' = inbox /\ online' = online
        BY <1>1, <2>1, <2>2, UserSends
      <4>2. talk' \in Talk /\ PopupsFollow(talk', ui')
        BY <1>1, <1>3, <2>2 DEF DialogOK, DialogKinds, DialogTypeOK, Talk, PopupsFollow
      <4> QED BY <1>1, <1>2, <1>3, <4>1, <4>2 DEF DialogKinds, DialogTypeOK
    <3> QED BY <1>3, <3>1, <3>2 DEF DialogOK
  <2> QED BY <2>3, <2>4
<1> QED BY <1>2, <1>4, <1>5 DEF RunKey

(* The task: it starts when the user is in no conversation, ...             *)
LEMMA TaskStartsKeeps == ASSUME DialogOK, TaskStarts PROVE DialogOK'
<1>1. DialogKinds /\ ui \in Popups /\ step' = "talk" /\ UNCHANGED <<line, talk, npc, keys, events>>
  BY DEF DialogOK, DialogKinds, DialogTypeOK, TaskStarts
<1>2. ui' = [ui EXCEPT !.meant = @ \/ ui.npcOpen \/ keys # <<>> \/ outbox # <<>> \/ inbox # <<>>
                                   \/ npc.page # 0]
  BY DEF TaskStarts
<1>3. ui' \in Popups /\ PopupsFollow(talk', ui')
  BY <1>1, <1>2 DEF Popups, PopupsFollow, DialogOK
<1>4. DialogKinds'
  BY <1>1, <1>3 DEF DialogKinds, DialogTypeOK, line
<1>5. ASSUME ~ui'.meant PROVE TaskAlone'
  <2>1. ~ui.meant /\ ~ui.npcOpen /\ keys = <<>> /\ outbox = <<>> /\ inbox = <<>> /\ npc.page = 0
    BY <1>1, <1>2, <1>5 DEF Popups
  <2>2. ui'.npcOpen = ui.npcOpen
    BY <1>1, <1>2 DEF Popups
  <2>3. TaskIsFirst' /\ UserIsSilent' /\ OneExchange'
    BY <1>1, <2>1, <2>2 DEF line, TaskIsFirst, UserIsSilent, OneExchange, Asked, Came
  <2> QED BY <1>1, <2>1, <2>3 DEF DialogOK, TaskAlone
<1> QED BY <1>3, <1>4, <1>5 DEF DialogOK

(* ... asks while nothing else of it is under way, ...                      *)
LEMMA TaskSpeaksKeeps ==
    ASSUME DialogOK, NEW r \in PageRequest, r.who = "task", SendPackets(<<r>>),
           step \in {"talk", "answer"}, step' = "answer", UNCHANGED <<npc, ui, keys, events>>,
           talk' = [talk EXCEPT !.open = FALSE],
           TaskAlone => /\ Asked = {} /\ Came = {}
                        /\ r.op = "answer" => npc.page \in {0, r.meets}
    PROVE  DialogOK'
<1>1. DialogKinds /\ talk \in Talk /\ ui \in Popups
  BY DEF DialogOK, DialogKinds, DialogTypeOK
<1>2. /\ outbox' \in Seq(PageRequest) /\ inbox' = inbox /\ online' = online
      /\ Len(outbox') = Len(outbox) + 1 /\ Len(outbox) \in Nat
      /\ outbox'[Len(outbox) + 1] = r
      /\ \A i \in 1..Len(outbox) : outbox'[i] = outbox[i]
      /\ Asked' = Asked \cup {Len(outbox) + 1} /\ Came' = Came
  BY <1>1, TaskSends
<1>3. talk' \in Talk /\ PopupsFollow(talk', ui') /\ talk'.open = FALSE
  BY <1>1 DEF DialogOK, Talk, PopupsFollow
<1>4. DialogKinds'
  BY <1>1, <1>2, <1>3 DEF DialogKinds, DialogTypeOK
<1>5. ASSUME TaskAlone PROVE TaskAlone'
  <2> DEFINE n == Len(outbox) + 1
  <2>1. Asked = {} /\ Came = {} /\ Asked' = {n} /\ Came' = {} /\ n \in Nat
    BY <1>2, <1>5
  <2>2. UserIsSilent'
    BY <1>2, <1>5 DEF TaskAlone, UserIsSilent
  <2>3. OneExchange'
    BY <1>3, <2>1 DEF OneExchange
  <2>4. \A j \in 1..(n - 1) : outbox'[j].op = "buy"
    <3> SUFFICES ASSUME NEW j \in 1..(n - 1) PROVE outbox'[j].op = "buy"
      OBVIOUS
    <3>1. j \in 1..Len(outbox) /\ outbox'[j] = outbox[j] /\ outbox[j].who # "task"
      BY <1>2, <2>1 DEF Asked
    <3>2. outbox[j] \in PageRequest
      BY <1>1, <3>1, ElementOfSeq DEF DialogKinds
    <3>3. outbox[j].who = "user"
      BY <3>1, <3>2 DEF PageRequest
    <3> QED BY <1>5, <3>1, <3>3 DEF TaskAlone, UserIsSilent
  <2>5. TaskIsFirst'
    BY <1>2, <1>5, <2>1, <2>4 DEF TaskIsFirst
  <2> QED BY <1>5, <2>2, <2>3, <2>5 DEF TaskAlone
<1> QED BY <1>3, <1>4, <1>5 DEF DialogOK

LEMMA TaskTalksKeeps == ASSUME DialogOK, TaskTalks PROVE DialogOK'
<1> DEFINE r == [op |-> "talk", who |-> "task"]
<1>1. r \in PageRequest
  BY DEF PageRequest
<1> QED BY <1>1, TaskSpeaksKeeps DEF TaskTalks, NpcTalk, NpcDialogAdvance, TaskAlone, OneExchange

LEMMA TaskAnswersKeeps == ASSUME DialogOK, TaskAnswers PROVE DialogOK'
<1> DEFINE r == [op |-> "answer", meets |-> talk.page, who |-> "task"]
<1>1. r \in PageRequest
  BY DEF PageRequest, DialogOK, DialogKinds, DialogTypeOK, Talk
<1>2. SendPackets(<<r>>) /\ talk' = [talk EXCEPT !.open = FALSE] /\ step = "answer" /\ talk.open
      /\ UNCHANGED <<npc, ui, keys, step, events>>
  BY DEF TaskAnswers, NpcAnswer, NpcDialogAdvance
<1>3. TaskAlone => Asked = {} /\ Came = {} /\ npc.page \in {0, talk.page}
  BY <1>2 DEF TaskAlone, OneExchange
<1> QED BY <1>1, <1>2, <1>3, TaskSpeaksKeeps

LEMMA TaskEndsKeeps == ASSUME DialogOK, TaskEnds PROVE DialogOK'
<1>1. step' = "none" /\ UNCHANGED <<line, talk, npc, ui, keys, events>>
  BY DEF TaskEnds
<1>2. DialogKinds' /\ PopupsFollow(talk', ui')
  BY <1>1 DEF DialogOK, DialogKinds, DialogTypeOK, line
<1>3. ASSUME TaskAlone PROVE TaskAlone'
  BY <1>1, <1>3 DEF TaskAlone, TaskIsFirst, UserIsSilent, OneExchange, Asked, line
<1> QED BY <1>1, <1>2, <1>3 DEF DialogOK

(* The console: a popup that is left open is of the last number seen, and   *)
(* none is while a task runs.                                               *)
LEMMA NpcPicked ==
    ASSUME NEW u \in Popups, u.npcOpen /\ u.seq = u.npcSeen => u.menu # 0
    PROVE  LET v == AutoNpcPick(u)
           IN  /\ v \in Popups /\ (v.npcOpen => v.menu # 0 /\ v.npcSeen = v.seq)
               /\ step # "none" => ~v.npcOpen
               /\ v.menu = u.menu /\ v.seq = u.seq /\ v.items = u.items /\ v.shopseq = u.shopseq
               /\ v.shopOpen = u.shopOpen /\ v.shopSeen = u.shopSeen /\ v.meant = u.meant
<1>1. CASE step # "none"
  BY <1>1 DEF AutoNpcPick, Popups
<1>2. CASE step = "none" /\ u.seq = u.npcSeen
  BY <1>2 DEF AutoNpcPick
<1>3. CASE step = "none" /\ u.seq # u.npcSeen
  BY <1>3 DEF AutoNpcPick, Popups
<1> QED BY <1>1, <1>2, <1>3

LEMMA ShopPicked ==
    ASSUME NEW u \in Popups, u.shopOpen /\ u.shopseq = u.shopSeen => u.items # 0
    PROVE  LET v == AutoShopPick(u)
           IN  /\ v \in Popups /\ (v.shopOpen => v.items # 0 /\ v.shopSeen = v.shopseq)
               /\ v.menu = u.menu /\ v.seq = u.seq /\ v.items = u.items /\ v.shopseq = u.shopseq
               /\ v.npcOpen = u.npcOpen /\ v.npcSeen = u.npcSeen /\ v.meant = u.meant
<1>1. CASE step # "none"
  BY <1>1 DEF AutoShopPick, Popups
<1>2. CASE step = "none" /\ u.shopseq = u.shopSeen
  BY <1>2 DEF AutoShopPick
<1>3. CASE step = "none" /\ u.shopseq # u.shopSeen
  BY <1>3 DEF AutoShopPick, Popups
<1> QED BY <1>1, <1>2, <1>3

LEMMA FrameKeeps == ASSUME DialogOK, Frame PROVE DialogOK'
<1> DEFINE u == [ui EXCEPT !.menu = talk.menu, !.seq = talk.seq,
                           !.items = talk.items, !.shopseq = talk.shopseq]
           v == AutoNpcPick(u)
           w == AutoShopPick(v)
<1>1. DialogKinds /\ PopupsFollow(talk, ui) /\ talk \in Talk /\ ui \in Popups
  BY DEF DialogOK, DialogKinds, DialogTypeOK
<1>2. /\ u \in Popups /\ u.menu = talk.menu /\ u.seq = talk.seq /\ u.items = talk.items
      /\ u.shopseq = talk.shopseq /\ u.npcOpen = ui.npcOpen /\ u.npcSeen = ui.npcSeen
      /\ u.shopOpen = ui.shopOpen /\ u.shopSeen = ui.shopSeen /\ u.meant = ui.meant
  BY <1>1 DEF Popups, Talk
<1>3. ui' = w /\ UNCHANGED <<line, talk, npc, keys, step, events>>
  BY DEF Frame
<1> HIDE DEF u
<1>4. /\ u.npcOpen /\ u.seq = u.npcSeen => u.menu # 0
      /\ u.shopOpen /\ u.shopseq = u.shopSeen => u.items # 0
  BY <1>1, <1>2 DEF PopupsFollow
<1>5. /\ v \in Popups /\ (v.npcOpen => v.menu # 0 /\ v.npcSeen = v.seq) /\ (step # "none" => ~v.npcOpen)
      /\ v.menu = u.menu /\ v.seq = u.seq /\ v.items = u.items /\ v.shopseq = u.shopseq
      /\ v.shopOpen = u.shopOpen /\ v.shopSeen = u.shopSeen /\ v.meant = u.meant
  BY <1>2, <1>4, NpcPicked
<1> HIDE DEF v
<1>6. /\ w \in Popups /\ (w.shopOpen => w.items # 0 /\ w.shopSeen = w.shopseq)
      /\ w.menu = v.menu /\ w.seq = v.seq /\ w.items = v.items /\ w.shopseq = v.shopseq
      /\ w.npcOpen = v.npcOpen /\ w.npcSeen = v.npcSeen /\ w.meant = v.meant
  BY <1>4, <1>5, ShopPicked
<1> HIDE DEF w
<1>7. PopupsFollow(talk', ui')
  BY <1>1, <1>2, <1>3, <1>5, <1>6 DEF PopupsFollow, Talk
<1>8. DialogKinds'
  BY <1>1, <1>3, <1>6 DEF DialogKinds, DialogTypeOK, line
<1>9. ASSUME TaskAlone PROVE TaskAlone'
  <2>1. step # "none" => ~ui'.npcOpen
    BY <1>3, <1>5, <1>6
  <2> QED BY <1>3, <1>9, <2>1 DEF TaskAlone, TaskIsFirst, UserIsSilent, OneExchange, Asked, Came, line
<1>10. ui'.meant = ui.meant
  BY <1>2, <1>3, <1>5, <1>6
<1> QED BY <1>7, <1>8, <1>9, <1>10 DEF DialogOK

LEMMA ConfirmsKeep == ASSUME DialogOK, NpcPickConfirm \/ ShopPickConfirm \/ Esc PROVE DialogOK'
<1>1. DialogKinds /\ PopupsFollow(talk, ui) /\ talk \in Talk /\ ui \in Popups /\ ui.menu \in Pages
  BY DEF DialogOK, DialogKinds, DialogTypeOK, Popups
<1>2. UNCHANGED <<line, talk, npc, step, events>>
  BY DEF NpcPickConfirm, ShopPickConfirm, Esc
<1>3. ui' \in Popups /\ PopupsFollow(talk', ui') /\ ui'.meant = ui.meant /\ (ui'.npcOpen => ui.npcOpen)
  BY <1>1, <1>2 DEF NpcPickConfirm, ShopPickConfirm, Esc, Popups, PopupsFollow
<1>4. /\ keys' \in Seq(PopupKey) /\ Len(keys') <= 1
      /\ ~ui.npcOpen /\ (\A i \in 1..Len(keys) : keys[i].op = "buy")
            => \A i \in 1..Len(keys') : keys'[i].op = "buy"
  <2>1. CASE NpcPickConfirm
    <3>1. [op |-> "reply", menu |-> ui.menu] \in PopupKey
      BY <1>1 DEF PopupKey
    <3> QED BY <2>1, <3>1 DEF NpcPickConfirm
  <2>2. CASE ShopPickConfirm
    <3>1. [op |-> "buy"] \in PopupKey
      BY DEF PopupKey
    <3> QED BY <2>2, <3>1 DEF ShopPickConfirm
  <2>3. CASE Esc
    BY <1>1, <2>3 DEF Esc, DialogKinds, DialogTypeOK
  <2> QED BY <2>1, <2>2, <2>3
<1>5. DialogKinds'
  BY <1>1, <1>2, <1>3, <1>4 DEF DialogKinds, DialogTypeOK, line
<1>6. ASSUME TaskAlone PROVE TaskAlone'
  <2>1. UserIsSilent'
    BY <1>2, <1>3, <1>4, <1>6 DEF TaskAlone, UserIsSilent, line
  <2> QED BY <1>2, <1>6, <2>1 DEF TaskAlone, TaskIsFirst, OneExchange, Asked, Came, line
<1> QED BY <1>3, <1>5, <1>6 DEF DialogOK

(* The handlers.                                                            *)
LEMMA HandledFollow ==
    ASSUME NEW t \in Talk, NEW u \in Popups, PopupsFollow(t, u)
    PROVE  /\ \A m \in [op : {"talk"}, page : Pages, menu : BOOLEAN] :
                  LET r == HandleNpcTalk(t, m)
                  IN  r \in Talk /\ PopupsFollow(r, u) /\ r.page = m.page
           /\ \A m \in [op : {"shop"}, page : Pages] :
                  LET r == HandleOpenNpcShop(t, m)
                  IN  r \in Talk /\ PopupsFollow(r, u) /\ ~r.open
           /\ LET r == CloseAll(t) IN r \in Talk /\ PopupsFollow(r, u) /\ ~r.open
<1>1. 0 \in Pages
  BY DialogAssumption DEF Pages
<1>2. ASSUME NEW m \in [op : {"talk"}, page : Pages, menu : BOOLEAN]
      PROVE  LET r == HandleNpcTalk(t, m)
             IN  r \in Talk /\ PopupsFollow(r, u) /\ r.page = m.page
  <2> DEFINE x == [t EXCEPT !.open = TRUE, !.page = m.page]
             n == IF m.menu THEN m.page ELSE 0
  <2>1. x \in Talk /\ PopupsFollow(x, u) /\ x.page = m.page /\ n \in Pages
    BY <1>1 DEF Talk, PopupsFollow
  <2>2. HandleNpcTalk(t, m) = [x EXCEPT !.menu = n, !.seq = @ + 1]
    BY DEF HandleNpcTalk, Talk
  <2> HIDE DEF x, n
  <2> DEFINE r == [x EXCEPT !.menu = n, !.seq = @ + 1]
  <2>3. r.page = x.page
    BY <2>1 DEF Talk
  <2>4. r \in Talk /\ PopupsFollow(r, u)
    BY <2>1, MenuReplaced
  <2> HIDE DEF r
  <2> QED BY <2>1, <2>2, <2>3, <2>4 DEF r
<1>3. ASSUME NEW m \in [op : {"shop"}, page : Pages]
      PROVE  LET r == HandleOpenNpcShop(t, m)
             IN  r \in Talk /\ PopupsFollow(r, u) /\ ~r.open
  <2> DEFINE x == [t EXCEPT !.shop = TRUE, !.items = m.page, !.shopseq = @ + 1, !.open = FALSE]
             r == [x EXCEPT !.menu = 0, !.seq = @ + 1]
  <2>1. t.shopseq + 1 \in Nat
    BY DEF Talk
  <2>2. x \in Talk /\ x.seq = t.seq /\ x.menu = t.menu /\ x.shopseq = t.shopseq + 1 /\ ~x.open
    BY <2>1 DEF Talk
  <2>3. HandleOpenNpcShop(t, m) = r
    BY DEF HandleOpenNpcShop, ClearNpcMenu
  <2> HIDE DEF x
  <2>4. PopupsFollow(x, u)
    BY <2>2 DEF PopupsFollow, Talk, Popups
  <2>5. r \in Talk /\ PopupsFollow(r, u)
    BY <1>1, <2>2, <2>4, MenuReplaced
  <2>6. ~r.open
    BY <2>2 DEF Talk
  <2> QED BY <2>3, <2>5, <2>6
<1>4. LET r == CloseAll(t) IN r \in Talk /\ PopupsFollow(r, u) /\ ~r.open
  <2> DEFINE x == [t EXCEPT !.shop = FALSE, !.open = FALSE]
             y == [x EXCEPT !.menu = 0, !.seq = @ + 1]
  <2>1. x \in Talk /\ PopupsFollow(x, u) /\ ~x.open
    BY DEF Talk, PopupsFollow
  <2>2. CloseAll(t) = ClearShop(y)
    BY DEF CloseAll, ClearNpcMenu
  <2> HIDE DEF x
  <2>3. y \in Talk /\ PopupsFollow(y, u)
    BY <1>1, <2>1, MenuReplaced
  <2>4. ~y.open
    BY <2>1 DEF Talk
  <2> HIDE DEF y
  <2>5. ~ClearShop(y).open
    BY <2>3, <2>4 DEF ClearShop, Talk
  <2> QED BY <2>2, <2>3, <2>5, ShopCleared
<1> QED BY <1>2, <1>3, <1>4

LEMMA DialogMessageKeeps == ASSUME DialogOK, DialogMessage PROVE DialogOK'
<1>1. DialogKinds /\ PopupsFollow(talk, ui) /\ talk \in Talk /\ ui \in Popups
  BY DEF DialogOK, DialogKinds, DialogTypeOK
<1>2. PICK m \in First(inbox) :
          /\ Handle(m)
          /\ talk' = CASE m.op = "talk" -> HandleNpcTalk(talk, m)
                       [] m.op = "shop" -> HandleOpenNpcShop(talk, m)
                       [] m.op = "map"  -> CloseAll(talk)
          /\ UNCHANGED <<npc, ui, keys, step, events>>
  BY DEF DialogMessage
<1>3. /\ Len(inbox) \in Nat /\ Len(inbox) > 0 /\ m = inbox[1] /\ m \in PageNews
      /\ inbox' \in Seq(PageNews) /\ Len(inbox') = Len(inbox) - 1
      /\ \A i \in 1..(Len(inbox) - 1) : inbox'[i] = inbox[i + 1]
  <2>1. inbox \in Seq(PageNews) /\ inbox' = Tail(inbox)
    BY <1>1, <1>2 DEF DialogKinds, Handle
  <2> QED BY <2>1, FrontOf
<1>4. UNCHANGED <<outbox, online>>
  BY <1>2 DEF Handle
<1>5. /\ talk' \in Talk /\ PopupsFollow(talk', ui)
      /\ m.op = "talk" => talk'.page = m.page
      /\ m.op # "talk" => ~talk'.open
  <2>1. CASE m.op = "talk"
    <3>1. m \in [op : {"talk"}, page : Pages, menu : BOOLEAN] /\ talk' = HandleNpcTalk(talk, m)
      BY <1>2, <1>3, <2>1 DEF PageNews
    <3> QED BY <1>1, <2>1, <3>1, HandledFollow
  <2>2. CASE m.op = "shop"
    <3>1. m \in [op : {"shop"}, page : Pages] /\ talk' = HandleOpenNpcShop(talk, m)
      BY <1>2, <1>3, <2>2 DEF PageNews
    <3> QED BY <1>1, <2>2, <3>1, HandledFollow
  <2>3. CASE m.op = "map"
    <3>1. talk' = CloseAll(talk)
      BY <1>2, <2>3
    <3> QED BY <1>1, <2>3, <3>1, HandledFollow
  <2> QED BY <1>3, <2>1, <2>2, <2>3 DEF PageNews
<1>6. DialogKinds'
  BY <1>1, <1>2, <1>3, <1>4, <1>5 DEF DialogKinds, DialogTypeOK
<1>7. \A i \in Came' : i \in Nat \ {0} /\ i + 1 \in Came /\ inbox'[i] = inbox[i + 1]
  BY <1>3 DEF Came
<1>8. m.op = "talk" <=> 1 \in Came
  BY <1>3 DEF Came
<1>9. ASSUME TaskAlone PROVE TaskAlone'
  <2>1. Asked' = Asked /\ TaskIsFirst' /\ UserIsSilent' /\ ~npc'.crossed
    BY <1>2, <1>4, <1>9 DEF TaskAlone, TaskIsFirst, UserIsSilent, Asked
  <2>2. OneExchange'
    <3>1. CASE step = "talk"
      BY <1>2, <1>7, <1>9, <2>1, <3>1 DEF TaskAlone, OneExchange
    <3>2. CASE step = "answer" /\ m.op = "talk"
      <4>1. Came = {1} /\ Asked = {} /\ npc.page \in {0, m.page}
        BY <1>3, <1>8, <1>9, <3>2 DEF TaskAlone, OneExchange
      <4>2. Came' = {}
        BY <1>7, <4>1
      <4> QED BY <1>2, <1>5, <2>1, <3>2, <4>1, <4>2 DEF OneExchange
    <3>3. CASE step = "answer" /\ m.op # "talk"
      <4>1. ASSUME NEW i \in Came'
            PROVE  npc'.page \in {0, inbox'[i].page} /\ Came' = {i} /\ Asked' = {}
        <5>1. i \in Nat /\ i + 1 \in Came /\ inbox'[i] = inbox[i + 1]
          BY <1>7, <4>1
        <5>2. Came = {i + 1} /\ npc.page \in {0, inbox[i + 1].page} /\ Asked = {}
          BY <1>9, <3>3, <5>1 DEF TaskAlone, OneExchange
        <5>3. \A k \in Came' : k = i
          BY <1>7, <5>1, <5>2
        <5> QED BY <1>2, <2>1, <4>1, <5>1, <5>2, <5>3
      <4>2. ~talk'.open
        BY <1>5, <3>3
      <4> QED BY <1>2, <2>1, <3>3, <4>1, <4>2 DEF OneExchange
    <3>4. CASE step \notin {"talk", "answer"}
      BY <1>2, <3>4 DEF OneExchange
    <3> QED BY <3>1, <3>2, <3>3, <3>4
  <2> QED BY <2>1, <2>2 DEF TaskAlone
<1> QED BY <1>2, <1>5, <1>6, <1>9 DEF DialogOK

(* The server reads one request; it keeps the page or closes it, ...        *)
LEMMA ServedQueue ==
    ASSUME DialogKinds, NEW r \in First(outbox), NEW packets, Answer(r, packets)
    PROVE  /\ Len(outbox) \in Nat /\ Len(outbox) > 0 /\ r = outbox[1] /\ r \in PageRequest
           /\ outbox' \in Seq(PageRequest) /\ Len(outbox') = Len(outbox) - 1
           /\ \A i \in 1..(Len(outbox) - 1) : outbox'[i] = outbox[i + 1]
           /\ \A i \in Asked' : i \in Nat \ {0} /\ i + 1 \in Asked /\ outbox'[i] = outbox[i + 1]
           /\ inbox' = inbox \o packets /\ online' = online
<1>1. outbox \in Seq(PageRequest) /\ outbox' = Tail(outbox) /\ inbox' = inbox \o packets /\ online' = online
  BY DEF DialogKinds, Answer
<1>2. /\ Len(outbox) \in Nat /\ Len(outbox) > 0 /\ r = outbox[1] /\ r \in PageRequest
      /\ outbox' \in Seq(PageRequest) /\ Len(outbox') = Len(outbox) - 1
      /\ \A i \in 1..(Len(outbox) - 1) : outbox'[i] = outbox[i + 1]
  BY <1>1, FrontOf
<1>3. \A i \in Asked' : i \in Nat \ {0} /\ i + 1 \in Asked /\ outbox'[i] = outbox[i + 1]
  BY <1>2 DEF Asked
<1> QED BY <1>1, <1>2, <1>3

LEMMA CloseKeeps ==
    ASSUME DialogOK, NEW r \in First(outbox), NEW packets, Answer(r, packets),
           packets = <<>> \/ (npc'.page = 0 /\ \E n \in Pages : packets = <<[op |-> "shop", page |-> n]>>),
           npc' \in NpcSide, npc'.page \in {0, npc.page}, TaskAlone => ~npc'.crossed,
           events' \in 0..MaxPages, UNCHANGED <<talk, ui, keys, step>>
    PROVE  DialogOK'
<1>1. DialogKinds /\ PopupsFollow(talk, ui) /\ inbox \in Seq(PageNews)
  BY DEF DialogOK, DialogKinds
<1>2. /\ Len(outbox) \in Nat /\ Len(outbox') = Len(outbox) - 1 /\ outbox' \in Seq(PageRequest)
      /\ \A i \in 1..(Len(outbox) - 1) : outbox'[i] = outbox[i + 1]
      /\ \A i \in Asked' : i \in Nat \ {0} /\ i + 1 \in Asked /\ outbox'[i] = outbox[i + 1]
      /\ inbox' = inbox \o packets /\ online' = online
  BY <1>1, ServedQueue
<1>3. inbox' \in Seq(PageNews) /\ Came' = Came /\ \A i \in Came : inbox'[i] = inbox[i]
  <2>1. CASE packets = <<>>
    BY <1>1, <1>2, <2>1, NoMore DEF Came
  <2>2. CASE \E n \in Pages : packets = <<[op |-> "shop", page |-> n]>>
    <3>1. PICK n \in Pages : packets = <<[op |-> "shop", page |-> n]>>
      BY <2>2
    <3>2. [op |-> "shop", page |-> n] \in PageNews /\ [op |-> "shop", page |-> n].op = "shop"
      BY DEF PageNews
    <3>3. /\ inbox' \in Seq(PageNews) /\ Len(inbox) \in Nat /\ Len(inbox') = Len(inbox) + 1
          /\ inbox'[Len(inbox) + 1].op = "shop"
          /\ \A i \in 1..Len(inbox) : inbox'[i] = inbox[i]
      BY <1>1, <1>2, <3>1, <3>2, OneMore
    <3> QED BY <3>3 DEF Came
  <2> QED BY <2>1, <2>2
<1>4. DialogKinds'
  BY <1>1, <1>2, <1>3 DEF DialogKinds, DialogTypeOK
<1>5. ASSUME TaskAlone PROVE TaskAlone'
  <2>1. TaskIsFirst'
    <3> SUFFICES ASSUME NEW i \in Asked'
                 PROVE  /\ \A j \in 1..(i - 1) : outbox'[j].op = "buy"
                        /\ outbox'[i].op = "answer" => npc'.page \in {0, outbox'[i].meets}
      BY DEF TaskIsFirst
    <3>1. i \in Nat \ {0} /\ i + 1 \in Asked /\ outbox'[i] = outbox[i + 1] /\ i + 1 <= Len(outbox)
      BY <1>2 DEF Asked
    <3>2. \A j \in 1..(i - 1) : outbox'[j] = outbox[j + 1] /\ j + 1 \in 1..((i + 1) - 1)
      <4> SUFFICES ASSUME NEW j \in 1..(i - 1)
                   PROVE  outbox'[j] = outbox[j + 1] /\ j + 1 \in 1..((i + 1) - 1)
        OBVIOUS
      <4>1. i \in Nat /\ Len(outbox) \in Nat /\ i + 1 <= Len(outbox)
        BY <1>2, <3>1, Zenon
      <4>2. j \in 1..(Len(outbox) - 1) /\ j + 1 \in 1..((i + 1) - 1)
        BY <4>1
      <4> QED BY <1>2, <4>2
    <3> QED BY <1>5, <3>1, <3>2 DEF TaskAlone, TaskIsFirst
  <2>2. UserIsSilent'
    <3>1. \A i \in 1..Len(outbox') : i + 1 \in 1..Len(outbox) /\ outbox'[i] = outbox[i + 1]
      BY <1>2
    <3> QED BY <1>5, <3>1 DEF TaskAlone, UserIsSilent
  <2>3. Asked = {} => Asked' = {}
    BY <1>2
  <2>4. OneExchange'
    BY <1>3, <1>5, <2>3 DEF TaskAlone, OneExchange
  <2> QED BY <1>5, <2>1, <2>2, <2>4 DEF TaskAlone
<1> QED BY <1>1, <1>4, <1>5 DEF DialogOK

(* ... or shows the next one, to whoever asked.                             *)
LEMMA ShowKeeps ==
    ASSUME DialogOK, NEW r \in First(outbox), NEW n \in Pages, NEW menu \in BOOLEAN,
           r.op \in {"talk", "answer"}, Answer(r, <<Page(n, menu)>>),
           npc' \in NpcSide, npc'.page = n, TaskAlone => ~npc'.crossed,
           events' \in 0..MaxPages, UNCHANGED <<talk, ui, keys, step>>
    PROVE  DialogOK'
<1>1. DialogKinds /\ PopupsFollow(talk, ui) /\ inbox \in Seq(PageNews)
  BY DEF DialogOK, DialogKinds
<1>2. /\ Len(outbox) \in Nat /\ Len(outbox) > 0 /\ r = outbox[1] /\ r \in PageRequest
      /\ Len(outbox') = Len(outbox) - 1 /\ outbox' \in Seq(PageRequest)
      /\ \A i \in 1..(Len(outbox) - 1) : outbox'[i] = outbox[i + 1]
      /\ \A i \in Asked' : i \in Nat \ {0} /\ i + 1 \in Asked /\ outbox'[i] = outbox[i + 1]
      /\ inbox' = inbox \o <<Page(n, menu)>> /\ online' = online
  BY <1>1, ServedQueue
<1>3. Page(n, menu) \in PageNews /\ Page(n, menu).op = "talk" /\ Page(n, menu).page = n
  BY DEF Page, PageNews
<1>4. /\ inbox' \in Seq(PageNews) /\ Len(inbox) \in Nat /\ Len(inbox') = Len(inbox) + 1
      /\ inbox'[Len(inbox) + 1] = Page(n, menu)
      /\ \A i \in 1..Len(inbox) : inbox'[i] = inbox[i]
  BY <1>1, <1>2, <1>3, OneMore
<1>5. DialogKinds'
  BY <1>1, <1>2, <1>4 DEF DialogKinds, DialogTypeOK
<1>6. ASSUME TaskAlone PROVE TaskAlone'
  <2>1. Asked' = {}
    <3> SUFFICES ASSUME NEW i \in Asked' PROVE FALSE
      OBVIOUS
    <3>1. i + 1 \in Asked /\ 1 \in 1..((i + 1) - 1)
      BY <1>2
    <3> QED BY <1>2, <1>6, <3>1 DEF TaskAlone, TaskIsFirst
  <2>2. UserIsSilent'
    <3>1. \A i \in 1..Len(outbox') : i + 1 \in 1..Len(outbox) /\ outbox'[i] = outbox[i + 1]
      BY <1>2
    <3> QED BY <1>6, <3>1 DEF TaskAlone, UserIsSilent
  <2>3. step # "none" => 1 \in Asked
    <3>1. step # "none" => r.who # "user"
      BY <1>2, <1>6 DEF TaskAlone, UserIsSilent
    <3> QED BY <1>2, <3>1 DEF Asked, PageRequest
  <2>4. CASE step = "answer"
    <3>1. Asked # {} /\ ~talk.open /\ Came = {}
      BY <1>6, <2>3, <2>4 DEF TaskAlone, OneExchange
    <3>2. Came' = {Len(inbox) + 1}
      BY <1>3, <1>4, <3>1 DEF Came
    <3>3. \A i \in Came' : inbox'[i] = Page(n, menu)
      BY <1>4, <3>2
    <3>4. OneExchange'
      BY <1>3, <2>1, <2>4, <3>1, <3>2, <3>3 DEF OneExchange
    <3> QED BY <1>6, <2>1, <2>2, <3>4 DEF TaskAlone, TaskIsFirst
  <2>5. CASE step # "answer"
    <3>1. step # "talk"
      BY <1>6, <2>3 DEF TaskAlone, OneExchange
    <3> QED BY <1>6, <2>1, <2>2, <2>5, <3>1 DEF TaskAlone, TaskIsFirst, OneExchange
  <2> QED BY <2>4, <2>5
<1> QED BY <1>1, <1>5, <1>6 DEF DialogOK

LEMMA NpcServesKeeps == ASSUME DialogOK, NpcServes PROVE DialogOK'
<1>1. DialogKinds /\ npc \in NpcSide /\ events \in 0..MaxPages /\ 0 \in Pages
  BY DialogAssumption DEF DialogOK, DialogKinds, DialogTypeOK, Pages
<1>2. PICK r \in First(outbox) :
        /\ UNCHANGED <<talk, ui, keys, step>>
        /\ \/ /\ r.op = "talk" /\ npc.page = 0 /\ ~npc.shop
              /\ \E menu \in BOOLEAN : Shows(r, menu)
           \/ /\ r.op = "talk" /\ (npc.page # 0 \/ npc.shop \/ events = MaxPages)
              /\ Answer(r, <<>>) /\ UNCHANGED <<npc, events>>
           \/ /\ r.op = "answer" /\ npc.page # 0 /\ events < MaxPages
              /\ events' = events + 1
              /\ \/ \E menu \in BOOLEAN :
                       /\ npc' = [npc EXCEPT !.page = events + 1, !.crossed = Crosses(r)]
                       /\ Answer(r, <<Page(events + 1, menu)>>)
                 \/ /\ npc' = [page |-> 0, shop |-> TRUE, crossed |-> Crosses(r)]
                    /\ Answer(r, <<[op |-> "shop", page |-> events + 1]>>)
                 \/ /\ npc' = [npc EXCEPT !.page = 0, !.crossed = Crosses(r)] /\ Answer(r, <<>>)
           \/ /\ r.op = "answer" /\ (npc.page = 0 \/ events = MaxPages)
              /\ npc' = [npc EXCEPT !.crossed = Crosses(r)]
              /\ Answer(r, <<>>) /\ UNCHANGED events
           \/ /\ r.op = "cancel" /\ npc' = [npc EXCEPT !.page = 0]
              /\ Answer(r, <<>>) /\ UNCHANGED events
           \/ /\ r.op = "leave" /\ npc' = [npc EXCEPT !.shop = FALSE]
              /\ Answer(r, <<>>) /\ UNCHANGED events
           \/ r.op = "buy" /\ Answer(r, <<>>) /\ UNCHANGED <<npc, events>>
  BY DEF NpcServes
<1> DEFINE n == events + 1
<1>3. events < MaxPages => n \in Pages /\ n \in 0..MaxPages
  BY <1>1, DialogAssumption DEF Pages
<1>4. Crosses(r) \in BOOLEAN /\ (TaskAlone /\ r.op = "answer" => ~Crosses(r))
  <2>1. npc.crossed \in BOOLEAN
    BY <1>1 DEF NpcSide
  <2>2. Len(outbox) \in Nat /\ Len(outbox) > 0 /\ r = outbox[1]
    <3>1. outbox \in Seq(PageRequest)
      BY <1>1 DEF DialogKinds
    <3> QED BY <3>1, FrontOf
  <2>3. r.who = "task" => 1 \in Asked
    BY <2>2 DEF Asked
  <2>4. TaskAlone /\ r.op = "answer" /\ r.who = "task" => npc.page \in {0, r.meets}
    BY <2>2, <2>3 DEF TaskAlone, TaskIsFirst
  <2> QED BY <2>1, <2>4 DEF Crosses, TaskAlone
<1>5. TaskAlone => ~npc.crossed
  BY DEF TaskAlone
<1> HIDE DEF n
<1>6. CASE r.op = "talk" /\ npc.page = 0 /\ ~npc.shop /\ \E menu \in BOOLEAN : Shows(r, menu)
  <2>1. PICK menu \in BOOLEAN : Shows(r, menu)
    BY <1>6
  <2>2. events < MaxPages /\ events' = n /\ npc' = [npc EXCEPT !.page = n]
        /\ Answer(r, <<Page(n, menu)>>)
    BY <2>1 DEF Shows, n
  <2>3. npc' \in NpcSide /\ npc'.page = n /\ npc'.crossed = npc.crossed
    BY <1>1, <1>3, <2>2 DEF NpcSide
  <2> QED BY <1>2, <1>3, <1>5, <1>6, <2>2, <2>3, ShowKeeps
<1>7. CASE r.op = "answer" /\ npc.page # 0 /\ events < MaxPages /\ events' = events + 1
           /\ \E menu \in BOOLEAN :
                 /\ npc' = [npc EXCEPT !.page = events + 1, !.crossed = Crosses(r)]
                 /\ Answer(r, <<Page(events + 1, menu)>>)
  <2>1. PICK menu \in BOOLEAN : /\ npc' = [npc EXCEPT !.page = n, !.crossed = Crosses(r)]
                                /\ Answer(r, <<Page(n, menu)>>)
    BY <1>7 DEF n
  <2>2. npc' \in NpcSide /\ npc'.page = n /\ npc'.crossed = Crosses(r) /\ events' = n
    BY <1>1, <1>3, <1>4, <1>7, <2>1 DEF NpcSide, n
  <2> QED BY <1>2, <1>3, <1>4, <1>7, <2>1, <2>2, ShowKeeps
<1>8. CASE r.op = "answer" /\ npc.page # 0 /\ events < MaxPages /\ events' = events + 1
           /\ npc' = [page |-> 0, shop |-> TRUE, crossed |-> Crosses(r)]
           /\ Answer(r, <<[op |-> "shop", page |-> events + 1]>>)
  <2>1. npc' \in NpcSide /\ npc'.page = 0 /\ npc'.crossed = Crosses(r) /\ events' = n /\ n \in Pages
        /\ Answer(r, <<[op |-> "shop", page |-> n]>>)
    BY <1>1, <1>3, <1>4, <1>8 DEF NpcSide, n
  <2> QED BY <1>2, <1>3, <1>4, <1>8, <2>1, CloseKeeps
<1>9. CASE r.op = "answer" /\ npc.page # 0 /\ events < MaxPages /\ events' = events + 1
           /\ npc' = [npc EXCEPT !.page = 0, !.crossed = Crosses(r)] /\ Answer(r, <<>>)
  <2>1. npc' \in NpcSide /\ npc'.page = 0 /\ npc'.crossed = Crosses(r) /\ events' \in 0..MaxPages
    BY <1>1, <1>3, <1>4, <1>9 DEF NpcSide, n
  <2> QED BY <1>2, <1>4, <1>9, <2>1, CloseKeeps
<1>10. CASE r.op = "answer" /\ npc' = [npc EXCEPT !.crossed = Crosses(r)]
            /\ Answer(r, <<>>) /\ UNCHANGED events
  <2>1. npc' \in NpcSide /\ npc'.page = npc.page /\ npc'.crossed = Crosses(r)
    BY <1>1, <1>4, <1>10 DEF NpcSide
  <2> QED BY <1>1, <1>2, <1>4, <1>10, <2>1, CloseKeeps
<1>11. CASE /\ \/ npc' = [npc EXCEPT !.page = 0]
               \/ npc' = [npc EXCEPT !.shop = FALSE]
               \/ npc' = npc
            /\ Answer(r, <<>>) /\ UNCHANGED events
  <2>1. npc' \in NpcSide /\ npc'.page \in {0, npc.page} /\ npc'.crossed = npc.crossed
    BY <1>1, <1>11 DEF NpcSide
  <2> QED BY <1>1, <1>2, <1>5, <1>11, <2>1, CloseKeeps
<1> QED BY <1>2, <1>6, <1>7, <1>8, <1>9, <1>10, <1>11

(* A map, a lost connection and the next one end every exchange.            *)
LEMMA EnterMapKeeps == ASSUME DialogOK, EnterMap PROVE DialogOK'
<1>1. DialogKinds /\ npc \in NpcSide /\ events \in 0..MaxPages /\ 0 \in Pages /\ inbox \in Seq(PageNews)
  BY DialogAssumption DEF DialogOK, DialogKinds, DialogTypeOK, Pages
<1>2. /\ events < MaxPages /\ events' = events + 1 /\ npc' = [npc EXCEPT !.page = 0, !.shop = FALSE]
      /\ inbox' = inbox \o <<[op |-> "map"]>> /\ UNCHANGED <<outbox, online, talk, ui, keys, step>>
  BY DEF EnterMap, Tell
<1>3. events' \in 0..MaxPages /\ npc' \in NpcSide /\ npc'.page = 0 /\ npc'.crossed = npc.crossed
  <2>1. npc' \in NpcSide /\ npc'.page = 0 /\ npc'.crossed = npc.crossed
    BY <1>1, <1>2 DEF NpcSide
  <2>2. events' \in 0..MaxPages
    BY <1>1, <1>2, DialogAssumption
  <2> QED BY <2>1, <2>2
<1>4. [op |-> "map"] \in PageNews /\ [op |-> "map"].op = "map"
  BY DEF PageNews
<1>5. /\ inbox' \in Seq(PageNews) /\ Len(inbox) \in Nat /\ Len(inbox') = Len(inbox) + 1
      /\ inbox'[Len(inbox) + 1].op = "map"
      /\ \A i \in 1..Len(inbox) : inbox'[i] = inbox[i]
  BY <1>1, <1>2, <1>4, OneMore
<1>6. Came' = Came /\ \A i \in Came : inbox'[i] = inbox[i]
  BY <1>5 DEF Came
<1>7. DialogKinds'
  BY <1>1, <1>2, <1>3, <1>5 DEF DialogKinds, DialogTypeOK
<1>8. ASSUME TaskAlone PROVE TaskAlone'
  BY <1>2, <1>3, <1>6, <1>8 DEF TaskAlone, TaskIsFirst, UserIsSilent, OneExchange, Asked
<1> QED BY <1>2, <1>7, <1>8 DEF DialogOK

LEMMA DialogBreaksKeeps == ASSUME DialogOK, DialogBreaks PROVE DialogOK'
<1>1. DialogKinds /\ PopupsFollow(talk, ui) /\ talk \in Talk /\ ui \in Popups /\ npc \in NpcSide
      /\ 0 \in Pages
  BY DialogAssumption DEF DialogOK, DialogKinds, DialogTypeOK, Pages
<1>2. /\ inbox' = <<>> /\ outbox' = <<>> /\ online' = FALSE /\ talk' = CloseAll(talk) /\ step' = "none"
      /\ npc' = [npc EXCEPT !.page = 0, !.shop = FALSE] /\ UNCHANGED <<ui, keys, events>>
  BY DEF DialogBreaks, Break
<1>3. talk' \in Talk /\ PopupsFollow(talk', ui')
  BY <1>1, <1>2, HandledFollow
<1>4. npc' \in NpcSide /\ npc'.crossed = npc.crossed
  BY <1>1, <1>2 DEF NpcSide
<1>5. DialogKinds'
  BY <1>1, <1>2, <1>3, <1>4, NoneYet DEF DialogKinds, DialogTypeOK
<1>6. ASSUME TaskAlone PROVE TaskAlone'
  <2>1. Asked' = {}
    BY <1>2 DEF Asked
  <2> QED BY <1>2, <1>4, <1>6, <2>1 DEF TaskAlone, TaskIsFirst, UserIsSilent, OneExchange
<1> QED BY <1>2, <1>3, <1>5, <1>6 DEF DialogOK

LEMMA DialogReturnsKeeps == ASSUME DialogOK, DialogReturns PROVE DialogOK'
<1>1. DialogKinds /\ events \in 0..MaxPages
  BY DEF DialogOK, DialogKinds, DialogTypeOK
<1>2. /\ ~online /\ online' = TRUE /\ inbox' = <<[op |-> "map"]>> /\ events' = events + 1
      /\ events < MaxPages /\ UNCHANGED <<outbox, talk, npc, ui, keys, step>>
  BY DEF DialogReturns, Return
<1>3. events' \in 0..MaxPages
  BY <1>1, <1>2, DialogAssumption
<1>4. [op |-> "map"] \in PageNews
  BY DEF PageNews
<1>5. inbox' \in Seq(PageNews) /\ Len(inbox') = 1 /\ inbox'[1].op = "map"
  BY <1>2, <1>4
<1>6. DialogKinds'
  BY <1>1, <1>2, <1>3, <1>5 DEF DialogKinds, DialogTypeOK
<1>7. ASSUME TaskAlone PROVE TaskAlone'
  <2>1. Came' = {}
    BY <1>5 DEF Came
  <2> QED BY <1>2, <1>7, <2>1 DEF TaskAlone, TaskIsFirst, UserIsSilent, OneExchange, Asked
<1> QED BY <1>2, <1>6, <1>7 DEF DialogOK

LEMMA DialogNextKeeps == ASSUME DialogOK, DialogNext PROVE DialogOK'
BY DialogMessageKeeps, UserTypesKeeps, RunKeyKeeps, TaskStartsKeeps, TaskTalksKeeps,
   TaskAnswersKeeps, TaskEndsKeeps, FrameKeeps, ConfirmsKeep, NpcServesKeeps, EnterMapKeeps,
   DialogBreaksKeeps, DialogReturnsKeeps DEF DialogNext

LEMMA DialogInit1 == Init => DialogInv
<1> SUFFICES ASSUME Init PROVE DialogInv
  OBVIOUS
<1>1. LineInit /\ DialogInit /\ 0 \in Pages
  BY DialogAssumption DEF Init, Pages
<1>2. talk \in Talk /\ npc \in NpcSide /\ ui \in Popups /\ events \in 0..MaxPages
  BY <1>1, DialogAssumption DEF DialogInit, Talk, NpcSide, Popups
<1>3. keys = <<>> /\ inbox = <<>> /\ outbox = <<>> /\ online = TRUE /\ step = "none" /\ ~npc.crossed
      /\ ~ui.npcOpen /\ ~ui.shopOpen
  BY <1>1 DEF DialogInit, LineInit
<1>4. DialogKinds
  BY <1>2, <1>3, NoneYet DEF DialogKinds, DialogTypeOK
<1>5. PopupsFollow(talk, ui)
  BY <1>1 DEF DialogInit, PopupsFollow
<1>6. TaskAlone
  BY <1>3 DEF TaskAlone, TaskIsFirst, UserIsSilent, OneExchange, Asked
<1> QED BY <1>3, <1>4, <1>5, <1>6 DEF DialogInv, DialogOK, DialogKinds

LEMMA DialogNext1 == DialogInv /\ [Next]_vars => DialogInv'
<1> SUFFICES ASSUME DialogInv, [Next]_vars PROVE DialogInv'
  OBVIOUS
<1>1. CASE Conversing
  BY <1>1, DialogNextKeeps DEF Conversing, DialogInv
<1>2. CASE focus # "dialog" /\ UNCHANGED <<dialogVars, focus>>
  BY <1>2 DEF DialogInv, DialogTypeOK, dialogVars
<1>3. CASE UNCHANGED vars
  BY <1>3 DEF vars, line, dialogVars, DialogInv, DialogOK, DialogKinds, DialogTypeOK, PopupsFollow,
              TaskAlone, TaskIsFirst, UserIsSilent, OneExchange, Asked, Came
<1> QED BY <1>1, <1>2, <1>3 DEF Next, Trading, Grouping, Packing

(* A popup the console has on screen has something to choose, and an answer *)
(* of a task meets the page it was waiting for, provided the user was in no *)
(* conversation when it started.                                            *)
THEOREM DialogIsSound == Spec => []DialogSound
<1>1. DialogInv => DialogSound
  BY DEF DialogInv, DialogOK, PopupsFollow, TaskAlone, DialogSound, PopupsHaveChoices,
         TaskAnswersItsPage
<1> QED BY <1>1, DialogInit1, DialogNext1, PTL DEF Spec

-----------------------------------------------------------------------------
(* 3. The inventory.                                                        *)

BagNews == [mode : {"add"}, at : Places, item : Stack] \cup [mode : {"quantity"}, at : Places, qty : Nat]
           \cup [mode : {"remove"}, at : Places] \cup [mode : {"move"}, at : Places, to : Places]
           \cup [mode : {"charinfo"}, bag : Bags]

(* The updates that are under way make the server's inventory of the bot's. *)
BagStep == {x \in Bags \X BagNews \X Bags : x[3] = HandleInventoryUpdate(x[1], x[2])}
BagFollows == Makes(Bags, BagStep, bag, inbox, chest)

BagKinds == bag \in Bags /\ chest \in Bags /\ inbox \in Seq(BagNews) /\ online \in BOOLEAN
BagOK == BagKinds /\ (online => BagFollows)
BagInv == /\ focus = "bag" => BagOK
          /\ focus # "bag" => bag = chest /\ bag \in Bags
          /\ loot \in 0..MaxLoot /\ orders \in 0..MaxOrders

(* What the server takes and moves, and how it says so.                     *)
LEMMA Taken ==
    ASSUME chest \in Bags, NEW r, NEW n, r.at \in Places, chest[r.at] # Empty,
           n \in 1..AtLeast(chest[r.at].qty, 1), Takes(r, n)
    PROVE  /\ chest' \in Bags
           /\ \E m \in BagNews : Answer(r, <<m>>) /\ chest' = HandleInventoryUpdate(chest, m)
<1>1. chest[r.at] \in Stack
  BY DEF Bags
<1>2. CASE chest[r.at].qty > n
  <2> DEFINE m == [mode |-> "quantity", at |-> r.at, qty |-> chest[r.at].qty - n]
             s == [chest[r.at] EXCEPT !.qty = @ - n]
  <2>1. n \in Nat /\ n > 0
    BY BagAssumption, <1>1 DEF Stack, AtLeast
  <2>2. chest[r.at] \in [id : Wares, qty : 1..MaxStack]
    BY <1>1, <1>2, <2>1 DEF Stack
  <2>3. s \in Stack /\ chest[r.at].qty - n \in Nat
    BY <1>2, <2>1, <2>2, BagAssumption DEF Stack
  <2>4. chest' = [chest EXCEPT ![r.at] = s] /\ Answer(r, <<m>>)
    BY <1>2 DEF Takes
  <2>5. chest' = [chest EXCEPT ![r.at].qty = m.qty]
    BY <2>4, <1>1 DEF Stack, Bags
  <2>6. m \in BagNews /\ chest' = HandleInventoryUpdate(chest, m)
    BY <2>3, <2>5 DEF BagNews, HandleInventoryUpdate
  <2>7. chest' \in Bags
    BY <2>3, <2>4 DEF Bags
  <2> QED BY <2>4, <2>6, <2>7
<1>3. CASE ~(chest[r.at].qty > n)
  <2> DEFINE m == [mode |-> "remove", at |-> r.at]
  <2>1. chest' = [chest EXCEPT ![r.at] = Empty] /\ Answer(r, <<m>>)
    BY <1>3 DEF Takes
  <2>2. m \in BagNews /\ chest' = HandleInventoryUpdate(chest, m)
    BY <2>1 DEF BagNews, HandleInventoryUpdate
  <2> QED BY <2>1, <2>2 DEF Bags
<1> QED BY <1>2, <1>3

(* One update by the server, and a step that is none of the inventory's.    *)
LEMMA UpdateKeeps ==
    ASSUME BagOK, online, NEW m \in BagNews, inbox' = inbox \o <<m>>,
           chest' = HandleInventoryUpdate(chest, m), chest' \in Bags, bag' = bag, online' = online
    PROVE  BagOK'
<1>1. inbox \in Seq(BagNews) /\ chest \in Bags /\ bag \in Bags /\ BagFollows
  BY DEF BagOK, BagKinds
<1>2. PICK c \in Bags : c = chest'
  OBVIOUS
<1>3. <<chest, m, c>> \in BagStep
  BY <1>1, <1>2 DEF BagStep
<1>4. Makes(Bags, BagStep, bag, inbox \o <<m>>, c)
  BY <1>1, <1>3, MakesOneMore DEF BagFollows
<1>5. BagFollows'
  BY <1>2, <1>4 DEF BagFollows
<1>6. inbox' \in Seq(BagNews)
  BY <1>1, OneMore
<1> QED BY <1>1, <1>5, <1>6 DEF BagOK, BagKinds

LEMMA NoUpdateKeeps ==
    ASSUME BagOK, UNCHANGED <<bag, chest, inbox, online>>
    PROVE  BagOK'
BY DEF BagOK, BagKinds, BagFollows

LEMMA BagMessageKeeps == ASSUME BagOK, BagMessage PROVE BagOK'
<1>1. PICK m \in First(inbox) :
          Handle(m) /\ bag' = HandleInventoryUpdate(bag, m) /\ UNCHANGED <<chest, loot, orders>>
  BY DEF BagMessage
<1>2. /\ inbox \in Seq(BagNews) /\ inbox' = Tail(inbox) /\ online' = online
      /\ BagFollows /\ m \in First(inbox)
  BY <1>1 DEF BagOK, BagKinds, Handle
<1>3. PICK c \in Bags : <<bag, m, c>> \in BagStep /\ Makes(Bags, BagStep, c, Tail(inbox), chest)
  BY <1>2, MakesFirst DEF BagFollows
<1>4. c = bag'
  BY <1>1, <1>3 DEF BagStep
<1>5. BagFollows'
  BY <1>1, <1>2, <1>3, <1>4 DEF BagFollows
<1>6. inbox' \in Seq(BagNews)
  BY <1>2, FrontOf
<1> QED BY <1>1, <1>2, <1>3, <1>4, <1>5, <1>6 DEF BagOK, BagKinds

LEMMA KeeperServesKeeps == ASSUME BagOK, KeeperServes PROVE BagOK'
<1>1. PICK r \in First(outbox) :
        /\ UNCHANGED <<bag, loot, orders>>
        /\ \/ ~Grants(r) /\ Answer(r, <<>>) /\ UNCHANGED chest
           \/ Grants(r) /\ r.op = "use" /\ Takes(r, 1)
           \/ Grants(r) /\ r.op \in {"drop", "sell"} /\ Takes(r, r.qty)
           \/ /\ Grants(r) /\ r.op \in {"wear", "doff"}
              /\ chest' = [chest EXCEPT ![r.at] = Empty, ![r.to] = chest[r.at]]
              /\ Answer(r, <<[mode |-> "move", at |-> r.at, to |-> r.to]>>)
  BY DEF KeeperServes
<1>2. BagKinds /\ chest \in Bags /\ inbox \in Seq(BagNews)
  BY DEF BagOK, BagKinds
<1>3. CASE Answer(r, <<>>) /\ UNCHANGED chest
  <2>1. inbox' = inbox
    BY <1>2, <1>3, NoMore DEF Answer
  <2> QED BY <1>1, <1>3, <2>1, NoUpdateKeeps DEF Answer
<1>4. ASSUME NEW n \in 1..AtLeast(chest[r.at].qty, 1), Grants(r), Takes(r, n) PROVE BagOK'
  <2>1. r.at \in Places /\ chest[r.at] # Empty
    BY <1>4 DEF Grants
  <2>2. /\ chest' \in Bags
        /\ \E m \in BagNews : Answer(r, <<m>>) /\ chest' = HandleInventoryUpdate(chest, m)
    BY <1>2, <1>4, <2>1, Taken
  <2> QED BY <1>1, <2>2, UpdateKeeps DEF Answer
<1>5. CASE Grants(r) /\ r.op = "use" /\ Takes(r, 1)
  <2>1. chest[r.at] \in Stack
    BY <1>2, <1>5 DEF Grants, Bags
  <2>2. 1 \in 1..AtLeast(chest[r.at].qty, 1)
    BY <2>1, BagAssumption DEF Stack, AtLeast
  <2> QED BY <1>4, <1>5, <2>2
<1>6. CASE Grants(r) /\ r.op \in {"drop", "sell"} /\ Takes(r, r.qty)
  <2>1. r.qty \in 1..AtLeast(chest[r.at].qty, 1)
    BY <1>6 DEF Grants
  <2> QED BY <1>4, <1>6, <2>1
<1>7. CASE /\ Grants(r) /\ r.op \in {"wear", "doff"}
           /\ chest' = [chest EXCEPT ![r.at] = Empty, ![r.to] = chest[r.at]]
           /\ Answer(r, <<[mode |-> "move", at |-> r.at, to |-> r.to]>>)
  <2> DEFINE m == [mode |-> "move", at |-> r.at, to |-> r.to]
  <2>1. r.at \in Places /\ r.to \in Places /\ chest[r.at] # Empty
    BY <1>7 DEF Grants
  <2>2. m \in BagNews
    BY <2>1 DEF BagNews
  <2>3. chest' = HandleInventoryUpdate(chest, m)
    BY <1>7, <2>1 DEF HandleInventoryUpdate, Moved
  <2>4. chest' \in Bags
    BY <1>2, <1>7, <2>1 DEF Bags
  <2> QED BY <1>1, <1>7, <2>2, <2>3, <2>4, UpdateKeeps DEF Answer
<1> QED BY <1>1, <1>3, <1>5, <1>6, <1>7

LEMMA FindsKeeps == ASSUME BagOK, Finds PROVE BagOK'
<1>1. PICK id \in Wares, p \in Foremost({q \in Places \ Bodily : q[1] = Use /\ chest[q] = Empty}) :
          /\ chest' = [chest EXCEPT ![p] = [id |-> id, qty |-> 1]]
          /\ Tell(<<[mode |-> "add", at |-> p, item |-> [id |-> id, qty |-> 1]]>>)
  BY DEF Finds
<1>2. p \in Places /\ [id |-> id, qty |-> 1] \in Stack
  BY <1>1, BagAssumption DEF Foremost, Stack
<1> DEFINE m == [mode |-> "add", at |-> p, item |-> [id |-> id, qty |-> 1]]
<1>3. m \in BagNews /\ chest' = HandleInventoryUpdate(chest, m)
  BY <1>1, <1>2 DEF BagNews, HandleInventoryUpdate
<1>4. chest' \in Bags
  BY <1>1, <1>2 DEF BagOK, BagKinds, Bags
<1>5. bag' = bag
  BY DEF Finds
<1> QED BY <1>1, <1>3, <1>4, <1>5, UpdateKeeps DEF Tell

LEMMA BagBreaksKeeps == ASSUME BagOK, BagBreaks PROVE BagOK'
BY NoneYet DEF BagBreaks, Break, bagVars, BagOK, BagKinds

LEMMA BagReturnsKeeps == ASSUME BagOK, BagReturns PROVE BagOK'
<1> DEFINE m == [mode |-> "charinfo", bag |-> chest]
<1>1. bag \in Bags /\ chest \in Bags /\ UNCHANGED <<bag, chest>> /\ online' = TRUE /\ inbox' = <<m>>
  BY DEF BagOK, BagKinds, BagReturns, Return, bagVars
<1>2. m \in BagNews /\ HandleInventoryUpdate(bag, m) = chest
  BY <1>1 DEF BagNews, HandleInventoryUpdate
<1>3. <<bag, m, chest>> \in BagStep
  BY <1>1, <1>2 DEF BagStep
<1>4. BagFollows' /\ inbox' \in Seq(BagNews)
  <2> HIDE DEF m
  <2>1. Makes(Bags, BagStep, bag, <<m>>, chest) /\ <<m>> \in Seq(BagNews)
    BY <1>1, <1>2, <1>3, MakesOne
  <2> QED BY <1>1, <2>1 DEF BagFollows
<1> QED BY <1>1, <1>4 DEF BagOK, BagKinds

LEMMA BagNextKeeps == ASSUME BagOK, BagNext PROVE BagOK'
<1>1. ASSUME NEW packets, Requests(packets) PROVE BagOK'
  BY <1>1, NoUpdateKeeps DEF Requests, SendPackets
<1>2. CASE \E id \in Wares : UseItem(id)
  BY <1>1, <1>2 DEF UseItem
<1>3. ASSUME NEW id \in Gear \cup Wares, NEW qty \in 0..2,
             \/ DropItem(id, qty, 1..Slots) \/ Sell(id, qty)
             \/ \E slot \in 1..Slots : DropItem(id, qty, {slot}) \/ SellSlot(id, qty, slot)
      PROVE  BagOK'
  BY <1>1, <1>3 DEF DropItem, Sell, SellSlot
<1>4. CASE \E tab \in {Equip, Use} : SellType(tab)
  BY <1>1, <1>4 DEF SellType
<1>5. CASE \E id \in Gear : EquipItem(id) \/ UnequipItem(id)
  BY <1>1, <1>5 DEF EquipItem, UnequipItem
<1> QED BY <1>2, <1>3, <1>4, <1>5, BagMessageKeeps, KeeperServesKeeps, FindsKeeps,
           BagBreaksKeeps, BagReturnsKeeps DEF BagNext

LEMMA BagAtFirst == ASSUME BagInit PROVE bag \in Bags /\ chest = bag
<1> DEFINE gear == CHOOSE f \in [1..Slots -> Gear] : IsInjective(f)
           ware == CHOOSE w \in Wares : TRUE
           b == [p \in Places |->
                     CASE p \in Bodily -> Empty
                       [] p[1] = Use  -> [id |-> ware, qty |-> IF p[2] = 1 THEN MaxStack ELSE 1]
                       [] OTHER       -> [id |-> gear[p[2]], qty |-> 0]]
<1>1. gear \in [1..Slots -> Gear] /\ ware \in Wares
  BY BagAssumption
<1>2. bag = b /\ chest = bag
  BY DEF BagInit
<1> HIDE DEF gear, ware
<1>3. ASSUME NEW p \in Places PROVE b[p] \in Stack \cup {Empty}
  <2>1. CASE p \in Bodily
    <3>1. p[1] # Use
      BY <2>1 DEF Bodily, Equip, Use
    <3> QED BY <2>1, <3>1
  <2>2. CASE p \notin Bodily /\ p[1] = Use
    <3>1. [id |-> ware, qty |-> IF p[2] = 1 THEN MaxStack ELSE 1] \in Stack
      BY <1>1, BagAssumption DEF Stack
    <3> QED BY <2>2, <3>1
  <2>3. CASE p \notin Bodily /\ p[1] # Use
    <3>1. p[2] \in 1..Slots
      BY <2>3 DEF Places, Bodily
    <3>2. [id |-> gear[p[2]], qty |-> 0] \in Stack
      BY <1>1, <3>1 DEF Stack
    <3> QED BY <2>3, <3>2
  <2> QED BY <2>1, <2>2, <2>3
<1> HIDE DEF b
<1>4. b \in [Places -> Stack \cup {Empty}]
  BY <1>3 DEF b
<1> QED BY <1>2, <1>4 DEF Bags

LEMMA BagInit1 == Init => BagInv
<1> SUFFICES ASSUME Init PROVE BagInv
  OBVIOUS
<1>1. bag \in Bags /\ chest = bag /\ inbox = <<>> /\ online = TRUE
  BY BagAtFirst DEF Init, LineInit
<1>2. BagFollows
  BY <1>1, MakesNothing DEF BagFollows
<1>3. loot \in 0..MaxLoot /\ orders \in 0..MaxOrders
  BY BagAssumption DEF Init, BagInit
<1> QED BY <1>1, <1>2, <1>3, NoneYet DEF BagInv, BagOK, BagKinds

(* What is found and ordered is counted up to its bound.                    *)
LEMMA BagCounts ==
    ASSUME loot \in 0..MaxLoot, orders \in 0..MaxOrders, BagNext
    PROVE  loot' \in 0..MaxLoot /\ orders' \in 0..MaxOrders
<1>1. ASSUME NEW packets, Requests(packets) PROVE loot' \in 0..MaxLoot /\ orders' \in 0..MaxOrders
  BY <1>1, BagAssumption DEF Requests
<1>2. CASE \E id \in Wares : UseItem(id)
  BY <1>1, <1>2 DEF UseItem
<1>3. ASSUME NEW id \in Gear \cup Wares, NEW qty \in 0..2,
             \/ DropItem(id, qty, 1..Slots) \/ Sell(id, qty)
             \/ \E slot \in 1..Slots : DropItem(id, qty, {slot}) \/ SellSlot(id, qty, slot)
      PROVE  loot' \in 0..MaxLoot /\ orders' \in 0..MaxOrders
  BY <1>1, <1>3 DEF DropItem, Sell, SellSlot
<1>4. CASE \E tab \in {Equip, Use} : SellType(tab)
  BY <1>1, <1>4 DEF SellType
<1>5. CASE \E id \in Gear : EquipItem(id) \/ UnequipItem(id)
  BY <1>1, <1>5 DEF EquipItem, UnequipItem
<1>6. CASE BagMessage \/ KeeperServes \/ BagBreaks \/ BagReturns
  BY <1>6 DEF BagMessage, KeeperServes, BagBreaks, BagReturns, bagVars
<1>7. CASE Finds
  BY <1>7, BagAssumption DEF Finds
<1> QED BY <1>2, <1>3, <1>4, <1>5, <1>6, <1>7 DEF BagNext

LEMMA BagNext1 == BagInv /\ [Next]_vars => BagInv'
<1> SUFFICES ASSUME BagInv, [Next]_vars PROVE BagInv'
  OBVIOUS
<1>1. CASE Packing
  BY <1>1, BagNextKeeps, BagCounts DEF Packing, BagInv
<1>2. CASE focus # "bag" /\ UNCHANGED <<bagVars, focus>>
  BY <1>2 DEF BagInv, bagVars
<1>3. CASE UNCHANGED vars
  BY <1>3, NoUpdateKeeps DEF vars, line, bagVars, BagInv
<1> QED BY <1>1, <1>2, <1>3 DEF Next, Trading, Grouping, Conversing

(* Once every update is handled, the copy is the server's inventory.        *)
LEMMA CopyIsOne == BagInv => InSync
BY MakesItself DEF BagInv, BagOK, BagFollows, InSync, Quiet

-----------------------------------------------------------------------------
(* 4. The party.                                                            *)

PartySides == Parties \cup {Alone}
PartyNews ==
    [op : {"sync", "status"}, id : 1..MaxParties, members : SUBSET People, leader : People \cup {Alone}]
    \cup [op : {"created"}, id : 1..MaxParties] \cup [op : {"change"}, who : People]
    \cup [op : {"left", "invitation", "invite failed"}]
PartyAsk == [op : {"create", "leave"}] \cup [op : {"invite", "expel"}, who : Others]

(* A party is created for a bot that has none.                              *)
PartyStep == {x \in PartySides \X PartyNews \X PartySides :
                 x[3] = HandlePartyOperation(x[1], x[2]) /\ (x[2].op = "created" => x[1] = Alone)}

Companions(p, q) == p.id = q.id /\ (p # Alone => p.members \ {Me} = q.members \ {Me})
Leaving == \E i \in 1..Len(outbox) : outbox[i].op = "leave"

(* What the news under way make of the bot's party: none if the server has  *)
(* none, and unless the bot is leaving it, the server's.                    *)
PartyTold(p) ==
    /\ group.party = Alone => p = Alone
    /\ ~Leaving => Companions(p, group.party)
PartyFollows == \E p \in PartySides : Makes(PartySides, PartyStep, party, inbox, p) /\ PartyTold(p)

PartyKinds ==
    /\ party \in PartySides /\ invited \subseteq Others
    /\ group \in [party : PartySides, count : 0..MaxParties]
    /\ inbox \in Seq(PartyNews) /\ outbox \in Seq(PartyAsk) /\ online \in BOOLEAN
PartyOK ==
    /\ PartyKinds
    /\ online => PartyFollows
    /\ ~online => party = Alone /\ inbox = <<>> /\ outbox = <<>>
PartyInv == /\ focus = "party" => PartyOK
            /\ focus # "party" =>
                  party = Alone /\ group = [party |-> Alone, count |-> 0] /\ invited = {}

LEMMA NobodysParty == \A p \in Parties : p.id # 0 /\ p # Alone
BY PartyAssumption DEF Parties, Alone

LEMMA PartyHandled ==
    ASSUME NEW p \in PartySides, NEW m \in PartyNews
    PROVE  HandlePartyOperation(p, m) \in PartySides
<1>1. CASE m.op \in {"sync", "status"}
  <2>1. Synced(m) \in Parties
    BY <1>1 DEF PartyNews, Synced, Parties
  <2> QED BY <1>1, <2>1 DEF HandlePartyOperation, PartySides
<1>2. CASE m.op = "created"
  <2>1. m.id \in 1..MaxParties
    BY <1>2 DEF PartyNews
  <2>2. HandlePartyOperation(p, m) = IF p = Alone THEN [id |-> m.id, members |-> {}, leader |-> Alone]
                                     ELSE [p EXCEPT !.id = m.id]
    BY <1>2 DEF HandlePartyOperation
  <2> QED BY <2>1, <2>2 DEF PartySides, Parties
<1>3. CASE m.op = "change"
  <2>1. HandlePartyOperation(p, m) = IF m.who = Me \/ p = Alone THEN Alone
                                     ELSE [p EXCEPT !.members = @ \ {m.who}]
    BY <1>3 DEF HandlePartyOperation
  <2> QED BY <2>1 DEF PartySides, Parties
<1>4. CASE m.op \in {"left", "invitation", "invite failed"}
  BY <1>4 DEF HandlePartyOperation, PartySides
<1> QED BY <1>1, <1>2, <1>3, <1>4 DEF PartyNews

(* The server changes the party and says so, in one message.                *)
LEMMA PartyNewsKeeps ==
    ASSUME PartyKinds, online, PartyFollows, NEW m \in PartyNews, inbox' = inbox \o <<m>>,
           outbox' \in Seq(PartyAsk), group' \in [party : PartySides, count : 0..MaxParties],
           invited' \subseteq Others, UNCHANGED <<party, online>>,
           \A p \in PartySides : PartyTold(p) =>
               /\ m.op = "created" => p = Alone
               /\ PartyTold(HandlePartyOperation(p, m))'
    PROVE  PartyOK'
<1>1. PICK p \in PartySides : Makes(PartySides, PartyStep, party, inbox, p) /\ PartyTold(p)
  BY DEF PartyFollows
<1>2. PICK c \in PartySides : c = HandlePartyOperation(p, m)
  BY PartyHandled
<1>3. <<p, m, c>> \in PartyStep
  BY <1>1, <1>2 DEF PartyStep
<1>4. inbox \in Seq(PartyNews)
  BY DEF PartyKinds
<1>5. Makes(PartySides, PartyStep, party, inbox \o <<m>>, c)
  BY <1>1, <1>3, <1>4, MakesOneMore
<1>6. PartyTold(c)'
  BY <1>1, <1>2
<1>7. PartyFollows'
  BY <1>5, <1>6 DEF PartyFollows
<1>8. inbox' \in Seq(PartyNews)
  BY <1>4, OneMore
<1> QED BY <1>7, <1>8 DEF PartyOK, PartyKinds

(* A step that leaves the party, what is known of it and its news alone.    *)
LEMMA NoNewsKeeps ==
    ASSUME PartyOK, outbox' \in Seq(PartyAsk), UNCHANGED <<party, group, inbox, online>>,
           invited' \subseteq Others, online \/ outbox' = outbox,
           Leaving => Leaving' \/ group.party = Alone
    PROVE  PartyOK'
<1>1. ASSUME NEW p \in PartySides, PartyTold(p) PROVE PartyTold(p)'
  BY <1>1 DEF PartyTold, Companions, Alone
<1>2. CASE online
  BY <1>1, <1>2 DEF PartyOK, PartyKinds, PartyFollows
<1>3. CASE ~online
  BY <1>3 DEF PartyOK, PartyKinds
<1> QED BY <1>2, <1>3 DEF PartyOK, PartyKinds

LEMMA PartyMessageKeeps == ASSUME PartyOK, PartyMessage PROVE PartyOK'
<1>1. PICK m \in First(inbox) :
          Handle(m) /\ party' = HandlePartyOperation(party, m) /\ UNCHANGED <<group, invited>>
  BY DEF PartyMessage
<1>2. /\ inbox \in Seq(PartyNews) /\ inbox' = Tail(inbox) /\ online /\ UNCHANGED <<online, outbox>>
      /\ PartyFollows /\ m \in First(inbox)
  BY <1>1 DEF PartyOK, PartyKinds, Handle
<1>3. PICK p \in PartySides : Makes(PartySides, PartyStep, party, inbox, p) /\ PartyTold(p)
  BY <1>2 DEF PartyFollows
<1>4. PICK c \in PartySides :
          <<party, m, c>> \in PartyStep /\ Makes(PartySides, PartyStep, c, Tail(inbox), p)
  BY <1>2, <1>3, MakesFirst
<1>5. c = party'
  BY <1>1, <1>4 DEF PartyStep
<1>6. PartyTold(p)'
  BY <1>1, <1>2, <1>3 DEF PartyTold, Leaving
<1>7. PartyFollows'
  BY <1>2, <1>4, <1>5, <1>6 DEF PartyFollows
<1>8. inbox' \in Seq(PartyNews)
  BY <1>2, FrontOf
<1> QED BY <1>1, <1>2, <1>5, <1>7, <1>8 DEF PartyOK, PartyKinds

(* Having asked to leave, the bot has no party until it is told of one.     *)
LEMMA LeaveKeeps == ASSUME PartyOK, Leave PROVE PartyOK'
<1> DEFINE request == [op |-> "leave"]
           G == [p \in PartySides |-> Alone]
<1>1. /\ online /\ outbox' = outbox \o <<request>> /\ party' = Alone
      /\ UNCHANGED <<group, invited, inbox, online>>
  BY DEF Leave, Asks, SendPackets
<1>2. PartyKinds /\ PartyFollows
  BY <1>1 DEF PartyOK
<1>3. request \in PartyAsk /\ outbox \in Seq(PartyAsk)
  BY <1>2 DEF PartyAsk, PartyKinds
<1>4. /\ outbox' \in Seq(PartyAsk) /\ Len(outbox) \in Nat /\ Len(outbox') = Len(outbox) + 1
      /\ outbox'[Len(outbox) + 1] = request
  BY <1>1, <1>3, OneMore
<1>5. Leaving'
  <2>1. Len(outbox') \in 1..Len(outbox') /\ outbox'[Len(outbox')].op = "leave"
    BY <1>4
  <2> QED BY <2>1 DEF Leaving
<1>6. PICK p \in PartySides : Makes(PartySides, PartyStep, party, inbox, p) /\ PartyTold(p)
  BY <1>2 DEF PartyFollows
<1>7. G \in [PartySides -> PartySides] /\ \A p1 \in PartySides : G[p1] = Alone
  BY DEF PartySides
<1> HIDE DEF G, request
<1>8. ASSUME NEW x \in PartySides, NEW y \in PartySides, NEW m \in PartyNews, <<x, m, y>> \in PartyStep
      PROVE  <<G[x], m, y>> \in PartyStep \/ <<G[x], m, G[y]>> \in PartyStep
  <2>1. y = HandlePartyOperation(x, m) /\ (m.op = "created" => x = Alone) /\ G[x] = Alone /\ G[y] = Alone
    BY <1>7, <1>8 DEF PartyStep
  <2>2. Alone \in PartySides
    BY DEF PartySides
  <2>3. HandlePartyOperation(Alone, m) = y \/ HandlePartyOperation(Alone, m) = Alone
    BY <2>1 DEF HandlePartyOperation
  <2>4. <<Alone, m, y>> \in PartyStep \/ <<Alone, m, Alone>> \in PartyStep
    BY <2>2, <2>3 DEF PartyStep
  <2> QED BY <2>1, <2>4
<1>9. inbox \in Seq(PartyNews) /\ party \in PartySides
  BY <1>2 DEF PartyKinds
<1>10. \/ Makes(PartySides, PartyStep, G[party], inbox, p)
       \/ Makes(PartySides, PartyStep, G[party], inbox, G[p])
  BY <1>6, <1>7, <1>8, <1>9, MakesOtherwise
<1>11. PICK c \in PartySides : c \in {p, Alone} /\ Makes(PartySides, PartyStep, Alone, inbox, c)
  BY <1>7, <1>9, <1>10 DEF PartySides
<1>12. PartyTold(c)'
  BY <1>1, <1>5, <1>6, <1>11 DEF PartyTold
<1>13. PartyFollows'
  BY <1>1, <1>11, <1>12 DEF PartyFollows
<1> QED BY <1>1, <1>2, <1>4, <1>13 DEF PartyOK, PartyKinds, PartySides

(* The bot asks for something else, or nothing.                             *)
LEMMA AsksKeeps ==
    ASSUME PartyOK, NEW request \in PartyAsk, Asks(request), UNCHANGED party
    PROVE  PartyOK'
<1>1. /\ outbox \in Seq(PartyAsk) /\ online /\ outbox' = outbox \o <<request>>
      /\ UNCHANGED <<party, group, invited, inbox, online>> /\ invited \subseteq Others
  BY DEF PartyOK, PartyKinds, Asks, SendPackets
<1>2. /\ outbox' \in Seq(PartyAsk) /\ Len(outbox) \in Nat /\ Len(outbox') = Len(outbox) + 1
      /\ \A i \in 1..Len(outbox) : outbox'[i] = outbox[i]
  BY <1>1, OneMore
<1>3. Leaving => Leaving'
  BY <1>2 DEF Leaving
<1> QED BY <1>1, <1>2, <1>3, NoNewsKeeps

(* The server has read what was asked first.                                *)
LEMMA AskedFirst ==
    ASSUME PartyKinds, NEW r \in First(outbox), outbox' = Tail(outbox)
    PROVE  /\ r \in PartyAsk /\ outbox' \in Seq(PartyAsk)
           /\ r.op # "leave" => (Leaving => Leaving')
<1>1. /\ Len(outbox) \in Nat /\ Len(outbox) > 0 /\ r = outbox[1] /\ r \in PartyAsk
      /\ Tail(outbox) \in Seq(PartyAsk) /\ Len(Tail(outbox)) = Len(outbox) - 1
      /\ \A i \in 1..(Len(outbox) - 1) : Tail(outbox)[i] = outbox[i + 1]
  BY FrontOf DEF PartyKinds
<1>2. ASSUME r.op # "leave", Leaving PROVE Leaving'
  <2>1. PICK i \in 1..Len(outbox) : outbox[i].op = "leave"
    BY <1>2 DEF Leaving
  <2>2. i - 1 \in 1..Len(outbox') /\ i - 1 \in 1..(Len(outbox) - 1) /\ (i - 1) + 1 = i
    BY <1>1, <1>2, <2>1
  <2>3. outbox'[i - 1] = outbox[i]
    BY <1>1, <2>2
  <2> QED BY <2>1, <2>2, <2>3 DEF Leaving
<1> QED BY <1>1, <1>2

LEMMA ServerServesKeeps == ASSUME PartyOK, ServerServes PROVE PartyOK'
<1>1. PICK r \in First(outbox) :
        /\ UNCHANGED party
        /\ \/ ~Granted(r) /\ Answer(r, <<>>) /\ UNCHANGED <<group, invited>>
           \/ /\ Granted(r)
              /\ \/ /\ r.op = "create"
                    /\ group' = [party |-> [id |-> group.count + 1, members |-> {Me}, leader |-> Me],
                                 count |-> group.count + 1]
                    /\ invited' = {} /\ Answer(r, <<[op |-> "created", id |-> group.count + 1]>>)
                 \/ /\ r.op = "invite" /\ r.who \notin group.party.members
                    /\ invited' = invited \cup {r.who}
                    /\ Answer(r, <<>>) /\ UNCHANGED group
                 \/ /\ r.op = "invite" /\ r.who \in group.party.members
                    /\ Answer(r, <<[op |-> "invite failed"]>>) /\ UNCHANGED <<group, invited>>
                 \/ /\ r.op = "leave" /\ Now(Alone) /\ invited' = {}
                    /\ \E m \in {[op |-> "left"], [op |-> "change", who |-> Me]} : Answer(r, <<m>>)
                 \/ /\ r.op = "expel" /\ Now(Without(group.party, r.who)) /\ UNCHANGED invited
                    /\ Answer(r, <<[op |-> "change", who |-> r.who]>>)
  BY DEF ServerServes
<1>2. /\ PartyKinds /\ PartyFollows /\ online /\ UNCHANGED <<party, online>> /\ outbox' = Tail(outbox)
      /\ inbox \in Seq(PartyNews) /\ group \in [party : PartySides, count : 0..MaxParties]
      /\ invited \subseteq Others
  BY <1>1 DEF PartyOK, PartyKinds, Answer
<1>3. r \in PartyAsk /\ outbox' \in Seq(PartyAsk) /\ (r.op # "leave" => (Leaving => Leaving'))
  BY <1>2, AskedFirst
<1>4. CASE ~Granted(r) /\ Answer(r, <<>>) /\ UNCHANGED <<group, invited>>
  <2>1. inbox' = inbox
    BY <1>2, <1>4, NoMore DEF Answer
  <2>2. Leaving => Leaving' \/ group.party = Alone
    BY <1>3, <1>4 DEF Granted
  <2> QED BY <1>2, <1>3, <1>4, <2>1, <2>2, NoNewsKeeps
<1>5. CASE /\ Granted(r) /\ r.op = "create"
           /\ group' = [party |-> [id |-> group.count + 1, members |-> {Me}, leader |-> Me],
                        count |-> group.count + 1]
           /\ invited' = {} /\ Answer(r, <<[op |-> "created", id |-> group.count + 1]>>)
  <2>1. group.party = Alone /\ group.count + 1 \in 1..MaxParties
    BY <1>2, <1>5, PartyAssumption DEF Granted
  <2>2. PICK m \in PartyNews : m = [op |-> "created", id |-> group.count + 1]
    BY <2>1 DEF PartyNews
  <2>5. inbox' = inbox \o <<m>>
    BY <1>5, <2>2 DEF Answer
  <2>3. group' \in [party : PartySides, count : 0..MaxParties]
    BY <1>5, <2>1 DEF PartySides, Parties, People
  <2>4. ASSUME NEW p \in PartySides, PartyTold(p)
        PROVE  p = Alone /\ PartyTold(HandlePartyOperation(p, m))'
    <3>1. p = Alone
      BY <2>1, <2>4 DEF PartyTold
    <3>2. HandlePartyOperation(p, m) = [id |-> group.count + 1, members |-> {}, leader |-> Alone]
      BY <2>2, <3>1 DEF HandlePartyOperation
    <3>3. group'.party # Alone
      BY <1>5, <2>1 DEF Alone
    <3>4. Companions(HandlePartyOperation(p, m), group'.party)
      BY <1>5, <3>2 DEF Companions
    <3> QED BY <3>1, <3>3, <3>4 DEF PartyTold
  <2> QED BY <1>2, <1>3, <1>5, <2>3, <2>4, <2>5, PartyNewsKeeps
<1>6. CASE /\ r.op = "invite" /\ invited' = invited \cup {r.who} /\ Answer(r, <<>>) /\ UNCHANGED group
  <2>1. inbox' = inbox
    BY <1>2, <1>6, NoMore DEF Answer
  <2>2. invited' \subseteq Others /\ (Leaving => Leaving')
    BY <1>2, <1>3, <1>6 DEF PartyAsk
  <2> QED BY <1>2, <1>3, <1>6, <2>1, <2>2, NoNewsKeeps
<1>7. CASE /\ r.op = "invite" /\ Answer(r, <<[op |-> "invite failed"]>>) /\ UNCHANGED <<group, invited>>
  <2> DEFINE m == [op |-> "invite failed"]
  <2>1. m \in PartyNews /\ inbox' = inbox \o <<m>> /\ m.op # "created"
    BY <1>7 DEF PartyNews, Answer
  <2>2. ASSUME NEW p \in PartySides, PartyTold(p) PROVE PartyTold(HandlePartyOperation(p, m))'
    <3>1. HandlePartyOperation(p, m) = p
      BY DEF HandlePartyOperation
    <3> QED BY <1>3, <1>7, <2>2, <3>1 DEF PartyTold
  <2> HIDE DEF m
  <2> QED BY <1>2, <1>3, <1>7, <2>1, <2>2, PartyNewsKeeps
<1>8. ASSUME NEW m \in {[op |-> "left"], [op |-> "change", who |-> Me]}, Answer(r, <<m>>),
             Now(Alone), invited' = {}
      PROVE  PartyOK'
  <2>1. m \in PartyNews /\ inbox' = inbox \o <<m>> /\ m.op # "created"
    <3>1. CASE m = [op |-> "left"]
      BY <1>8, <3>1 DEF PartyNews, Answer
    <3>2. CASE m = [op |-> "change", who |-> Me]
      BY <1>8, <3>2 DEF PartyNews, Answer, People
    <3> QED BY <1>8, <3>1, <3>2
  <2>2. group' \in [party : PartySides, count : 0..MaxParties] /\ group'.party = Alone
    BY <1>2, <1>8 DEF Now, PartySides
  <2>3. ASSUME NEW p \in PartySides PROVE PartyTold(HandlePartyOperation(p, m))'
    <3>1. HandlePartyOperation(p, m) = Alone
      BY <1>8 DEF HandlePartyOperation
    <3> QED BY <2>2, <3>1 DEF PartyTold, Companions
  <2> QED BY <1>2, <1>3, <1>8, <2>1, <2>2, <2>3, PartyNewsKeeps
<1>9. CASE /\ Granted(r) /\ r.op = "expel" /\ Now(Without(group.party, r.who)) /\ UNCHANGED invited
           /\ Answer(r, <<[op |-> "change", who |-> r.who]>>)
  <2> DEFINE m == [op |-> "change", who |-> r.who]
  <2>1. r.who \in Others /\ r.who # Me
    BY <1>3, <1>9, PartyAssumption DEF PartyAsk
  <2>2. m \in PartyNews /\ inbox' = inbox \o <<m>> /\ m.op # "created"
    BY <1>9, <2>1 DEF PartyNews, Answer, People
  <2>3. group.party \in Parties
    BY <1>2, <1>9 DEF Granted, Leads, PartySides
  <2>4. group'.party = [group.party EXCEPT !.members = @ \ {r.who}]
    BY <1>2, <1>9 DEF Now, Without
  <2>5. group' \in [party : PartySides, count : 0..MaxParties] /\ group'.party \in Parties
    BY <1>2, <1>9, <2>3, <2>4 DEF Now, Without, PartySides, Parties
  <2>6. ASSUME NEW p \in PartySides, PartyTold(p) PROVE PartyTold(HandlePartyOperation(p, m))'
    <3>1. HandlePartyOperation(p, m) = IF p = Alone THEN p ELSE [p EXCEPT !.members = @ \ {r.who}]
      BY <2>1 DEF HandlePartyOperation
    <3>2. group'.party # Alone
      BY <2>5, NobodysParty
    <3>3. ASSUME ~Leaving' PROVE Companions(HandlePartyOperation(p, m), group'.party)
      <4>1. Companions(p, group.party)
        BY <1>3, <1>9, <2>6, <3>3 DEF PartyTold
      <4>2. p # Alone
        BY <2>3, <4>1, NobodysParty DEF Companions, Alone
      <4>3. p \in Parties
        BY <4>2 DEF PartySides
      <4> QED BY <2>1, <2>3, <2>4, <3>1, <4>1, <4>2, <4>3 DEF Companions, Parties
    <3> QED BY <3>2, <3>3 DEF PartyTold
  <2> HIDE DEF m
  <2> QED BY <1>2, <1>3, <1>9, <2>2, <2>5, <2>6, PartyNewsKeeps
<1> QED BY <1>1, <1>4, <1>5, <1>6, <1>7, <1>8, <1>9

LEMMA OthersActKeeps == ASSUME PartyOK, OthersAct PROVE PartyOK'
<1>1. /\ PartyKinds /\ UNCHANGED party /\ group \in [party : PartySides, count : 0..MaxParties]
      /\ inbox \in Seq(PartyNews) /\ outbox \in Seq(PartyAsk) /\ invited \subseteq Others
  BY DEF PartyOK, PartyKinds, OthersAct
<1>2. ASSUME NEW m \in PartyNews, Tell(<<m>>), invited' \subseteq Others, m.op # "created",
             group' \in [party : PartySides, count : 0..MaxParties],
             \A p \in PartySides : PartyTold(p) => PartyTold(HandlePartyOperation(p, m))'
      PROVE  PartyOK'
  <2>1. /\ online /\ PartyFollows /\ inbox' = inbox \o <<m>> /\ outbox' \in Seq(PartyAsk)
        /\ UNCHANGED <<party, online>>
    BY <1>1, <1>2 DEF PartyOK, Tell
  <2> QED BY <1>1, <1>2, <2>1, PartyNewsKeeps
(* The whole party is told.                                                 *)
<1>3. ASSUME NEW op \in {"sync", "status"}, NEW q \in Parties, Tell(<<Whole(op, q)>>),
             invited' \subseteq Others, group' = [group EXCEPT !.party = q]
      PROVE  PartyOK'
  <2>1. PICK m \in PartyNews : m = Whole(op, q)
    BY <1>3 DEF PartyNews, Whole, Parties
  <2>2. \A p \in PartySides : HandlePartyOperation(p, m) = q
    BY <1>3, <2>1 DEF HandlePartyOperation, Synced, Whole, Parties
  <2>3. group' \in [party : PartySides, count : 0..MaxParties] /\ group'.party = q
    BY <1>1, <1>3 DEF PartySides
  <2>4. PartyTold(q)'
    BY <1>3, <2>3, NobodysParty DEF PartyTold, Companions
  <2>5. m.op # "created"
    BY <1>3, <2>1 DEF Whole
  <2> QED BY <1>2, <1>3, <2>1, <2>2, <2>3, <2>4, <2>5
<1>4. CASE \E p \in invited, q \in {group.party} :
               LET more == [q EXCEPT !.members = @ \cup {p}] IN
               /\ q # Alone /\ Now(more) /\ invited' = invited \ {p}
               /\ Tell(<<Whole("sync", more)>>)
  <2>1. PICK p \in invited, q \in {group.party} :
               LET more == [q EXCEPT !.members = @ \cup {p}] IN
               /\ q # Alone /\ Now(more) /\ invited' = invited \ {p}
               /\ Tell(<<Whole("sync", more)>>)
    BY <1>4
  <2>2. [q EXCEPT !.members = @ \cup {p}] \in Parties
    BY <1>1, <2>1 DEF PartySides, Parties, People
  <2> QED BY <1>1, <1>3, <2>1, <2>2 DEF Now
<1>5. CASE \E p \in Others, q \in {group.party} :
               /\ q # Alone /\ p \in q.members /\ p # q.leader
               /\ Now(Without(q, p)) /\ UNCHANGED invited
               /\ Tell(<<[op |-> "change", who |-> p]>>)
  <2>1. PICK who \in Others : /\ group.party # Alone /\ Now(Without(group.party, who))
                              /\ UNCHANGED invited /\ Tell(<<[op |-> "change", who |-> who]>>)
    BY <1>5
  <2>2. PICK m \in PartyNews : m = [op |-> "change", who |-> who]
    BY <2>1 DEF PartyNews, People
  <2>3. /\ group.party \in Parties /\ group'.party = [group.party EXCEPT !.members = @ \ {who}]
        /\ group' \in [party : PartySides, count : 0..MaxParties] /\ who # Me
    BY <1>1, <2>1, PartyAssumption DEF Now, Without, PartySides, Parties
  <2>4. group'.party \in Parties /\ group'.party # Alone
    BY <2>3, NobodysParty DEF Parties
  <2>5. ASSUME NEW p \in PartySides, PartyTold(p) PROVE PartyTold(HandlePartyOperation(p, m))'
    <3>1. HandlePartyOperation(p, m) = IF p = Alone THEN p ELSE [p EXCEPT !.members = @ \ {who}]
      BY <2>2, <2>3 DEF HandlePartyOperation
    <3>2. ASSUME ~Leaving' PROVE Companions(HandlePartyOperation(p, m), group'.party)
      <4>1. Companions(p, group.party)
        BY <2>1, <2>5, <3>2 DEF PartyTold, Tell, Leaving
      <4>2. p # Alone
        BY <2>3, <4>1, NobodysParty DEF Companions, Alone
      <4>3. p \in Parties
        BY <4>2 DEF PartySides
      <4> QED BY <2>3, <3>1, <4>1, <4>2, <4>3 DEF Companions, Parties
    <3> QED BY <2>4, <3>2 DEF PartyTold
  <2> QED BY <1>1, <1>2, <2>1, <2>2, <2>3, <2>5
<1>6. CASE /\ Now(Alone) /\ UNCHANGED invited /\ Tell(<<[op |-> "change", who |-> Me]>>)
  <2>1. PICK m \in PartyNews : m = [op |-> "change", who |-> Me]
    BY DEF PartyNews, People
  <2>2. group' \in [party : PartySides, count : 0..MaxParties] /\ group'.party = Alone
    BY <1>1, <1>6 DEF Now, PartySides
  <2>3. \A p \in PartySides : PartyTold(HandlePartyOperation(p, m))'
    BY <2>1, <2>2 DEF HandlePartyOperation, PartyTold, Companions
  <2> QED BY <1>1, <1>2, <1>6, <2>1, <2>2, <2>3
<1>7. CASE /\ group.party # Alone /\ Tell(<<Whole("status", group.party)>>)
           /\ UNCHANGED <<group, invited>>
  <2>1. group.party \in Parties /\ group' = [group EXCEPT !.party = group.party]
    BY <1>1, <1>7 DEF PartySides
  <2> QED BY <1>1, <1>3, <1>7, <2>1
<1>8. CASE Tell(<<[op |-> "invitation"]>>) /\ UNCHANGED <<group, invited>>
  <2>1. PICK m \in PartyNews : m = [op |-> "invitation"]
    BY DEF PartyNews
  <2>2. \A p \in PartySides : HandlePartyOperation(p, m) = p
    BY <2>1 DEF HandlePartyOperation
  <2>3. \A p \in PartySides : PartyTold(p) => PartyTold(p)'
    BY <1>8 DEF PartyTold, Leaving, Tell
  <2>4. \A p \in PartySides : PartyTold(p) => PartyTold(HandlePartyOperation(p, m))'
    BY <2>2, <2>3
  <2> QED BY <1>1, <1>2, <1>8, <2>1, <2>4
<1> QED BY <1>4, <1>5, <1>6, <1>7, <1>8 DEF OthersAct

LEMMA PartyBreaksKeeps == ASSUME PartyOK, PartyBreaks PROVE PartyOK'
BY NoneYet DEF PartyOK, PartyKinds, PartyBreaks, Break, PartySides

LEMMA AwayKeeps == ASSUME PartyOK, OthersActWhileAway PROVE PartyOK'
<1>1. /\ ~online /\ UNCHANGED <<line, party, invited>> /\ PartyKinds
      /\ group \in [party : PartySides, count : 0..MaxParties]
  BY DEF OthersActWhileAway, PartyOK, PartyKinds
<1>2. CASE Now(Alone)
  <2>1. group' \in [party : PartySides, count : 0..MaxParties]
    BY <1>1, <1>2 DEF Now, PartySides
  <2> QED BY <1>1, <2>1 DEF PartyOK, PartyKinds, line
<1>3. CASE \E p \in Others : group.party # Alone /\ Now(Without(group.party, p))
  <2>1. PICK p \in Others : group.party # Alone /\ Now(Without(group.party, p))
    BY <1>3
  <2>2. group' \in [party : PartySides, count : 0..MaxParties]
    BY <1>1, <2>1 DEF Now, Without, PartySides, Parties
  <2> QED BY <1>1, <2>2 DEF PartyOK, PartyKinds, line
<1> QED BY <1>2, <1>3 DEF OthersActWhileAway

LEMMA PartyReturnsKeeps == ASSUME PartyOK, PartyReturns PROVE PartyOK'
<1>1. /\ party = Alone /\ outbox = <<>> /\ online' = TRUE /\ UNCHANGED <<party, group, invited, outbox>>
      /\ inbox' = IF group.party = Alone THEN <<>> ELSE <<Whole("status", group.party)>>
      /\ PartyKinds /\ group.party \in PartySides /\ party \in PartySides
  BY DEF PartyOK, PartyKinds, PartyReturns, Return, partyVars
<1>2. ~Leaving' /\ PartyTold(group.party)'
  BY <1>1, NoneYet DEF Leaving, PartyTold, Companions
<1>3. inbox' \in Seq(PartyNews) /\ Makes(PartySides, PartyStep, party, inbox', group.party)
  <2>1. CASE group.party = Alone
    BY <1>1, <2>1, NoneYet, MakesNothing
  <2>2. CASE group.party # Alone
    <3>1. PICK q \in Parties : q = group.party
      BY <1>1, <2>2 DEF PartySides
    <3>2. PICK m \in PartyNews : m = Whole("status", q)
      BY DEF PartyNews, Whole, Parties
    <3>3. HandlePartyOperation(party, m) = q /\ m.op = "status"
      BY <3>2 DEF HandlePartyOperation, Synced, Whole, Parties
    <3>4. <<party, m, q>> \in PartyStep
      BY <1>1, <3>1, <3>3 DEF PartyStep
    <3>5. Makes(PartySides, PartyStep, party, <<m>>, q) /\ <<m>> \in Seq(PartyNews)
      BY <1>1, <3>1, <3>4, MakesOne
    <3> QED BY <1>1, <2>2, <3>1, <3>2, <3>5
  <2> QED BY <2>1, <2>2
<1>4. PartyFollows'
  BY <1>1, <1>2, <1>3 DEF PartyFollows
<1> QED BY <1>1, <1>3, <1>4 DEF PartyOK, PartyKinds

LEMMA PartyNextKeeps == ASSUME PartyOK, PartyNext PROVE PartyOK'
<1>1. CASE Create
  <2>1. [op |-> "create"] \in PartyAsk
    BY DEF PartyAsk
  <2> QED BY <1>1, <2>1, AsksKeeps DEF Create
<1>2. CASE \E p \in Others : InvitePlayer(p) \/ Kick(p)
  <2>1. PICK p \in Others : InvitePlayer(p) \/ Kick(p)
    BY <1>2
  <2>2. [op |-> "invite", who |-> p] \in PartyAsk /\ [op |-> "expel", who |-> p] \in PartyAsk
    BY DEF PartyAsk
  <2> QED BY <2>1, <2>2, AsksKeeps DEF InvitePlayer, Kick
<1> QED BY <1>1, <1>2, PartyMessageKeeps, ServerServesKeeps, OthersActKeeps, PartyBreaksKeeps,
           PartyReturnsKeeps, AwayKeeps, LeaveKeeps DEF PartyNext

LEMMA PartyInit1 == Init => PartyInv
<1> SUFFICES ASSUME Init PROVE PartyInv
  OBVIOUS
<1>1. /\ invited = {} /\ party \in PartySides /\ group \in [party : PartySides, count : 0..MaxParties]
      /\ group.party = party
  <2>1. PICK p \in {Alone} \cup {[id |-> 1, members |-> {Me, l}, leader |-> l] : l \in Others} :
           party = p /\ group = [party |-> p, count |-> p.id]
    BY DEF Init, PartyInit
  <2>2. p \in PartySides /\ p.id \in 0..MaxParties
    BY PartyAssumption DEF PartySides, Parties, People, Alone
  <2> QED BY <2>1, <2>2 DEF Init, PartyInit
<1>2. inbox = <<>> /\ outbox = <<>> /\ online = TRUE
  BY DEF Init, LineInit
<1>3. PartyFollows
  <2>1. Makes(PartySides, PartyStep, party, inbox, party)
    BY <1>1, <1>2, MakesNothing
  <2>2. PartyTold(party)
    BY <1>1 DEF PartyTold, Companions
  <2> QED BY <1>1, <2>1, <2>2 DEF PartyFollows
<1>4. focus # "party" => group = [party |-> Alone, count |-> 0]
  BY DEF Init, PartyInit, Alone
<1> QED BY <1>1, <1>2, <1>3, <1>4, NoneYet DEF PartyInv, PartyOK, PartyKinds, Init

LEMMA PartyNext1 == PartyInv /\ [Next]_vars => PartyInv'
<1> SUFFICES ASSUME PartyInv, [Next]_vars PROVE PartyInv'
  OBVIOUS
<1>1. CASE Grouping
  BY <1>1, PartyNextKeeps DEF Grouping, PartyInv
<1>2. CASE focus # "party" /\ UNCHANGED <<partyVars, focus>>
  BY <1>2 DEF PartyInv, partyVars
<1>3. CASE UNCHANGED vars
  BY <1>3 DEF vars, line, partyVars, PartyInv, PartyOK, PartyKinds, PartyFollows, PartyTold, Leaving
<1> QED BY <1>1, <1>2, <1>3 DEF Next, Trading, Packing, Conversing

(* Once everything is said, the bot is in the server's party.               *)
LEMMA PartiesAreOne == PartyInv => PartiesAgree
<1> SUFFICES ASSUME PartyInv, Quiet PROVE PartiesAgree
  BY DEF PartiesAgree
<1>1. CASE focus # "party"
  BY <1>1 DEF PartyInv, PartiesAgree
<1>2. CASE focus = "party"
  <2>1. PartyFollows /\ inbox = <<>> /\ outbox = <<>>
    BY <1>2 DEF PartyInv, PartyOK, Quiet
  <2>2. PICK p \in PartySides : Makes(PartySides, PartyStep, party, inbox, p) /\ PartyTold(p)
    BY <2>1 DEF PartyFollows
  <2>3. party = p
    BY <2>1, <2>2, MakesItself
  <2>4. ~Leaving
    BY <2>1, NoneYet DEF Leaving
  <2> QED BY <2>2, <2>3, <2>4 DEF PartyTold, Companions, PartiesAgree
<1> QED BY <1>1, <1>2

-----------------------------------------------------------------------------
(* 5. The trade.                                                            *)

TradeNews == [act : {"INVITE"}, name : Traders]
             \cup [act : {"START", "PARTNER_ADD", "ITEM_ADD", "MESO_SET", "CONFIRM", "MESSAGE"}, number : 0..1]
TradeAsk == [act : {"create", "accept", "decline", "quit", "put", "meso", "confirm"}]
            \cup [act : {"invite"}, name : Traders]

(* What WindowsAgree looks at: nothing of a window that is closed.          *)
Sights == [open : BOOLEAN, items : Int, meso : BOOLEAN, theirs : BOOLEAN, locked : BOOLEAN]
Shut == [open |-> FALSE, items |-> 0, meso |-> FALSE, theirs |-> FALSE, locked |-> FALSE]
View(items, meso, theirs, locked) ==
    [open |-> TRUE, items |-> items, meso |-> meso, theirs |-> theirs, locked |-> locked]
Sight(t) == IF t.active THEN View(t.items, t.meso, t.partnerLocked, t.locked) ELSE Shut

(* What the messages make of it, and of the number of items.                *)
Seen(f, m) ==
    CASE m.act = "START"                                -> View(0, FALSE, FALSE, FALSE)
      [] m.act = "MESSAGE"                              -> Shut
      [] m.act = "ITEM_ADD" /\ m.number = 1 /\ f.open   -> View(f.items + 1, f.meso, f.theirs, f.locked)
      [] m.act = "MESO_SET" /\ m.number = 1 /\ f.open   -> View(f.items, TRUE, f.theirs, f.locked)
      [] m.act = "CONFIRM" /\ f.open                    -> View(f.items, f.meso, TRUE, f.locked)
      [] OTHER                                          -> f
Counted(n, m) ==
    CASE m.act \in {"START", "MESSAGE"}      -> 0
      [] m.act = "ITEM_ADD" /\ m.number = 1  -> n + 1
      [] OTHER                               -> n
SightStep == {x \in Sights \X TradeNews \X Sights : x[3] = Seen(x[1], x[2])}
Counts == {n \in Int : n <= MaxGoods}
CountStep == {x \in Counts \X TradeNews \X Counts : x[3] = Counted(x[1], x[2])}

Pending(act) == \E i \in 1..Len(outbox) : outbox[i].act = act

(* What is seen in the end: a window the server has, unless the bot is      *)
(* quitting, with its goods and its confirmations, unless one is under way. *)
TradeTold(f) ==
    /\ f.open => window.stage \in {"open", "joined"}
    /\ window.stage \in {"open", "joined"} => f.open \/ Pending("quit")
    /\ f.open => f.items = window.items /\ f.meso = window.meso /\ f.theirs = window.theirs
    /\ f.open /\ f.locked => window.mine \/ Pending("confirm")
TradeFollows == \E f \in Sights : Makes(Sights, SightStep, Sight(trade), inbox, f) /\ TradeTold(f)
(* A number of items counted by a bot that has closed is no more than there *)
(* are.                                                                     *)
GoodsFollow == \E n \in Counts : Makes(Counts, CountStep, trade.items, inbox, n) /\ n <= window.items

Deals == [active : BOOLEAN, partner : Traders \cup {Nobody, Unnamed}, invite : Traders \cup {Nobody},
          items : Nat, meso : BOOLEAN, partnerLocked : BOOLEAN, locked : BOOLEAN]
Windows == [stage : {"none", "invited", "open", "joined"}, with : Traders \cup {Nobody},
            items : 0..MaxGoods, meso : BOOLEAN, mine : BOOLEAN, theirs : BOOLEAN, count : 0..MaxWindows]
TradeKinds ==
    /\ trade \in Deals /\ window \in Windows
    /\ inbox \in Seq(TradeNews) /\ outbox \in Seq(TradeAsk) /\ online \in BOOLEAN
    /\ window.stage \in {"none", "invited"} =>
          window.items = 0 /\ ~window.meso /\ ~window.mine /\ ~window.theirs
TradeOK ==
    /\ TradeKinds
    /\ online => TradeFollows /\ GoodsFollow
    /\ ~online => trade = Closed /\ window.stage = "none" /\ inbox = <<>> /\ outbox = <<>>
TradeInv == /\ focus = "trade" => TradeOK
            /\ focus # "trade" => trade = Closed /\ window = Fresh(0)

LEMMA ViewIsOne ==
    ASSUME NEW items \in Int, NEW meso \in BOOLEAN, NEW theirs \in BOOLEAN, NEW locked \in BOOLEAN
    PROVE  View(items, meso, theirs, locked) \in Sights
BY DEF View, Sights

LEMMA ShutIsOne == Shut \in Sights
BY DEF Shut, Sights

LEMMA SightIsOne == ASSUME NEW t \in Deals PROVE Sight(t) \in Sights
<1>1. t.items \in Int /\ t.meso \in BOOLEAN /\ t.partnerLocked \in BOOLEAN /\ t.locked \in BOOLEAN
  BY DEF Deals
<1> QED BY <1>1, ViewIsOne, ShutIsOne DEF Sight

LEMMA SeenIsOne == ASSUME NEW f \in Sights, NEW m \in TradeNews PROVE Seen(f, m) \in Sights
<1>1. f.items \in Int /\ f.meso \in BOOLEAN /\ f.theirs \in BOOLEAN /\ f.locked \in BOOLEAN
      /\ f.items + 1 \in Int /\ 0 \in Int /\ TRUE \in BOOLEAN /\ FALSE \in BOOLEAN
  BY DEF Sights
<1> QED BY <1>1, ViewIsOne, ShutIsOne DEF Seen

(* The handler makes of the trade what the message makes of the sight.      *)
LEMMA HandlerIsSeen ==
    ASSUME NEW t \in Deals, NEW m \in TradeNews
    PROVE  /\ HandlePlayerInteraction(t, m) \in Deals
           /\ Sight(HandlePlayerInteraction(t, m)) = Seen(Sight(t), m)
           /\ HandlePlayerInteraction(t, m).items = Counted(t.items, m)
<1> DEFINE u == HandlePlayerInteraction(t, m)
<1>1. CASE m.act = "INVITE"
  <2>1. u = [t EXCEPT !.invite = m.name] /\ m.name \in Traders
    BY <1>1 DEF HandlePlayerInteraction, Invited, TradeNews
  <2>2. Seen(Sight(t), m) = Sight(t) /\ Counted(t.items, m) = t.items
    BY <1>1 DEF Seen, Counted
  <2> HIDE DEF u
  <2> QED BY <2>1, <2>2 DEF Deals, Sight, u
<1>2. CASE m.act = "START"
  <2>1. PICK name \in Traders \cup {Nobody, Unnamed} : u = [Closed EXCEPT !.active = TRUE, !.partner = name]
    BY <1>2 DEF HandlePlayerInteraction, Started, Deals
  <2>2. Seen(Sight(t), m) = View(0, FALSE, FALSE, FALSE) /\ Counted(t.items, m) = 0
    BY <1>2 DEF Seen, Counted
  <2> HIDE DEF u
  <2>3. /\ u.active = TRUE /\ u.items = 0 /\ u.meso = FALSE /\ u.partnerLocked = FALSE
        /\ u.locked = FALSE
    BY <2>1 DEF Closed
  <2>4. u = [active |-> TRUE, partner |-> name, invite |-> Nobody, items |-> 0, meso |-> FALSE,
             partnerLocked |-> FALSE, locked |-> FALSE]
    BY <2>1 DEF Closed
  <2>5. u \in Deals
    BY <2>4 DEF Deals
  <2>6. Sight(u) = View(0, FALSE, FALSE, FALSE)
    BY <2>3 DEF Sight
  <2> QED BY <2>2, <2>3, <2>5, <2>6 DEF u
<1>3. CASE m.act = "ITEM_ADD" /\ m.number = 1
  <2>1. u = [t EXCEPT !.items = @ + 1]
    BY <1>3 DEF HandlePlayerInteraction
  <2>2. Seen(Sight(t), m) = (IF t.active THEN View(t.items + 1, t.meso, t.partnerLocked, t.locked) ELSE Shut)
        /\ Counted(t.items, m) = t.items + 1
    BY <1>3 DEF Seen, Counted, Sight, View, Shut
  <2> HIDE DEF u
  <2> QED BY <2>1, <2>2 DEF Deals, Sight, u, Shut
<1>4. CASE m.act = "MESO_SET" /\ m.number = 1
  <2>1. u = [t EXCEPT !.meso = TRUE]
    BY <1>4 DEF HandlePlayerInteraction
  <2>2. Seen(Sight(t), m) = (IF t.active THEN View(t.items, TRUE, t.partnerLocked, t.locked) ELSE Shut)
        /\ Counted(t.items, m) = t.items
    BY <1>4 DEF Seen, Counted, Sight, View, Shut
  <2> HIDE DEF u
  <2> QED BY <2>1, <2>2 DEF Deals, Sight, u, Shut
<1>5. CASE m.act = "CONFIRM"
  <2>1. u = [t EXCEPT !.partnerLocked = TRUE]
    BY <1>5 DEF HandlePlayerInteraction
  <2>2. Seen(Sight(t), m) = (IF t.active THEN View(t.items, t.meso, TRUE, t.locked) ELSE Shut)
        /\ Counted(t.items, m) = t.items
    BY <1>5 DEF Seen, Counted, Sight, View, Shut
  <2> HIDE DEF u
  <2> QED BY <2>1, <2>2 DEF Deals, Sight, u, Shut
<1>6. CASE m.act = "MESSAGE"
  <2>1. u = Closed /\ Seen(Sight(t), m) = Shut /\ Counted(t.items, m) = 0
    BY <1>6 DEF HandlePlayerInteraction, Over, Seen, Counted
  <2> HIDE DEF u
  <2> QED BY <2>1 DEF Deals, Sight, u, Shut, Closed
<1>7. CASE m.act \in {"PARTNER_ADD", "ITEM_ADD", "MESO_SET"} /\ (m.act = "PARTNER_ADD" \/ m.number # 1)
  <2>1. u = t /\ Seen(Sight(t), m) = Sight(t) /\ Counted(t.items, m) = t.items
    BY <1>7 DEF HandlePlayerInteraction, Seen, Counted
  <2> QED BY <2>1
<1> QED BY <1>1, <1>2, <1>3, <1>4, <1>5, <1>6, <1>7 DEF TradeNews

(* One message more from the server, after which what is seen, and what is  *)
(* counted, are as they should be again.                                    *)
LEMMA OneMoreSeen ==
    ASSUME NEW q \in Seq(TradeNews), NEW a, NEW f \in Sights, Makes(Sights, SightStep, a, q, f),
           NEW m \in TradeNews
    PROVE  Seen(f, m) \in Sights /\ Makes(Sights, SightStep, a, q \o <<m>>, Seen(f, m))
<1>1. PICK g \in Sights : g = Seen(f, m)
  BY SeenIsOne
<1>2. <<f, m, g>> \in SightStep
  BY <1>1 DEF SightStep
<1> QED BY <1>1, <1>2, MakesOneMore

LEMMA OneMoreCounted ==
    ASSUME NEW q \in Seq(TradeNews), NEW a, NEW n \in Counts, Makes(Counts, CountStep, a, q, n),
           NEW m \in TradeNews, Counted(n, m) <= MaxGoods
    PROVE  Counted(n, m) \in Counts /\ Makes(Counts, CountStep, a, q \o <<m>>, Counted(n, m))
<1>1. PICK k \in Counts : k = Counted(n, m)
  BY DEF Counts, Counted
<1>2. <<n, m, k>> \in CountStep
  BY <1>1 DEF CountStep
<1> QED BY <1>1, <1>2, MakesOneMore

Idle == window.stage \in {"none", "invited"} =>
            window.items = 0 /\ ~window.meso /\ ~window.mine /\ ~window.theirs

LEMMA TradeNewsKeeps ==
    ASSUME TradeKinds, online, TradeFollows, GoodsFollow, NEW m \in TradeNews, inbox' = inbox \o <<m>>,
           outbox' \in Seq(TradeAsk), window' \in Windows, UNCHANGED <<trade, online>>, Idle',
           \A f \in Sights : TradeTold(f) => TradeTold(Seen(f, m))',
           \A n \in Int : n <= window.items => Counted(n, m) <= window'.items
    PROVE  TradeOK'
<1>1. PICK f \in Sights : Makes(Sights, SightStep, Sight(trade), inbox, f) /\ TradeTold(f)
  BY DEF TradeFollows
<1>2. PICK n \in Counts : Makes(Counts, CountStep, trade.items, inbox, n) /\ n <= window.items
  BY DEF GoodsFollow
<1>3. inbox \in Seq(TradeNews) /\ trade \in Deals
  BY DEF TradeKinds
<1>4. Seen(f, m) \in Sights /\ Makes(Sights, SightStep, Sight(trade), inbox \o <<m>>, Seen(f, m))
  BY <1>1, <1>3, OneMoreSeen
<1>5. TradeFollows'
  BY <1>1, <1>4 DEF TradeFollows
<1>6. Counted(n, m) <= window'.items /\ Counted(n, m) <= MaxGoods
  <2>1. n \in Int /\ window'.items \in 0..MaxGoods /\ MaxGoods \in Nat /\ Counted(n, m) \in Int
    BY TradeAssumption DEF Counts, Windows, Counted
  <2> QED BY <1>2, <2>1
<1>7. Counted(n, m) \in Counts /\ Makes(Counts, CountStep, trade.items, inbox \o <<m>>, Counted(n, m))
  BY <1>2, <1>3, <1>6, OneMoreCounted
<1>8. GoodsFollow'
  BY <1>6, <1>7 DEF GoodsFollow
<1>9. inbox' \in Seq(TradeNews)
  BY <1>3, OneMore
<1> QED BY <1>3, <1>5, <1>8, <1>9 DEF TradeOK, TradeKinds, Idle

LEMMA TradeEnds ==
    ASSUME TradeKinds, Ends
    PROVE  /\ window' \in Windows /\ window'.stage = "none" /\ window'.items = 0 /\ Idle'
<1>1. window' = Fresh(window.count) /\ window.count \in 0..MaxWindows /\ 0 \in 0..MaxGoods
  BY TradeAssumption DEF Ends, TradeKinds, Windows
<1>2. window' \in Windows
  BY <1>1 DEF Fresh, Windows
<1> QED BY <1>1, <1>2 DEF Idle, Fresh

(* The server ends the trade, and this is the last it says.                 *)
LEMMA TradeOverKeeps ==
    ASSUME TradeKinds, online, TradeFollows, GoodsFollow, NEW m \in TradeNews, m.act = "MESSAGE",
           inbox' = inbox \o <<m>>, outbox' \in Seq(TradeAsk), UNCHANGED <<trade, online>>, Ends
    PROVE  TradeOK'
<1>1. window' \in Windows /\ window'.stage = "none" /\ window'.items = 0 /\ Idle'
  BY TradeEnds
<1>3. ASSUME NEW f \in Sights PROVE TradeTold(Seen(f, m))'
  <2>1. Seen(f, m) = Shut
    BY DEF Seen
  <2> QED BY <1>1, <2>1 DEF TradeTold, Shut
<1>4. \A n \in Int : Counted(n, m) = 0
  BY DEF Counted
<1> QED BY <1>1, <1>3, <1>4, TradeNewsKeeps

(* A step that says nothing and changes nothing the bot sees.               *)
LEMMA NothingSaidKeeps ==
    ASSUME TradeOK, online, online' = online, inbox' = inbox, outbox' \in Seq(TradeAsk), trade' \in Deals,
           window' \in Windows, Sight(trade') = Sight(trade), trade'.items = trade.items, Idle',
           \A f \in Sights : TradeTold(f) => TradeTold(f)', window.items <= window'.items
    PROVE  TradeOK'
<1>1. TradeKinds /\ TradeFollows /\ GoodsFollow
  BY DEF TradeOK
<1>2. TradeFollows'
  BY <1>1 DEF TradeFollows
<1>3. GoodsFollow'
  <2>1. PICK n \in Counts : Makes(Counts, CountStep, trade.items, inbox, n) /\ n <= window.items
    BY <1>1 DEF GoodsFollow
  <2>2. n <= window'.items
    <3>1. n \in Int /\ window.items \in Int /\ window'.items \in Int
      BY <1>1 DEF TradeKinds, Windows, Counts
    <3> QED BY <2>1, <3>1
  <2> QED BY <2>1, <2>2 DEF GoodsFollow
<1> QED BY <1>1, <1>2, <1>3 DEF TradeOK, TradeKinds, Idle

(* What is pending stays so while the bot asks for more, and until the      *)
(* server reads it.                                                         *)
LEMMA AskedMore ==
    ASSUME TradeKinds, NEW r \in TradeAsk, SendPackets(<<r>>)
    PROVE  /\ online /\ online' = online /\ inbox' = inbox /\ outbox' \in Seq(TradeAsk)
           /\ Pending(r.act)' /\ \A act : Pending(act) => Pending(act)'
<1>1. /\ outbox \in Seq(TradeAsk) /\ online /\ outbox' = outbox \o <<r>> /\ UNCHANGED <<inbox, online>>
  BY DEF TradeKinds, SendPackets
<1>2. /\ outbox' \in Seq(TradeAsk) /\ Len(outbox) \in Nat /\ Len(outbox') = Len(outbox) + 1
      /\ outbox'[Len(outbox) + 1] = r /\ \A i \in 1..Len(outbox) : outbox'[i] = outbox[i]
  BY <1>1, OneMore
<1>3. Pending(r.act)'
  <2>1. Len(outbox') \in 1..Len(outbox') /\ outbox'[Len(outbox')].act = r.act
    BY <1>2
  <2> QED BY <2>1 DEF Pending
<1>4. ASSUME NEW act, Pending(act) PROVE Pending(act)'
  BY <1>2, <1>4 DEF Pending
<1> QED BY <1>1, <1>2, <1>3, <1>4

LEMMA TradeAskedFirst ==
    ASSUME TradeKinds, NEW r \in First(outbox), outbox' = Tail(outbox)
    PROVE  /\ r \in TradeAsk /\ outbox' \in Seq(TradeAsk)
           /\ \A act : r.act # act /\ Pending(act) => Pending(act)'
<1>1. /\ Len(outbox) \in Nat /\ Len(outbox) > 0 /\ r = outbox[1] /\ r \in TradeAsk
      /\ Tail(outbox) \in Seq(TradeAsk) /\ Len(Tail(outbox)) = Len(outbox) - 1
      /\ \A i \in 1..(Len(outbox) - 1) : Tail(outbox)[i] = outbox[i + 1]
  BY FrontOf DEF TradeKinds
<1>2. ASSUME NEW act, r.act # act, Pending(act) PROVE Pending(act)'
  <2>1. PICK i \in 1..Len(outbox) : outbox[i].act = act
    BY <1>2 DEF Pending
  <2>2. i - 1 \in 1..Len(outbox') /\ i - 1 \in 1..(Len(outbox) - 1) /\ (i - 1) + 1 = i
    BY <1>1, <1>2, <2>1
  <2>3. outbox'[i - 1] = outbox[i]
    BY <1>1, <2>2
  <2> QED BY <2>1, <2>2, <2>3 DEF Pending
<1> QED BY <1>1, <1>2

LEMMA TradeMessageKeeps == ASSUME TradeOK, TradeMessage PROVE TradeOK'
<1>1. PICK m \in First(inbox) :
          Handle(m) /\ trade' = HandlePlayerInteraction(trade, m) /\ UNCHANGED window
  BY DEF TradeMessage
<1>2. /\ inbox \in Seq(TradeNews) /\ inbox' = Tail(inbox) /\ online /\ UNCHANGED <<online, outbox>>
      /\ TradeKinds /\ TradeFollows /\ GoodsFollow /\ m \in First(inbox) /\ trade \in Deals
  BY <1>1 DEF TradeOK, TradeKinds, Handle
<1>3. m \in TradeNews /\ inbox' \in Seq(TradeNews)
  BY <1>2, FrontOf
<1>4. trade' \in Deals /\ Sight(trade') = Seen(Sight(trade), m) /\ trade'.items = Counted(trade.items, m)
  BY <1>1, <1>2, <1>3, HandlerIsSeen
<1>5. TradeFollows'
  <2>1. PICK f \in Sights : Makes(Sights, SightStep, Sight(trade), inbox, f) /\ TradeTold(f)
    BY <1>2 DEF TradeFollows
  <2>2. PICK c \in Sights : <<Sight(trade), m, c>> \in SightStep /\ Makes(Sights, SightStep, c, Tail(inbox), f)
    BY <1>2, <2>1, MakesFirst
  <2>3. c = Sight(trade')
    BY <1>4, <2>2 DEF SightStep
  <2>4. TradeTold(f)'
    BY <1>1, <1>2, <2>1 DEF TradeTold, Pending
  <2> QED BY <1>2, <2>2, <2>3, <2>4 DEF TradeFollows
<1>6. GoodsFollow'
  <2>1. PICK n \in Counts : Makes(Counts, CountStep, trade.items, inbox, n) /\ n <= window.items
    BY <1>2 DEF GoodsFollow
  <2>2. PICK c \in Counts : <<trade.items, m, c>> \in CountStep /\ Makes(Counts, CountStep, c, Tail(inbox), n)
    BY <1>2, <2>1, MakesFirst
  <2>3. c = trade'.items
    BY <1>4, <2>2 DEF CountStep
  <2> QED BY <1>1, <1>2, <2>1, <2>2, <2>3 DEF GoodsFollow
<1> QED BY <1>1, <1>2, <1>3, <1>4, <1>5, <1>6 DEF TradeOK, TradeKinds

(* A command that changes nothing the bot sees.                             *)
LEMMA OnlyAskedKeeps ==
    ASSUME TradeOK, NEW r \in TradeAsk, SendPackets(<<r>>), UNCHANGED window, trade' \in Deals,
           Sight(trade') = Sight(trade), trade'.items = trade.items
    PROVE  TradeOK'
<1>1. TradeKinds /\ window \in Windows /\ Idle
  BY DEF TradeOK, TradeKinds, Idle
<1>2. /\ online /\ online' = online /\ inbox' = inbox /\ outbox' \in Seq(TradeAsk)
      /\ \A act : Pending(act) => Pending(act)'
  BY <1>1, AskedMore
<1>3. ASSUME NEW f \in Sights, TradeTold(f) PROVE TradeTold(f)'
  BY <1>2, <1>3 DEF TradeTold
<1>4. window.items <= window'.items /\ Idle' /\ window' \in Windows
  BY <1>1 DEF Windows, Idle
<1> QED BY <1>2, <1>3, <1>4, NothingSaidKeeps

LEMMA ConfirmKeeps == ASSUME TradeOK, Confirm PROVE TradeOK'
<1> DEFINE r == [act |-> "confirm"]
           G == [f \in Sights |-> IF f.open THEN View(f.items, f.meso, f.theirs, TRUE) ELSE f]
<1>1. /\ trade.active /\ SendPackets(<<r>>) /\ UNCHANGED window /\ trade' = [trade EXCEPT !.locked = TRUE]
      /\ TradeKinds /\ trade \in Deals /\ inbox \in Seq(TradeNews)
  BY DEF Confirm, Sends, TradeOK, TradeKinds
<1>2. r \in TradeAsk /\ r.act = "confirm"
  BY DEF TradeAsk
<1> HIDE DEF r
<1>3. /\ online /\ online' = online /\ inbox' = inbox /\ outbox' \in Seq(TradeAsk)
      /\ Pending("confirm")' /\ \A act : Pending(act) => Pending(act)'
  BY <1>1, <1>2, AskedMore
<1>4. /\ trade' \in Deals /\ trade'.active /\ trade'.items = trade.items
      /\ trade'.meso = trade.meso /\ trade'.partnerLocked = trade.partnerLocked /\ trade'.locked = TRUE
  BY <1>1 DEF Deals
<1>5. TradeFollows /\ GoodsFollow
  BY <1>3 DEF TradeOK
<1>6. ASSUME NEW f \in Sights PROVE G[f] \in Sights /\ (IF f.open THEN View(f.items, f.meso, f.theirs, TRUE) ELSE f) \in Sights
  <2>1. f.items \in Int /\ f.meso \in BOOLEAN /\ f.theirs \in BOOLEAN /\ TRUE \in BOOLEAN
    BY DEF Sights
  <2> QED BY <2>1, ViewIsOne
<1>7. G \in [Sights -> Sights] /\ \A f \in Sights : G[f] = IF f.open THEN View(f.items, f.meso, f.theirs, TRUE) ELSE f
  BY <1>6
<1> HIDE DEF G
<1>8. ASSUME NEW x \in Sights, NEW y \in Sights, NEW m \in TradeNews, <<x, m, y>> \in SightStep
      PROVE  <<G[x], m, y>> \in SightStep \/ <<G[x], m, G[y]>> \in SightStep
  <2>1. y = Seen(x, m) /\ G[x] \in Sights /\ G[y] \in Sights
    BY <1>7, <1>8 DEF SightStep
  <2>2. Seen(G[x], m) = y \/ Seen(G[x], m) = G[y]
    <3>1. CASE m.act \in {"START", "MESSAGE"}
      BY <2>1, <3>1 DEF Seen
    <3>2. CASE m.act \notin {"START", "MESSAGE"} /\ ~x.open
      BY <1>7, <2>1, <3>2 DEF Seen
    <3>3. CASE m.act \notin {"START", "MESSAGE"} /\ x.open
      <4>1. G[x] = View(x.items, x.meso, x.theirs, TRUE)
        BY <1>7, <3>3
      <4>6. /\ G[x].open = TRUE /\ G[x].items = x.items /\ G[x].meso = x.meso
             /\ G[x].theirs = x.theirs /\ G[x].locked = TRUE
        BY <4>1 DEF View
      <4>2. CASE m.act = "ITEM_ADD" /\ m.number = 1
        <5>1. y = View(x.items + 1, x.meso, x.theirs, x.locked) /\ Seen(G[x], m) = View(x.items + 1, x.meso, x.theirs, TRUE)
          BY <2>1, <3>3, <4>6, <4>2 DEF Seen
        <5>2. y.open = TRUE /\ y.items = x.items + 1 /\ y.meso = x.meso /\ y.theirs = x.theirs
          BY <5>1 DEF View
        <5>3. G[y] = View(y.items, y.meso, y.theirs, TRUE)
          BY <1>7, <5>2
        <5> QED BY <5>1, <5>2, <5>3
      <4>3. CASE m.act = "MESO_SET" /\ m.number = 1
        <5>1. y = View(x.items, TRUE, x.theirs, x.locked) /\ Seen(G[x], m) = View(x.items, TRUE, x.theirs, TRUE)
          BY <2>1, <3>3, <4>6, <4>3 DEF Seen
        <5>2. y.open = TRUE /\ y.items = x.items /\ y.meso = TRUE /\ y.theirs = x.theirs
          BY <5>1 DEF View
        <5>3. G[y] = View(y.items, y.meso, y.theirs, TRUE)
          BY <1>7, <5>2
        <5> QED BY <5>1, <5>2, <5>3
      <4>4. CASE m.act = "CONFIRM"
        <5>1. y = View(x.items, x.meso, TRUE, x.locked) /\ Seen(G[x], m) = View(x.items, x.meso, TRUE, TRUE)
          BY <2>1, <3>3, <4>6, <4>4 DEF Seen
        <5>2. y.open = TRUE /\ y.items = x.items /\ y.meso = x.meso /\ y.theirs = TRUE
          BY <5>1 DEF View
        <5>3. G[y] = View(y.items, y.meso, y.theirs, TRUE)
          BY <1>7, <5>2
        <5> QED BY <5>1, <5>2, <5>3
      <4>5. CASE ~(m.act = "ITEM_ADD" /\ m.number = 1) /\ ~(m.act = "MESO_SET" /\ m.number = 1)
                 /\ m.act # "CONFIRM"
        BY <1>7, <2>1, <3>3, <4>1, <4>5 DEF Seen, View
      <4> QED BY <4>2, <4>3, <4>4, <4>5
    <3> QED BY <3>1, <3>2, <3>3
  <2> QED BY <2>1, <2>2 DEF SightStep
<1>9. TradeFollows'
  <2>1. PICK f \in Sights : Makes(Sights, SightStep, Sight(trade), inbox, f) /\ TradeTold(f)
    BY <1>5 DEF TradeFollows
  <2>2. \/ Makes(Sights, SightStep, G[Sight(trade)], inbox, f)
        \/ Makes(Sights, SightStep, G[Sight(trade)], inbox, G[f])
    BY <1>1, <1>7, <1>8, <2>1, MakesOtherwise
  <2>3. G[Sight(trade)] = Sight(trade')
    <3>1. Sight(trade) = View(trade.items, trade.meso, trade.partnerLocked, trade.locked)
          /\ Sight(trade') = View(trade.items, trade.meso, trade.partnerLocked, TRUE)
          /\ Sight(trade) \in Sights
      BY <1>1, <1>4, SightIsOne DEF Sight
    <3>2. /\ Sight(trade).open = TRUE /\ Sight(trade).items = trade.items
          /\ Sight(trade).meso = trade.meso /\ Sight(trade).theirs = trade.partnerLocked
      BY <3>1 DEF View
    <3>3. G[Sight(trade)] = View(Sight(trade).items, Sight(trade).meso, Sight(trade).theirs, TRUE)
      BY <1>7, <3>1, <3>2
    <3> QED BY <3>1, <3>2, <3>3
  <2>4. TradeTold(f)'
    BY <1>1, <1>3, <2>1 DEF TradeTold
  <2>5. TradeTold(G[f])'
    BY <1>1, <1>3, <1>7, <2>1 DEF TradeTold, View
  <2> QED BY <1>3, <1>7, <2>2, <2>3, <2>4, <2>5 DEF TradeFollows
<1>10. GoodsFollow'
  BY <1>1, <1>3, <1>4, <1>5 DEF GoodsFollow
<1> QED BY <1>1, <1>3, <1>4, <1>9, <1>10 DEF TradeOK, TradeKinds

LEMMA QuitKeeps == ASSUME TradeOK, Quit PROVE TradeOK'
<1> DEFINE r == [act |-> "quit"]
           G == [f \in Sights |-> Shut]
           D == [n \in Counts |-> n - trade.items]
<1>1. /\ SendPackets(<<r>>) /\ UNCHANGED window /\ trade' = [Closed EXCEPT !.partner = trade.partner]
      /\ TradeKinds /\ trade \in Deals /\ inbox \in Seq(TradeNews) /\ window \in Windows
  BY DEF Quit, Sends, TradeOK, TradeKinds
<1>2. r \in TradeAsk /\ r.act = "quit"
  BY DEF TradeAsk
<1> HIDE DEF r
<1>3. /\ online /\ online' = online /\ inbox' = inbox /\ outbox' \in Seq(TradeAsk)
      /\ Pending("quit")' /\ \A act : Pending(act) => Pending(act)'
  BY <1>1, <1>2, AskedMore
<1>4. trade' \in Deals /\ Sight(trade') = Shut /\ trade'.items = 0
  BY <1>1 DEF Deals, Closed, Sight
<1>5. TradeFollows /\ GoodsFollow
  BY <1>3 DEF TradeOK
<1>6. G \in [Sights -> Sights] /\ (\A f \in Sights : G[f] = Shut) /\ Sight(trade) \in Sights
  BY <1>1, ShutIsOne, SightIsOne
<1>7. trade.items \in Nat
  BY <1>1 DEF Deals
<1>8. D \in [Counts -> Counts] /\ \A n \in Counts : D[n] = n - trade.items
  BY <1>7, TradeAssumption DEF Counts
<1> HIDE DEF G, D
<1>9. TradeFollows'
  <2>1. PICK f \in Sights : Makes(Sights, SightStep, Sight(trade), inbox, f) /\ TradeTold(f)
    BY <1>5 DEF TradeFollows
  <2>2. ASSUME NEW x \in Sights, NEW y \in Sights, NEW m \in TradeNews, <<x, m, y>> \in SightStep
        PROVE  <<G[x], m, y>> \in SightStep \/ <<G[x], m, G[y]>> \in SightStep
    <3>1. y = Seen(x, m) /\ G[x] = Shut /\ G[y] = Shut
      BY <1>6, <2>2 DEF SightStep
    <3>2. Seen(Shut, m) = y \/ Seen(Shut, m) = Shut
      <4>1. Shut.open = FALSE
        BY DEF Shut
      <4> QED BY <3>1, <4>1 DEF Seen
    <3> QED BY <3>1, <3>2, ShutIsOne DEF SightStep
  <2>3. \/ Makes(Sights, SightStep, G[Sight(trade)], inbox, f)
        \/ Makes(Sights, SightStep, G[Sight(trade)], inbox, G[f])
    BY <1>1, <1>6, <2>1, <2>2, MakesOtherwise
  <2>4. TradeTold(f)'
    BY <1>1, <1>3, <2>1 DEF TradeTold
  <2>5. TradeTold(Shut)'
    BY <1>3 DEF TradeTold, Shut
  <2> QED BY <1>3, <1>4, <1>6, <2>3, <2>4, <2>5, ShutIsOne DEF TradeFollows
<1>10. GoodsFollow'
  <2>1. PICK n \in Counts : Makes(Counts, CountStep, trade.items, inbox, n) /\ n <= window.items
    BY <1>5 DEF GoodsFollow
  <2>2. ASSUME NEW x \in Counts, NEW y \in Counts, NEW m \in TradeNews, <<x, m, y>> \in CountStep
        PROVE  <<D[x], m, y>> \in CountStep \/ <<D[x], m, D[y]>> \in CountStep
    <3>1. y = Counted(x, m) /\ D[x] = x - trade.items /\ D[y] = y - trade.items
          /\ D[x] \in Counts /\ D[y] \in Counts
      BY <1>8, <2>2 DEF CountStep
    <3>2. Counted(D[x], m) = y \/ Counted(D[x], m) = D[y]
      BY <1>7, <3>1 DEF Counted, Counts
    <3> QED BY <3>1, <3>2 DEF CountStep
  <2>3. \/ Makes(Counts, CountStep, D[trade.items], inbox, n)
        \/ Makes(Counts, CountStep, D[trade.items], inbox, D[n])
    BY <1>1, <1>8, <2>1, <2>2, MakesOtherwise
  <2>4. D[trade.items] = 0
    <3>1. trade.items \in Counts
      BY <1>1, <2>1, MakesOfOne
    <3> QED BY <1>7, <1>8, <3>1
  <2>5. D[n] \in Counts /\ D[n] <= window.items
    <3>1. n \in Int /\ window.items \in Int /\ D[n] = n - trade.items
      BY <1>1, <1>8 DEF Counts, Windows
    <3> QED BY <1>7, <1>8, <2>1, <3>1
  <2> QED BY <1>1, <1>3, <1>4, <2>1, <2>3, <2>4, <2>5 DEF GoodsFollow
<1> QED BY <1>1, <1>3, <1>4, <1>9, <1>10 DEF TradeOK, TradeKinds

LEMMA AcceptKeeps == ASSUME TradeOK, Accept PROVE TradeOK'
<1>1. CASE /\ ~trade.active /\ Sends("accept") /\ trade' = [trade EXCEPT !.invite = Nobody]
  <2>1. [act |-> "accept"] \in TradeAsk /\ trade \in Deals
    BY DEF TradeAsk, TradeOK, TradeKinds
  <2>2. trade' \in Deals /\ Sight(trade') = Sight(trade) /\ trade'.items = trade.items
    BY <1>1, <2>1 DEF Deals, Sight
  <2> QED BY <1>1, <2>1, <2>2, OnlyAskedKeeps DEF Sends
<1> QED BY <1>1, ConfirmKeeps DEF Accept

LEMMA DeclineKeeps == ASSUME TradeOK, Decline PROVE TradeOK'
<1>1. [act |-> "decline"] \in TradeAsk /\ trade \in Deals /\ trade' = [trade EXCEPT !.invite = Nobody]
      /\ Sends("decline")
  BY DEF TradeAsk, TradeOK, TradeKinds, Decline
<1>2. trade' \in Deals /\ Sight(trade') = Sight(trade) /\ trade'.items = trade.items
  BY <1>1 DEF Deals, Sight
<1> QED BY <1>1, <1>2, OnlyAskedKeeps DEF Sends

LEMMA PutKeeps == ASSUME TradeOK, Put PROVE TradeOK'
<1>1. PICK goods \in {"put", "meso"} : Sends(goods)
  BY DEF Put
<1>2. [act |-> goods] \in TradeAsk /\ trade \in Deals /\ trade' = trade
  BY DEF TradeAsk, TradeOK, TradeKinds, Put
<1> QED BY <1>1, <1>2, OnlyAskedKeeps DEF Sends

LEMMA InviteKeeps == ASSUME TradeOK, NEW p \in Traders, Invite(p) PROVE TradeOK'
<1> DEFINE both == <<[act |-> "create"], [act |-> "invite", name |-> p]>>
<1>1. both \in Seq(TradeAsk)
  BY DEF TradeAsk
<1>2. /\ online /\ online' = online /\ inbox' = inbox /\ outbox' = outbox \o both
      /\ UNCHANGED <<trade, window>> /\ TradeKinds
  BY DEF Invite, SendPackets, TradeOK
<1> HIDE DEF both
<1>3. /\ outbox \in Seq(TradeAsk) /\ trade \in Deals /\ window \in Windows /\ Idle
  BY <1>2 DEF TradeKinds, Idle
<1>4. /\ outbox' \in Seq(TradeAsk) /\ Len(outbox) \in Nat /\ Len(both) \in Nat
      /\ Len(outbox') = Len(outbox) + Len(both)
      /\ \A i \in 1..Len(outbox) : outbox'[i] = outbox[i]
  BY <1>1, <1>2, <1>3, ConcatProperties, LenProperties
<1>5. \A act : Pending(act) => Pending(act)'
  BY <1>4 DEF Pending
<1>6. ASSUME NEW f \in Sights, TradeTold(f) PROVE TradeTold(f)'
  BY <1>2, <1>5, <1>6 DEF TradeTold
<1>7. window.items <= window'.items /\ Idle' /\ window' \in Windows /\ trade' = trade /\ trade' \in Deals
  BY <1>2, <1>3 DEF Windows, Idle
<1> QED BY <1>2, <1>4, <1>6, <1>7, NothingSaidKeeps

(* What the server says to a request or of itself.                          *)
LEMMA ServerReadsKeeps == ASSUME TradeOK, ServerReads PROVE TradeOK'
<1>1. PICK r \in First(outbox) :
        /\ UNCHANGED trade
        /\ \/ ~Accepted(r) /\ Answer(r, <<>>) /\ UNCHANGED window
           \/ /\ Accepted(r)
              /\ \/ /\ r.act = "create" /\ Opened("open", Nobody)
                    /\ Answer(r, <<Says("START")>>)
                 \/ /\ r.act = "invite" /\ window' = [window EXCEPT !.with = r.name]
                    /\ Answer(r, <<>>)
                 \/ /\ r.act = "accept" /\ window' = [window EXCEPT !.stage = "joined"]
                    /\ Answer(r, <<Says("START")>>)
                 \/ r.act = "decline" /\ Ends /\ Answer(r, <<>>)
                 \/ r.act = "quit" /\ Ends /\ Answer(r, <<Says("MESSAGE")>>)
                 \/ /\ r.act \in {"put", "meso"} /\ UNCHANGED window
                    /\ Answer(r, <<Says(IF r.act = "put" THEN "ITEM_ADD" ELSE "MESO_SET")>>)
                 \/ /\ r.act = "confirm" /\ ~window.theirs
                    /\ window' = [window EXCEPT !.mine = TRUE] /\ Answer(r, <<>>)
                 \/ /\ r.act = "confirm" /\ window.theirs
                    /\ Ends /\ Answer(r, <<Says("MESSAGE")>>)
  BY DEF ServerReads
<1>2. /\ TradeKinds /\ TradeFollows /\ GoodsFollow /\ online /\ UNCHANGED <<trade, online>>
      /\ outbox' = Tail(outbox) /\ inbox \in Seq(TradeNews) /\ window \in Windows /\ trade \in Deals /\ Idle
  BY <1>1 DEF TradeOK, TradeKinds, Answer, Idle
<1>3. r \in TradeAsk /\ outbox' \in Seq(TradeAsk) /\ \A act : r.act # act /\ Pending(act) => Pending(act)'
  BY <1>2, TradeAskedFirst
<1>4. \A act \in {"START", "PARTNER_ADD", "ITEM_ADD", "MESO_SET", "CONFIRM", "MESSAGE"} :
          Says(act) \in TradeNews
  BY DEF Says, TradeNews
<1>5. ASSUME Answer(r, <<>>), window' \in Windows, Idle', window.items <= window'.items,
             \A f \in Sights : TradeTold(f) => TradeTold(f)'
      PROVE  TradeOK'
  <2>1. inbox' = inbox
    BY <1>2, <1>5, NoMore DEF Answer
  <2>2. Sight(trade') = Sight(trade) /\ trade'.items = trade.items /\ trade' \in Deals
    BY <1>2
  <2> QED BY <1>2, <1>3, <1>5, <2>1, <2>2, NothingSaidKeeps
<1>6. CASE ~Accepted(r) /\ Answer(r, <<>>) /\ UNCHANGED window
  <2>1. window' \in Windows /\ Idle' /\ window.items <= window'.items
    BY <1>2, <1>6 DEF Windows, Idle
  <2>2. ASSUME NEW f \in Sights, TradeTold(f) PROVE TradeTold(f)'
    <3>1. window.stage \in {"open", "joined"} => r.act # "quit" /\ r.act # "confirm"
      BY <1>2, <1>6 DEF Accepted, Windows
    <3> QED BY <1>3, <1>6, <2>2, <3>1 DEF TradeTold
  <2> QED BY <1>5, <1>6, <2>1, <2>2
<1>7. CASE r.act = "create" /\ Opened("open", Nobody) /\ Answer(r, <<Says("START")>>)
  <2> DEFINE m == Says("START")
  <2>1. m \in TradeNews /\ inbox' = inbox \o <<m>> /\ m.act = "START"
    BY <1>4, <1>7 DEF Answer, Says
  <2>2. window' = [Fresh(window.count + 1) EXCEPT !.stage = "open", !.with = Nobody]
        /\ window.count + 1 \in 0..MaxWindows /\ 0 \in 0..MaxGoods
    BY <1>2, <1>7, TradeAssumption DEF Opened, Windows
  <2>3. window' = [stage |-> "open", with |-> Nobody, items |-> 0, meso |-> FALSE,
                   mine |-> FALSE, theirs |-> FALSE, count |-> window.count + 1]
    BY <2>2 DEF Fresh
  <2>4. window' \in Windows /\ Idle'
    <3>1. window' \in Windows
      <4>1. PICK k \in 0..MaxWindows : k = window.count + 1
        BY <2>2
      <4>2. window' = [stage |-> "open", with |-> Nobody, items |-> 0, meso |-> FALSE,
                       mine |-> FALSE, theirs |-> FALSE, count |-> k]
        BY <2>3, <4>1
      <4>3. FALSE \in BOOLEAN /\ 0 \in 0..MaxGoods
        BY <2>2
      <4> QED BY <4>2, <4>3 DEF Windows
    <3> QED BY <2>3, <3>1 DEF Idle
  <2> HIDE DEF m
  <2>5. ASSUME NEW f \in Sights PROVE TradeTold(Seen(f, m))'
    <3>1. Seen(f, m) = View(0, FALSE, FALSE, FALSE)
      BY <2>1 DEF Seen
    <3>2. TradeTold(View(0, FALSE, FALSE, FALSE))'
      BY <2>3 DEF TradeTold, View
    <3> QED BY <3>1, <3>2
  <2>6. \A n \in Int : n <= window.items => Counted(n, m) <= window'.items
    BY <2>1, <2>3 DEF Counted
  <2> QED BY <1>2, <1>3, <2>1, <2>4, <2>5, <2>6, TradeNewsKeeps
<1>8. CASE /\ Accepted(r) /\ r.act = "invite" /\ window' = [window EXCEPT !.with = r.name] /\ Answer(r, <<>>)
  <2>1. r.name \in Traders
    BY <1>3, <1>8 DEF TradeAsk
  <2>2. window' \in Windows /\ Idle' /\ window.items <= window'.items
    BY <1>2, <1>8, <2>1 DEF Windows, Idle
  <2>3. ASSUME NEW f \in Sights, TradeTold(f) PROVE TradeTold(f)'
    BY <1>2, <1>3, <1>8, <2>3 DEF TradeTold, Windows
  <2> QED BY <1>5, <1>8, <2>2, <2>3
<1>9. CASE /\ Accepted(r) /\ r.act = "accept" /\ window' = [window EXCEPT !.stage = "joined"]
           /\ Answer(r, <<Says("START")>>)
  <2> DEFINE m == Says("START")
  <2>1. m \in TradeNews /\ inbox' = inbox \o <<m>> /\ m.act = "START"
    BY <1>4, <1>9 DEF Answer, Says
  <2>2. window.stage = "invited"
    BY <1>9 DEF Accepted
  <2>3. /\ window' \in Windows /\ window'.stage = "joined" /\ window'.items = 0
        /\ window'.meso = window.meso /\ window'.theirs = window.theirs
        /\ window.items = 0 /\ window.meso = FALSE /\ window.theirs = FALSE
    BY <1>2, <1>9, <2>2 DEF Windows, Idle
  <2>4. Idle'
    BY <2>3 DEF Idle
  <2> HIDE DEF m
  <2>5. ASSUME NEW f \in Sights PROVE TradeTold(Seen(f, m))'
    <3>1. Seen(f, m) = View(0, FALSE, FALSE, FALSE)
      BY <2>1 DEF Seen
    <3>2. TradeTold(View(0, FALSE, FALSE, FALSE))'
      BY <2>3 DEF TradeTold, View
    <3> QED BY <3>1, <3>2
  <2>6. \A n \in Int : n <= window.items => Counted(n, m) <= window'.items
    BY <2>1, <2>3 DEF Counted
  <2> QED BY <1>2, <1>3, <2>1, <2>3, <2>4, <2>5, <2>6, TradeNewsKeeps
<1>10. CASE Accepted(r) /\ r.act = "decline" /\ Ends /\ Answer(r, <<>>)
  <2>1. window.stage = "invited"
    BY <1>10 DEF Accepted
  <2>2. window' \in Windows /\ Idle' /\ window'.stage = "none" /\ window'.items = 0 /\ window.items = 0
    BY <1>2, <1>10, <2>1, TradeEnds DEF Idle
  <2>3. ASSUME NEW f \in Sights, TradeTold(f) PROVE TradeTold(f)'
    BY <2>1, <2>2, <2>3 DEF TradeTold
  <2> QED BY <1>5, <1>10, <2>2, <2>3
<1>11. CASE Ends /\ Answer(r, <<Says("MESSAGE")>>)
  <2> DEFINE m == Says("MESSAGE")
  <2>1. m \in TradeNews /\ inbox' = inbox \o <<m>> /\ m.act = "MESSAGE"
    BY <1>4, <1>11 DEF Answer, Says
  <2> HIDE DEF m
  <2> QED BY <1>2, <1>3, <1>11, <2>1, TradeOverKeeps
<1>12. CASE /\ r.act \in {"put", "meso"} /\ UNCHANGED window
            /\ Answer(r, <<Says(IF r.act = "put" THEN "ITEM_ADD" ELSE "MESO_SET")>>)
  <2> DEFINE m == Says(IF r.act = "put" THEN "ITEM_ADD" ELSE "MESO_SET")
  <2>1. m \in TradeNews /\ inbox' = inbox \o <<m>> /\ m.act \in {"ITEM_ADD", "MESO_SET"} /\ m.number = 0
    BY <1>4, <1>12 DEF Answer, Says
  <2> HIDE DEF m
  <2>2. PICK k \in TradeNews : k = m
    BY <2>1
  <2>3. ASSUME NEW f \in Sights PROVE Seen(f, k) = f
    <3>1. k.act \in {"ITEM_ADD", "MESO_SET"} /\ k.number # 1
      BY <2>1, <2>2
    <3> QED BY <3>1 DEF Seen
  <2>4. \A f \in Sights : TradeTold(f) => TradeTold(f)'
    BY <1>3, <1>12 DEF TradeTold
  <2>5. \A f \in Sights : TradeTold(f) => TradeTold(Seen(f, k))'
    BY <2>3, <2>4
  <2>6. \A n \in Int : n <= window.items => Counted(n, k) <= window'.items
    BY <1>12, <2>1, <2>2 DEF Counted
  <2>7. window' \in Windows /\ Idle'
    BY <1>2, <1>12 DEF Idle
  <2> QED BY <1>2, <1>3, <2>1, <2>2, <2>5, <2>6, <2>7, TradeNewsKeeps
<1>13. CASE /\ Accepted(r) /\ r.act = "confirm" /\ window' = [window EXCEPT !.mine = TRUE]
            /\ Answer(r, <<>>)
  <2>1. window.stage \in {"open", "joined"}
    BY <1>13 DEF Accepted
  <2>2. window' \in Windows /\ Idle' /\ window.items <= window'.items
    <3>1. window' \in Windows
      BY <1>2, <1>13 DEF Windows
    <3>2. window'.stage = window.stage /\ window'.items = window.items
      BY <1>2, <1>13 DEF Windows
    <3>3. window.items \in Nat
      BY <1>2 DEF Windows
    <3> QED BY <2>1, <3>1, <3>2, <3>3 DEF Idle
  <2>3. ASSUME NEW f \in Sights, TradeTold(f) PROVE TradeTold(f)'
    BY <1>2, <1>3, <1>13, <2>3 DEF TradeTold, Windows
  <2> QED BY <1>5, <1>13, <2>2, <2>3
<1> QED BY <1>1, <1>6, <1>7, <1>8, <1>9, <1>10, <1>11, <1>12, <1>13

LEMMA TraderActsKeeps == ASSUME TradeOK, TraderActs PROVE TradeOK'
<1>1. /\ TradeKinds /\ UNCHANGED trade /\ inbox \in Seq(TradeNews) /\ outbox \in Seq(TradeAsk)
      /\ window \in Windows /\ trade \in Deals /\ Idle
  BY DEF TradeOK, TradeKinds, TraderActs, Idle
<1>2. \A act \in {"START", "PARTNER_ADD", "ITEM_ADD", "MESO_SET", "CONFIRM", "MESSAGE"} :
          Says(act) \in TradeNews /\ Theirs(act) \in TradeNews
  BY DEF Says, Theirs, TradeNews
<1>3. ASSUME NEW m \in TradeNews, Tell(<<m>>), window' \in Windows, Idle',
             \A f \in Sights : TradeTold(f) => TradeTold(Seen(f, m))',
             \A n \in Int : n <= window.items => Counted(n, m) <= window'.items
      PROVE  TradeOK'
  <2>1. /\ online /\ online' = online /\ inbox' = inbox \o <<m>> /\ outbox' \in Seq(TradeAsk)
        /\ TradeFollows /\ GoodsFollow
    BY <1>1, <1>3 DEF Tell, TradeOK
  <2> QED BY <1>1, <1>3, <2>1, TradeNewsKeeps
<1>4. ASSUME NEW m \in TradeNews, m.act = "MESSAGE", Tell(<<m>>), Ends PROVE TradeOK'
  <2>1. /\ online /\ online' = online /\ inbox' = inbox \o <<m>> /\ outbox' \in Seq(TradeAsk)
        /\ TradeFollows /\ GoodsFollow
    BY <1>1, <1>4 DEF Tell, TradeOK
  <2> QED BY <1>1, <1>4, <2>1, TradeOverKeeps
(* An invitation.                                                           *)
<1>5. ASSUME NEW p \in Traders, window.stage = "none", Opened("invited", p),
             Tell(<<[act |-> "INVITE", name |-> p]>>)
      PROVE  TradeOK'
  <2> DEFINE m == [act |-> "INVITE", name |-> p]
  <2>1. m \in TradeNews /\ m.act = "INVITE" /\ Tell(<<m>>)
    BY <1>5 DEF TradeNews
  <2> HIDE DEF m
  <2>2. PICK k \in 0..MaxWindows : k = window.count + 1 /\ window' = [Fresh(k) EXCEPT !.stage = "invited", !.with = p]
    <3>1. window.count + 1 \in 0..MaxWindows
      BY <1>1, <1>5, TradeAssumption DEF Opened, Windows
    <3> QED BY <1>5, <3>1 DEF Opened
  <2>3. window' = [stage |-> "invited", with |-> p, items |-> 0, meso |-> FALSE,
                   mine |-> FALSE, theirs |-> FALSE, count |-> k]
    BY <2>2 DEF Fresh
  <2>4. 0 \in 0..MaxGoods /\ FALSE \in BOOLEAN
    BY TradeAssumption
  <2>5. window' \in Windows
    BY <2>3, <2>4 DEF Windows
  <2>6. Idle' /\ window.items = 0
    BY <1>1, <1>5, <2>3 DEF Idle
  <2>7. ASSUME NEW f \in Sights, TradeTold(f) PROVE TradeTold(Seen(f, m))'
    <3>1. Seen(f, m) = f
      BY <2>1 DEF Seen
    <3>2. TradeTold(f)'
      BY <1>5, <2>3, <2>7 DEF TradeTold
    <3> QED BY <3>1, <3>2
  <2>8. \A n \in Int : n <= window.items => Counted(n, m) <= window'.items
    BY <2>1, <2>3, <2>6 DEF Counted
  <2> QED BY <1>3, <2>1, <2>5, <2>6, <2>7, <2>8
(* The other player comes, puts something up, confirms or leaves.           *)
<1>6. CASE /\ window.stage = "open" /\ window.with # Nobody
           /\ window' = [window EXCEPT !.stage = "joined"] /\ Tell(<<Says("PARTNER_ADD")>>)
  <2>1. PICK m \in TradeNews : m = Says("PARTNER_ADD")
    BY <1>2
  <2>2. window' \in Windows
    BY <1>1, <1>6 DEF Windows
  <2>3. window'.stage = "joined" /\ window'.items = window.items /\ window'.meso = window.meso
        /\ window'.theirs = window.theirs /\ window'.mine = window.mine
    BY <1>1, <1>6 DEF Windows
  <2>4. ASSUME NEW f \in Sights, TradeTold(f) PROVE TradeTold(Seen(f, m))'
    <3>1. Seen(f, m) = f
      BY <2>1 DEF Seen, Says
    <3>2. TradeTold(f)'
      BY <1>6, <2>3, <2>4 DEF TradeTold, Tell, Pending
    <3> QED BY <3>1, <3>2
  <2>5. \A n \in Int : n <= window.items => Counted(n, m) <= window'.items
    BY <2>1, <2>3 DEF Counted, Says
  <2> QED BY <1>3, <1>6, <2>1, <2>2, <2>3, <2>4, <2>5 DEF Idle
<1>7. CASE /\ window.stage = "joined" /\ window.items < MaxGoods
           /\ window' = [window EXCEPT !.items = @ + 1] /\ Tell(<<Theirs("ITEM_ADD")>>)
  <2>1. PICK m \in TradeNews : m = Theirs("ITEM_ADD")
    BY <1>2
  <2>2. PICK k \in 0..MaxGoods : k = window.items + 1 /\ window' = [window EXCEPT !.items = k]
    <3>1. window.items + 1 \in 0..MaxGoods
      BY <1>1, <1>7, TradeAssumption DEF Windows
    <3> QED BY <1>7, <3>1
  <2>3. window' \in Windows
    BY <1>1, <2>2 DEF Windows
  <2>4. window'.stage = "joined" /\ window'.items = window.items + 1 /\ window'.meso = window.meso
        /\ window'.theirs = window.theirs /\ window'.mine = window.mine /\ window.items \in Int
    BY <1>1, <1>7, <2>2 DEF Windows
  <2>5. ASSUME NEW f \in Sights, TradeTold(f) PROVE TradeTold(Seen(f, m))'
    <3>1. Seen(f, m) = IF f.open THEN View(f.items + 1, f.meso, f.theirs, f.locked) ELSE f
      BY <2>1 DEF Seen, Theirs
    <3>2. CASE f.open
      <4>1. f.items = window.items /\ f.meso = window.meso /\ f.theirs = window.theirs
            /\ (f.locked => window.mine \/ Pending("confirm"))
        BY <2>5, <3>2 DEF TradeTold
      <4>2. TradeTold(View(f.items + 1, f.meso, f.theirs, f.locked))'
        BY <1>7, <2>4, <4>1 DEF TradeTold, View, Tell, Pending
      <4> QED BY <3>1, <3>2, <4>2
    <3>3. CASE ~f.open
      <4>1. TradeTold(f)'
        BY <1>7, <2>4, <2>5, <3>3 DEF TradeTold, Tell, Pending
      <4> QED BY <3>1, <3>3, <4>1
    <3> QED BY <3>2, <3>3
  <2>6. \A n \in Int : n <= window.items => Counted(n, m) <= window'.items
    BY <2>1, <2>4 DEF Counted, Theirs
  <2> QED BY <1>3, <1>7, <2>1, <2>3, <2>4, <2>5, <2>6 DEF Idle
<1>8. CASE /\ window.stage = "joined" /\ window' = [window EXCEPT !.meso = TRUE]
           /\ Tell(<<Theirs("MESO_SET")>>)
  <2>1. PICK m \in TradeNews : m = Theirs("MESO_SET")
    BY <1>2
  <2>2. window' \in Windows
    BY <1>1, <1>8 DEF Windows
  <2>3. window'.stage = "joined" /\ window'.items = window.items /\ window'.meso = TRUE
        /\ window'.theirs = window.theirs /\ window'.mine = window.mine
    BY <1>1, <1>8 DEF Windows
  <2>4. ASSUME NEW f \in Sights, TradeTold(f) PROVE TradeTold(Seen(f, m))'
    <3>1. Seen(f, m) = IF f.open THEN View(f.items, TRUE, f.theirs, f.locked) ELSE f
      BY <2>1 DEF Seen, Theirs
    <3>2. CASE f.open
      <4>1. f.items = window.items /\ f.theirs = window.theirs
            /\ (f.locked => window.mine \/ Pending("confirm"))
        BY <2>4, <3>2 DEF TradeTold
      <4>2. TradeTold(View(f.items, TRUE, f.theirs, f.locked))'
        BY <1>8, <2>3, <4>1 DEF TradeTold, View, Tell, Pending
      <4> QED BY <3>1, <3>2, <4>2
    <3>3. CASE ~f.open
      <4>1. TradeTold(f)'
        BY <1>8, <2>3, <2>4, <3>3 DEF TradeTold, Tell, Pending
      <4> QED BY <3>1, <3>3, <4>1
    <3> QED BY <3>2, <3>3
  <2>5. \A n \in Int : n <= window.items => Counted(n, m) <= window'.items
    BY <2>1, <2>3 DEF Counted, Theirs
  <2> QED BY <1>3, <1>8, <2>1, <2>2, <2>3, <2>4, <2>5 DEF Idle
<1>9. CASE /\ window.stage = "joined" /\ window' = [window EXCEPT !.theirs = TRUE]
           /\ Tell(<<Says("CONFIRM")>>)
  <2>1. PICK m \in TradeNews : m = Says("CONFIRM")
    BY <1>2
  <2>2. window' \in Windows
    BY <1>1, <1>9 DEF Windows
  <2>3. window'.stage = "joined" /\ window'.items = window.items /\ window'.theirs = TRUE
        /\ window'.meso = window.meso /\ window'.mine = window.mine
    BY <1>1, <1>9 DEF Windows
  <2>4. ASSUME NEW f \in Sights, TradeTold(f) PROVE TradeTold(Seen(f, m))'
    <3>1. Seen(f, m) = IF f.open THEN View(f.items, f.meso, TRUE, f.locked) ELSE f
      BY <2>1 DEF Seen, Says
    <3>2. CASE f.open
      <4>1. f.items = window.items /\ f.meso = window.meso
            /\ (f.locked => window.mine \/ Pending("confirm"))
        BY <2>4, <3>2 DEF TradeTold
      <4>2. TradeTold(View(f.items, f.meso, TRUE, f.locked))'
        BY <1>9, <2>3, <4>1 DEF TradeTold, View, Tell, Pending
      <4> QED BY <3>1, <3>2, <4>2
    <3>3. CASE ~f.open
      <4>1. TradeTold(f)'
        BY <1>9, <2>3, <2>4, <3>3 DEF TradeTold, Tell, Pending
      <4> QED BY <3>1, <3>3, <4>1
    <3> QED BY <3>2, <3>3
  <2>5. \A n \in Int : n <= window.items => Counted(n, m) <= window'.items
    BY <2>1, <2>3 DEF Counted, Says
  <2> QED BY <1>3, <1>9, <2>1, <2>2, <2>3, <2>4, <2>5 DEF Idle

(* Confirmed by both: the last confirmation, and the end.                   *)
<1>10. CASE Ends /\ Tell(<<Says("CONFIRM"), Says("MESSAGE")>>)
  <2>1. PICK m \in TradeNews, k \in TradeNews : m = Says("CONFIRM") /\ k = Says("MESSAGE")
    BY <1>2
  <2>2. m.act = "CONFIRM" /\ k.act = "MESSAGE"
    BY <2>1 DEF Says
  <2>3. /\ online /\ online' = online /\ inbox' = inbox \o <<m, k>> /\ outbox' = outbox
        /\ TradeFollows /\ GoodsFollow
    BY <1>10, <2>1 DEF Tell, TradeOK
  <2>4. inbox \o <<m, k>> = (inbox \o <<m>>) \o <<k>> /\ inbox \o <<m>> \in Seq(TradeNews)
    <3>1. <<m>> \in Seq(TradeNews) /\ <<k>> \in Seq(TradeNews) /\ <<m>> \o <<k>> = <<m, k>>
      BY OneAndOne
    <3>2. inbox \o (<<m>> \o <<k>>) = (inbox \o <<m>>) \o <<k>>
      BY <1>1, <3>1, ConcatAssociative
    <3> QED BY <1>1, <3>1, <3>2, OneMore
  <2>5. window' \in Windows /\ window'.stage = "none" /\ window'.items = 0 /\ Idle'
    BY <1>1, <1>10, TradeEnds
  <2>6. TradeFollows'
    <3>1. PICK f \in Sights : Makes(Sights, SightStep, Sight(trade), inbox, f)
      BY <2>3 DEF TradeFollows
    <3>2. Seen(f, m) \in Sights /\ Makes(Sights, SightStep, Sight(trade), inbox \o <<m>>, Seen(f, m))
      BY <1>1, <3>1, OneMoreSeen
    <3>3. Makes(Sights, SightStep, Sight(trade), (inbox \o <<m>>) \o <<k>>, Shut)
      <4>1. Seen(Seen(f, m), k) = Shut
        BY <2>2 DEF Seen
      <4> QED BY <2>4, <3>2, <4>1, OneMoreSeen
    <3>4. TradeTold(Shut)'
      BY <2>5 DEF TradeTold, Shut
    <3> QED BY <1>1, <2>3, <2>4, <3>3, <3>4, ShutIsOne DEF TradeFollows
  <2>7. GoodsFollow'
    <3>1. PICK n \in Counts : Makes(Counts, CountStep, trade.items, inbox, n)
      BY <2>3 DEF GoodsFollow
    <3>2. Counted(n, m) = n /\ Counted(n, k) = 0 /\ n <= MaxGoods /\ 0 <= MaxGoods
      BY <2>2, TradeAssumption DEF Counted, Counts
    <3>3. Makes(Counts, CountStep, trade.items, inbox \o <<m>>, n)
      BY <1>1, <3>1, <3>2, OneMoreCounted
    <3>4. 0 \in Counts /\ Makes(Counts, CountStep, trade.items, (inbox \o <<m>>) \o <<k>>, 0)
      BY <2>4, <3>2, <3>3, OneMoreCounted
    <3>5. 0 <= window'.items
      BY <2>5
    <3> QED BY <1>1, <2>3, <2>4, <3>4, <3>5 DEF GoodsFollow
  <2>8. inbox' \in Seq(TradeNews)
    BY <2>3, <2>4, OneMore
  <2> QED BY <1>1, <2>3, <2>5, <2>6, <2>7, <2>8 DEF TradeOK, TradeKinds, Idle
<1>11. CASE Ends /\ Tell(<<Says("MESSAGE")>>)
  <2>1. PICK m \in TradeNews : m = Says("MESSAGE")
    BY <1>2
  <2> QED BY <1>4, <1>11, <2>1 DEF Says
<1>12. CASE window.stage = "invited" /\ Ends /\ Tell(<<>>)
  <2>1. window' \in Windows /\ window'.stage = "none" /\ window'.items = 0 /\ Idle' /\ window.items = 0
    BY <1>1, <1>12, TradeEnds DEF Idle
  <2>2. online /\ online' = online /\ inbox' = inbox /\ outbox' = outbox
    BY <1>1, <1>12, NoMore DEF Tell
  <2>3. ASSUME NEW f \in Sights, TradeTold(f) PROVE TradeTold(f)'
    BY <1>12, <2>1, <2>3 DEF TradeTold
  <2>4. Sight(trade') = Sight(trade) /\ trade'.items = trade.items /\ trade' \in Deals
    BY <1>1
  <2> QED BY <1>1, <2>1, <2>2, <2>3, <2>4, NothingSaidKeeps
<1>13. ASSUME window.stage = "invited", Ends, NEW told \in {<<>>, <<Says("MESSAGE")>>}, Tell(told)
       PROVE  TradeOK'
  BY <1>11, <1>12, <1>13
<1> QED BY <1>5, <1>6, <1>7, <1>8, <1>9, <1>10, <1>11, <1>13 DEF TraderActs

LEMMA TradeBreaksKeeps == ASSUME TradeOK, TradeBreaks PROVE TradeOK'
<1>1. /\ Ends /\ trade' = Closed /\ online' = FALSE /\ inbox' = <<>> /\ outbox' = <<>> /\ TradeKinds
  BY DEF TradeBreaks, Break, TradeOK
<1>2. window' \in Windows /\ window'.stage = "none" /\ Idle'
  BY <1>1, TradeEnds
<1>3. Closed \in Deals
  BY DEF Closed, Deals
<1> QED BY <1>1, <1>2, <1>3, NoneYet DEF TradeOK, TradeKinds, Idle

LEMMA NothingUnderWay ==
    ASSUME trade = Closed, window \in Windows, window.stage = "none", inbox = <<>>
    PROVE  TradeFollows /\ GoodsFollow
<1>1. Sight(trade) = Shut /\ trade.items = 0 /\ 0 \in Counts /\ 0 <= window.items
  BY TradeAssumption DEF Sight, Closed, Counts, Windows
<1>2. Makes(Sights, SightStep, Sight(trade), inbox, Shut) /\ Makes(Counts, CountStep, trade.items, inbox, 0)
  BY <1>1, ShutIsOne, MakesNothing
<1>3. TradeTold(Shut)
  BY DEF TradeTold, Shut
<1> QED BY <1>1, <1>2, <1>3, ShutIsOne DEF TradeFollows, GoodsFollow

LEMMA TradeReturnsKeeps == ASSUME TradeOK, TradeReturns PROVE TradeOK'
<1>1. /\ trade = Closed /\ window \in Windows /\ window.stage = "none" /\ inbox = <<>> /\ outbox = <<>>
      /\ online' = TRUE /\ UNCHANGED <<trade, window, inbox, outbox>> /\ TradeKinds
  BY DEF TradeReturns, Return, TradeOK, TradeKinds, tradeVars
<1>2. TradeFollows /\ GoodsFollow
  BY <1>1, NothingUnderWay
<1>3. TradeFollows' /\ GoodsFollow'
  BY <1>1, <1>2 DEF TradeFollows, GoodsFollow, TradeTold, Pending
<1> QED BY <1>1, <1>3 DEF TradeOK, TradeKinds

LEMMA TradeNextKeeps == ASSUME TradeOK, TradeNext PROVE TradeOK'
BY TradeMessageKeeps, ServerReadsKeeps, TraderActsKeeps, TradeBreaksKeeps, TradeReturnsKeeps,
   AcceptKeeps, DeclineKeeps, QuitKeeps, PutKeeps, ConfirmKeeps, InviteKeeps
   DEF TradeNext, ConfirmByRule

LEMMA TradeInit1 == Init => TradeInv
<1> SUFFICES ASSUME Init PROVE TradeInv
  OBVIOUS
<1>1. trade = Closed /\ window = Fresh(0) /\ inbox = <<>> /\ outbox = <<>> /\ online = TRUE
  BY DEF Init, TradeInit, LineInit
<1>2. Closed \in Deals
  BY DEF Closed, Deals
<1>3. window \in Windows /\ window.stage = "none" /\ Idle
  <2>1. 0 \in 0..MaxWindows /\ 0 \in 0..MaxGoods /\ FALSE \in BOOLEAN
    BY TradeAssumption
  <2>2. window \in Windows
    BY <1>1, <2>1 DEF Fresh, Windows
  <2> QED BY <1>1, <2>2 DEF Fresh, Idle
<1>4. TradeFollows /\ GoodsFollow
  BY <1>1, <1>3, NothingUnderWay
<1> QED BY <1>1, <1>2, <1>3, <1>4, NoneYet DEF TradeInv, TradeOK, TradeKinds, Idle

LEMMA TradeNext1 == TradeInv /\ [Next]_vars => TradeInv'
<1> SUFFICES ASSUME TradeInv, [Next]_vars PROVE TradeInv'
  OBVIOUS
<1>1. CASE Trading
  BY <1>1, TradeNextKeeps DEF Trading, TradeInv
<1>2. CASE focus # "trade" /\ UNCHANGED <<tradeVars, focus>>
  BY <1>2 DEF TradeInv, tradeVars
<1>3. CASE UNCHANGED vars
  BY <1>3 DEF vars, line, tradeVars, TradeInv, TradeOK, TradeKinds, TradeFollows, GoodsFollow,
              TradeTold, Pending
<1> QED BY <1>1, <1>2, <1>3 DEF Next, Grouping, Packing, Conversing

(* Once everything is said, the bot's trade is the server's.                *)
LEMMA WindowsAreOne == TradeInv => WindowsAgree
<1> SUFFICES ASSUME TradeInv, Quiet PROVE WindowsAgree
  BY DEF WindowsAgree
<1>1. CASE focus # "trade"
  BY <1>1 DEF TradeInv, WindowsAgree, Closed, Fresh
<1>2. CASE focus = "trade"
  <2>1. TradeFollows /\ inbox = <<>> /\ outbox = <<>> /\ trade \in Deals
    BY <1>2 DEF TradeInv, TradeOK, TradeKinds, Quiet
  <2>2. PICK f \in Sights : Makes(Sights, SightStep, Sight(trade), inbox, f) /\ TradeTold(f)
    BY <2>1 DEF TradeFollows
  <2>3. Sight(trade) = f
    BY <2>1, <2>2, MakesItself
  <2>4. \A act : ~Pending(act)
    BY <2>1, NoneYet DEF Pending
  <2>5. f.open = trade.active
    BY <2>1, <2>3 DEF Sight, View, Shut, Deals
  <2>6. trade.active => /\ f.items = trade.items /\ f.meso = trade.meso
                        /\ f.theirs = trade.partnerLocked /\ f.locked = trade.locked
    BY <2>3 DEF Sight, View
  <2> QED BY <2>2, <2>4, <2>5, <2>6 DEF TradeTold, WindowsAgree
<1> QED BY <1>1, <1>2

-----------------------------------------------------------------------------
(* 6. What the server and the other players have is what the bot shows.     *)

LEMMA Types == TradeInv /\ PartyInv /\ DialogInv /\ BagInv => TypeOK
<1> SUFFICES ASSUME TradeInv, PartyInv, DialogInv, BagInv PROVE TypeOK
  OBVIOUS
<1>1. TradeTypeOK
  <2>1. trade \in Deals /\ window \in Windows /\ trade.items \in 0..MaxGoods
    <3>1. CASE focus = "trade" /\ online
      <4>1. TradeKinds /\ GoodsFollow
        BY <3>1 DEF TradeInv, TradeOK
      <4>2. PICK n \in Counts : Makes(Counts, CountStep, trade.items, inbox, n)
        BY <4>1 DEF GoodsFollow
      <4>3. trade.items \in Counts
        BY <4>1, <4>2, MakesOfOne DEF TradeKinds
      <4>4. trade.items \in Nat
        BY <4>1 DEF TradeKinds, Deals
      <4>5. trade.items \in 0..MaxGoods
        BY <4>3, <4>4, TradeAssumption DEF Counts
      <4> QED BY <4>1, <4>5 DEF TradeKinds
    <3>2. CASE focus = "trade" /\ ~online
      <4>1. TradeKinds /\ trade = Closed
        BY <3>2 DEF TradeInv, TradeOK
      <4> QED BY <4>1, TradeAssumption DEF TradeKinds, Closed
    <3>3. CASE focus # "trade"
      <4>1. trade = Closed /\ window = Fresh(0)
        BY <3>3 DEF TradeInv
      <4>2. Closed \in Deals /\ Closed.items = 0
        BY DEF Closed, Deals
      <4>3. 0 \in 0..MaxWindows /\ 0 \in 0..MaxGoods /\ FALSE \in BOOLEAN
        BY TradeAssumption
      <4>4. window \in Windows
        BY <4>1, <4>3 DEF Fresh, Windows
      <4> QED BY <4>1, <4>2, <4>3, <4>4
    <3> QED BY <3>1, <3>2, <3>3
  <2>2. /\ trade \in [active : BOOLEAN, partner : Traders \cup {Nobody, Unnamed},
                      invite : Traders \cup {Nobody}, items : 0..MaxGoods, meso : BOOLEAN,
                      partnerLocked : BOOLEAN, locked : BOOLEAN]
    BY <2>1 DEF Deals
  <2> QED BY <2>1, <2>2 DEF TradeTypeOK, Windows
<1>2. PartyTypeOK
  <2>1. CASE focus = "party"
    BY <2>1 DEF PartyInv, PartyOK, PartyKinds, PartyTypeOK, PartySides
  <2>2. CASE focus # "party"
    BY <2>2, PartyAssumption DEF PartyInv, PartyTypeOK
  <2> QED BY <2>1, <2>2
<1>3. DialogTypeOK
  BY DEF DialogInv, DialogOK, DialogKinds
<1>4. BagTypeOK
  BY DEF BagInv, BagOK, BagKinds, BagTypeOK
<1> QED BY <1>1, <1>2, <1>3, <1>4 DEF TypeOK

(* Once everything is said, the trade, the party and the inventory the bot  *)
(* shows are those the server and the other players have, whatever the bot  *)
(* assumed before it was confirmed and whatever crossed on the way.         *)
THEOREM PeersAreKnown == Spec => []PeersAgree
<1>1. TradeInv /\ PartyInv /\ DialogInv /\ BagInv => PeersAgree
  BY Types, WindowsAreOne, PartiesAreOne, CopyIsOne DEF PeersAgree
<1> QED BY <1>1, TradeInit1, TradeNext1, PartyInit1, PartyNext1, DialogInit1, DialogNext1, BagInit1,
           BagNext1, PTL DEF Spec

-----------------------------------------------------------------------------
(* 7. The sale.  What a recursion computes is found with the least step at  *)
(* which it would go wrong.                                                 *)

(* A set of numbers that is not empty has a least.                          *)
LEMMA LeastOf ==
    ASSUME NEW T \in SUBSET Nat, T # {}
    PROVE  \E m \in T : \A k \in T : m <= k
<1>1. PICK m \in T : \A k \in T : ~(<<k, m>> \in OpToRel(<, Nat))
  BY WFMin, NatLessThanWellFounded, Zenon
<1>2. \A k \in T : ~(k < m)
  BY <1>1, Zenon DEF OpToRel
<1> QED BY <1>2

Sums(q, f) == f = [k \in 0..Len(q) |-> IF k = 0 THEN 0 ELSE f[k - 1] + q[k].qty]

(* Whatever sums up step by step is the sum.                                *)
LEMMA SumIs ==
    ASSUME NEW q, Len(q) \in Nat, NEW f, Sums(q, f)
    PROVE  Sum(q) = f[Len(q)]
<1> DEFINE n == Len(q)
           g == CHOOSE h : h = [k \in 0..n |-> IF k = 0 THEN 0 ELSE h[k - 1] + q[k].qty]
           T == {k \in 0..n : g[k] # f[k]}
<1>1. Sum(q) = g[n]
  BY DEF Sum
<1>2. g = [k \in 0..n |-> IF k = 0 THEN 0 ELSE g[k - 1] + q[k].qty]
  BY DEF Sums
<1> HIDE DEF g
<1>3. T = {}
  <2>1. SUFFICES ASSUME T # {} PROVE FALSE
    OBVIOUS
  <2>0. T \in SUBSET Nat
    OBVIOUS
  <2>2. PICK m \in T : \A k \in T : m <= k
    BY <2>0, <2>1, LeastOf
  <2>3. m \in 0..n /\ m # 0
    BY <1>2 DEF Sums
  <2>4. m - 1 \in 0..n /\ m - 1 \notin T
    BY <2>2, <2>3
  <2>5. g[m - 1] = f[m - 1]
    BY <2>4
  <2>6. g[m] = g[m - 1] + q[m].qty
    BY <1>2, <2>3
  <2>7. f[m] = f[m - 1] + q[m].qty
    BY <2>3 DEF Sums
  <2> QED BY <2>2, <2>5, <2>6, <2>7
<1> QED BY <1>1, <1>3

(* There is such a sum of every list.                                       *)
LEMMA SumsAre == ASSUME NEW q, Len(q) \in Nat PROVE \E f : Sums(q, f)
<1> DEFINE n == Len(q)
           To(k, f) == f = [j \in 0..k |-> IF j = 0 THEN 0 ELSE f[j - 1] + q[j].qty]
           T == {k \in 0..n : ~\E f : To(k, f)}
<1>1. T = {}
  <2>1. SUFFICES ASSUME T # {} PROVE FALSE
    OBVIOUS
  <2>2. T \in SUBSET Nat
    OBVIOUS
  <2>3. PICK m \in T : \A k \in T : m <= k
    BY <2>1, <2>2, LeastOf
  <2>4. m # 0
    <3> DEFINE f == [j \in 0..0 |-> 0]
    <3>1. To(0, f)
      OBVIOUS
    <3> QED BY <2>3, <3>1
  <2>5. m \in 0..n /\ m - 1 \in 0..n /\ m - 1 \notin T
    BY <2>3, <2>4
  <2>6. PICK f : To(m - 1, f)
    BY <2>5
  <2> DEFINE g == [j \in 0..m |-> IF j = m THEN f[m - 1] + q[m].qty ELSE f[j]]
  <2>7. To(m, g)
    <3>1. \A j \in 0..m : g[j] = IF j = 0 THEN 0 ELSE g[j - 1] + q[j].qty
      BY <2>4, <2>5, <2>6
    <3> QED BY <3>1
  <2> QED BY <2>3, <2>7
<1> QED BY <1>1 DEF Sums

(* A sum of amounts goes up with every item.                                *)
LEMMA SumsGrow ==
    ASSUME NEW q, Len(q) \in Nat, \A k \in 1..Len(q) : q[k].qty \in Nat, NEW f, Sums(q, f)
    PROVE  \A k \in 0..Len(q) : f[k] \in Nat
<1> DEFINE T == {k \in 0..Len(q) : f[k] \notin Nat}
<1>1. T = {}
  <2>1. SUFFICES ASSUME T # {} PROVE FALSE
    OBVIOUS
  <2>2. T \in SUBSET Nat
    OBVIOUS
  <2>3. PICK m \in T : \A k \in T : m <= k
    BY <2>1, <2>2, LeastOf
  <2>4. m \in 0..Len(q) /\ m # 0
    BY <2>3 DEF Sums
  <2>5. f[m - 1] \in Nat
    BY <2>3, <2>4
  <2> QED BY <2>3, <2>4, <2>5 DEF Sums
<1> QED BY <1>1

(* The loop over the stacks, step by step.                                  *)
Loop(stacks, want, n, f) ==
    f = [k \in 0..n |-> IF k = 0 THEN [left |-> want, out |-> <<>>]
                        ELSE IF f[k - 1].left <= 0 THEN f[k - 1] ELSE SellFrom(f[k - 1], stacks[k])]

(* The loop comes to an end.                                               *)
LEMMA LoopRuns ==
    ASSUME NEW stacks, NEW want, NEW n \in Nat
    PROVE  \E f : Loop(stacks, want, n, f)
<1> DEFINE T == {k \in 0..n : ~\E f : Loop(stacks, want, k, f)}
<1>1. T = {}
  <2>1. SUFFICES ASSUME T # {} PROVE FALSE
    OBVIOUS
  <2>2. T \in SUBSET Nat
    OBVIOUS
  <2>3. PICK m \in T : \A k \in T : m <= k
    BY <2>1, <2>2, LeastOf
  <2>4. m # 0
    <3> DEFINE f == [j \in 0..0 |-> [left |-> want, out |-> <<>>]]
    <3>1. Loop(stacks, want, 0, f)
      BY DEF Loop
    <3> QED BY <2>3, <3>1
  <2>5. m \in 0..n /\ m - 1 \in 0..n /\ m - 1 \notin T
    BY <2>3, <2>4
  <2>6. PICK f : Loop(stacks, want, m - 1, f)
    BY <2>5
  <2> DEFINE Step(s, k) == IF s.left <= 0 THEN s ELSE SellFrom(s, stacks[k])
             g == [j \in 0..m |-> IF j = m THEN Step(f[m - 1], m) ELSE f[j]]
  <2>7. Loop(stacks, want, m, g)
    <3>1. \A j \in 0..m - 1 : f[j] = IF j = 0 THEN [left |-> want, out |-> <<>>] ELSE Step(f[j - 1], j)
      BY <2>5, <2>6 DEF Loop
    <3> HIDE DEF Step
    <3>2. \A j \in 0..m : g[j] = IF j = 0 THEN [left |-> want, out |-> <<>>] ELSE Step(g[j - 1], j)
      BY <2>4, <2>5, <3>1
    <3>3. g = [j \in 0..m |-> IF j = 0 THEN [left |-> want, out |-> <<>>] ELSE Step(g[j - 1], j)]
      BY <3>2
    <3> QED BY <3>3 DEF Loop, Step
  <2> QED BY <2>3, <2>7
<1> QED BY <1>1

Sold == [op : {"sell"}, at : Places, id : Gear \cup Wares, qty : Nat]

(* After k stacks: what is left, and a request of each stack so far, for as *)
(* much as it took off.                                                     *)
LoopOK(stacks, want, upTo, f, k) ==
    /\ f[k].left = IF want <= upTo[k] THEN 0 ELSE want - upTo[k]
    /\ f[k].out \in Seq(Sold) /\ Len(f[k].out) <= k
    /\ f[k].left > 0 => Len(f[k].out) = k
    /\ f[Len(f[k].out)].left = f[k].left
    /\ \A i \in 1..Len(f[k].out) :
          /\ f[k].out[i].at = stacks[i]
          /\ f[k].out[i].qty \in 1..bag[stacks[i]].qty
          /\ f[k].out[i].qty = f[i - 1].left - f[i].left

(* No stack breaks what held before it.                                    *)
LEMMA LoopKeeps ==
    ASSUME bag \in Bags, NEW stacks \in Seq(Places), NEW want \in Nat, NEW upTo, NEW f,
           \A k \in 1..Len(stacks) : bag[stacks[k]].qty \in Nat \ {0} /\ bag[stacks[k]].id \in Gear \cup Wares,
           \A k \in 0..Len(stacks) : upTo[k] \in Nat,
           upTo[0] = 0, \A k \in 1..Len(stacks) : upTo[k] = upTo[k - 1] + bag[stacks[k]].qty,
           Loop(stacks, want, Len(stacks), f)
    PROVE  \A k \in 0..Len(stacks) : LoopOK(stacks, want, upTo, f, k)
<1> DEFINE n == Len(stacks)
           T == {k \in 0..n : ~LoopOK(stacks, want, upTo, f, k)}
<1>1. n \in Nat /\ 0 \in 0..n
  OBVIOUS
<1>2. f[0].left = want /\ f[0].out = <<>>
  BY <1>1 DEF Loop
<1>3. T = {}
  <2>1. SUFFICES ASSUME T # {} PROVE FALSE
    OBVIOUS
  <2>2. T \in SUBSET Nat
    OBVIOUS
  <2>3. PICK m \in T : \A k \in T : m <= k
    BY <2>1, <2>2, LeastOf
  <2>4. LoopOK(stacks, want, upTo, f, 0)
    <3>1. f[0].out \in Seq(Sold) /\ Len(f[0].out) = 0
      BY <1>2
    <3>2. f[0].left = IF want <= upTo[0] THEN 0 ELSE want - upTo[0]
      BY <1>2
    <3> QED BY <3>1, <3>2 DEF LoopOK
  <2>5. m \in 1..n /\ m - 1 \in 0..n /\ m - 1 \notin T
    BY <2>3, <2>4
  <2> DEFINE p == stacks[m]
             have == bag[p].qty
             old == f[m - 1]
  <2>6. p \in Places /\ have \in Nat \ {0} /\ bag[p].id \in Gear \cup Wares /\ m \in Nat
    BY <2>5
  <2>7. LoopOK(stacks, want, upTo, f, m - 1)
    BY <2>5
  <2>8. upTo[m] = upTo[m - 1] + have /\ upTo[m - 1] \in Nat /\ upTo[m] \in Nat
    BY <2>5
  <2>9. f[m] = IF old.left <= 0 THEN old ELSE SellFrom(old, p)
    <3>1. m \in 0..n /\ m # 0
      BY <2>5
    <3>2. f = [k \in 0..n |-> IF k = 0 THEN [left |-> want, out |-> <<>>]
                              ELSE IF f[k - 1].left <= 0 THEN f[k - 1] ELSE SellFrom(f[k - 1], stacks[k])]
      BY Zenon DEF Loop
    <3> HIDE DEF old, p
    <3>3. f[m] = IF f[m - 1].left <= 0 THEN f[m - 1] ELSE SellFrom(f[m - 1], stacks[m])
      BY <3>1, <3>2, Zenon
    <3> QED BY <3>3 DEF old, p
  <2> HIDE DEF have, T
  <2>10. CASE old.left <= 0
    <3>1. f[m] = old
      BY <2>9, <2>10
    <3>2. f[m].left = IF want <= upTo[m] THEN 0 ELSE want - upTo[m]
      BY <2>6, <2>7, <2>8, <2>10, <3>1 DEF LoopOK
    <3>3. Len(f[m].out) <= m /\ ~(f[m].left > 0)
      BY <2>6, <2>7, <2>8, <2>10, <3>1 DEF LoopOK
    <3>4. LoopOK(stacks, want, upTo, f, m)
      BY <2>7, <3>1, <3>2, <3>3 DEF LoopOK
    <3> QED BY <2>3, <3>4 DEF T
  <2>11. CASE ~(old.left <= 0)
    <3> DEFINE take == AtMost(old.left, have)
               sale == Sale(p, take)
    <3>1. old.left \in Nat /\ old.left > 0 /\ old.out \in Seq(Sold) /\ Len(old.out) = m - 1
          /\ old.left = want - upTo[m - 1]
      BY <2>6, <2>7, <2>8, <2>11 DEF LoopOK
    <3>2. take \in 1..have /\ take <= old.left /\ (take = old.left \/ take = have)
      BY <2>6, <3>1 DEF AtMost
    <3>3. sale \in Sold /\ sale.at = p /\ sale.qty = take
      BY <2>6, <3>2 DEF Sale, Sold
    <3>4. f[m].left = old.left - take /\ f[m].out = Append(old.out, sale)
      BY <2>9, <2>11 DEF SellFrom, have
    <3> HIDE DEF take, sale
    <3>5. f[m].left = IF want <= upTo[m] THEN 0 ELSE want - upTo[m]
      <4>1. \A w, a, h, t \in Nat : w - a > 0 /\ h > 0 /\ t <= w - a /\ (t = w - a \/ t = h) /\ t <= h
                => (w - a) - t = IF w <= a + h THEN 0 ELSE w - (a + h)
        OBVIOUS
      <4>2. take \in Nat /\ have \in Nat /\ have > 0 /\ take <= have /\ upTo[m - 1] \in Nat
        BY <2>6, <2>8, <3>2
      <4>3. (want - upTo[m - 1]) - take
               = IF want <= upTo[m - 1] + have THEN 0 ELSE want - (upTo[m - 1] + have)
        BY <3>1, <3>2, <4>1, <4>2
      <4> QED BY <2>8, <3>1, <3>4, <4>3
    <3>6. /\ f[m].out \in Seq(Sold) /\ Len(f[m].out) = m
          /\ \A i \in 1..m - 1 : f[m].out[i] = old.out[i]
          /\ f[m].out[m] = sale
      BY <2>6, <3>1, <3>3, <3>4
    <3>7. \A i \in 1..m :
              /\ f[m].out[i].at = stacks[i]
              /\ f[m].out[i].qty \in 1..bag[stacks[i]].qty
              /\ f[m].out[i].qty = f[i - 1].left - f[i].left
      <4> TAKE i \in 1..m
      <4>1. CASE i = m
        <5>1. f[m].out[i].qty = take /\ f[m].out[i].at = p
          BY <3>3, <3>6, <4>1
        <5>2. take = old.left - f[m].left
          BY <3>1, <3>2, <3>4
        <5> QED BY <3>2, <4>1, <5>1, <5>2 DEF have
      <4>2. CASE i # m
        <5>1. i \in 1..m - 1
          BY <2>6, <4>2
        <5> QED BY <2>7, <3>1, <3>6, <5>1 DEF LoopOK
      <4> QED BY <4>1, <4>2
    <3>8. LoopOK(stacks, want, upTo, f, m)
      BY <2>6, <3>5, <3>6, <3>7 DEF LoopOK
    <3> QED BY <2>3, <3>8 DEF T
  <2> QED BY <2>10, <2>11
<1> QED BY <1>3

(* A tab has so many places and no more.                                   *)
LEMMA TabsAreFinite == IsFiniteSet(Places \ Bodily)
<1>1. IsFiniteSet(1..Slots)
  BY FS_Interval, BagAssumption
<1>2. IsFiniteSet({Equip, Use})
  <2>1. IsFiniteSet({Equip})
    BY FS_Singleton
  <2>2. IsFiniteSet({Equip} \cup {Use})
    BY <2>1, FS_AddElement, Zenon
  <2>3. {Equip, Use} = {Equip} \cup {Use}
    OBVIOUS
  <2> QED BY <2>2, <2>3
<1>3. IsFiniteSet({Equip, Use} \X (1..Slots))
  BY <1>1, <1>2, FS_Product
<1>4. Places \ Bodily \subseteq {Equip, Use} \X (1..Slots)
  BY DEF Places, Bodily
<1> QED BY <1>3, <1>4, FS_Subset

(* The list of stacks has every place that holds the item, and each once.  *)
LEMMA StackPlaces ==
    ASSUME bag \in Bags, NEW id \in Wares, NEW stacks \in Stacks(id)
    PROVE  /\ stacks \in Seq(Places) /\ ToSet(stacks) = {p \in Places \ Bodily : bag[p].id = id}
           /\ \A i, j \in 1..Len(stacks) : stacks[i] = stacks[j] => i = j
           /\ \A i \in 1..Len(stacks) : bag[stacks[i]].qty \in Nat \ {0} /\ bag[stacks[i]].id = id
<1> DEFINE S == {p \in Holding(id) : bag[p].qty > 0}
           n == Cardinality(S)
<1>1. S = {p \in Places \ Bodily : bag[p].id = id} /\ \A p \in S : bag[p].qty \in Nat \ {0}
  <2>1. SUFFICES ASSUME NEW p \in Places \ Bodily, bag[p].id = id PROVE bag[p].qty \in Nat \ {0}
    BY DEF Holding
  <2>2. bag[p] \in Stack \cup {Empty}
    BY DEF Bags
  <2>3. CASE bag[p] = Empty
    BY <2>1, <2>3, BagAssumption DEF Empty
  <2>4. CASE bag[p] \in Stack
    BY <2>1, <2>4, BagAssumption DEF Stack
  <2> QED BY <2>2, <2>3, <2>4
<1>2. IsFiniteSet(S) /\ n \in Nat
  <2>1. S \subseteq Places \ Bodily
    BY DEF Holding
  <2> QED BY <2>1, TabsAreFinite, FS_Subset, FS_CardinalityType
<1>3. stacks \in [1..n -> S] /\ \A i, j \in 1..n : i < j => Before(stacks[i], stacks[j])
  BY DEF Stacks, InOrder
<1> HIDE DEF S, n
<1>4. stacks \in Seq(S) /\ Len(stacks) = n
  BY <1>2, <1>3
<1>5. \A p \in S : p[1] \in Int /\ p[2] \in Int
  <2> SUFFICES ASSUME NEW p \in S PROVE p[1] \in Int /\ p[2] \in Int
    OBVIOUS
  <2>1. p \in Places
    BY <1>1
  <2>2. p[1] \in {Equip, Use} /\ p[2] \in (1..Slots) \cup Body
    BY <2>1 DEF Places
  <2>3. Slots \in Nat /\ Body \subseteq Int
    BY BagAssumption
  <2>4. p[1] \in Int
    BY <2>2 DEF Equip, Use
  <2>5. 1..Slots \subseteq Int
    BY <2>3
  <2> QED BY <2>2, <2>3, <2>4, <2>5
<1>6. \A i, j \in 1..n : stacks[i] = stacks[j] => i = j
  <2> SUFFICES ASSUME NEW i \in 1..n, NEW j \in 1..n, stacks[i] = stacks[j], i # j PROVE FALSE
    OBVIOUS
  <2>1. i \in Int /\ j \in Int /\ stacks[i] \in S
    BY <1>2, <1>3
  <2>2. ~Before(stacks[i], stacks[i])
    BY <1>5, <2>1 DEF Before
  <2>3. i < j \/ j < i
    BY <2>1
  <2> QED BY <1>3, <2>2, <2>3
<1>7. stacks \in Injection(1..n, S)
  BY <1>3, <1>6 DEF Injection, IsInjective
<1>8. Cardinality(1..n) = n
  BY <1>2, FS_Interval
<1>9. stacks \in Surjection(1..n, S)
  BY <1>2, <1>7, <1>8, FS_Injection DEF n
<1>10. ToSet(stacks) = S
  BY <1>3, <1>9 DEF Surjection, ToSet
<1>11. \A i \in 1..n : stacks[i] \in S
  BY <1>3
<1> QED BY <1>1, <1>4, <1>6, <1>10, <1>11

(* A sale asks for what was typed.                                          *)
LEMMA SalesAre ==
    ASSUME bag \in Bags, NEW id \in Wares, NEW stacks \in Stacks(id), NEW qty \in Nat
    PROVE  LET all == AllOf(stacks)
               sales == Sales(stacks, qty)
           IN  /\ Sum(sales) = IF qty = 0 \/ qty > all THEN all ELSE qty
               /\ \A i \in DOMAIN sales : sales[i].qty \in 1..bag[sales[i].at].qty
               /\ \A i, j \in DOMAIN sales : sales[i].at = sales[j].at => i = j
<1> DEFINE n == Len(stacks)
           items == [k \in DOMAIN stacks |-> bag[stacks[k]]]
           all == AllOf(stacks)
           want == IF qty <= 0 THEN all ELSE AtMost(qty, all)
           sales == Sales(stacks, qty)
<1>1. /\ stacks \in Seq(Places) /\ n \in Nat /\ DOMAIN stacks = 1..n
      /\ \A i, j \in 1..n : stacks[i] = stacks[j] => i = j
      /\ \A i \in 1..n : bag[stacks[i]].qty \in Nat \ {0} /\ bag[stacks[i]].id = id
  BY StackPlaces
<1>2. Len(items) = n /\ \A k \in 1..n : items[k].qty = bag[stacks[k]].qty
  BY <1>1
<1> HIDE DEF items
<1>3. PICK upTo : Sums(items, upTo)
  BY <1>1, <1>2, SumsAre
<1>4. all = upTo[n]
  BY <1>1, <1>2, <1>3, SumIs DEF AllOf, items
<1>5. \A k \in 0..n : upTo[k] \in Nat
  <2>1. \A k \in 1..n : items[k].qty \in Nat
    BY <1>1, <1>2
  <2> QED BY <1>1, <1>2, <1>3, <2>1, SumsGrow
<1>6. upTo[0] = 0 /\ \A k \in 1..n : upTo[k] = upTo[k - 1] + bag[stacks[k]].qty
  BY <1>1, <1>2, <1>3 DEF Sums
<1>7. all \in Nat
  BY <1>1, <1>4, <1>5
<1> HIDE DEF all
<1>8. want \in Nat /\ want <= all /\ want = IF qty = 0 \/ qty > all THEN all ELSE qty
  BY <1>7 DEF AtMost
<1> DEFINE after == CHOOSE f : Loop(stacks, want, n, f)
<1>9. sales = after[n].out
  BY DEF Sales, Loop, all
<1> HIDE DEF want
<1>10. Loop(stacks, want, n, after)
  BY <1>1, LoopRuns
<1> HIDE DEF after, sales
<1>11. \A k \in 0..n : LoopOK(stacks, want, upTo, after, k)
  <2>1. \A k \in 1..n : bag[stacks[k]].qty \in Nat \ {0} /\ bag[stacks[k]].id \in Gear \cup Wares
    BY <1>1
  <2>2. stacks \in Seq(Places) /\ want \in Nat
    BY <1>1, <1>8
  <2> QED BY <1>5, <1>6, <1>10, <2>1, <2>2, LoopKeeps
<1>12. LoopOK(stacks, want, upTo, after, n)
  BY <1>1, <1>11
<1>13. /\ after[n].left = 0 /\ sales \in Seq(Sold) /\ Len(sales) <= n
       /\ after[Len(sales)].left = 0
       /\ \A i \in 1..Len(sales) :
             /\ sales[i].at = stacks[i]
             /\ sales[i].qty \in 1..bag[stacks[i]].qty
             /\ sales[i].qty = after[i - 1].left - after[i].left
  BY <1>4, <1>8, <1>9, <1>12 DEF LoopOK
<1>14. Len(sales) \in 0..n /\ DOMAIN sales = 1..Len(sales)
  BY <1>1, <1>13
<1>15. \A k \in 0..n : after[k].left \in Nat
  BY <1>5, <1>8, <1>11 DEF LoopOK
<1>16. after[0].left = want
  BY <1>1, <1>10 DEF Loop
<1> DEFINE g == [i \in 0..Len(sales) |-> want - after[i].left]
<1>17. Sums(sales, g)
  <2>1. \A k \in 0..Len(sales) : g[k] = IF k = 0 THEN 0 ELSE g[k - 1] + sales[k].qty
    <3> TAKE k \in 0..Len(sales)
    <3>1. CASE k = 0
      BY <1>8, <1>16, <3>1
    <3>2. CASE k # 0
      <4>1. k \in 1..Len(sales) /\ k - 1 \in 0..Len(sales) /\ k \in 0..n /\ k - 1 \in 0..n
        BY <1>1, <1>14, <3>2
      <4>2. sales[k].qty = after[k - 1].left - after[k].left
        BY <1>13, <4>1
      <4>3. g[k] = want - after[k].left /\ g[k - 1] = want - after[k - 1].left
        BY <4>1
      <4>4. want \in Int /\ after[k].left \in Int /\ after[k - 1].left \in Int
        BY <1>8, <1>15, <4>1
      <4> HIDE DEF g
      <4>5. g[k] = g[k - 1] + sales[k].qty
        BY <4>2, <4>3, <4>4
      <4> QED BY <3>2, <4>5
    <3> QED BY <3>1, <3>2
  <2> QED BY <2>1 DEF Sums
<1>18. Sum(sales) = want
  <2>1. Sum(sales) = g[Len(sales)]
    BY <1>14, <1>17, SumIs
  <2>2. Len(sales) \in 0..Len(sales)
    BY <1>14
  <2> QED BY <1>8, <1>13, <2>1, <2>2
<1>19. \A i, j \in DOMAIN sales : sales[i].at = sales[j].at => i = j
  <2> SUFFICES ASSUME NEW i \in DOMAIN sales, NEW j \in DOMAIN sales, sales[i].at = sales[j].at PROVE i = j
    OBVIOUS
  <2>1. i \in 1..n /\ j \in 1..n
    BY <1>1, <1>14
  <2> QED BY <1>1, <1>13, <1>14, <2>1
<1>20. \A i \in DOMAIN sales : sales[i].qty \in 1..bag[sales[i].at].qty
  BY <1>13, <1>14
<1> QED BY <1>8, <1>18, <1>19, <1>20 DEF sales, all

(* The places of the tabs can be put in order.                              *)
LEMMA OrderExists == \A S \in SUBSET (Places \ Bodily) : InOrder(S) # {}
<1> DEFINE P == Places \ Bodily
           Rank(p) == p[1] * (Slots + 1) + p[2]
           T == {n \in Nat : \E S \in SUBSET P : Cardinality(S) = n /\ InOrder(S) = {}}
<1>1. \A p \in P : p[1] \in 1..2 /\ p[2] \in 1..Slots
  BY DEF Places, Bodily, Equip, Use
<1>2. Slots \in Nat
  BY BagAssumption
<1>3. \A p \in P : Rank(p) \in Nat
  <2> SUFFICES ASSUME NEW p \in P PROVE Rank(p) \in Nat
    OBVIOUS
  <2>1. p[1] = 1 \/ p[1] = 2
    BY <1>1
  <2> QED BY <1>1, <1>2, <2>1
<1>4. \A p, q \in P : p # q /\ Rank(p) <= Rank(q) => Before(p, q)
  <2> SUFFICES ASSUME NEW p \in P, NEW q \in P, p # q, Rank(p) <= Rank(q) PROVE Before(p, q)
    OBVIOUS
  <2>1. (p[1] = 1 \/ p[1] = 2) /\ (q[1] = 1 \/ q[1] = 2) /\ p[2] \in 1..Slots /\ q[2] \in 1..Slots
    BY <1>1
  <2>2. p[1] # q[1] \/ p[2] # q[2]
    <3>1. P = {Equip, Use} \X (1..Slots) \ Bodily
      BY DEF Places, Bodily
    <3>2. p \in {Equip, Use} \X (1..Slots) /\ q \in {Equip, Use} \X (1..Slots)
      BY <3>1
    <3>3. p = <<p[1], p[2]>> /\ q = <<q[1], q[2]>>
      BY <3>2
    <3> QED BY <3>3
  <2> QED BY <1>2, <2>1, <2>2 DEF Before
<1>5. IsFiniteSet(P)
  BY TabsAreFinite
<1> HIDE DEF P, Rank
<1>6. T = {}
  <2>1. SUFFICES ASSUME T # {} PROVE FALSE
    OBVIOUS
  <2>2. T \in SUBSET Nat
    OBVIOUS
  <2>3. PICK n \in T : \A k \in T : n <= k
    BY <2>1, <2>2, LeastOf
  <2>4. PICK S \in SUBSET P : Cardinality(S) = n /\ InOrder(S) = {}
    BY <2>3
  <2>5. IsFiniteSet(S) /\ n \in Nat
    BY <1>5, <2>3, <2>4, FS_Subset
  <2>6. CASE S = {}
    <3>1. n = 0
      BY <2>4, <2>6, FS_EmptySet
    <3> DEFINE f == [i \in 1..0 |-> 0]
    <3>2. f \in [1..0 -> S] /\ DOMAIN f = 1..0
      OBVIOUS
    <3>3. f \in InOrder(S)
      BY <2>4, <3>1, <3>2 DEF InOrder
    <3> QED BY <2>4, <3>3
  <2>7. CASE S # {}
    <3> DEFINE R == {Rank(p) : p \in S}
    <3>1. R \in SUBSET Nat /\ R # {}
      BY <1>3, <2>4, <2>7
    <3>2. PICK r \in R : \A k \in R : r <= k
      BY <3>1, LeastOf
    <3>3. PICK p \in S : \A q \in S : Rank(p) <= Rank(q)
      BY <3>2
    <3>4. \A q \in S \ {p} : Before(p, q)
      BY <1>4, <2>4, <3>3
    <3>5. Cardinality(S \ {p}) = n - 1 /\ n > 0
      <4>1. Cardinality(S \ {p}) = Cardinality(S) - 1
        BY <2>5, <3>3, FS_RemoveElement
      <4>2. Cardinality(S \ {p}) \in Nat
        BY <2>5, FS_RemoveElement, FS_CardinalityType
      <4> QED BY <2>4, <2>5, <4>1, <4>2
    <3>6. n - 1 \notin T /\ n - 1 \in Nat
      BY <2>3, <2>5, <3>5
    <3>7. S \ {p} \in SUBSET P
      BY <2>4
    <3>8. PICK f : f \in InOrder(S \ {p})
      BY <3>5, <3>6, <3>7
    <3>9. f \in [1..n - 1 -> S \ {p}] /\ \A i, j \in 1..n - 1 : i < j => Before(f[i], f[j])
      BY <3>5, <3>8 DEF InOrder
    <3> DEFINE g == [i \in 1..n |-> IF i = 1 THEN p ELSE f[i - 1]]
    <3>10. \A i \in 1..n : i # 1 => i - 1 \in 1..n - 1
      BY <2>5
    <3>11. \A i \in 1..n : i # 1 => g[i] = f[i - 1] /\ g[i] \in S \ {p}
      BY <3>9, <3>10
    <3>12. g \in [1..n -> S] /\ DOMAIN g = 1..n
      BY <3>3, <3>11
    <3>13. \A i, j \in 1..n : i < j => Before(g[i], g[j])
      <4> SUFFICES ASSUME NEW i \in 1..n, NEW j \in 1..n, i < j PROVE Before(g[i], g[j])
        OBVIOUS
      <4>1. j # 1 /\ j - 1 \in 1..n - 1 /\ g[j] = f[j - 1] /\ g[j] \in S \ {p}
        BY <2>5, <3>10, <3>11
      <4>2. CASE i = 1
        BY <3>4, <4>1, <4>2
      <4>3. CASE i # 1
        <5>1. i - 1 \in 1..n - 1 /\ g[i] = f[i - 1] /\ i - 1 < j - 1
          BY <2>5, <3>10, <3>11, <4>3
        <5> QED BY <3>9, <4>1, <5>1
      <4> QED BY <4>2, <4>3
    <3>14. g \in InOrder(S)
      BY <2>4, <3>12, <3>13 DEF InOrder
    <3> QED BY <2>4, <3>14
  <2> QED BY <2>6, <2>7
<1> SUFFICES ASSUME NEW S \in SUBSET (Places \ Bodily) PROVE InOrder(S) # {}
  OBVIOUS
<1>7. Cardinality(S) \in Nat
  BY <1>5, FS_Subset, FS_CardinalityType DEF P
<1> QED BY <1>6, <1>7 DEF P

(* Every sale asks for exactly what was typed or for all there is, takes no *)
(* more than a stack has, and each stack once; and the stacks can always be *)
(* gone through in the order of the map.                                    *)
THEOREM SaleIsSound == Spec => [](BagSound /\ \A id \in Wares : Stacks(id) # {})
<1>1. BagInv => BagSound /\ \A id \in Wares : Stacks(id) # {}
  <2> SUFFICES ASSUME BagInv PROVE BagSound /\ \A id \in Wares : Stacks(id) # {}
    OBVIOUS
  <2>1. bag \in Bags
    BY DEF BagInv, BagOK, BagKinds
  <2>2. ASSUME NEW id \in Wares PROVE Stacks(id) # {}
    <3>1. {p \in Holding(id) : bag[p].qty > 0} \in SUBSET (Places \ Bodily)
      BY DEF Holding
    <3> QED BY <3>1, OrderExists DEF Stacks
  <2>3. SellsWhatIsAsked
    <3> SUFFICES ASSUME NEW id \in Wares, NEW qty \in 0..(MaxStack * Slots + 1), NEW stacks \in Stacks(id)
                 PROVE  LET all == AllOf(stacks)
                            sales == Sales(stacks, qty)
                        IN  /\ ToSet(stacks) = {p \in Places \ Bodily : bag[p].id = id}
                            /\ Sum(sales) = IF qty = 0 \/ qty > all THEN all ELSE qty
                            /\ \A i \in DOMAIN sales : sales[i].qty \in 1..bag[sales[i].at].qty
                            /\ \A i, j \in DOMAIN sales : sales[i].at = sales[j].at => i = j
      BY DEF SellsWhatIsAsked
    <3>1. qty \in Nat
      BY BagAssumption
    <3> QED BY <2>1, <3>1, StackPlaces, SalesAre
  <2> QED BY <2>2, <2>3 DEF BagSound
<1> QED BY <1>1, BagInit1, BagNext1, PTL DEF Spec
=============================================================================
