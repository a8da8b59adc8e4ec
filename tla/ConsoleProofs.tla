---------------------------- MODULE ConsoleProofs ----------------------------
(* The input line for every set of lines and every length of the history,   *)
(* the keys for any accounts, lists and goods, the start-up for any         *)
(* profiles, and the configuration for any files.                          *)
EXTENDS Console, Setup, FiniteSetTheorems, SequenceTheorems, WellFoundedInduction, TLAPS

-----------------------------------------------------------------------------
(* The walk through the history. *)

(* What the walk needs, and the types. *)
LineInv ==
    /\ input \in Lines \cup {Empty}
    /\ history \in Seq(Lines) /\ Len(history) <= MaxHistory
    /\ hist \in Nat /\ hist <= Len(history)
    /\ draft \in Lines \cup {Empty} /\ typed \in Lines \cup {Empty}
    /\ hist > 0 => draft = typed

(* A line is added at the end and only the oldest is forgotten: the history *)
(* does not get shorter.                                                    *)
LEMMA Grows ==
    ASSUME LineInv, input # Empty, PushHistory
    PROVE  /\ history' \in Seq(Lines) /\ Len(history') <= MaxHistory
           /\ Len(history) <= Len(history')
<1>1. history \in Seq(Lines) /\ input \in Lines /\ Len(history) <= MaxHistory /\ MaxHistory \in Nat \ {0}
  BY PromptAssumption DEF LineInv
<1> DEFINE h == Append(history, input)
<1>2. h \in Seq(Lines) /\ Len(h) = Len(history) + 1
  BY <1>1
<1>3. h # <<>>
  BY <1>1, <1>2
<1>4. Tail(h) \in Seq(Lines) /\ Len(Tail(h)) = Len(h) - 1
  BY <1>2, <1>3
<1>5. history' = history \/ history' = IF Len(h) > MaxHistory THEN Tail(h) ELSE h
  BY DEF PushHistory
<1> HIDE DEF h
<1>6. Len(history) \in Nat
  BY <1>1
<1>7. CASE history' = history
  BY <1>1, <1>6, <1>7
<1>8. CASE history' = h /\ Len(h) <= MaxHistory
  BY <1>1, <1>2, <1>6, <1>8
<1>9. CASE history' = Tail(h)
  BY <1>1, <1>2, <1>4, <1>6, <1>9
<1> QED BY <1>1, <1>2, <1>5, <1>6, <1>7, <1>8, <1>9

LEMMA Recalled ==
    ASSUME LineInv, NEW n \in 1..Len(history)
    PROVE  Back(n) \in Lines
BY DEF LineInv, Back

LEMMA PromptStep == LineInv /\ PromptNext => LineInv'
<1> SUFFICES ASSUME LineInv, PromptNext PROVE LineInv'
  OBVIOUS
<1>1. CASE Edit
  BY <1>1 DEF Edit, RefreshCompletion, LineInv
<1>2. CASE ApplyCompletion
  BY <1>2 DEF ApplyCompletion, LineInv
<1>3. CASE HistoryUp
  <2>1. hist' \in 1..Len(history) /\ draft' \in Lines \cup {Empty} /\ draft' = typed'
    BY <1>3 DEF HistoryUp, LineInv
  <2>2. input' = Back(hist') /\ comp' = FALSE /\ history' = history
    BY <1>3 DEF HistoryUp
  <2>3. Back(hist') \in Lines
    BY <2>1, Recalled
  <2> QED BY <2>1, <2>2, <2>3 DEF LineInv
<1>4. CASE HistoryDown
  <2>1. hist \in Nat /\ hist > 0 /\ hist' = hist - 1 /\ UNCHANGED <<comp, history, typed>>
    BY <1>4 DEF HistoryDown, LineInv
  <2>2. CASE hist = 1
    BY <1>4, <2>1, <2>2 DEF HistoryDown, LineInv
  <2>3. CASE hist # 1
    <3>1. hist' \in 1..Len(history) /\ input' = Back(hist') /\ draft' = draft
      BY <1>4, <2>1, <2>3 DEF HistoryDown, LineInv
    <3>2. Back(hist') \in Lines
      BY <3>1, Recalled
    <3> QED BY <2>1, <3>1, <3>2 DEF LineInv
  <2> QED BY <2>2, <2>3
<1>5. CASE EscLine
  BY <1>5 DEF EscLine, LineInv
<1>6. CASE Enter
  <2>1. UNCHANGED <<draft, typed>> /\ input' = Empty
    BY <1>6 DEF Enter, ClearInput
  <2>2. CASE input = Empty
    BY <1>6, <2>1, <2>2 DEF Enter, ClearInput, LineInv
  <2>3. CASE input # Empty
    <3>1. PushHistory
      BY <1>6, <2>3 DEF Enter
    <3>2. /\ history' \in Seq(Lines) /\ Len(history') <= MaxHistory
          /\ Len(history) <= Len(history')
      BY <2>3, <3>1, Grows
    <3>3. Len(history) \in Nat /\ Len(history') \in Nat
      BY <3>2 DEF LineInv
    <3>4. (hist' = hist /\ comp' = comp) \/ (hist' = 0 /\ comp' = FALSE)
      BY <1>6, <2>3 DEF Enter, ClearInput
    <3> QED BY <2>1, <3>2, <3>3, <3>4 DEF LineInv
  <2> QED BY <2>2, <2>3
<1> QED BY <1>1, <1>2, <1>3, <1>4, <1>5, <1>6 DEF PromptNext


(* Whether completions are offered.                                         *)
Offered == comp \in BOOLEAN
LEMMA OfferStep == Offered /\ PromptNext => Offered'
BY DEF Offered, PromptNext, Edit, RefreshCompletion, ApplyCompletion, HistoryUp, HistoryDown, EscLine,
       Enter, ClearInput

LEMMA LineTypes == LineInv /\ Offered => PromptTypeOK
<1> SUFFICES ASSUME LineInv, Offered PROVE PromptTypeOK
  OBVIOUS
<1>1. Len(history) \in 0..MaxHistory /\ hist \in 0..MaxHistory
  BY PromptAssumption DEF LineInv
<1>2. history \in [1..Len(history) -> Lines]
  BY DEF LineInv
<1>3. history \in BoundedSeq(Lines, MaxHistory)
  BY <1>1, <1>2 DEF BoundedSeq, SeqOf
<1> QED BY <1>1, <1>3 DEF LineInv, Offered, PromptTypeOK

-----------------------------------------------------------------------------
(* Lists one can go around in, and lists one entry of which is taken out.   *)

LEMMA AroundStays ==
    ASSUME NEW n \in Nat \ {0}, NEW i \in Nat \ {0}
    PROVE  Around(i, n) \subseteq 1..n
<1>1. i % n \in 0..(n - 1)
  OBVIOUS
<1>2. i + n - 2 \in Nat
  OBVIOUS
<1>3. (i + n - 2) % n \in 0..(n - 1)
  BY <1>2
<1> QED BY <1>1, <1>3 DEF Around

LEMMA Taken ==
    ASSUME NEW s \in Seq(Accounts), NEW k \in 1..Len(s)
    PROVE  RemoveAt(s, k) \in Seq(Accounts) /\ Len(RemoveAt(s, k)) = Len(s) - 1
<1> DEFINE front == SubSeq(s, 1, k - 1)
           back == SubSeq(s, k + 1, Len(s))
<1>1. front \in Seq(Accounts) /\ Len(front) = k - 1
  OBVIOUS
<1>2. back \in Seq(Accounts) /\ Len(back) = Len(s) - k
  OBVIOUS
<1>3. RemoveAt(s, k) = front \o back
  BY DEF RemoveAt
<1> HIDE DEF front, back
<1>4. front \o back \in Seq(Accounts) /\ Len(front \o back) = Len(front) + Len(back)
  BY <1>1, <1>2, ConcatProperties
<1> QED BY <1>1, <1>2, <1>3, <1>4

LEMMA Listed == SetToSeq(Accounts) \in Seq(Accounts) /\ SetToSeq(Accounts) # <<>>
<1>1. PICK n \in Nat : ExistsBijection(1..n, Accounts)
  BY KeysAssumption, FS_NatBijection
<1>2. Cardinality(Accounts) = n
  BY <1>1, FS_CountingElements
<1>3. n # 0
  BY <1>2, KeysAssumption, FS_EmptySet
<1>4. PICK f : f \in [1..n -> Accounts] /\ IsInjective(f)
  BY <1>1 DEF ExistsBijection, Bijection, Injection
<1>5. SetToSeq(Accounts) \in [1..n -> Accounts]
  BY <1>2, <1>4 DEF SetToSeq
<1> QED BY <1>3, <1>5

-----------------------------------------------------------------------------
(* A few Esc lead out.  A wizard stands over nothing else.                  *)

Alone(u) == u.stage = "wizard" => /\ u.picker = "none"
                                  /\ ~u.npc /\ ~u.shop /\ ~u.board /\ ~u.help /\ ~u.bag
One(b) == IF b THEN 1 ELSE 0
(* How many Esc are needed.                                                 *)
Pile(u) ==
    IF u.stage = "wizard" THEN 1
    ELSE One(u.npc) + One(u.shop) + One(u.shop /\ u.qty > 0) + One(u.board) + One(u.help) + One(u.bag)

LEMMA EscTakesOne ==
    ASSUME NEW u \in Screen, Alone(u), u.picker = "none"
    PROVE  /\ Esc(u) \in Screen /\ Alone(Esc(u)) /\ Esc(u).picker = "none" /\ Esc(u).stage = "running"
           /\ Pile(Esc(u)) = IF Pile(u) = 0 THEN 0 ELSE Pile(u) - 1
<1>0. u.qty \in Nat
  BY KeysAssumption DEF Screen
<1>1. CASE u.stage = "wizard"
  <2>1. Layer(u) = "wizard"
    BY <1>1 DEF Layer, Screen
  <2>2. Esc(u) = [u EXCEPT !.stage = "running", !.target = NoOne]
    BY <2>1 DEF Esc
  <2>3. Esc(u) \in Screen
    BY <2>2 DEF Screen
  <2>4. Alone(Esc(u)) /\ Esc(u).picker = "none" /\ Esc(u).stage = "running"
    BY <1>1, <2>2 DEF Alone, Screen
  <2>5. Pile(u) = 1 /\ Pile(Esc(u)) = 0
    BY <1>1, <2>2 DEF Alone, Screen, Pile, One
  <2> QED BY <2>3, <2>4, <2>5
<1>2. CASE u.stage # "wizard" /\ u.npc
  <2>1. Layer(u) = "npc"
    BY <1>2 DEF Layer, Screen
  <2>2. Esc(u) = [u EXCEPT !.npc = FALSE]
    BY <2>1 DEF Esc
  <2>3. Esc(u) \in Screen
    BY <2>2 DEF Screen
  <2>4. Alone(Esc(u)) /\ Esc(u).picker = "none" /\ Esc(u).stage = "running"
    BY <1>2, <2>2 DEF Alone, Screen
  <2>5. Pile(u) # 0 /\ Pile(Esc(u)) = Pile(u) - 1
    BY <1>2, <2>2 DEF Alone, Screen, Pile, One
  <2> QED BY <2>3, <2>4, <2>5
<1>3. CASE u.stage # "wizard" /\ ~u.npc /\ ~u.shop /\ u.board
  <2>1. Layer(u) = "board"
    BY <1>3 DEF Layer, Screen
  <2>2. Esc(u) = [u EXCEPT !.board = FALSE]
    BY <2>1 DEF Esc
  <2>3. Esc(u) \in Screen
    BY <2>2 DEF Screen
  <2>4. Alone(Esc(u)) /\ Esc(u).picker = "none" /\ Esc(u).stage = "running"
    BY <1>3, <2>2 DEF Alone, Screen
  <2>5. Pile(u) # 0 /\ Pile(Esc(u)) = Pile(u) - 1
    BY <1>3, <2>2 DEF Alone, Screen, Pile, One
  <2> QED BY <2>3, <2>4, <2>5
<1>4. CASE u.stage # "wizard" /\ ~u.npc /\ ~u.shop /\ ~u.board /\ u.help
  <2>1. Layer(u) = "help"
    BY <1>4 DEF Layer, Screen
  <2>2. Esc(u) = [u EXCEPT !.help = FALSE]
    BY <2>1 DEF Esc
  <2>3. Esc(u) \in Screen
    BY <2>2 DEF Screen
  <2>4. Alone(Esc(u)) /\ Esc(u).picker = "none" /\ Esc(u).stage = "running"
    BY <1>4, <2>2 DEF Alone, Screen
  <2>5. Pile(u) # 0 /\ Pile(Esc(u)) = Pile(u) - 1
    BY <1>4, <2>2 DEF Alone, Screen, Pile, One
  <2> QED BY <2>3, <2>4, <2>5
<1>5. CASE u.stage # "wizard" /\ ~u.npc /\ ~u.shop /\ ~u.board /\ ~u.help /\ u.bag
  <2>1. Layer(u) = "bag"
    BY <1>5 DEF Layer, Screen
  <2>2. Esc(u) = [u EXCEPT !.bag = FALSE]
    BY <2>1 DEF Esc
  <2>3. Esc(u) \in Screen
    BY <2>2 DEF Screen
  <2>4. Alone(Esc(u)) /\ Esc(u).picker = "none" /\ Esc(u).stage = "running"
    BY <1>5, <2>2 DEF Alone, Screen
  <2>5. Pile(u) # 0 /\ Pile(Esc(u)) = Pile(u) - 1
    BY <1>5, <2>2 DEF Alone, Screen, Pile, One
  <2> QED BY <2>3, <2>4, <2>5
<1>6. CASE u.stage # "wizard" /\ ~u.npc /\ u.shop
  <2>1. Layer(u) = "shop"
    BY <1>6 DEF Layer, Screen
  <2>2. Esc(u) = IF u.qty > 0 THEN [u EXCEPT !.qty = 0] ELSE [u EXCEPT !.shop = FALSE]
    BY <2>1 DEF Esc
  <2>3. Esc(u) \in Screen
    <3>1. 0 \in 0..MaxDigits
      BY KeysAssumption
    <3>2. [u EXCEPT !.qty = 0] \in Screen
      BY <3>1 DEF Screen
    <3>3. [u EXCEPT !.shop = FALSE] \in Screen
      BY DEF Screen
    <3> QED BY <2>2, <3>2, <3>3
  <2>4. Alone(Esc(u)) /\ Esc(u).picker = "none" /\ Esc(u).stage = "running"
    BY <1>6, <2>2 DEF Alone, Screen
  <2>5. Pile(u) # 0 /\ Pile(Esc(u)) = Pile(u) - 1
    BY <1>6, <2>2 DEF Alone, Screen, Pile, One
  <2> QED BY <2>3, <2>4, <2>5
<1>7. CASE u.stage # "wizard" /\ ~u.npc /\ ~u.shop /\ ~u.board /\ ~u.help /\ ~u.bag
  <2>1. Layer(u) = "input"
    BY <1>7 DEF Layer, Screen
  <2>2. Esc(u) = u
    BY <2>1 DEF Esc
  <2>3. Esc(u) \in Screen
    BY <2>2 DEF Screen
  <2>4. Alone(Esc(u)) /\ Esc(u).picker = "none" /\ Esc(u).stage = "running"
    BY <1>7, <2>2 DEF Alone, Screen
  <2>5. Pile(u) = 0
    BY <1>7, <2>2 DEF Alone, Screen, Pile, One
  <2> QED BY <2>2, <2>3, <2>4, <2>5
<1> QED BY <1>1, <1>2, <1>3, <1>4, <1>5, <1>6, <1>7

LEMMA NoPile ==
    ASSUME NEW u \in Screen, u.picker = "none", Pile(u) = 0
    PROVE  Layer(u) = "input"
BY DEF Layer, Screen, Pile, One

LEMMA PileIsLow == ASSUME NEW u \in Screen PROVE Pile(u) \in 0..6
BY DEF Screen, Pile, One

(* The function that Escs is: six steps from the screen.                    *)
LEMMA EscsIs ==
    /\ Escs[0] = ui
    /\ \A k \in 1..6 : Escs[k] = Esc(Escs[k - 1])
<1> DEFINE e1 == Esc(ui)
           e2 == Esc(e1)
           e3 == Esc(e2)
           e4 == Esc(e3)
           e5 == Esc(e4)
           e6 == Esc(e5)
           g == [k \in 0..6 |-> IF k = 0 THEN ui ELSE IF k = 1 THEN e1 ELSE IF k = 2 THEN e2
                                ELSE IF k = 3 THEN e3 ELSE IF k = 4 THEN e4 ELSE IF k = 5 THEN e5 ELSE e6]
           h == [k \in 0..6 |-> IF k = 0 THEN ui ELSE Esc(g[k - 1])]
<1>1. e1 = Esc(ui) /\ e2 = Esc(e1) /\ e3 = Esc(e2) /\ e4 = Esc(e3) /\ e5 = Esc(e4) /\ e6 = Esc(e5)
  OBVIOUS
<1> HIDE DEF e1, e2, e3, e4, e5, e6
<1>2. /\ g[0] = ui /\ g[1] = e1 /\ g[2] = e2 /\ g[3] = e3 /\ g[4] = e4 /\ g[5] = e5 /\ g[6] = e6
  OBVIOUS
<1>3. ASSUME NEW k \in 0..6 PROVE g[k] = h[k]
  <2>1. k = 0 \/ k = 1 \/ k = 2 \/ k = 3 \/ k = 4 \/ k = 5 \/ k = 6
    OBVIOUS
  <2>2. h[k] = IF k = 0 THEN ui ELSE Esc(g[k - 1])
    OBVIOUS
  <2> HIDE DEF g, h
  <2>3. CASE k = 0
    BY <1>2, <2>2, <2>3
  <2>4. CASE k = 1
    <3>1. g[k - 1] = ui /\ g[k] = e1
      BY <1>2, <2>4
    <3> QED BY <1>1, <2>2, <2>4, <3>1
  <2>5. CASE k = 2
    <3>1. g[k - 1] = e1 /\ g[k] = e2
      BY <1>2, <2>5
    <3> QED BY <1>1, <2>2, <2>5, <3>1
  <2>6. CASE k = 3
    <3>1. g[k - 1] = e2 /\ g[k] = e3
      BY <1>2, <2>6
    <3> QED BY <1>1, <2>2, <2>6, <3>1
  <2>7. CASE k = 4
    <3>1. g[k - 1] = e3 /\ g[k] = e4
      BY <1>2, <2>7
    <3> QED BY <1>1, <2>2, <2>7, <3>1
  <2>8. CASE k = 5
    <3>1. g[k - 1] = e4 /\ g[k] = e5
      BY <1>2, <2>8
    <3> QED BY <1>1, <2>2, <2>8, <3>1
  <2>9. CASE k = 6
    <3>1. g[k - 1] = e5 /\ g[k] = e6
      BY <1>2, <2>9
    <3> QED BY <1>1, <2>2, <2>9, <3>1
  <2> QED BY <2>1, <2>3, <2>4, <2>5, <2>6, <2>7, <2>8, <2>9
<1>4. g = h
  BY <1>3
<1> HIDE DEF g
<1>5. \E f : f = [k \in 0..6 |-> IF k = 0 THEN ui ELSE Esc(f[k - 1])]
  BY <1>4
<1>6. Escs = [k \in 0..6 |-> IF k = 0 THEN ui ELSE Esc(Escs[k - 1])]
  BY <1>5 DEF Escs
<1> QED BY <1>6

LEMMA EscLeads ==
    ASSUME ui \in Screen, Alone(ui)
    PROVE  EscGetsOut
<1> SUFFICES ASSUME ui.picker = "none" PROVE Layer(Escs[6]) = "input"
  BY DEF EscGetsOut
<1> DEFINE Down(k) == /\ Escs[k] \in Screen /\ Alone(Escs[k]) /\ Escs[k].picker = "none"
                      /\ Pile(Escs[k]) <= 6 - k
<1>1. Down(0)
  BY EscsIs, PileIsLow
<1>2. ASSUME NEW k \in 0..5, Down(k) PROVE Down(k + 1)
  <2>1. Escs[k + 1] = Esc(Escs[k])
    BY EscsIs
  <2>2. Pile(Escs[k]) \in Nat
    BY <1>2, PileIsLow
  <2> QED BY <1>2, <2>1, <2>2, EscTakesOne
<1> HIDE DEF Down
<1>3. Down(1) /\ Down(2) /\ Down(3)
  BY <1>1, <1>2
<1>4. Down(4) /\ Down(5) /\ Down(6)
  BY <1>2, <1>3
<1> QED BY <1>4, NoPile, PileIsLow DEF Down

-----------------------------------------------------------------------------
(* The keys.  A list of worlds or characters has its rows; a picker stands  *)
(* for the phase the copy shows, or for the channels of a world.            *)

Rowed(v) == v.phase \in {"world", "char"} => v.rows = Rows
Picked(u, v) ==
    /\ u.picker \in {"world", "char"} => v.phase = u.picker
    /\ u.picker = "gender" => u.at <= 2
    /\ u.picker \in {"world", "channel", "char"} => u.at <= Rows

(* The account on the screen is the one the commands go to.                 *)
Pointed ==
    /\ order \in Seq(Accounts) /\ (order # <<>> => sel \in ToSet(order))
    /\ sel \in Accounts \cup {NoOne} /\ tx \in Accounts
    /\ tx = snap.of /\ (sel # NoOne => sel = snap.of)
Copied ==
    /\ bot \in [Accounts -> View] /\ (\A a \in Accounts : Rowed(bot[a]))
    /\ snap \in [of : Accounts, view : View] /\ Rowed(snap.view)
Piled ==
    /\ ui \in Screen /\ Alone(ui) /\ Picked(ui, snap.view)
    /\ ui.stage = "wizard" => ui.target = sel /\ sel # NoOne
Told == sent \in Commands /\ SentToItsOwner
Counted ==
    /\ interactive \in BOOLEAN /\ live \subseteq Accounts /\ known \subseteq Accounts
    /\ news \in 0..MaxNews

KeysInv == Pointed /\ Copied /\ Piled /\ Told /\ Counted

LEMMA KeysInvSays == KeysInv /\ LineInv /\ Offered => KeysSound
<1> SUFFICES ASSUME KeysInv, LineInv, Offered PROVE KeysSound
  OBVIOUS
<1>1. ToSet(order) \subseteq Accounts
  BY DEF KeysInv, Pointed, ToSet
<1>2. KeysTypeOK
  BY <1>1 DEF KeysInv, Pointed, Copied, Piled, Told, Counted, KeysTypeOK
<1>3. PromptTypeOK
  BY LineTypes
<1>4. EscGetsOut
  BY EscLeads DEF KeysInv, Piled
<1> QED BY <1>2, <1>3, <1>4 DEF KeysSound, TypeOK, KeysInv, Told

LEMMA Phased ==
    ASSUME NEW v \in View, NEW p \in Phases \ {"world", "char"}
    PROVE  [v EXCEPT !.phase = p] \in View /\ Rowed([v EXCEPT !.phase = p])
BY DEF View, Rowed

LEMMA KeysBegin == KeysInit => KeysInv
<1> SUFFICES ASSUME KeysInit PROVE KeysInv
  OBVIOUS
<1>1. order \in Seq(Accounts) /\ order # <<>>
  <2>1. \A a \in Accounts : <<a>> \in Seq(Accounts) /\ <<a>> # <<>>
    OBVIOUS
  <2>2. order \in {<<a>> : a \in Accounts} \/ order = SetToSeq(Accounts)
    BY DEF KeysInit
  <2> QED BY <2>1, <2>2, Listed
<1>2. sel = order[1] /\ sel \in Accounts /\ 1 \in DOMAIN order
  BY <1>1 DEF KeysInit
<1>3. Fresh \in View /\ Rowed(Fresh)
  BY KeysAssumption DEF Fresh, View, Lists, Phases, Rowed
<1>4. \A p \in {"play", "login"} : [Fresh EXCEPT !.phase = p] \in View /\ Rowed([Fresh EXCEPT !.phase = p])
  BY <1>3, Phased DEF Phases
<1>5. Fresh.phase = "play"
  BY DEF Fresh
<1>6. \A a \in Accounts : bot[a] \in View /\ Rowed(bot[a])
  BY <1>4, <1>5 DEF KeysInit
<1>7. Copied
  BY <1>2, <1>6 DEF KeysInit, Copied, Snapshot
<1>8. Pointed
  BY <1>1, <1>2 DEF KeysInit, Pointed, Snapshot, ToSet
<1>9. Piled
  <2>1. ui \in Screen
    BY KeysAssumption DEF KeysInit, Screen, Pickers
  <2> QED BY <2>1 DEF KeysInit, Piled, Alone, Picked
<1>10. Told
  BY DEF KeysInit, Told, Quiet, Commands, SentToItsOwner
<1>11. Counted
  BY <1>2, KeysAssumption DEF KeysInit, Counted
<1> QED BY <1>7, <1>8, <1>9, <1>10, <1>11 DEF KeysInv

(* A step that sends nothing, and one that sends what the copy shows.       *)
LEMMA NothingSent == Silent => Told'
BY DEF Silent, Quiet, Told, Commands, SentToItsOwner

LEMMA SentIsTold ==
    ASSUME Pointed, Copied, NEW kind \in {"line", "quit", "login", "reply", "buy", "bag"},
           NEW n \in Nat, NEW i \in 1..n, Send(kind, i, n)
    PROVE  Told'
BY DEF Pointed, Copied, Send, Told, Commands, SentToItsOwner

LEMMA BotShowsKeeps == KeysInv /\ BotShows => KeysInv'
<1> SUFFICES ASSUME KeysInv, BotShows PROVE KeysInv'
  OBVIOUS
<1>1. UNCHANGED <<interactive, order, sel, live, known, tx, snap, ui>> /\ Silent
  BY DEF BotShows
<1>2. ASSUME NEW v \in View, Rowed(v)
      PROVE  /\ Advance(v) \in View /\ Rowed(Advance(v))
             /\ Drop(v) \in View /\ Rowed(Drop(v))
             /\ v.phase = "play" => \A w \in InGame(v) : w \in View /\ Rowed(w)
  <2>1. Advance(v) \in View /\ Rowed(Advance(v))
    <3>1. Rows \in Lists /\ 0 \in Lists
      BY KeysAssumption DEF Lists
    <3>2. CASE v.phase = "login"
      <4>1. Advance(v) = [v EXCEPT !.phase = "gender"]
        BY <3>2 DEF Advance
      <4> QED BY <4>1, Phased DEF Phases
    <3>3. ASSUME NEW p \in {"world", "char"}
          PROVE  LET w == [v EXCEPT !.phase = p, !.rows = Rows] IN w \in View /\ Rowed(w)
      BY <3>1 DEF View, Phases, Rowed
    <3>4. CASE v.phase = "gender"
      <4>1. Advance(v) = [v EXCEPT !.phase = "world", !.rows = Rows]
        BY <3>4 DEF Advance
      <4> QED BY <3>3, <4>1
    <3>5. CASE v.phase = "world"
      <4>1. Advance(v) = [v EXCEPT !.phase = "char", !.rows = Rows]
        BY <3>5 DEF Advance
      <4> QED BY <3>3, <4>1
    <3>6. CASE v.phase \notin {"login", "gender", "world"}
      <4>1. Advance(v) = [v EXCEPT !.phase = "play", !.rows = 0]
        BY <3>6 DEF Advance
      <4>2. Advance(v) \in View
        BY <3>1, <4>1 DEF View, Phases
      <4>3. Advance(v).phase = "play"
        BY <4>1 DEF View
      <4> QED BY <4>2, <4>3 DEF Rowed
    <3> QED BY <3>2, <3>4, <3>5, <3>6
  <2>2. Drop(v) \in View /\ Rowed(Drop(v))
    <3>1. 0 \in Lists /\ 0 \in 0..ShopRows /\ v.seq + 1 \in Nat /\ v.wseq + 1 \in Nat
      BY KeysAssumption DEF Lists, View
    <3>2. PICK p \in {"login", "play"} :
             Drop(v) = [v EXCEPT !.phase = p, !.rows = 0, !.menu = 0,
                                 !.seq = v.seq + 1, !.wares = 0, !.wseq = v.wseq + 1]
      BY DEF Drop
    <3>3. Drop(v) \in View
      BY <3>1, <3>2 DEF View, Phases
    <3>4. Drop(v).phase = p
      BY <3>2 DEF View
    <3> QED BY <3>3, <3>4 DEF Rowed
  <2>3. ASSUME v.phase = "play", NEW w \in InGame(v) PROVE w \in View /\ Rowed(w)
    <3>1. 0 \in Lists /\ v.seq + 1 \in Nat /\ v.wseq + 1 \in Nat
      BY KeysAssumption DEF Lists, View
    <3>2. CASE \E n \in Lists : w = [v EXCEPT !.menu = n, !.seq = v.seq + 1]
      BY <2>3, <3>1, <3>2 DEF View, Rowed
    <3>3. CASE \E n \in 0..ShopRows :
                 w = [v EXCEPT !.wares = n, !.wseq = v.wseq + 1, !.menu = 0, !.seq = v.seq + 1]
      <4>1. PICK n \in 0..ShopRows :
               w = [v EXCEPT !.wares = n, !.wseq = v.wseq + 1, !.menu = 0, !.seq = v.seq + 1]
        BY <3>3
      <4>2. w \in View
        BY <3>1, <4>1 DEF View
      <4>3. w.phase = "play"
        BY <2>3, <4>1 DEF View
      <4> QED BY <4>2, <4>3 DEF Rowed
    <3>4. CASE w = [v EXCEPT !.busy = ~v.busy]
      <4>1. v.busy \in BOOLEAN
        BY DEF View
      <4>2. PICK b \in BOOLEAN : w = [v EXCEPT !.busy = b]
        BY <3>4, <4>1
      <4> QED BY <2>3, <4>2 DEF View, Rowed
    <3>5. CASE \E n \in 0..1 : w = [v EXCEPT !.gear = n] \/ w = [v EXCEPT !.goods = n]
      BY <2>3, <3>5 DEF View, Rowed
    <3> QED BY <2>3, <3>2, <3>3, <3>4, <3>5 DEF InGame
  <2> QED BY <2>1, <2>2, <2>3
<1>3. PICK a \in live :
        \/ bot[a].phase # "play" /\ bot' = [bot EXCEPT ![a] = Advance(@)] /\ UNCHANGED news
        \/ /\ news < MaxNews /\ news' = news + 1
           /\ \E v \in {Drop(bot[a])} \cup IF bot[a].phase = "play" THEN InGame(bot[a]) ELSE {} :
                bot' = [bot EXCEPT ![a] = v]
  BY DEF BotShows
<1>4. a \in Accounts /\ bot \in [Accounts -> View] /\ Rowed(bot[a])
  BY DEF KeysInv, Copied, Counted
<1>5. \E v \in View : Rowed(v) /\ bot' = [bot EXCEPT ![a] = v]
  BY <1>2, <1>3, <1>4
<1>6. Copied'
  BY <1>1, <1>4, <1>5 DEF KeysInv, Copied
<1>7. Counted'
  BY <1>1, <1>3, KeysAssumption DEF KeysInv, Counted
<1> QED BY <1>1, <1>6, <1>7, NothingSent DEF KeysInv, Pointed, Piled

(* A frame: what the three checks make of a screen.                         *)
Fits(u, v) == u \in Screen /\ Alone(u) /\ Picked(u, v)
SameWizard(u, w) == w.stage = u.stage /\ w.target = u.target

LEMMA PickerKeeps ==
    ASSUME NEW s \in [of : Accounts, view : View], Rowed(s.view), NEW u \in Screen, Fits(u, s.view)
    PROVE  Fits(AutoPicker(s, u), s.view) /\ SameWizard(u, AutoPicker(s, u))
<1>1. 1 \in 1..(Rows + 1) /\ 1 <= Rows
  BY KeysAssumption
<1>2. CASE AutoPicker(s, u) = u
  BY <1>2 DEF SameWizard
<1>3. CASE AutoPicker(s, u) # u
  <2>1. u.stage = "running"
    BY <1>3 DEF AutoPicker, Screen
  <2>2. PICK p \in {"gender", "world", "char"} :
           /\ AutoPicker(s, u) = [u EXCEPT !.picker = p, !.at = 1]
           /\ p \in {"world", "char"} => s.view.phase = p
    BY <1>3 DEF AutoPicker
  <2>3. AutoPicker(s, u) \in Screen
    BY <1>1, <2>2 DEF Screen, Pickers
  <2>4. AutoPicker(s, u).picker = p /\ AutoPicker(s, u).at = 1 /\ SameWizard(u, AutoPicker(s, u))
    BY <2>2 DEF Screen, SameWizard
  <2> QED BY <1>1, <2>1, <2>2, <2>3, <2>4 DEF Fits, Alone, Picked, SameWizard
<1> QED BY <1>2, <1>3

LEMMA NpcKeeps ==
    ASSUME NEW s \in [of : Accounts, view : View], NEW u \in Screen, Fits(u, s.view)
    PROVE  Fits(AutoNpcPick(s, u), s.view) /\ SameWizard(u, AutoNpcPick(s, u))
<1>1. 1 \in 1..Rows /\ s.view.seq \in Nat /\ (s.view.menu > 0) \in BOOLEAN
  BY KeysAssumption DEF View
<1>2. CASE AutoNpcPick(s, u) = u
  BY <1>2 DEF SameWizard
<1>3. CASE AutoNpcPick(s, u) # u
  <2>1. u.stage = "running"
    BY <1>3 DEF AutoNpcPick, Screen
  <2> DEFINE w == AutoNpcPick(s, u)
  <2>2. \/ w = [u EXCEPT !.npc = FALSE]
        \/ w = [u EXCEPT !.npcSeen = s.view.seq, !.npc = s.view.menu > 0, !.npcAt = 1]
    BY <1>3 DEF AutoNpcPick
  <2> HIDE DEF w
  <2>3. PICK b \in BOOLEAN, n \in Nat, k \in 1..Rows : w = [u EXCEPT !.npcSeen = n, !.npc = b, !.npcAt = k]
    <3>1. u.npcSeen \in Nat /\ u.npcAt \in 1..Rows
      BY DEF Screen
    <3>2. CASE w = [u EXCEPT !.npc = FALSE]
      <4>1. w = [u EXCEPT !.npcSeen = u.npcSeen, !.npc = FALSE, !.npcAt = u.npcAt]
        BY <3>2 DEF Screen
      <4> QED BY <3>1, <4>1
    <3>3. CASE w = [u EXCEPT !.npcSeen = s.view.seq, !.npc = s.view.menu > 0, !.npcAt = 1]
      BY <1>1, <3>3, Zenon
    <3> QED BY <2>2, <3>2, <3>3
  <2>4. w \in Screen
    BY <2>3 DEF Screen
  <2>5. w.picker = u.picker /\ w.at = u.at /\ SameWizard(u, w)
    BY <2>3 DEF Screen, SameWizard
  <2>6. Fits(w, s.view)
    BY <2>1, <2>4, <2>5 DEF Fits, Alone, Picked, SameWizard
  <2> QED BY <2>5, <2>6 DEF w
<1> QED BY <1>2, <1>3

LEMMA ShopKeeps ==
    ASSUME NEW s \in [of : Accounts, view : View], NEW u \in Screen, Fits(u, s.view)
    PROVE  Fits(AutoShopPick(s, u), s.view) /\ SameWizard(u, AutoShopPick(s, u))
<1>1. 1 \in 1..ShopRows /\ 0 \in 0..MaxDigits /\ s.view.wseq \in Nat /\ (s.view.wares > 0) \in BOOLEAN
  BY KeysAssumption DEF View
<1>2. CASE AutoShopPick(s, u) = u
  BY <1>2 DEF SameWizard
<1>3. CASE AutoShopPick(s, u) # u
  <2>1. u.stage = "running"
    BY <1>3 DEF AutoShopPick, Screen
  <2> DEFINE w == AutoShopPick(s, u)
  <2>2. \/ \E q \in {0, u.qty} : w = [u EXCEPT !.shop = FALSE, !.qty = q]
        \/ w = [u EXCEPT !.shopSeen = s.view.wseq, !.shop = s.view.wares > 0, !.qty = 0, !.shopAt = 1]
    BY <1>3 DEF AutoShopPick
  <2> HIDE DEF w
  <2>3. PICK b \in BOOLEAN, n \in Nat, q \in 0..MaxDigits, k \in 1..ShopRows :
            w = [u EXCEPT !.shopSeen = n, !.shop = b, !.qty = q, !.shopAt = k]
    <3>1. u.shopSeen \in Nat /\ u.shopAt \in 1..ShopRows /\ u.qty \in 0..MaxDigits
      BY DEF Screen
    <3>2. CASE \E q \in {0, u.qty} : w = [u EXCEPT !.shop = FALSE, !.qty = q]
      <4>1. PICK q \in {0, u.qty} : w = [u EXCEPT !.shop = FALSE, !.qty = q]
        BY <3>2
      <4>2. w = [u EXCEPT !.shopSeen = u.shopSeen, !.shop = FALSE, !.qty = q, !.shopAt = u.shopAt]
        BY <4>1 DEF Screen
      <4>3. q \in 0..MaxDigits
        BY <1>1, <3>1, <4>1
      <4> QED BY <3>1, <4>2, <4>3, Zenon
    <3>3. CASE w = [u EXCEPT !.shopSeen = s.view.wseq, !.shop = s.view.wares > 0, !.qty = 0, !.shopAt = 1]
      BY <1>1, <3>3, Zenon
    <3> QED BY <2>2, <3>2, <3>3
  <2>4. w \in Screen
    BY <2>3 DEF Screen
  <2>5. w.picker = u.picker /\ w.at = u.at /\ SameWizard(u, w)
    BY <2>3 DEF Screen, SameWizard
  <2>6. Fits(w, s.view)
    BY <2>1, <2>4, <2>5 DEF Fits, Alone, Picked, SameWizard
  <2> QED BY <2>5, <2>6 DEF w
<1> QED BY <1>2, <1>3

LEMMA FrameKeeps == KeysInv /\ Frame => KeysInv'
<1> SUFFICES ASSUME KeysInv, Frame PROVE KeysInv'
  OBVIOUS
<1>1. PICK s \in {snap, Snapshot(snap.of)} :
        /\ snap' = s
        /\ ui' = LET u == IF s.view.phase # snap.view.phase THEN [ui EXCEPT !.picker = "none"] ELSE ui
                 IN  AutoShopPick(s, AutoNpcPick(s, AutoPicker(s, u)))
        /\ UNCHANGED <<interactive, order, sel, bot, live, known, tx, news>> /\ Silent
  BY DEF Frame
<1>2. s \in [of : Accounts, view : View] /\ Rowed(s.view) /\ s.of = snap.of
  BY DEF KeysInv, Copied, Snapshot
<1> DEFINE u == IF s.view.phase # snap.view.phase THEN [ui EXCEPT !.picker = "none"] ELSE ui
           u1 == AutoPicker(s, u)
           u2 == AutoNpcPick(s, u1)
           u3 == AutoShopPick(s, u2)
<1>3. Fits(u, s.view) /\ SameWizard(ui, u)
  <2>1. CASE s.view.phase = snap.view.phase
    BY <2>1 DEF KeysInv, Piled, Fits, SameWizard, Picked
  <2>2. CASE s.view.phase # snap.view.phase
    <3>1. u = [ui EXCEPT !.picker = "none"] /\ ui \in Screen
      BY <2>2 DEF KeysInv, Piled
    <3>2. u \in Screen /\ u.picker = "none" /\ SameWizard(ui, u)
      BY <3>1 DEF Screen, Pickers, SameWizard
    <3>3. Alone(u)
      BY <3>1 DEF KeysInv, Piled, Alone, Screen
    <3> QED BY <3>2, <3>3 DEF Fits, Picked
  <2> QED BY <2>1, <2>2
<1> HIDE DEF u
<1>4. Fits(u1, s.view) /\ SameWizard(u, u1)
  BY <1>2, <1>3, PickerKeeps DEF Fits
<1> HIDE DEF u1
<1>5. Fits(u2, s.view) /\ SameWizard(u1, u2)
  BY <1>2, <1>4, NpcKeeps DEF Fits
<1> HIDE DEF u2
<1>6. Fits(u3, s.view) /\ SameWizard(u2, u3)
  BY <1>2, <1>5, ShopKeeps DEF Fits
<1>7. ui' = u3
  BY <1>1 DEF u, u1, u2
<1> HIDE DEF u3
<1>8. Piled'
  BY <1>1, <1>3, <1>4, <1>5, <1>6, <1>7 DEF KeysInv, Piled, Fits, SameWizard
<1>9. Pointed' /\ Copied' /\ Counted'
  BY <1>1, <1>2 DEF KeysInv, Pointed, Copied, Counted
<1> QED BY <1>1, <1>8, <1>9, NothingSent DEF KeysInv

(* What the layer of a key says of the screen.                              *)
LEMMA OnSays ==
    ASSUME ui \in Screen
    PROVE  /\ On("wizard") => ui.stage = "wizard"
           /\ \A layer \in {"picker", "npc", "shop", "board", "help", "bag", "input"} :
                  On(layer) => ui.stage = "running"
           /\ \A layer \in {"npc", "shop", "board", "help", "bag", "input"} :
                  On(layer) => ui.picker = "none"
           /\ On("picker") => ui.picker # "none"
           /\ On("input") => ~ui.npc /\ ~ui.shop /\ ~ui.board /\ ~ui.help /\ ~ui.bag
BY DEF On, Layer, Screen

(* A key that changes the screen at most.                                   *)
LEMMA Redrawn ==
    ASSUME KeysInv, UNCHANGED <<interactive, order, sel, bot, live, known, tx, snap, news>>,
           Told', Fits(ui', snap.view), ui'.stage = "wizard" => ui'.target = sel /\ sel # NoOne
    PROVE  KeysInv'
BY DEF KeysInv, Pointed, Copied, Piled, Counted, Fits

(* So on a screen that runs and shows no picker.                            *)
LEMMA RedrawnRunning ==
    ASSUME KeysInv, UNCHANGED <<interactive, order, sel, bot, live, known, tx, snap, news>>,
           Told', ui' \in Screen, ui'.stage = "running", ui'.picker = "none"
    PROVE  KeysInv'
<1>1. Fits(ui', snap.view)
  BY DEF Fits, Alone, Picked
<1> QED BY <1>1, Redrawn

LEMMA AsItWas ==
    ASSUME KeysInv, UNCHANGED <<interactive, order, sel, bot, live, known, tx, snap, news>>,
           Told', UNCHANGED ui
    PROVE  KeysInv'
BY DEF KeysInv, Pointed, Copied, Piled, Counted

LEMMA EscKeeps == KeysInv /\ PressEsc => KeysInv'
<1> SUFFICES ASSUME KeysInv, PressEsc PROVE KeysInv'
  OBVIOUS
<1>1. /\ ui' = Esc(ui)
      /\ UNCHANGED <<interactive, order, sel, bot, live, known, tx, snap, news>>
  BY DEF PressEsc
<1>2. Told'
  BY NothingSent DEF PressEsc
<1>3. ui \in Screen /\ Alone(ui)
  BY DEF KeysInv, Piled
<1>4. CASE ui.picker = "none"
  <2>1. Esc(ui) \in Screen /\ Esc(ui).picker = "none" /\ Esc(ui).stage = "running"
    BY <1>3, <1>4, EscTakesOne
  <2> QED BY <1>1, <1>2, <2>1, RedrawnRunning
<1>5. CASE ui.picker # "none"
  <2>1. Layer(ui) = "picker"
    BY <1>3, <1>5 DEF Layer, Alone
  <2>2. Esc(ui) = ui
    BY <2>1 DEF Esc
  <2> QED BY <1>1, <1>2, <2>2, AsItWas
<1> QED BY <1>4, <1>5

LEMMA CtrlCKeeps == KeysInv /\ OnCtrlC => KeysInv'
<1> SUFFICES ASSUME KeysInv, OnCtrlC PROVE KeysInv'
  OBVIOUS
<1>1. UNCHANGED <<interactive, order, sel, bot, live, known, tx, snap, news>>
  BY DEF OnCtrlC
<1>2. CASE Send("quit", 1, 1) /\ UNCHANGED ui
  <2>1. Told'
    BY <1>2, SentIsTold DEF KeysInv
  <2> QED BY <1>1, <1>2, <2>1, AsItWas
<1>3. CASE ui' = [ui EXCEPT !.forceQuit = TRUE] /\ Silent
  <2>1. ui' \in Screen /\ SameWizard(ui, ui') /\ ui'.picker = ui.picker /\ ui'.at = ui.at
    BY <1>3 DEF KeysInv, Piled, Screen, SameWizard
  <2>2. Alone(ui')
    BY <1>3 DEF KeysInv, Piled, Alone, Screen
  <2>3. Fits(ui', snap.view)
    BY <2>1, <2>2 DEF KeysInv, Piled, Fits, Picked
  <2>4. ui'.stage = "wizard" => ui'.target = sel /\ sel # NoOne
    BY <2>1 DEF KeysInv, Piled, SameWizard
  <2> QED BY <1>1, <1>3, <2>3, <2>4, NothingSent, Redrawn
<1> QED BY <1>2, <1>3 DEF OnCtrlC

LEMMA EntryExists ==
    ASSUME KeysInv, On("picker")
    PROVE  PickerLength \in Nat \ {0} /\ ui.at \in 1..PickerLength /\ PickerLength <= Rows + 1
           /\ \A i \in 1..PickerLength : Picked([ui EXCEPT !.at = i], snap.view)
<1>0. ui \in Screen /\ Picked(ui, snap.view) /\ Rowed(snap.view)
  BY DEF KeysInv, Piled, Copied
<1>1. ui \in Screen /\ Picked(ui, snap.view) /\ Rowed(snap.view) /\ ui.at \in 1..(Rows + 1)
  BY <1>0 DEF Screen
<1>2. Rows \in Nat \ {0}
  BY KeysAssumption
<1>3. ui.picker \in {"gender", "world", "channel", "char"}
  BY <1>1, OnSays DEF Screen, Pickers
<1>4. PickerLength = IF ui.picker = "gender" THEN 2 ELSE Rows
  BY <1>1, <1>2, <1>3 DEF PickerLength, Picked, Rowed
<1>5. ui.at <= PickerLength
  BY <1>1, <1>3, <1>4 DEF Picked
<1>6. ASSUME NEW i \in 1..PickerLength PROVE Picked([ui EXCEPT !.at = i], snap.view)
  <2>1. [ui EXCEPT !.at = i].picker = ui.picker /\ [ui EXCEPT !.at = i].at = i
    BY <1>1 DEF Screen
  <2>2. ui.picker \in {"world", "char"} => snap.view.phase = ui.picker
    BY <1>1 DEF Picked
  <2> QED BY <1>2, <1>3, <1>4, <2>1, <2>2 DEF Picked
<1> QED BY <1>1, <1>2, <1>4, <1>5, <1>6

LEMMA PickerKeys ==
    ASSUME KeysInv, PickerMove \/ PickerConfirm,
           UNCHANGED <<interactive, order, sel, bot, live, known, tx, snap, news>>
    PROVE  KeysInv'
<1>0. On("picker") /\ ui \in Screen /\ ui.stage = "running"
  BY OnSays DEF KeysInv, Piled, PickerMove, PickerConfirm
<1> DEFINE n == PickerLength
<1>a. n \in Nat \ {0} /\ ui.at \in 1..n /\ n <= Rows + 1
  BY <1>0, EntryExists
<1>b. \A i \in 1..n : Picked([ui EXCEPT !.at = i], snap.view)
  BY <1>0, EntryExists
<1> HIDE DEF n
<1>1. CASE PickerMove
  <2>1. Silent /\ \E i \in Around(ui.at, n) : ui' = [ui EXCEPT !.at = i]
    BY <1>1 DEF PickerMove, n
  <2>2. Around(ui.at, n) \subseteq 1..n
    BY <1>a, AroundStays
  <2>3. PICK i \in 1..n : ui' = [ui EXCEPT !.at = i]
    BY <2>1, <2>2
  <2>4. i \in 1..(Rows + 1)
    BY <1>a, KeysAssumption
  <2>5. ui' \in Screen /\ ui'.stage = "running"
    BY <1>0, <2>3, <2>4 DEF Screen
  <2>6. Picked(ui', snap.view)
    BY <1>b, <2>3
  <2>7. Fits(ui', snap.view)
    BY <2>5, <2>6 DEF Fits, Alone
  <2> QED BY <2>1, <2>5, <2>7, NothingSent, Redrawn
<1>2. CASE ui' = [ui EXCEPT !.picker = "channel", !.at = 1] /\ Silent
  <2>1. 1 \in 1..(Rows + 1) /\ 1 <= Rows
    BY KeysAssumption
  <2>2. ui' \in Screen /\ ui'.stage = "running" /\ ui'.picker = "channel" /\ ui'.at = 1
    BY <1>0, <1>2, <2>1 DEF Screen, Pickers
  <2>3. Fits(ui', snap.view)
    BY <2>1, <2>2 DEF Fits, Alone, Picked
  <2> QED BY <1>2, <2>2, <2>3, NothingSent, Redrawn
<1>3. CASE UNCHANGED ui /\ Send("login", ui.at, PickerLength)
  <2>1. Send("login", ui.at, n)
    BY <1>3 DEF n
  <2>2. Told'
    BY <1>a, <2>1, SentIsTold DEF KeysInv
  <2> QED BY <1>3, <2>2, AsItWas
<1> QED BY <1>1, <1>2, <1>3 DEF PickerConfirm

LEMMA NpcKeys ==
    ASSUME KeysInv, NpcPickMove \/ NpcPickConfirm,
           UNCHANGED <<interactive, order, sel, bot, live, known, tx, snap, news>>
    PROVE  KeysInv'
<1>0. On("npc") /\ ui \in Screen /\ ui.stage = "running" /\ ui.picker = "none"
  BY OnSays DEF KeysInv, Piled, NpcPickMove, NpcPickConfirm
<1>1. /\ snap.view.menu \in 0..Rows /\ snap.view.seq \in Nat /\ Rows \in Nat
      /\ ui.npcAt \in 1..Rows
  BY <1>0, KeysAssumption DEF KeysInv, Copied, View, Lists, Screen
<1>2. CASE NpcPickMove
  <2>1. snap.view.menu \in Nat \ {0} /\ ui.npcAt \in Nat \ {0}
    BY <1>1, <1>2 DEF NpcPickMove
  <2>2. PICK i \in 1..snap.view.menu : ui' = [ui EXCEPT !.npcAt = i]
    BY <1>2, <2>1, AroundStays DEF NpcPickMove
  <2>3. i \in 1..Rows
    BY <1>1
  <2>4. ui' \in Screen /\ ui'.stage = "running" /\ ui'.picker = "none"
    BY <1>0, <2>2, <2>3 DEF Screen
  <2> QED BY <1>2, <2>4, NothingSent, RedrawnRunning DEF NpcPickMove
<1>3. CASE NpcPickConfirm
  <2>1. Send("reply", ui.npcAt, snap.view.menu) /\ ui.npcAt \in 1..snap.view.menu
    BY <1>1, <1>3 DEF NpcPickConfirm
  <2>2. Told'
    BY <1>1, <2>1, SentIsTold DEF KeysInv
  <2>3. ui' \in Screen /\ ui'.stage = "running" /\ ui'.picker = "none"
    BY <1>0, <1>1, <1>3 DEF NpcPickConfirm, Screen
  <2> QED BY <2>2, <2>3, RedrawnRunning
<1> QED BY <1>2, <1>3

LEMMA ShopKeys ==
    ASSUME KeysInv, ShopPickMove \/ ShopPickDigits \/ ShopPickConfirm,
           UNCHANGED <<interactive, order, sel, bot, live, known, tx, snap, news>>
    PROVE  KeysInv'
<1>0. On("shop") /\ ui \in Screen /\ ui.stage = "running" /\ ui.picker = "none"
  BY OnSays DEF KeysInv, Piled, ShopPickMove, ShopPickDigits, ShopPickConfirm
<1>1. /\ snap.view.wares \in 0..ShopRows /\ ShopRows \in Nat /\ MaxDigits \in Nat
      /\ ui.shopAt \in 1..ShopRows /\ ui.qty \in 0..MaxDigits
  BY <1>0, KeysAssumption DEF KeysInv, Copied, View, Screen
<1>2. CASE ShopPickMove
  <2>1. snap.view.wares \in Nat \ {0} /\ ui.shopAt \in Nat \ {0}
    BY <1>1, <1>2 DEF ShopPickMove
  <2>2. PICK i \in 1..snap.view.wares : ui' = [ui EXCEPT !.shopAt = i]
    BY <1>2, <2>1, AroundStays DEF ShopPickMove
  <2>3. i \in 1..ShopRows
    BY <1>1
  <2>4. ui' \in Screen /\ ui'.stage = "running" /\ ui'.picker = "none"
    BY <1>0, <2>2, <2>3 DEF Screen
  <2> QED BY <1>2, <2>4, NothingSent, RedrawnRunning DEF ShopPickMove
<1>3. CASE ShopPickDigits
  <2>1. PICK q \in 0..MaxDigits : ui' = [ui EXCEPT !.qty = q]
    BY <1>1, <1>3 DEF ShopPickDigits
  <2>2. ui' \in Screen /\ ui'.stage = "running" /\ ui'.picker = "none"
    BY <1>0, <2>1 DEF Screen
  <2> QED BY <1>3, <2>2, NothingSent, RedrawnRunning DEF ShopPickDigits
<1>4. CASE ShopPickConfirm
  <2>1. Send("buy", ui.shopAt, snap.view.wares) /\ ui.shopAt \in 1..snap.view.wares
    BY <1>1, <1>4 DEF ShopPickConfirm
  <2>2. Told'
    BY <1>1, <2>1, SentIsTold DEF KeysInv
  <2> QED BY <1>4, <2>2, AsItWas DEF ShopPickConfirm
<1> QED BY <1>2, <1>3, <1>4

LEMMA PopupKeeps == KeysInv /\ Popup => KeysInv'
BY PickerKeys, NpcKeys, ShopKeys DEF Popup

LEMMA PanelsKeep == KeysInv /\ Panels => KeysInv'
<1> SUFFICES ASSUME KeysInv, Panels PROVE KeysInv'
  OBVIOUS
<1>0. UNCHANGED <<interactive, order, sel, bot, live, known, tx, snap, news>>
  BY DEF Panels
<1>1. ui \in Screen /\ ui.bagAt \in 1..2
  BY DEF KeysInv, Piled, Screen
<1>2. snap.view.gear \in 0..1 /\ BagItems \in 0..2
  BY DEF KeysInv, Copied, View, BagItems
<1>3. CASE BoardAndHelp /\ Silent
  <2>1. ui.stage = "running" /\ ui.picker = "none"
    BY <1>1, <1>3, OnSays DEF BoardAndHelp
  <2>2. ui' \in Screen /\ ui'.stage = "running" /\ ui'.picker = "none"
    BY <1>1, <1>3, <2>1 DEF BoardAndHelp, Screen
  <2> QED BY <1>0, <1>3, <2>2, NothingSent, RedrawnRunning
<1>4. CASE On("bag") /\ BagMove /\ Silent
  <2>1. ui.stage = "running" /\ ui.picker = "none"
    BY <1>1, <1>4, OnSays
  <2>2. PICK k \in 1..2 : ui' = [ui EXCEPT !.bagAt = k]
    BY <1>1, <1>2, <1>4 DEF BagMove
  <2>3. ui' \in Screen /\ ui'.stage = "running" /\ ui'.picker = "none"
    BY <1>1, <2>1, <2>2 DEF Screen
  <2> QED BY <1>0, <1>4, <2>3, NothingSent, RedrawnRunning
<1>5. CASE (BagDrop \/ BagEquip \/ BagEnter) /\ UNCHANGED ui
  <2>1. PICK n \in 0..2 : ui.bagAt <= n /\ Send("bag", ui.bagAt, n)
    BY <1>2, <1>5 DEF BagDrop, BagEquip, BagEnter
  <2>2. Told'
    BY <1>1, <2>1, SentIsTold DEF KeysInv
  <2> QED BY <1>0, <1>5, <2>2, AsItWas
<1> QED BY <1>3, <1>4, <1>5 DEF Panels

LEMMA SubmitKeeps == KeysInv /\ Submit => KeysInv'
<1> SUFFICES ASSUME KeysInv, Submit PROVE KeysInv'
  OBVIOUS
<1>0. On("input") /\ UNCHANGED <<interactive, order, sel, bot, live, known, tx, snap, news>>
  BY DEF Submit
<1>1. ui \in Screen /\ ui.stage = "running" /\ ui.picker = "none" /\ ~ui.npc /\ ~ui.shop
  BY <1>0, OnSays DEF KeysInv, Piled
<1>2. CASE UNCHANGED ui /\ Send("line", 1, 1)
  <2>1. Told'
    BY <1>2, SentIsTold DEF KeysInv
  <2> QED BY <1>0, <1>2, <2>1, AsItWas
<1>3. CASE ui' = [ui EXCEPT !.bag = TRUE, !.help = FALSE] /\ Silent
  <2>1. ui' \in Screen /\ ui'.stage = "running" /\ ui'.picker = "none"
    BY <1>1, <1>3 DEF Screen
  <2> QED BY <1>0, <1>3, <2>1, NothingSent, RedrawnRunning
<1>4. CASE \E on \in BOOLEAN :
              /\ Silent
              /\ \/ ui' = [ui EXCEPT !.npmenu = on, !.npc = @ /\ on]
                 \/ ui' = [ui EXCEPT !.shopMenu = on, !.shop = @ /\ on]
  <2>1. PICK on \in BOOLEAN :
           /\ Silent
           /\ \/ ui' = [ui EXCEPT !.npmenu = on, !.npc = ui.npc /\ on]
              \/ ui' = [ui EXCEPT !.shopMenu = on, !.shop = ui.shop /\ on]
    BY <1>4
  <2>2. (ui.npc /\ on) \in BOOLEAN /\ (ui.shop /\ on) \in BOOLEAN
    BY <1>1, Zenon
  <2>3. PICK b \in BOOLEAN : \/ ui' = [ui EXCEPT !.npmenu = on, !.npc = b]
                             \/ ui' = [ui EXCEPT !.shopMenu = on, !.shop = b]
    BY <2>1, <2>2, Zenon
  <2>4. CASE ui' = [ui EXCEPT !.npmenu = on, !.npc = b]
    <3>1. ui' \in Screen /\ ui'.stage = "running" /\ ui'.picker = "none"
      BY <1>1, <2>4 DEF Screen
    <3> QED BY <1>0, <2>1, <3>1, NothingSent, RedrawnRunning
  <2>5. CASE ui' = [ui EXCEPT !.shopMenu = on, !.shop = b]
    <3>1. ui' \in Screen /\ ui'.stage = "running" /\ ui'.picker = "none"
      BY <1>1, <2>5 DEF Screen
    <3> QED BY <1>0, <2>1, <3>1, NothingSent, RedrawnRunning
  <2> QED BY <2>3, <2>4, <2>5
<1> QED BY <1>2, <1>3, <1>4 DEF Submit

LEMMA HelpAndBoardKeep == KeysInv /\ F1F2 => KeysInv'
<1> SUFFICES ASSUME KeysInv, F1F2 PROVE KeysInv'
  OBVIOUS
<1>0. On("input") /\ Silent /\ UNCHANGED <<interactive, order, sel, bot, live, known, tx, snap, news>>
  BY DEF F1F2
<1>1. ui \in Screen /\ ui.stage = "running" /\ ui.picker = "none"
  BY <1>0, OnSays DEF KeysInv, Piled
<1>2. ui' \in Screen /\ ui'.stage = "running" /\ ui'.picker = "none"
  BY <1>1 DEF F1F2, Screen
<1> QED BY <1>0, <1>2, NothingSent, RedrawnRunning

-----------------------------------------------------------------------------
(* The account on the screen changes, is removed, started or asked for.     *)

LEMMA Indexed ==
    ASSUME sel \in ToSet(order), order \in Seq(Accounts)
    PROVE  IndexOf(sel) \in 1..Len(order)
<1>1. \E i \in 1..Len(order) : order[i] = sel
  BY DEF ToSet
<1> QED BY <1>1 DEF IndexOf

(* What is on the screen when another account is selected.                  *)
LEMMA Shown ==
    ASSUME Copied, UNCHANGED bot, NEW a \in Accounts, SyncFromSelected(a)
    PROVE  tx' = a /\ snap'.of = a /\ Copied'
<1>1. Fresh \in View
  BY KeysAssumption DEF Fresh, View, Lists, Phases
<1>2. [Fresh EXCEPT !.phase = "blank"] \in View /\ Rowed([Fresh EXCEPT !.phase = "blank"])
  BY <1>1, Phased DEF Phases
<1>3. Blank(a) \in [of : Accounts, view : View] /\ Blank(a).of = a /\ Rowed(Blank(a).view)
  BY <1>2 DEF Blank
<1>4. Snapshot(a) \in [of : Accounts, view : View] /\ Snapshot(a).of = a /\ Rowed(Snapshot(a).view)
  BY DEF Copied, Snapshot
<1> QED BY <1>3, <1>4 DEF SyncFromSelected, Copied

(* On the input line there is nothing else on the screen.                   *)
LEMMA BareScreen ==
    ASSUME KeysInv, On("input"), UNCHANGED ui
    PROVE  Piled'
<1>1. ui \in Screen /\ Alone(ui) /\ ui.stage = "running" /\ ui.picker = "none"
  BY OnSays DEF KeysInv, Piled
<1> QED BY <1>1 DEF Piled, Picked

LEMMA MoveKeeps == KeysInv /\ SelectSessionMove => KeysInv'
<1> SUFFICES ASSUME KeysInv, SelectSessionMove PROVE KeysInv'
  OBVIOUS
<1>1. /\ On("input") /\ Len(order) > 1 /\ Silent
      /\ UNCHANGED <<interactive, order, bot, live, known, ui, news>>
  BY DEF SelectSessionMove
<1>2. order \in Seq(Accounts) /\ order # <<>> /\ sel \in ToSet(order)
  BY <1>1 DEF KeysInv, Pointed
<1>3. PICK i \in 1..Len(order) : sel' = order[i] /\ SyncFromSelected(order[i])
  <2>1. IndexOf(sel) \in 1..Len(order)
    BY <1>2, Indexed
  <2>2. IndexOf(sel) \in Nat \ {0} /\ Len(order) \in Nat \ {0}
    BY <1>1, <1>2, <2>1
  <2>3. Around(IndexOf(sel), Len(order)) \subseteq 1..Len(order)
    BY <2>2, AroundStays
  <2> QED BY <2>3 DEF SelectSessionMove
<1>4. order[i] \in Accounts /\ order[i] \in ToSet(order)
  BY <1>2 DEF ToSet
<1>5. tx' = order[i] /\ snap'.of = order[i] /\ Copied'
  BY <1>1, <1>3, <1>4, Shown DEF KeysInv
<1>6. Pointed'
  BY <1>1, <1>2, <1>3, <1>4, <1>5 DEF Pointed
<1>7. Counted'
  BY <1>1 DEF KeysInv, Counted
<1> QED BY <1>1, <1>5, <1>6, <1>7, NothingSent, BareScreen DEF KeysInv

LEMMA RemoveKeeps == KeysInv /\ RemoveProfile => KeysInv'
<1> SUFFICES ASSUME KeysInv, RemoveProfile PROVE KeysInv'
  OBVIOUS
<1>1. On("input") /\ Silent /\ UNCHANGED <<interactive, bot, live, known, ui, news>>
  BY DEF RemoveProfile
<1>2. order \in Seq(Accounts)
  BY DEF KeysInv, Pointed
<1>3. PICK k \in 1..Len(order) :
        LET rest == RemoveAt(order, k)
            i    == IndexOf(sel)
            j    == IF i > Len(rest) THEN Len(rest) ELSE i
        IN  /\ order[k] \notin live /\ order' = rest
            /\ IF rest = <<>> THEN sel' = NoOne /\ UNCHANGED <<tx, snap>>
               ELSE sel' = rest[j] /\ SyncFromSelected(rest[j])
  BY DEF RemoveProfile
<1> DEFINE rest == RemoveAt(order, k)
           i == IndexOf(sel)
           j == IF i > Len(rest) THEN Len(rest) ELSE i
<1>4. rest \in Seq(Accounts) /\ order' = rest
  BY <1>2, <1>3, Taken
<1>5. /\ rest = <<>> => sel' = NoOne /\ UNCHANGED <<tx, snap>>
      /\ rest # <<>> => sel' = rest[j] /\ SyncFromSelected(rest[j])
  BY <1>3
<1>6. i \in 1..Len(order)
  <2>1. order # <<>>
    BY <1>2
  <2> QED BY <1>2, <2>1, Indexed DEF KeysInv, Pointed
<1> HIDE DEF rest, i
<1>7. Counted'
  BY <1>1 DEF KeysInv, Counted
<1>8. CASE rest = <<>>
  <2>1. Pointed' /\ Copied'
    BY <1>1, <1>4, <1>5, <1>8 DEF KeysInv, Pointed, Copied
  <2> QED BY <1>1, <1>7, <2>1, NothingSent, BareScreen DEF KeysInv
<1>9. CASE rest # <<>>
  <2>1. Len(rest) \in Nat \ {0}
    BY <1>4, <1>9
  <2>2. j \in 1..Len(rest)
    BY <1>2, <1>6, <2>1
  <2> HIDE DEF j
  <2>3. rest[j] \in Accounts /\ rest[j] \in ToSet(rest)
    BY <1>4, <2>2 DEF ToSet
  <2>4. tx' = rest[j] /\ snap'.of = rest[j] /\ Copied'
    BY <1>1, <1>5, <1>9, <2>3, Shown DEF KeysInv
  <2>5. Pointed'
    BY <1>4, <1>5, <1>9, <2>3, <2>4 DEF Pointed
  <2> QED BY <1>1, <1>7, <2>4, <2>5, NothingSent, BareScreen DEF KeysInv
<1> QED BY <1>8, <1>9

(* A start is told to be meant for the account it starts.                   *)
LEMMA StartIsTold ==
    ASSUME NEW a \in Accounts, Started(a, a)
    PROVE  Told'
BY DEF Started, Told, Commands, SentToItsOwner

LEMMA ToggleKeeps == KeysInv /\ ToggleSelectedSession => KeysInv'
<1> SUFFICES ASSUME KeysInv, ToggleSelectedSession PROVE KeysInv'
  OBVIOUS
<1>1. On("input") /\ sel # NoOne /\ UNCHANGED <<interactive, order, sel, bot, known, tx, snap, news>>
  BY DEF ToggleSelectedSession
<1>2. sel \in Accounts /\ snap.of = sel
  BY <1>1 DEF KeysInv, Pointed
<1>3. Pointed' /\ Copied'
  BY <1>1 DEF KeysInv, Pointed, Copied
<1>4. CASE live' = live \ {sel} /\ UNCHANGED ui /\ Silent
  <2>1. Counted'
    BY <1>1, <1>4 DEF KeysInv, Counted
  <2> QED BY <1>1, <1>3, <1>4, <2>1, NothingSent, BareScreen DEF KeysInv
<1>5. CASE Started(sel, snap.of) /\ UNCHANGED ui
  <2>1. Counted'
    BY <1>1, <1>2, <1>5 DEF KeysInv, Counted, Started
  <2>2. Told'
    BY <1>2, <1>5, StartIsTold
  <2> QED BY <1>1, <1>3, <1>5, <2>1, <2>2, BareScreen DEF KeysInv
<1>6. CASE ui' = [ui EXCEPT !.stage = "wizard", !.target = sel] /\ UNCHANGED live /\ Silent
  <2>1. /\ ui \in Screen /\ ui.picker = "none"
        /\ ~ui.npc /\ ~ui.shop /\ ~ui.board /\ ~ui.help /\ ~ui.bag
    BY <1>1, OnSays DEF KeysInv, Piled
  <2>2. ui' \in Screen /\ ui'.picker = "none" /\ ui'.target = sel
    BY <1>2, <1>6, <2>1 DEF Screen
  <2>3. ~ui'.npc /\ ~ui'.shop /\ ~ui'.board /\ ~ui'.help /\ ~ui'.bag
    BY <1>6, <2>1 DEF Screen
  <2>4. Fits(ui', snap.view)
    BY <2>2, <2>3 DEF Fits, Alone, Picked
  <2> QED BY <1>1, <1>6, <2>2, <2>4, NothingSent, Redrawn
<1> QED BY <1>4, <1>5, <1>6 DEF ToggleSelectedSession

LEMMA WizardKeeps == KeysInv /\ ApplyWizardToSession => KeysInv'
<1> SUFFICES ASSUME KeysInv, ApplyWizardToSession PROVE KeysInv'
  OBVIOUS
<1>1. /\ On("wizard") /\ known' = known \cup {ui.target}
      /\ ui' = [ui EXCEPT !.stage = "running", !.target = NoOne] /\ Started(sel, ui.target)
      /\ UNCHANGED <<interactive, order, sel, bot, tx, snap, news>>
  BY DEF ApplyWizardToSession
<1>2. /\ ui \in Screen /\ ui.picker = "none" /\ ui.target = sel /\ sel # NoOne
      /\ ~ui.npc /\ ~ui.shop /\ ~ui.board /\ ~ui.help /\ ~ui.bag
  BY <1>1, OnSays DEF KeysInv, Piled, Alone
<1>3. sel \in Accounts
  BY <1>2 DEF KeysInv, Pointed
<1>4. Pointed' /\ Copied'
  BY <1>1 DEF KeysInv, Pointed, Copied
<1>5. Counted'
  BY <1>1, <1>2, <1>3 DEF KeysInv, Counted, Started
<1>6. Told'
  BY <1>1, <1>2, <1>3, StartIsTold
<1>7. ui' \in Screen /\ ui'.stage = "running" /\ ui'.picker = "none"
  BY <1>1, <1>2 DEF Screen
<1>8. Piled'
  BY <1>1, <1>7 DEF Piled, Alone, Picked
<1> QED BY <1>4, <1>5, <1>6, <1>8 DEF KeysInv

-----------------------------------------------------------------------------
(* Both together. *)

ConsoleInv == KeysInv /\ LineInv /\ Offered

LEMMA ConsoleBegins == Init => ConsoleInv
<1>1. PromptInit => LineInv
  BY PromptAssumption DEF PromptInit, LineInv
<1>2. PromptInit => Offered
  BY DEF PromptInit, Offered
<1> QED BY <1>1, <1>2, KeysBegin DEF Init, ConsoleInv

LEMMA ConsoleStep == ConsoleInv /\ [Next]_vars => ConsoleInv'
<1>1. ASSUME ConsoleInv, Pressing PROVE ConsoleInv'
  <2>1. LineInv' /\ Offered'
    BY <1>1 DEF Pressing, promptVars, ConsoleInv, LineInv, Offered
  <2>2. KeysInv'
    BY <1>1, BotShowsKeeps, FrameKeeps, EscKeeps, CtrlCKeeps, PopupKeeps, PanelsKeep, SubmitKeeps,
       HelpAndBoardKeep, MoveKeeps, RemoveKeeps, ToggleKeeps, WizardKeeps
       DEF Pressing, KeysNext, ConsoleInv
  <2> QED BY <2>1, <2>2 DEF ConsoleInv
<1>2. ASSUME KeysInv, UNCHANGED keysVars PROVE KeysInv'
  BY <1>2 DEF keysVars, KeysInv, Pointed, Copied, Piled, Told, SentToItsOwner, Counted
<1>3. ASSUME ConsoleInv, Typing PROVE ConsoleInv'
  BY <1>2, <1>3, PromptStep, OfferStep DEF Typing, ConsoleInv
<1>4. ASSUME ConsoleInv, UNCHANGED vars PROVE ConsoleInv'
  <2>1. LineInv' /\ Offered'
    BY <1>4 DEF vars, promptVars, ConsoleInv, LineInv, Offered
  <2> QED BY <1>2, <1>4, <2>1 DEF vars, ConsoleInv
<1> QED BY <1>1, <1>3, <1>4 DEF Next

(* Types, every command to the account the user was looking at and about an *)
(* entry that exists, and Esc out of every pile of layers, for any number   *)
(* of accounts, lists and goods (app.rs, on_key, poll_events and            *)
(* sync_from_selected).                                                     *)
THEOREM KeysAreSound == Spec => []KeysSound
<1>1. ConsoleInv => KeysSound
  BY KeysInvSays DEF ConsoleInv
<1> QED BY <1>1, ConsoleBegins, ConsoleStep, PTL DEF Spec

(* A walk through the history keeps the line it began with, for histories   *)
(* of any length (app.rs, on_input_key).                                    *)
THEOREM WalkKeepsDraft == Spec => []DraftIsKept
<1>1. ConsoleInv => DraftIsKept
  BY DEF ConsoleInv, LineInv, DraftIsKept
<1> QED BY <1>1, ConsoleBegins, ConsoleStep, PTL DEF Spec

-----------------------------------------------------------------------------
(* The list of profiles.  No entry of a list occurs twice.                  *)
Distinct(s) == \A i, j \in DOMAIN s : s[i] = s[j] => i = j

LEMMA UpTo == ASSUME NEW n \in Nat PROVE IsFiniteSet(1..n) /\ Cardinality(1..n) = n
<1>1. 1 \in Int /\ n \in Int /\ (IF 1 > n THEN 0 ELSE n - 1 + 1) = n
  OBVIOUS
<1> QED BY <1>1, FS_Interval

LEMMA AsFunction == ASSUME NEW S, NEW s \in Seq(S) PROVE s \in [1..Len(s) -> S] /\ Len(s) \in Nat
OBVIOUS

LEMMA FromFunction ==
    ASSUME NEW S, NEW n \in Nat, NEW s \in [1..n -> S]
    PROVE  s \in Seq(S) /\ Len(s) = n
OBVIOUS

LEMMA Wider == ASSUME NEW S, NEW T, S \subseteq T, NEW s \in Seq(S) PROVE s \in Seq(T)
<1>1. s \in [1..Len(s) -> S] /\ Len(s) \in Nat
  BY AsFunction
<1>2. s \in [1..Len(s) -> T]
  BY <1>1
<1> QED BY <1>1, <1>2

LEMMA DistinctCount ==
    ASSUME NEW S, NEW s \in Seq(S), Distinct(s)
    PROVE  IsFiniteSet(ToSet(s)) /\ Cardinality(ToSet(s)) = Len(s)
<1>1. s \in [1..Len(s) -> S] /\ DOMAIN s = 1..Len(s) /\ Len(s) \in Nat
  OBVIOUS
<1>2. s \in [1..Len(s) -> ToSet(s)]
  BY <1>1 DEF ToSet
<1>3. s \in Bijection(1..Len(s), ToSet(s))
  BY <1>1, <1>2 DEF Bijection, Injection, IsInjective, Surjection, ToSet, Distinct
<1>4. IsFiniteSet(1..Len(s)) /\ Cardinality(1..Len(s)) = Len(s)
  BY <1>1, UpTo
<1> QED BY <1>3, <1>4, FS_Bijection DEF ExistsBijection

LEMMA DistinctFits ==
    ASSUME NEW n \in Nat, NEW s \in Seq(1..n), Distinct(s)
    PROVE  Len(s) <= n
<1>1. IsFiniteSet(1..n) /\ Cardinality(1..n) = n
  BY UpTo
<1>2. ToSet(s) \in SUBSET (1..n)
  BY DEF ToSet
<1> QED BY <1>1, <1>2, DistinctCount, FS_Subset

(* A list in ascending order has every number of its set, and each once.    *)
LEMMA OrderedAll ==
    ASSUME NEW S \in SUBSET Nat, IsFiniteSet(S), NEW f \in InOrder(S)
    PROVE  /\ f \in Seq(S) /\ Len(f) = Cardinality(S) /\ Cardinality(S) \in Nat
           /\ Distinct(f) /\ ToSet(f) = S
<1> DEFINE n == Cardinality(S)
<1>1. n \in Nat
  BY FS_CardinalityType
<1> HIDE DEF n
<1>2. f \in [1..n -> S] /\ DOMAIN f = 1..n /\ \A i, j \in 1..n : i < j => f[i] < f[j]
  BY DEF InOrder, n
<1>3. f \in Seq(S) /\ Len(f) = n
  BY <1>1, <1>2
<1>4. \A i, j \in 1..n : f[i] = f[j] => i = j
  <2> SUFFICES ASSUME NEW i \in 1..n, NEW j \in 1..n, f[i] = f[j], i # j PROVE FALSE
    OBVIOUS
  <2>1. i \in Int /\ j \in Int /\ f[i] \in S /\ f[j] \in S
    BY <1>1, <1>2
  <2>2. CASE i < j
    <3>1. f[i] < f[j] /\ f[i] \in Nat
      BY <1>2, <2>1, <2>2
    <3> QED BY <3>1
  <2>3. CASE j < i
    <3>1. f[j] < f[i] /\ f[i] \in Nat
      BY <1>2, <2>1, <2>3
    <3> QED BY <3>1
  <2> QED BY <2>1, <2>2, <2>3
<1>5. f \in Injection(1..n, S)
  BY <1>2, <1>4 DEF Injection, IsInjective
<1>6. Cardinality(1..n) = n
  BY <1>1, UpTo
<1>7. f \in Surjection(1..n, S)
  BY <1>5, <1>6, FS_Injection DEF n
<1>8. ToSet(f) = S
  BY <1>2, <1>7 DEF Surjection, ToSet
<1> QED BY <1>1, <1>2, <1>3, <1>4, <1>8 DEF Distinct, n

(* What the picker keeps: the ticks are those of the entries at the marked  *)
(* positions while it is open, and of those that were taken afterwards.     *)
Ticked(p) == {p.entries[i + 1] : i \in p.marked}
PickerKinds ==
    [entries : Seq(1..Legacy), cursor : Nat, marked : SUBSET Nat, input : {"none", "new", "copy"},
     arm : Int, ticked : SUBSET (1..Legacy), picked : Seq(Names), open : BOOLEAN]
PickerOK(p) ==
    /\ p \in PickerKinds /\ Distinct(p.entries) /\ InList(p)
    /\ p.marked \subseteq 0..(Len(p.entries) - 1) /\ p.arm \in -1..Legacy
    /\ Distinct(p.picked) /\ Len(p.picked) <= Legacy
    /\ p.open => p.ticked = Ticked(p)
    /\ ~p.open /\ p.ticked # {} => ToSet(p.picked) = p.ticked

LEMMA LegacyIs == Legacy \in Nat /\ Legacy = Files + 1 /\ Files \in Nat \ {0} /\ Names = 1..(Legacy + 1)
BY PickerAssumption DEF Legacy, Names, New

LEMMA FewEntries == ASSUME NEW p, PickerOK(p) PROVE Len(p.entries) \in Nat /\ Len(p.entries) <= Legacy
BY DistinctFits, LegacyIs DEF PickerOK, PickerKinds

LEMMA PickerSays ==
    ASSUME PickerOK(picker)
    PROVE  picker \in Menus /\ InList(picker) /\ TickedIsTaken
<1>1. picker \in PickerKinds
  BY DEF PickerOK
<1>2. picker.entries \in Seq(1..Legacy) /\ picker.picked \in Seq(Names) /\ picker.cursor \in Nat
  BY <1>1 DEF PickerKinds
<1>3. picker.entries \in UNION {[1..n -> 1..Legacy] : n \in 0..Legacy}
  <2>1. Len(picker.entries) \in 0..Legacy
    BY FewEntries, LegacyIs
  <2>2. picker.entries \in [1..Len(picker.entries) -> 1..Legacy]
    BY <1>2, AsFunction
  <2> QED BY <2>1, <2>2
<1>4. picker.picked \in UNION {[1..n -> Names] : n \in 0..Legacy}
  <2>1. Len(picker.picked) \in 0..Legacy
    BY <1>2, AsFunction, LegacyIs DEF PickerOK
  <2>2. picker.picked \in [1..Len(picker.picked) -> Names]
    BY <1>2, AsFunction
  <2> QED BY <2>1, <2>2
<1>5. picker.cursor \in 0..Legacy /\ picker.marked \in SUBSET (0..Legacy) /\ picker.arm \in -1..Legacy
  <2>1. /\ picker.cursor \in 0..Len(picker.entries) - 1 \/ picker.cursor = 0
        /\ picker.marked \subseteq 0..(Len(picker.entries) - 1) /\ picker.arm \in -1..Legacy
    BY DEF PickerOK, InList
  <2>2. 0..(Len(picker.entries) - 1) \subseteq 0..Legacy /\ 0 \in 0..Legacy
    BY FewEntries, LegacyIs
  <2> QED BY <2>1, <2>2
<1>6. picker \in Menus
  BY <1>1, <1>3, <1>4, <1>5 DEF PickerKinds, Menus
<1>7. TickedIsTaken
  BY <1>1, DistinctCount DEF PickerOK, PickerKinds, TickedIsTaken
<1> QED BY <1>6, <1>7 DEF PickerOK

(* A step that leaves the list and the ticks alone.                         *)
LEMMA SameTicks ==
    ASSUME NEW p, PickerOK(p), NEW q \in PickerKinds, InList(q), q.arm \in -1..Legacy,
           q.entries = p.entries, q.marked = p.marked, q.ticked = p.ticked, q.open = p.open, q.picked = p.picked
    PROVE  PickerOK(q)
BY DEF PickerOK, Ticked

LEMMA ClosedOK == PickerOK(Closed)
<1>1. Closed \in PickerKinds
  BY DEF Closed, PickerKinds
<1>2. Distinct(<<>>) /\ Len(<<>>) = 0
  BY DEF Distinct
<1> QED BY <1>1, <1>2, LegacyIs DEF PickerOK, Closed, InList

LEMMA ScansOK ==
    ASSUME NEW have \in SUBSET (1..Files), NEW legacy \in BOOLEAN, NEW p \in Scans(have, legacy)
    PROVE  PickerOK(p)
<1>1. PICK f \in InOrder(have) :
          p = [Closed EXCEPT !.open = TRUE, !.entries = f \o (IF legacy THEN <<Legacy>> ELSE <<>>)]
  BY DEF Scans
<1>2. have \in SUBSET Nat /\ IsFiniteSet(have)
  <2>1. IsFiniteSet(1..Files)
    BY UpTo, LegacyIs
  <2>2. 1..Files \subseteq Nat
    BY LegacyIs
  <2> QED BY <2>1, <2>2, FS_Subset
<1>3. f \in Seq(1..Files) /\ Distinct(f) /\ Len(f) \in Nat
  <2>1. f \in Seq(have) /\ Distinct(f) /\ Len(f) \in Nat
    BY <1>2, OrderedAll
  <2> QED BY <2>1, Wider
<1> DEFINE last == IF legacy THEN <<Legacy>> ELSE <<>>
           e == f \o last
<1>4. /\ f \in Seq(1..Legacy) /\ last \in Seq(1..Legacy) /\ Len(last) \in 0..1
      /\ Len(last) = 1 => last[1] = Legacy
  <2>1. 1..Files \subseteq 1..Legacy /\ Legacy \in 1..Legacy
    BY LegacyIs
  <2>2. f \in Seq(1..Legacy)
    BY <1>3, <2>1, Wider
  <2>3. CASE legacy
    BY <2>1, <2>2, <2>3
  <2>4. CASE ~legacy
    BY <2>2, <2>4
  <2> QED BY <2>3, <2>4
<1> HIDE DEF last
<1>5. /\ e \in Seq(1..Legacy) /\ Len(e) = Len(f) + Len(last)
      /\ \A i \in 1..Len(e) : e[i] = IF i <= Len(f) THEN f[i] ELSE last[i - Len(f)]
  BY <1>4
<1>6. Distinct(e)
  <2> SUFFICES ASSUME NEW i \in 1..Len(e), NEW j \in 1..Len(e), e[i] = e[j], i < j PROVE FALSE
    BY <1>5 DEF Distinct
  <2>1. CASE j <= Len(f)
    BY <1>3, <1>5, <2>1 DEF Distinct
  <2>2. CASE j > Len(f)
    <3>1. j = Len(f) + 1 /\ i <= Len(f)
      BY <1>3, <1>4, <1>5, <2>2
    <3>2. e[j] = last[1] /\ e[i] = f[i] /\ Len(last) = 1
      BY <1>3, <1>4, <1>5, <3>1
    <3>3. last[1] = Legacy
      BY <1>4, <3>2
    <3>4. i \in 1..Len(f)
      BY <1>3, <3>1
    <3>5. f[i] \in 1..Files
      BY <1>3, <3>4, ElementOfSeq
    <3> QED BY <3>2, <3>3, <3>5, LegacyIs
  <2> QED BY <1>3, <2>1, <2>2
<1>7. p.entries = e /\ p = [Closed EXCEPT !.open = TRUE, !.entries = e]
  BY <1>1 DEF last, Closed
<1> HIDE DEF e
<1>8. p \in PickerKinds
  <2>1. Closed \in PickerKinds /\ e \in Seq(1..Legacy)
    BY <1>5, ClosedOK DEF PickerOK
  <2> QED BY <1>7, <2>1 DEF PickerKinds
<1>9. Ticked(p) = {}
  BY <1>7 DEF Ticked, Closed
<1>10. Distinct(<<>>) /\ Len(<<>>) = 0
  BY DEF Distinct
<1> QED BY <1>6, <1>7, <1>8, <1>9, <1>10, LegacyIs DEF PickerOK, Closed, InList

LEMMA MarkedAll ==
    ASSUME PickerOK(picker), NEW paths \in MarkedPaths
    PROVE  /\ paths \in Seq(1..Legacy) /\ Distinct(paths) /\ Len(paths) <= Legacy
           /\ ToSet(paths) = Ticked(picker)
<1> DEFINE M == {i \in picker.marked : i < Length}
           n == Len(picker.entries)
<1>1. PICK f \in InOrder(M) : paths = [k \in DOMAIN f |-> At(f[k])]
  BY DEF MarkedPaths
<1>2. picker.entries \in Seq(1..Legacy) /\ n \in Nat /\ n <= Legacy /\ Distinct(picker.entries)
  BY FewEntries DEF PickerOK, PickerKinds
<1>3. M = picker.marked /\ M \subseteq 0..(n - 1)
  BY <1>2 DEF PickerOK, PickerKinds, Length
<1> HIDE DEF n, M
<1>4. IsFiniteSet(0..(n - 1)) /\ Cardinality(0..(n - 1)) = n
  <2>1. 0 \in Int /\ n - 1 \in Int /\ (IF 0 > n - 1 THEN 0 ELSE n - 1 - 0 + 1) = n
    BY <1>2
  <2> QED BY <2>1, FS_Interval
<1>5. M \in SUBSET Nat /\ IsFiniteSet(M) /\ Cardinality(M) <= n
  BY <1>2, <1>3, <1>4, FS_Subset
<1>6. f \in Seq(M) /\ Len(f) = Cardinality(M) /\ Len(f) \in Nat /\ Distinct(f) /\ ToSet(f) = M
  BY <1>5, OrderedAll
<1>7. DOMAIN f = 1..Len(f) /\ \A k \in 1..Len(f) : f[k] \in 0..(n - 1) /\ f[k] + 1 \in 1..n
  BY <1>2, <1>3, <1>6
<1>8. \A k \in 1..Len(f) : paths[k] = picker.entries[f[k] + 1] /\ paths[k] \in 1..Legacy
  <2> SUFFICES ASSUME NEW k \in 1..Len(f) PROVE paths[k] = picker.entries[f[k] + 1] /\ paths[k] \in 1..Legacy
    OBVIOUS
  <2>1. paths[k] = picker.entries[f[k] + 1]
    BY <1>1, <1>7 DEF At
  <2>2. f[k] + 1 \in 1..Len(picker.entries)
    BY <1>7 DEF n
  <2>3. picker.entries[f[k] + 1] \in 1..Legacy
    BY <1>2, <2>2, ElementOfSeq
  <2> QED BY <2>1, <2>3
<1>9. paths \in Seq(1..Legacy) /\ Len(paths) = Len(f) /\ DOMAIN paths = 1..Len(f)
  <2>1. paths = [k \in 1..Len(f) |-> At(f[k])]
    BY <1>1, <1>7
  <2>2. paths \in [1..Len(f) -> 1..Legacy]
    BY <1>8, <2>1
  <2>3. Len(f) \in Nat
    BY <1>6
  <2>4. DOMAIN paths = 1..Len(f)
    BY <2>1
  <2> QED BY <2>2, <2>3, <2>4, FromFunction
<1>10. Distinct(paths)
  <2> SUFFICES ASSUME NEW i \in 1..Len(f), NEW j \in 1..Len(f), paths[i] = paths[j] PROVE i = j
    BY <1>9 DEF Distinct
  <2>1. f[i] + 1 = f[j] + 1
    BY <1>2, <1>7, <1>8 DEF Distinct, n
  <2>2. f[i] = f[j]
    BY <1>7, <2>1
  <2> QED BY <1>6, <1>7, <2>2 DEF Distinct
<1>11. ToSet(paths) = {picker.entries[i + 1] : i \in M}
  <2>1. M = {f[k] : k \in 1..Len(f)}
    BY <1>6, <1>7 DEF ToSet
  <2>2. ToSet(paths) = {paths[k] : k \in 1..Len(f)}
    BY <1>9 DEF ToSet
  <2> QED BY <1>8, <2>1, <2>2
<1> QED BY <1>2, <1>3, <1>5, <1>6, <1>9, <1>10, <1>11, LegacyIs DEF Ticked

(* The actions of the picker. *)
LEMMA MoveOK == PickerOK(picker) /\ Move => PickerOK(picker')
<1> SUFFICES ASSUME PickerOK(picker), Move PROVE PickerOK(picker')
  OBVIOUS
<1>1. PICK d \in {1, Length - 1} :
          picker' = [picker EXCEPT !.arm = -1, !.cursor = IF Length = 0 THEN @ ELSE (@ + d) % Length]
  BY DEF Move
<1>2. picker \in PickerKinds /\ Length \in Nat /\ picker.cursor \in Nat
  BY FewEntries DEF PickerOK, PickerKinds, Length
<1> DEFINE c == IF Length = 0 THEN picker.cursor ELSE (picker.cursor + d) % Length
<1>3. c \in Nat /\ (c \in 0..(Length - 1) \/ c = 0)
  <2>1. CASE Length = 0
    <3>1. c = picker.cursor
      BY <2>1
    <3> QED BY <1>2, <2>1, <3>1 DEF PickerOK, InList, Length
  <2>2. CASE Length # 0
    <3>1. picker.cursor + d \in Nat /\ Length \in Nat \ {0}
      BY <1>2, <2>2
    <3>2. \A m \in Nat, n \in Nat \ {0} : m % n \in 0..(n - 1)
      OBVIOUS
    <3>3. c \in 0..(Length - 1)
      BY <2>2, <3>1, <3>2
    <3> QED BY <1>2, <3>3
  <2> QED BY <2>1, <2>2
<1> HIDE DEF c
<1>4. picker' = [picker EXCEPT !.arm = -1, !.cursor = c]
  BY <1>1 DEF c
<1>5. /\ picker' \in PickerKinds /\ picker'.cursor = c /\ picker'.arm = -1
      /\ picker'.entries = picker.entries /\ picker'.marked = picker.marked
      /\ picker'.ticked = picker.ticked /\ picker'.open = picker.open /\ picker'.picked = picker.picked
  <2>1. c \in Nat /\ -1 \in Int /\ picker \in PickerKinds
    BY <1>2, <1>3
  <2> QED BY <1>4, <2>1 DEF PickerKinds
<1>6. InList(picker') /\ -1 \in -1..Legacy
  BY <1>3, <1>5, LegacyIs DEF InList, Length
<1> QED BY <1>5, <1>6, SameTicks

LEMMA ToggleOK == PickerOK(picker) /\ (ToggleMark \/ ToggleMarkAll) => PickerOK(picker')
<1> SUFFICES ASSUME PickerOK(picker), ToggleMark \/ ToggleMarkAll PROVE PickerOK(picker')
  OBVIOUS
<1>1. /\ picker \in PickerKinds /\ Length \in Nat /\ picker.cursor \in Nat /\ picker.open
      /\ picker.entries \in Seq(1..Legacy) /\ picker.ticked = Ticked(picker)
  BY FewEntries DEF PickerOK, PickerKinds, Length, ToggleMark, ToggleMarkAll, Browsing
<1>2. \A i \in 0..(Length - 1) : i + 1 \in 1..Length /\ At(i) \in 1..Legacy
  <2> SUFFICES ASSUME NEW i \in 0..(Length - 1) PROVE i + 1 \in 1..Length /\ At(i) \in 1..Legacy
    OBVIOUS
  <2>1. i + 1 \in 1..Length
    BY <1>1
  <2>2. picker.entries[i + 1] \in 1..Legacy
    BY <1>1, <2>1, ElementOfSeq DEF Length
  <2> QED BY <2>1, <2>2 DEF At
<1>3. ASSUME NEW M \in SUBSET (0..(Length - 1)), NEW T, T = {At(i) : i \in M},
             picker' = [picker EXCEPT !.arm = -1, !.marked = M, !.ticked = T]
      PROVE  PickerOK(picker')
  <2>1. T \in SUBSET (1..Legacy) /\ M \in SUBSET Nat
    BY <1>1, <1>2, <1>3
  <2>2. picker' \in PickerKinds
    <3>1. picker' = [picker EXCEPT !.arm = -1, !.marked = M, !.ticked = T] /\ -1 \in Int
      BY <1>3
    <3> QED BY <1>1, <2>1, <3>1 DEF PickerKinds
  <2>3. /\ picker'.entries = picker.entries /\ picker'.cursor = picker.cursor /\ picker'.marked = M
        /\ picker'.arm = -1 /\ picker'.ticked = T /\ picker'.picked = picker.picked /\ picker'.open
    BY <1>1, <1>3 DEF PickerKinds
  <2>4. T = Ticked(picker')
    BY <1>3, <2>3 DEF Ticked, At
  <2> QED BY <2>2, <2>3, <2>4, LegacyIs DEF PickerOK, InList, Length
<1>4. CASE ToggleMark
  <2> DEFINE c == picker.cursor
             M == IF c \in picker.marked THEN picker.marked \ {c} ELSE picker.marked \cup {c}
             T == IF At(c) \in picker.ticked THEN picker.ticked \ {At(c)} ELSE picker.ticked \cup {At(c)}
  <2>1. picker' = [picker EXCEPT !.arm = -1, !.marked = M, !.ticked = T]
    BY <1>4 DEF ToggleMark
  <2>2. c \in 0..(Length - 1) /\ picker.marked \subseteq 0..(Length - 1)
    BY <1>1, <1>4 DEF ToggleMark, PickerOK, InList, Length
  <2>3. \A i, j \in 0..(Length - 1) : At(i) = At(j) => i = j
    BY <1>1, <1>2 DEF PickerOK, Distinct, At, Length
  <2>4. picker.ticked = {At(i) : i \in picker.marked}
    BY <1>1 DEF Ticked, At
  <2>5. At(c) \in picker.ticked <=> c \in picker.marked
    BY <2>2, <2>3, <2>4
  <2>6. T = {At(i) : i \in M}
    BY <2>2, <2>3, <2>4, <2>5
  <2>7. M \in SUBSET (0..(Length - 1))
    BY <2>2
  <2> HIDE DEF M, T
  <2> QED BY <1>3, <2>1, <2>6, <2>7
<1>5. CASE ToggleMarkAll
  <2> DEFINE all == Cardinality(picker.marked) = Length
             M == IF all THEN {} ELSE 0..(Length - 1)
             T == IF all THEN {} ELSE ToSet(picker.entries)
  <2>1. picker' = [picker EXCEPT !.arm = -1, !.marked = M, !.ticked = T]
    BY <1>5 DEF ToggleMarkAll
  <2>2. ToSet(picker.entries) = {At(i) : i \in 0..(Length - 1)}
    <3>1. DOMAIN picker.entries = 1..Length
      BY <1>1 DEF Length
    <3>2. \A k \in 1..Length : k - 1 \in 0..(Length - 1) /\ (k - 1) + 1 = k
      BY <1>1
    <3> QED BY <1>2, <3>1, <3>2 DEF ToSet, At
  <2>3. T = {At(i) : i \in M} /\ M \in SUBSET (0..(Length - 1))
    BY <2>2
  <2> HIDE DEF M, T
  <2> QED BY <1>3, <2>1, <2>3
<1> QED BY <1>4, <1>5

(* Names and armed deletions change neither list nor ticks. *)
LEMMA AskNameOK == PickerOK(picker) /\ AskName => PickerOK(picker')
<1> SUFFICES ASSUME PickerOK(picker), AskName PROVE PickerOK(picker')
  OBVIOUS
<1>1. PICK how \in {"new", "copy"} : picker' = [picker EXCEPT !.arm = -1, !.input = how]
  BY DEF AskName
<1>2. picker \in PickerKinds /\ -1 \in Int
  BY DEF PickerOK
<1>3. /\ picker' \in PickerKinds /\ picker'.cursor = picker.cursor /\ picker'.arm = -1
      /\ picker'.entries = picker.entries /\ picker'.marked = picker.marked
      /\ picker'.ticked = picker.ticked /\ picker'.open = picker.open /\ picker'.picked = picker.picked
  BY <1>1, <1>2 DEF PickerKinds
<1>4. InList(picker') /\ -1 \in -1..Legacy
  BY <1>3, LegacyIs DEF PickerOK, InList
<1> QED BY <1>3, <1>4, SameTicks

LEMMA NameInputOK == PickerOK(picker) /\ NameInput => PickerOK(picker')
<1> SUFFICES ASSUME PickerOK(picker), NameInput PROVE PickerOK(picker')
  OBVIOUS
<1>1. CASE picker' = [picker EXCEPT !.input = "none"]
  BY <1>1 DEF PickerOK, PickerKinds, InList, Ticked
<1>2. ASSUME NEW n \in Names,
             picker' = [picker EXCEPT !.input = "none", !.open = FALSE, !.picked = <<n>>,
                                      !.ticked = {}, !.marked = {}]
      PROVE  PickerOK(picker')
  <2>1. <<n>> \in Seq(Names) /\ Distinct(<<n>>) /\ Len(<<n>>) = 1
    BY DEF Distinct
  <2>2. picker \in PickerKinds /\ {} \in SUBSET Nat /\ {} \in SUBSET (1..Legacy)
    BY DEF PickerOK
  <2>3. /\ picker' \in PickerKinds /\ picker'.cursor = picker.cursor /\ picker'.arm = picker.arm
        /\ picker'.entries = picker.entries /\ picker'.marked = {}
        /\ picker'.ticked = {} /\ ~picker'.open /\ picker'.picked = <<n>>
    BY <1>2, <2>1, <2>2 DEF PickerKinds
  <2> QED BY <2>1, <2>3, LegacyIs DEF PickerOK, InList
<1> QED BY <1>1, <1>2 DEF NameInput

LEMMA RemoveSays ==
    ASSUME NEW S, NEW s \in Seq(S), NEW k \in 1..Len(s)
    PROVE  /\ RemoveAt(s, k) \in Seq(S) /\ Len(RemoveAt(s, k)) = Len(s) - 1
           /\ \A i \in 1..(Len(s) - 1) : RemoveAt(s, k)[i] = IF i < k THEN s[i] ELSE s[i + 1]
<1> DEFINE front == SubSeq(s, 1, k - 1)
           back == SubSeq(s, k + 1, Len(s))
<1>1. front \in Seq(S) /\ Len(front) = k - 1 /\ \A i \in 1..(k - 1) : front[i] = s[i]
  BY SubSeqProperties
<1>2. back \in Seq(S) /\ Len(back) = Len(s) - k /\ \A i \in 1..(Len(s) - k) : back[i] = s[i + k]
  BY SubSeqProperties
<1> HIDE DEF front, back
<1>3. /\ front \o back \in Seq(S) /\ Len(front \o back) = Len(s) - 1
      /\ \A i \in 1..(Len(s) - 1) : (front \o back)[i] = IF i <= k - 1 THEN front[i] ELSE back[i - (k - 1)]
  <2>1. /\ front \o back \in Seq(S) /\ Len(front \o back) = Len(front) + Len(back)
        /\ \A i \in 1..(Len(front) + Len(back)) :
              (front \o back)[i] = IF i <= Len(front) THEN front[i] ELSE back[i - Len(front)]
    BY <1>1, <1>2, ConcatProperties
  <2>2. Len(front) + Len(back) = Len(s) - 1
    BY <1>1, <1>2
  <2> QED BY <1>1, <2>1, <2>2
<1>4. RemoveAt(s, k) = front \o back
  BY DEF RemoveAt, front, back
<1>5. ASSUME NEW i \in 1..(Len(s) - 1) PROVE (front \o back)[i] = IF i < k THEN s[i] ELSE s[i + 1]
  <2>1. CASE i < k
    BY <1>1, <1>3, <2>1
  <2>2. CASE ~(i < k)
    <3>1. i \in Nat /\ k \in Nat /\ Len(s) \in Nat /\ i <= Len(s) - 1 /\ ~(i <= k - 1)
      BY <2>2
    <3>2. i - (k - 1) \in 1..(Len(s) - k) /\ (i - (k - 1)) + k = i + 1
      BY <3>1
    <3>3. (front \o back)[i] = back[i - (k - 1)]
      BY <1>3, <3>1
    <3> QED BY <1>2, <2>2, <3>2, <3>3
  <2> QED BY <2>1, <2>2
<1> QED BY <1>3, <1>4, <1>5

(* The ticks behind the entry that goes move up with it. *)
LEMMA DeleteOK == PickerOK(picker) /\ Delete => PickerOK(picker')
<1> SUFFICES ASSUME PickerOK(picker), Delete PROVE PickerOK(picker')
  OBVIOUS
<1> DEFINE c == picker.cursor
           n == Length
<1>1. /\ picker \in PickerKinds /\ n \in Nat /\ n <= Legacy /\ c \in Nat /\ c < n /\ picker.open
      /\ picker.entries \in Seq(1..Legacy) /\ Len(picker.entries) = n
      /\ picker.marked \subseteq 0..(n - 1) /\ picker.ticked = Ticked(picker)
  BY FewEntries DEF PickerOK, PickerKinds, Length, Delete, Browsing
<1>2. \A a \in {-1, c} : picker' = [picker EXCEPT !.arm = a] => PickerOK(picker')
  <2> SUFFICES ASSUME NEW a \in {-1, c}, picker' = [picker EXCEPT !.arm = a] PROVE PickerOK(picker')
    OBVIOUS
  <2>1. a \in Int /\ a \in -1..Legacy
    BY <1>1, LegacyIs
  <2>2. /\ picker' \in PickerKinds /\ picker'.cursor = picker.cursor /\ picker'.arm = a
        /\ picker'.entries = picker.entries /\ picker'.marked = picker.marked
        /\ picker'.ticked = picker.ticked /\ picker'.open = picker.open /\ picker'.picked = picker.picked
    BY <1>1, <2>1 DEF PickerKinds
  <2>3. InList(picker')
    BY <2>2 DEF PickerOK, InList
  <2> QED BY <2>1, <2>2, <2>3, SameTicks
<1>3. ASSUME picker' = [picker EXCEPT !.entries = RemoveAt(@, c + 1), !.arm = -1, !.ticked = @ \ {At(c)},
                                      !.marked = MarksWithout(c), !.cursor = CursorWithout(c)]
      PROVE  PickerOK(picker')
  <2> DEFINE e == RemoveAt(picker.entries, c + 1)
             T == picker.ticked \ {At(c)}
             M == MarksWithout(c)
             w == CursorWithout(c)
  <2>1. /\ e \in Seq(1..Legacy) /\ Len(e) = n - 1
        /\ \A i \in 1..(n - 1) : e[i] = IF i < c + 1 THEN picker.entries[i] ELSE picker.entries[i + 1]
    <3>1. c + 1 \in 1..Len(picker.entries)
      BY <1>1
    <3>2. picker.entries \in Seq(1..Legacy) /\ Len(picker.entries) = n
      BY <1>1
    <3> HIDE DEF n, c
    <3> QED BY <3>1, <3>2, RemoveSays
  <2>2. M \subseteq 0..(n - 2)
    BY <1>1 DEF MarksWithout
  <2>3. w \in Nat /\ (w \in 0..(n - 2) \/ w = 0)
    BY <1>1 DEF CursorWithout
  <2>4. T \in SUBSET (1..Legacy) /\ M \in SUBSET Nat /\ -1 \in Int /\ -1 \in -1..Legacy
    BY <1>1, <2>2, LegacyIs DEF PickerKinds
  <2>5. Distinct(e)
    <3> SUFFICES ASSUME NEW i \in 1..(n - 1), NEW j \in 1..(n - 1), e[i] = e[j] PROVE i = j
      BY <2>1 DEF Distinct
    <3> DEFINE old(k) == IF k < c + 1 THEN k ELSE k + 1
    <3>1. old(i) \in 1..n /\ old(j) \in 1..n /\ (old(i) = old(j) => i = j)
      BY <1>1
    <3>2. e[i] = picker.entries[old(i)] /\ e[j] = picker.entries[old(j)]
      BY <2>1
    <3> HIDE DEF old, e
    <3>3. DOMAIN picker.entries = 1..n
      BY <1>1
    <3> QED BY <3>1, <3>2, <3>3 DEF PickerOK, Distinct
  <2>6. T = {e[i + 1] : i \in M}
    <3>1. \A i \in picker.marked \ {c} :
              LET k == IF i > c THEN i - 1 ELSE i IN k + 1 \in 1..(n - 1) /\ e[k + 1] = At(i)
      <4> SUFFICES ASSUME NEW i \in picker.marked \ {c}
                   PROVE  LET k == IF i > c THEN i - 1 ELSE i IN k + 1 \in 1..(n - 1) /\ e[k + 1] = At(i)
        OBVIOUS
      <4>1. i \in 0..(n - 1) /\ i # c
        BY <1>1
      <4>2. CASE i > c
        <5>1. i - 1 + 1 = i /\ i \in 1..(n - 1) /\ ~(i < c + 1)
          BY <1>1, <4>1, <4>2
        <5>2. e[i] = picker.entries[i + 1]
          BY <2>1, <5>1
        <5> QED BY <4>2, <5>1, <5>2 DEF At
      <4>3. CASE ~(i > c)
        <5>1. i + 1 \in 1..(n - 1) /\ i + 1 < c + 1
          BY <1>1, <4>1, <4>3
        <5>2. e[i + 1] = picker.entries[i + 1]
          BY <2>1, <5>1
        <5> QED BY <4>3, <5>1, <5>2 DEF At
      <4> QED BY <4>2, <4>3
    <3>2. M = {IF i > c THEN i - 1 ELSE i : i \in picker.marked \ {c}}
      BY DEF MarksWithout
    <3> HIDE DEF e
    <3>3. {e[i + 1] : i \in M} = {At(i) : i \in picker.marked \ {c}}
      BY <3>1, <3>2
    <3>4. picker.ticked = {At(i) : i \in picker.marked}
      BY <1>1 DEF Ticked, At
    <3>5. \A i \in picker.marked : At(i) = At(c) => i = c
      <4>1. \A i \in 0..(n - 1) : i + 1 \in DOMAIN picker.entries
        BY <1>1
      <4> QED BY <1>1, <4>1 DEF PickerOK, Distinct, At
    <3> QED BY <3>3, <3>4, <3>5
  <2> HIDE DEF e, T, M, w
  <2>7. picker' = [picker EXCEPT !.entries = e, !.arm = -1, !.ticked = T, !.marked = M, !.cursor = w]
    BY <1>3 DEF e, T, M, w
  <2>8. /\ picker' \in PickerKinds /\ picker'.cursor = w /\ picker'.arm = -1
        /\ picker'.entries = e /\ picker'.marked = M /\ picker'.ticked = T /\ picker'.open /\ picker'.picked = picker.picked
    BY <1>1, <2>1, <2>3, <2>4, <2>7 DEF PickerKinds
  <2>9. InList(picker') /\ M \subseteq 0..(Len(e) - 1) /\ T = Ticked(picker')
    BY <1>1, <2>1, <2>2, <2>3, <2>6, <2>8 DEF InList, Ticked
  <2> QED BY <2>4, <2>5, <2>8, <2>9 DEF PickerOK
<1> QED BY <1>2, <1>3 DEF Delete

LEMMA TakeOK == PickerOK(picker) /\ (Take \/ Cancel) => PickerOK(picker')
<1> SUFFICES ASSUME PickerOK(picker), Take \/ Cancel PROVE PickerOK(picker')
  OBVIOUS
<1>1. CASE Cancel
  BY <1>1, ClosedOK DEF Cancel
<1>2. CASE Take
  <2>1. /\ picker \in PickerKinds /\ picker.entries \in Seq(1..Legacy) /\ picker.cursor \in Nat
        /\ picker.open /\ picker.ticked = Ticked(picker) /\ picker.cursor < Len(picker.entries)
    BY <1>2 DEF Take, Browsing, PickerOK, PickerKinds, Length
  <2>2. PICK paths \in IF picker.marked = {} THEN {<<At(picker.cursor)>>} ELSE MarkedPaths :
            picker' = IF paths = <<>> THEN [picker EXCEPT !.arm = -1]
                      ELSE [picker EXCEPT !.arm = -1, !.picked = paths, !.open = FALSE]
    BY <1>2 DEF Take
  <2>3. /\ paths \in Seq(1..Legacy) /\ Distinct(paths) /\ Len(paths) <= Legacy
        /\ picker.ticked # {} => ToSet(paths) = picker.ticked
    <3>1. CASE picker.marked = {}
      <4>1. picker.cursor + 1 \in 1..Len(picker.entries)
        BY <2>1
      <4>2. At(picker.cursor) \in 1..Legacy
        BY <2>1, <4>1, ElementOfSeq DEF At
      <4>3. paths = <<At(picker.cursor)>> /\ picker.ticked = {}
        BY <2>1, <2>2, <3>1 DEF Ticked
      <4> QED BY <4>2, <4>3, LegacyIs DEF Distinct
    <3>2. CASE picker.marked # {}
      BY <2>1, <2>2, <3>2, MarkedAll
    <3> QED BY <3>1, <3>2
  <2>4. 1..Legacy \subseteq Names /\ -1 \in Int /\ -1 \in -1..Legacy
    BY LegacyIs
  <2>5. paths \in Seq(Names)
    BY <2>3, <2>4, Wider
  <2>6. CASE picker' = [picker EXCEPT !.arm = -1]
    <3>1. /\ picker' \in PickerKinds /\ picker'.cursor = picker.cursor /\ picker'.arm = -1
          /\ picker'.entries = picker.entries /\ picker'.marked = picker.marked
          /\ picker'.ticked = picker.ticked /\ picker'.open = picker.open /\ picker'.picked = picker.picked
      BY <2>1, <2>4, <2>6 DEF PickerKinds
    <3>2. InList(picker')
      BY <3>1 DEF PickerOK, InList
    <3> QED BY <2>4, <3>1, <3>2, SameTicks
  <2>7. CASE picker' = [picker EXCEPT !.arm = -1, !.picked = paths, !.open = FALSE]
    <3>1. /\ picker' \in PickerKinds /\ picker'.cursor = picker.cursor /\ picker'.arm = -1
          /\ picker'.entries = picker.entries /\ picker'.marked = picker.marked
          /\ picker'.ticked = picker.ticked /\ ~picker'.open /\ picker'.picked = paths
      BY <2>1, <2>4, <2>5, <2>7 DEF PickerKinds
    <3> QED BY <2>3, <2>4, <3>1 DEF PickerOK, InList
  <2> QED BY <2>2, <2>6, <2>7
<1> QED BY <1>1, <1>2

LEMMA MenuKeeps == PickerOK(picker) /\ PickerNext => PickerOK(picker')
BY MoveOK, ToggleOK, DeleteOK, AskNameOK, NameInputOK, TakeOK DEF PickerNext

-----------------------------------------------------------------------------
(* Accounts and passwords. *)

LEMMA ValuesAre ==
    /\ None \in Values /\ CLI \in Values /\ \A p \in Names : {Own(p), Kept(p), Typed(p)} \subseteq Values
    /\ \A p : Own(p) # None
<1>1. \A p : Own(p) # None
  <2>1. \A p : Len(<<"own", p>>) = 2 /\ Len(<<"none">>) = 1
    OBVIOUS
  <2> QED BY <2>1 DEF Own, None
<1> QED BY <1>1 DEF Values

(* What the launch makes of a profile agrees with its template: at most the *)
(* password was added there.                                                *)
Again(p, t) ==
    /\ SessionTemplate(p).account = t.account
    /\ SessionTemplate(p).password \in {None, t.password}

StartOK ==
    /\ way \in {"pick", "config", "chain", "profiles"}
    /\ at \in {"pick", "args", "templates", "ask", "single", "console", "launched"}
    /\ args \in Args /\ config \in Templates
    /\ store.state \in Stores /\ store.has \subseteq Names
    /\ DOMAIN creds \subseteq Names /\ \A p \in DOMAIN creds : creds[p] \in Values
    /\ DOMAIN template \subseteq Names /\ \A p \in DOMAIN template : template[p] \in Templates
    /\ DOMAIN launch \subseteq Names /\ \A p \in DOMAIN launch : launch[p] \in Templates
    /\ ask.left \subseteq Names /\ ask.answers \subseteq Names
    /\ way = "pick" /\ at # "pick" => picker.picked # <<>>
LoginsOK ==
    /\ login \in [Names -> Logins]
    /\ \A p \in Names : (login[p].password => login[p].account) /\ (login[p].account => login[p].section)
    /\ at \in {"ask", "console", "launched"} =>
           /\ DOMAIN template = ToSet(MultiPaths)
           /\ \A p \in DOMAIN template : Itself(p, template[p]) /\ Again(p, template[p])
    /\ at = "ask" => \A p \in ask.left \cup ask.answers :
           (login[p].password => args.password) /\ SessionTemplate(p).password = None
    /\ at = "launched" => \A p \in DOMAIN launch :
           p \in DOMAIN template /\ launch[p] = SessionTemplate(p) /\ Itself(p, launch[p])

StartInv == PickerOK(picker) /\ StartOK /\ LoginsOK

(* What a profile is made of changes with these only.                       *)
LEMMA SameLogins ==
    ASSUME UNCHANGED <<picker, way, args, login, config>>
    PROVE  /\ MultiPaths' = MultiPaths
           /\ \A p : SessionTemplate(p)' = SessionTemplate(p)
BY DEF MultiPaths, Many, SessionTemplate

LEMMA StartSays == StartInv => StartTypeOK /\ TickedIsTaken /\ OwnLogin
<1> SUFFICES ASSUME StartInv PROVE StartTypeOK /\ TickedIsTaken /\ OwnLogin
  OBVIOUS
<1>1. StartTypeOK /\ TickedIsTaken
  BY PickerSays DEF StartInv, StartOK, LoginsOK, StartTypeOK
<1>2. at \in {"console", "launched"} => \A p \in DOMAIN template : Itself(p, template[p])
  BY DEF StartInv, LoginsOK
<1>3. ASSUME at = "launched", NEW p \in DOMAIN launch
      PROVE  /\ Itself(p, launch[p]) /\ launch[p].account = template[p].account
             /\ launch[p].password \in {None, template[p].password}
  <2>1. p \in DOMAIN template /\ launch[p] = SessionTemplate(p) /\ Itself(p, launch[p])
    BY <1>3 DEF StartInv, LoginsOK
  <2>2. Again(p, template[p])
    BY <1>3, <2>1 DEF StartInv, LoginsOK
  <2> QED BY <2>1, <2>2 DEF Again
<1> QED BY <1>1, <1>2, <1>3 DEF OwnLogin

LEMMA UnreadOK ==
    /\ Unread.picker = Closed /\ Unread.args \in Args /\ Unread.config \in Templates
    /\ Unread.store.state \in Stores /\ Unread.store.has = {} /\ Unread.creds = <<>> /\ DOMAIN <<>> = {}
    /\ Unread.login \in [Names -> Logins] /\ \A p \in Names : Unread.login[p] = NoLogin
    /\ ~NoLogin.section /\ ~NoLogin.account /\ ~NoLogin.password
BY ValuesAre DEF Unread, Plain, Args, Templates, Stores, Logins, NoLogin

LEMMA StartBegins == StartInit => StartInv
<1> SUFFICES ASSUME StartInit PROVE StartInv
  OBVIOUS
<1>1. PickerOK(picker)
  BY ScansOK, ClosedOK DEF StartInit
<1>2. StartOK
  BY UnreadOK DEF StartInit, StartOK, NoAsk
<1>3. LoginsOK
  BY UnreadOK DEF StartInit, LoginsOK
<1> QED BY <1>1, <1>2, <1>3 DEF StartInv

LEMMA PickKeeps == StartInv /\ Pick => StartInv'
<1> SUFFICES ASSUME StartInv, Pick PROVE StartInv'
  OBVIOUS
<1>1. UNCHANGED <<way, args, login, config, store, creds, template, ask, launch>> /\ at = "pick"
  BY DEF Pick
<1>2. CASE picker.open /\ PickerNext /\ UNCHANGED at
  BY <1>1, <1>2, MenuKeeps DEF StartInv, StartOK, LoginsOK
<1>3. CASE ~picker.open /\ picker.picked # <<>> /\ at' = "args" /\ UNCHANGED picker
  BY <1>1, <1>3 DEF StartInv, StartOK, LoginsOK
<1> QED BY <1>2, <1>3 DEF Pick

LEMMA HandOverKeeps == StartInv /\ HandOver => StartInv'
<1> SUFFICES ASSUME StartInv, HandOver PROVE StartInv'
  OBVIOUS
<1>1. PickerOK(picker')
  BY ClosedOK, UnreadOK DEF HandOver
<1>2. StartOK'
  BY UnreadOK DEF HandOver, StartInv, StartOK
<1>3. LoginsOK'
  BY UnreadOK DEF HandOver, StartInv, LoginsOK
<1> QED BY <1>1, <1>2, <1>3 DEF StartInv

(* The accounts are profiles. *)
LEMMA PathsAre ==
    ASSUME StartInv
    PROVE  /\ ToSet(MultiPaths) \subseteq Names
           /\ MultiPaths # <<>> => MultiPaths[1] \in Names
           /\ at = "args" => WritePath \in Names
<1>1. picker.picked \in Seq(Names)
  BY DEF StartInv, PickerOK, PickerKinds
<1>2. [p \in 1..Files |-> p] \in Seq(Names)
  <2>1. [p \in 1..Files |-> p] \in [1..Files -> Names] /\ Files \in Nat
    BY LegacyIs
  <2> QED BY <2>1, FromFunction
<1>3. MultiPaths \in Seq(Names)
  BY <1>1, <1>2 DEF MultiPaths
<1>4. \A s \in Seq(Names) : ToSet(s) \subseteq Names /\ (s # <<>> => s[1] \in Names)
  BY DEF ToSet
<1>5. at = "args" => WritePath \in Names
  <2>1. at = "args" /\ way = "pick" => picker.picked[1] \in Names
    BY <1>1, <1>4 DEF StartInv, StartOK
  <2>2. 1 \in Names /\ Files \in Names /\ Legacy \in Names
    BY LegacyIs
  <2> QED BY <2>1, <2>2 DEF WritePath
<1> QED BY <1>3, <1>4, <1>5

LEMMA ReadAllKeeps == StartInv /\ ReadAll => StartInv'
<1> SUFFICES ASSUME StartInv, ReadAll PROVE StartInv'
  OBVIOUS
<1>1. at = "args" /\ UNCHANGED <<picker, way, template, ask, launch>> /\ at' \in {"single", "templates"}
  BY DEF ReadAll
<1>2. args' \in Args
  <2>1. 1 \in Names
    BY LegacyIs
  <2> QED BY <2>1 DEF ReadAll, Args
<1>3. /\ login' \in [Names -> Logins]
      /\ \A p \in Names : (login'[p].password => login'[p].account) /\ (login'[p].account => login'[p].section)
  BY UnreadOK DEF ReadAll, NoLogin, Logins
<1>4. store'.state \in Stores /\ store'.has \subseteq Names
  <2>1. 1 \in Names /\ 2 \in Names
    BY LegacyIs
  <2> QED BY <2>1 DEF ReadAll, Stores
<1>5. DOMAIN creds' \subseteq Names /\ \A p \in DOMAIN creds' : creds'[p] \in Values
  BY <1>4, ValuesAre DEF ReadAll
<1>6. config' \in Templates
  <2> DEFINE cli == [account |-> IF args'.account THEN CLI ELSE None,
                     password |-> IF args'.password THEN CLI ELSE None]
             c == ApplyLogin(cli, WritePath)
  <2>1. cli \in Templates
    BY ValuesAre DEF Templates
  <2>2. \A t \in Templates, p \in Names : ApplyLogin(t, p) \in Templates
    BY ValuesAre DEF Templates, ApplyLogin, FillAccount, FillPassword
  <2>3. config' = IF MultiPaths # <<>> /\ c.account = None THEN ApplyLogin(c, MultiPaths[1]) ELSE c
    BY DEF ReadAll
  <2> HIDE DEF cli
  <2> QED BY <1>1, <2>1, <2>2, <2>3, PathsAre
<1>7. PickerOK(picker')
  BY <1>1 DEF StartInv
<1>8. StartOK'
  BY <1>1, <1>2, <1>4, <1>5, <1>6 DEF StartInv, StartOK
<1>9. LoginsOK'
  BY <1>1, <1>3 DEF LoginsOK
<1> QED BY <1>7, <1>8, <1>9 DEF StartInv

(* An account with a login section gets what is written there. *)
LEMMA TemplateIs ==
    ASSUME StartInv, NEW p \in Names
    PROVE  /\ SessionTemplate(p) \in Templates /\ WithStore(SessionTemplate(p), p) \in Templates
           /\ Itself(p, SessionTemplate(p)) /\ Itself(p, WithStore(SessionTemplate(p), p))
           /\ Again(p, WithStore(SessionTemplate(p), p))
<1> DEFINE t == SessionTemplate(p)
<1>1. config \in Templates /\ login[p] \in Logins
  BY DEF StartInv, StartOK, LoginsOK
<1>2. t \in Templates
  BY <1>1, ValuesAre DEF SessionTemplate, Templates
<1>3. (login[p].password => login[p].account) /\ (login[p].account => login[p].section)
  BY DEF StartInv, LoginsOK
<1>4. Itself(p, t)
  BY <1>3 DEF SessionTemplate, Itself
<1> HIDE DEF t
<1>5. WithStore(t, p) \in Templates
  BY <1>2 DEF WithStore, Templates, StartInv, StartOK
<1>6. Itself(p, WithStore(t, p))
  <2>1. CASE t.password = None /\ p \in DOMAIN creds
    <3>1. WithStore(t, p).account = t.account
      BY <1>2, <2>1 DEF WithStore, Templates
    <3>2. ~(login[p].password /\ ~args.password)
      BY <1>4, <2>1, ValuesAre DEF Itself
    <3> QED BY <1>4, <3>1, <3>2 DEF Itself
  <2>2. CASE ~(t.password = None /\ p \in DOMAIN creds)
    BY <1>4, <2>2 DEF WithStore
  <2> QED BY <2>1, <2>2
<1>7. Again(p, WithStore(t, p))
  BY <1>2 DEF Again, WithStore, Templates, t
<1> QED BY <1>2, <1>4, <1>5, <1>6, <1>7 DEF t

(* What is added to the known passwords are values. *)
LEMMA NotedOK ==
    ASSUME NEW pw, DOMAIN pw \subseteq Names, \A p \in DOMAIN pw : pw[p] \in Values, StartOK
    PROVE  /\ DOMAIN Noted(pw) \subseteq Names
           /\ \A p \in DOMAIN Noted(pw) : Noted(pw)[p] \in Values
BY DEF StartOK, Noted

LEMMA MakeTemplatesKeeps == StartInv /\ MakeTemplates => StartInv'
<1> SUFFICES ASSUME StartInv, MakeTemplates PROVE StartInv'
  OBVIOUS
<1> DEFINE S == ToSet(MultiPaths)
           noted == IF args.remember THEN {p \in S : SessionTemplate(p).password # None} ELSE {}
           t == [p \in S |-> WithStore(SessionTemplate(p), p)]
           missing == {p \in S : WillAutostart(p) /\ t[p].password = None}
           pw == [p \in noted |-> t[p].password]
<1>1. /\ template' = t /\ creds' = Noted(pw) /\ ask' = [left |-> missing, answers |-> {}]
      /\ at' \in {"console", "ask"} /\ UNCHANGED <<picker, way, args, login, config, store, launch>> /\ at = "templates"
  BY DEF MakeTemplates
<1>2. S \subseteq Names
  BY PathsAre
<1> HIDE DEF S
<1>3. DOMAIN t = S /\ \A p \in S : t[p] \in Templates /\ Itself(p, t[p]) /\ Again(p, t[p])
  BY <1>2, TemplateIs
<1>4. DOMAIN pw \subseteq S /\ \A p \in DOMAIN pw : pw[p] = t[p].password
  OBVIOUS
<1> HIDE DEF t, pw
<1>5. DOMAIN pw \subseteq Names /\ \A p \in DOMAIN pw : pw[p] \in Values
  BY <1>2, <1>3, <1>4 DEF Templates
<1>6. \A p \in missing : /\ p \in Names /\ (login[p].password => args.password)
                          /\ SessionTemplate(p).password = None
  BY <1>2, <1>3, ValuesAre DEF Itself, Again
<1> HIDE DEF missing
<1>7. StartOK'
  BY <1>1, <1>2, <1>3, <1>5, <1>6, NotedOK DEF StartInv, StartOK
<1>8. DOMAIN template' = ToSet(MultiPaths)
  BY <1>1, <1>3 DEF S
<1>9. LoginsOK'
  BY <1>1, <1>3, <1>6, <1>8, SameLogins DEF StartInv, LoginsOK, Itself, Again
<1> QED BY <1>1, <1>7, <1>9 DEF StartInv

(* Passwords are supplied to those that lack one only. *)
LEMMA SupplyKeeps ==
    ASSUME StartInv, at = "ask", UNCHANGED <<picker, way, args, login, config, launch>>,
           NEW P, P \subseteq ask.left \cup ask.answers,
           NEW pw, DOMAIN pw = P, \A p \in P : pw[p] \in Values, Supply(pw)
    PROVE  StartInv'
<1>1. P \subseteq Names
  BY DEF StartInv, StartOK
<1>2. DOMAIN creds' \subseteq Names /\ \A p \in DOMAIN creds' : creds'[p] \in Values
  BY <1>1, NotedOK DEF Supply, StartInv
<1>3. /\ DOMAIN template' = DOMAIN template
      /\ \A p \in DOMAIN template : template'[p] = IF p \in P THEN [template[p] EXCEPT !.password = pw[p]]
                                                    ELSE template[p]
  BY DEF Supply
<1>4. \A p \in DOMAIN template : template[p] \in Templates
  BY DEF StartInv, StartOK
<1>5. ASSUME NEW p \in DOMAIN template
      PROVE  template'[p] \in Templates /\ Itself(p, template'[p]) /\ Again(p, template'[p])
  <2>1. Itself(p, template[p]) /\ Again(p, template[p])
    BY DEF StartInv, LoginsOK
  <2>2. CASE p \in P
    <3>1. /\ template'[p] \in Templates /\ template'[p].account = template[p].account
      BY <1>3, <1>4, <2>2 DEF Templates
    <3>2. (login[p].password => args.password) /\ SessionTemplate(p).password = None
      BY <2>2 DEF StartInv, LoginsOK
    <3> QED BY <2>1, <3>1, <3>2 DEF Itself, Again
  <2>3. CASE p \notin P
    BY <1>3, <1>4, <2>1, <2>3
  <2> QED BY <2>2, <2>3
<1>6. store'.state \in Stores /\ store'.has \subseteq Names
  BY <1>2 DEF Supply, Stores, StartInv, StartOK
<1>7. at' = "console" /\ ask' = NoAsk
  BY DEF Supply
<1>8. StartOK'
  BY <1>2, <1>3, <1>5, <1>6, <1>7 DEF StartInv, StartOK, NoAsk
<1>9. DOMAIN template = ToSet(MultiPaths)
  BY DEF StartInv, LoginsOK
<1>10. LoginsOK'
  BY <1>3, <1>5, <1>7, <1>9, SameLogins DEF StartInv, LoginsOK, Itself, Again
<1> QED BY <1>8, <1>10 DEF StartInv

LEMMA AskPasswordsKeeps == StartInv /\ AskPasswords => StartInv'
<1> SUFFICES ASSUME StartInv, AskPasswords PROVE StartInv'
  OBVIOUS
<1>1. at = "ask" /\ UNCHANGED <<picker, way, args, login, config, launch>>
  BY DEF AskPasswords
<1>2. ask.left \subseteq Names /\ ask.answers \subseteq Names /\ config.password \in Values
  BY DEF StartInv, StartOK, Templates
<1>3. CASE Supply([p \in ask.left |-> config.password])
  <2> DEFINE pw == [p \in ask.left |-> config.password]
  <2>1. DOMAIN pw = ask.left /\ \A p \in ask.left : pw[p] \in Values
    BY <1>2
  <2>2. Supply(pw)
    BY <1>3
  <2> HIDE DEF pw
  <2> QED BY <1>1, <2>1, <2>2, SupplyKeeps
<1>4. CASE Supply([p \in ask.answers |-> Typed(p)])
  <2> DEFINE pw == [p \in ask.answers |-> Typed(p)]
  <2>1. DOMAIN pw = ask.answers /\ \A p \in ask.answers : pw[p] \in Values
    BY <1>2, ValuesAre
  <2>2. Supply(pw)
    BY <1>4
  <2> HIDE DEF pw
  <2> QED BY <1>1, <2>1, <2>2, SupplyKeeps
<1>5. CASE Skip
  <2>1. at' = "console" /\ ask' = NoAsk /\ UNCHANGED <<template, creds, store>>
    BY <1>5 DEF Skip
  <2>2. StartOK'
    BY <1>1, <2>1 DEF StartInv, StartOK, NoAsk
  <2>3. LoginsOK'
    BY <1>1, <2>1, SameLogins DEF StartInv, LoginsOK, Itself, Again
  <2> QED BY <1>1, <2>2, <2>3 DEF StartInv
<1>6. ASSUME NEW p \in ask.left, NEW given \in BOOLEAN, UNCHANGED <<at, template, creds, store>>,
             ask' = [left |-> ask.left \ {p}, answers |-> IF given THEN ask.answers \cup {p} ELSE ask.answers]
      PROVE  StartInv'
  <2>1. ask'.left \subseteq ask.left /\ ask'.answers \subseteq ask.left \cup ask.answers
    BY <1>6
  <2>2. StartOK'
    BY <1>1, <1>2, <1>6, <2>1 DEF StartInv, StartOK
  <2>3. LoginsOK'
    BY <1>1, <1>6, <2>1, SameLogins DEF StartInv, LoginsOK, Itself, Again
  <2> QED BY <1>1, <2>2, <2>3 DEF StartInv
<1> QED BY <1>3, <1>4, <1>5, <1>6 DEF AskPasswords

(* The accounts are started with what their profiles make of the copy.      *)
LEMMA LaunchKeeps == StartInv /\ LaunchFirst => StartInv'
<1> SUFFICES ASSUME StartInv, LaunchFirst PROVE StartInv'
  OBVIOUS
<1> DEFINE S == ToSet(MultiPaths)
<1>1. /\ at = "console" /\ at' = "launched"
      /\ UNCHANGED <<picker, way, args, login, config, store, creds, template, ask>>
  BY DEF LaunchFirst
<1>2. DOMAIN template = S
  BY <1>1 DEF StartInv, LoginsOK
<1>3. S \subseteq Names
  BY PathsAre
<1>4. DOMAIN launch' \subseteq S /\ \A p \in DOMAIN launch' : launch'[p] = SessionTemplate(p)
  BY DEF LaunchFirst
<1> HIDE DEF S
<1>5. \A p \in DOMAIN launch' : launch'[p] \in Templates /\ Itself(p, launch'[p])
  BY <1>3, <1>4, TemplateIs
<1>6. StartOK'
  BY <1>1, <1>3, <1>4, <1>5 DEF StartInv, StartOK
<1>7. LoginsOK'
  BY <1>1, <1>2, <1>4, <1>5, SameLogins DEF StartInv, LoginsOK, Itself, Again, S
<1> QED BY <1>1, <1>6, <1>7 DEF StartInv

LEMMA StartKeeps == StartInv /\ [StartNext \/ HandOver]_<<picker, startVars>> => StartInv'
<1> SUFFICES ASSUME StartInv, [StartNext \/ HandOver]_<<picker, startVars>> PROVE StartInv'
  OBVIOUS
<1>1. CASE UNCHANGED <<picker, startVars>>
  BY <1>1, SameLogins DEF startVars, StartInv, StartOK, LoginsOK, Itself, Again
<1> QED BY <1>1, PickKeeps, ReadAllKeeps, MakeTemplatesKeeps, AskPasswordsKeeps, LaunchKeeps, HandOverKeeps DEF StartNext

-----------------------------------------------------------------------------
(* The layers of the configuration: lists taken in from the front. *)

LEMMA LeastOf ==
    ASSUME NEW T \in SUBSET Nat, T # {}
    PROVE  \E m \in T : \A k \in T : m <= k
<1>1. PICK m \in T : \A k \in T : ~(<<k, m>> \in OpToRel(<, Nat))
  BY WFMin, NatLessThanWellFounded, Zenon
<1>2. \A k \in T : ~(k < m)
  BY <1>1, Zenon DEF OpToRel
<1> QED BY <1>2

(* g holds what is folded so far, after each of the first n.                *)
FoldsTo(step, start, list, n, g) ==
    g = [k \in 0..n |-> IF k = 0 THEN start ELSE step[list[k]][g[k - 1]]]

LEMMA FoldExists ==
    ASSUME NEW step, NEW start, NEW list, NEW n \in Nat
    PROVE  \E g : FoldsTo(step, start, list, n, g)
<1> DEFINE T == {k \in 0..n : ~\E g : FoldsTo(step, start, list, k, g)}
           Rung(g, k) == IF k = 0 THEN start ELSE step[list[k]][g[k - 1]]
<1>1. T = {}
  <2>1. SUFFICES ASSUME T # {} PROVE FALSE
    OBVIOUS
  <2>2. T \in SUBSET Nat
    OBVIOUS
  <2>3. PICK m \in T : \A k \in T : m <= k
    BY <2>1, <2>2, LeastOf
  <2>4. m # 0
    <3> DEFINE f == [k \in 0..0 |-> start]
    <3>1. f = [k \in 0..0 |-> Rung(f, k)]
      OBVIOUS
    <3>2. FoldsTo(step, start, list, 0, f)
      BY <3>1 DEF FoldsTo
    <3> QED BY <2>3, <3>2
  <2>5. m \in 0..n /\ m - 1 \in 0..n /\ m - 1 \notin T
    BY <2>3, <2>4
  <2>6. PICK f : FoldsTo(step, start, list, m - 1, f)
    BY <2>5
  <2> DEFINE g == [k \in 0..m |-> IF k = m THEN Rung(f, m) ELSE f[k]]
  <2>7. FoldsTo(step, start, list, m, g)
    <3>1. \A k \in 0..m - 1 : f[k] = Rung(f, k)
      BY <2>5, <2>6 DEF FoldsTo
    <3>2. \A k \in 0..m - 1 : g[k] = f[k]
      BY <2>4, <2>5
    <3>3. g[m] = Rung(f, m)
      BY <2>5
    <3>4. \A k \in 0..m : k = 0 \/ g[k - 1] = f[k - 1]
      <4> TAKE k \in 0..m
      <4>1. k = 0 \/ k - 1 \in 0..m - 1
        BY <2>5
      <4> HIDE DEF g
      <4> QED BY <3>2, <4>1
    <3>5. \A k \in 0..m : Rung(g, k) = Rung(f, k)
      <4> HIDE DEF g
      <4> QED BY <3>4
    <3>6. g = [k \in 0..m |-> g[k]]
      OBVIOUS
    <3> HIDE DEF g, Rung
    <3>7. \A k \in 0..m : g[k] = Rung(g, k)
      <4> TAKE k \in 0..m
      <4>1. k = m \/ k \in 0..m - 1
        BY <2>5
      <4> QED BY <3>1, <3>2, <3>3, <3>5, <4>1
    <3>8. g = [k \in 0..m |-> Rung(g, k)]
      BY <3>6, <3>7
    <3> QED BY <3>8 DEF FoldsTo, Rung
  <2> QED BY <2>3, <2>7
<1> QED BY <1>1

(* A fold ends in the set its last step leads to, if every step leads from   *)
(* the set before to its own.                                               *)
LEMMA FoldIn ==
    ASSUME NEW step, NEW start, NEW S, NEW list \in Seq(S), NEW good,
           start \in good[0],
           \A n \in 1..Len(list) : \A acc \in good[n - 1] : step[list[n]][acc] \in good[n]
    PROVE  Folded(step, start, list) \in good[Len(list)]
<1> DEFINE N == Len(list)
           g == CHOOSE g : FoldsTo(step, start, list, N, g)
<1>0. N \in Nat
  OBVIOUS
<1>1. Folded(step, start, list) = g[N]
  BY Zenon DEF Folded, FoldsTo
<1>2. FoldsTo(step, start, list, N, g)
  BY <1>0, FoldExists
<1> HIDE DEF g
<1>3. g[0] = start /\ \A n \in 1..N : g[n] = step[list[n]][g[n - 1]]
  <2> DEFINE V(k) == IF k = 0 THEN start ELSE step[list[k]][g[k - 1]]
  <2>1. g = [k \in 0..N |-> V(k)]
    BY <1>2 DEF FoldsTo
  <2> HIDE DEF V, N
  <2>2. \A k \in 0..N : g[k] = V(k)
    BY <2>1
  <2>3. 0 \in 0..N /\ \A n \in 1..N : n \in 0..N /\ n # 0
    BY <1>0
  <2> QED BY <2>2, <2>3 DEF V
<1> DEFINE T == {n \in 0..N : g[n] \notin good[n]}
<1>4. T = {}
  <2>1. SUFFICES ASSUME T # {} PROVE FALSE
    OBVIOUS
  <2>2. T \in SUBSET Nat
    OBVIOUS
  <2>3. PICK m \in T : \A k \in T : m <= k
    BY <2>1, <2>2, LeastOf
  <2>4. m \in 1..N
    BY <1>0, <1>3, <2>3
  <2>5. m - 1 \notin T /\ m - 1 \in 0..N
    BY <1>0, <2>3, <2>4
  <2>6. g[m - 1] \in good[m - 1]
    BY <2>5
  <2>7. g[m] \in good[m]
    BY <1>3, <2>4, <2>6
  <2> QED BY <2>3, <2>7
<1>5. g[N] \in good[N]
  BY <1>0, <1>4
<1> QED BY <1>1, <1>5

-----------------------------------------------------------------------------
(* Rules merged by their id. *)

LEMMA OverOf ==
    /\ \A new, old \in Section : Over(new, old) \in Section
    /\ \A new \in Section : \A old \in Hunts : Over(new, old) \in Hunts
    /\ \A new \in Hunts : \A old \in Hunts : Over(new, old) = new
    /\ Hunts \subseteq Section
<1>1. ASSUME NEW new \in Section, NEW old \in Section PROVE Over(new, old) \in Section
  <2>1. PICK a \in SUBSET Params, b \in SUBSET Params : new \in [a -> Settings] /\ old \in [b -> Settings]
    BY DEF Section
  <2>2. Over(new, old) \in [a \cup b -> Settings]
    BY <2>1 DEF Over
  <2> QED BY <2>2 DEF Section
<1>2. ASSUME NEW new \in Section, NEW old \in Hunts PROVE Over(new, old) \in Hunts
  <2>1. PICK a \in SUBSET Params : new \in [a -> Settings]
    BY DEF Section
  <2>2. Over(new, old) \in [a \cup Params -> Settings] /\ a \cup Params = Params
    BY <2>1 DEF Over, Hunts
  <2> QED BY <2>2 DEF Hunts
<1>3. ASSUME NEW new \in Hunts, NEW old \in Hunts PROVE Over(new, old) = new
  BY DEF Over, Hunts
<1>4. Hunts \subseteq Section
  BY DEF Hunts, Section
<1> QED BY <1>1, <1>2, <1>3, <1>4

(* What the rules are when the entries at these places have been merged.     *)
Means(entry, places, rules) ==
    /\ \A i, j \in DOMAIN rules : rules[i].id = rules[j].id => i = j
    /\ \A x \in places : \E i \in DOMAIN rules : rules[i].id = entry[x].id
    /\ \A i \in DOMAIN rules : \E x \in places : entry[x].id = rules[i].id
    /\ \A i \in DOMAIN rules : \A key \in DOMAIN rules[i].says :
           \E x \in places : entry[x].id = rules[i].id /\ key \in DOMAIN entry[x].says
    /\ \A i \in DOMAIN rules : \A x \in places : \A key \in DOMAIN entry[x].says :
           entry[x].id = rules[i].id =>
               /\ key \in DOMAIN rules[i].says
               /\ \/ rules[i].says[key] = entry[x].says[key]
                  \/ \E y \in places : entry[y].id = rules[i].id /\ key \in DOMAIN entry[y].says /\ ~Before(y, x)

LEMMA EntryMerged ==
    ASSUME NEW entry, NEW places, NEW z, NEW rules \in Seq(Rule), Means(entry, places, rules),
           entry[z] \in Rule, \A x \in places : entry[x] \in Rule /\ ~Before(z, x)
    PROVE  /\ MergeEntry(rules, entry[z]) \in Seq(Rule)
           /\ Means(entry, places \cup {z}, MergeEntry(rules, entry[z]))
<1> DEFINE r == entry[z]
           same == {i \in DOMAIN rules : rules[i].id = r.id}
           new == MergeEntry(rules, r)
<1>0. /\ r.id \in RuleIds /\ r.says \in Section /\ r \in Rule
      /\ \A i \in DOMAIN rules : rules[i] \in Rule /\ rules[i].id \in RuleIds /\ rules[i].says \in Section
      /\ DOMAIN rules = 1..Len(rules) /\ Len(rules) \in Nat
  <2>1. \A e \in Rule : e.id \in RuleIds /\ e.says \in Section
    BY DEF Rule
  <2>2. DOMAIN rules = 1..Len(rules) /\ Len(rules) \in Nat /\ \A i \in 1..Len(rules) : rules[i] \in Rule
    OBVIOUS
  <2> QED BY <2>1, <2>2
<1>a. /\ \A i, j \in DOMAIN rules : rules[i].id = rules[j].id => i = j
      /\ \A x \in places : \E i \in DOMAIN rules : rules[i].id = entry[x].id
      /\ \A i \in DOMAIN rules : \E x \in places : entry[x].id = rules[i].id
  BY DEF Means
<1>b. \A i \in DOMAIN rules : \A key \in DOMAIN rules[i].says :
           \E x \in places : entry[x].id = rules[i].id /\ key \in DOMAIN entry[x].says
  BY DEF Means
<1>c. \A i \in DOMAIN rules : \A x \in places : \A key \in DOMAIN entry[x].says :
           entry[x].id = rules[i].id =>
               /\ key \in DOMAIN rules[i].says
               /\ \/ rules[i].says[key] = entry[x].says[key]
                  \/ \E y \in places : entry[y].id = rules[i].id /\ key \in DOMAIN entry[y].says /\ ~Before(y, x)
  BY DEF Means
<1>1. CASE same = {}
  <2>1. new = Append(rules, r)
    BY <1>1 DEF MergeEntry
  <2>2. /\ new \in Seq(Rule) /\ DOMAIN new = 1..Len(rules) + 1 /\ new[Len(rules) + 1] = r
        /\ \A i \in DOMAIN rules : new[i] = rules[i] /\ i # Len(rules) + 1
    BY <1>0, <2>1
  <2> HIDE DEF new
  <2> DEFINE l == Len(rules) + 1
  <2>3. /\ l \in DOMAIN new /\ \A i \in DOMAIN new : i = l \/ i \in DOMAIN rules
        /\ \A i \in DOMAIN rules : i \in DOMAIN new /\ rules[i].id # r.id
        /\ \A x \in places : entry[x].id # r.id
    <3>1. l \in DOMAIN new /\ \A i \in DOMAIN new : i = l \/ i \in DOMAIN rules
      BY <1>0, <2>2
    <3>2. \A i \in DOMAIN rules : i \in DOMAIN new /\ rules[i].id # r.id
      BY <1>0, <1>1, <2>2
    <3> QED BY <3>1, <3>2, <1>a
  <2> HIDE DEF l
  <2>4. new[l] = r /\ \A i \in DOMAIN rules : new[i] = rules[i] /\ i # l
    BY <2>2 DEF l
  <2>5. \A i, j \in DOMAIN new : new[i].id = new[j].id => i = j
    BY <2>3, <2>4, <1>a
  <2>6. \A x \in places \cup {z} : \E i \in DOMAIN new : new[i].id = entry[x].id
    BY <2>3, <2>4, <1>a
  <2>7. \A i \in DOMAIN new : \E x \in places \cup {z} : entry[x].id = new[i].id
    BY <2>3, <2>4, <1>a
  <2>8. \A i \in DOMAIN new : \A key \in DOMAIN new[i].says :
           \E x \in places \cup {z} : entry[x].id = new[i].id /\ key \in DOMAIN entry[x].says
    BY <2>3, <2>4, <1>b
  <2>9. \A i \in DOMAIN new : \A x \in places \cup {z} : \A key \in DOMAIN entry[x].says :
           entry[x].id = new[i].id =>
               /\ key \in DOMAIN new[i].says
               /\ \/ new[i].says[key] = entry[x].says[key]
                  \/ \E y \in places \cup {z} : entry[y].id = new[i].id /\ key \in DOMAIN entry[y].says /\ ~Before(y, x)
    <3> TAKE i \in DOMAIN new
    <3> TAKE x \in places \cup {z}
    <3> TAKE key \in DOMAIN entry[x].says
    <3> HAVE entry[x].id = new[i].id
    <3>1. CASE i = l
      BY <2>3, <2>4, <3>1
    <3>2. CASE i \in DOMAIN rules
      <4>1. x \in places /\ new[i] = rules[i]
        BY <2>3, <2>4, <3>2
      <4> QED BY <1>c, <3>2, <4>1
    <3> QED BY <2>3, <3>1, <3>2
  <2>10. Means(entry, places \cup {z}, new)
    BY <2>5, <2>6, <2>7, <2>8, <2>9 DEF Means
  <2> QED BY <2>2, <2>10 DEF new
<1>2. CASE same # {}
  <2> DEFINE l == CHOOSE i \in same : \A j \in same : i <= j
  <2>1. PICK k \in same : TRUE
    BY <1>2
  <2>2. same = {k}
    BY <1>a
  <2>3. l = k /\ k \in DOMAIN rules /\ rules[k].id = r.id
    <3>1. k \in Nat /\ k <= k
      BY <1>0
    <3> HIDE DEF same
    <3>2. \E i \in same : \A j \in same : i <= j
      BY <2>2, <3>1
    <3>3. l \in same
      BY <3>2
    <3> QED BY <2>2, <3>3 DEF same
  <2>4. new = [rules EXCEPT ![l].says = Over(r.says, @)]
    BY <1>2 DEF MergeEntry
  <2> HIDE DEF l
  <2> DEFINE s == Over(r.says, rules[k].says)
  <2>5. s \in Section
    BY <1>0, <2>3, OverOf
  <2>6. /\ DOMAIN s = DOMAIN r.says \cup DOMAIN rules[k].says
        /\ \A key \in DOMAIN s : s[key] = IF key \in DOMAIN r.says THEN r.says[key] ELSE rules[k].says[key]
    <3> DEFINE a == r.says
               o == rules[k].says
    <3>1. s = [key \in DOMAIN a \cup DOMAIN o |-> IF key \in DOMAIN a THEN a[key] ELSE o[key]]
      BY DEF Over
    <3> HIDE DEF a, o, s
    <3>2. /\ DOMAIN s = DOMAIN a \cup DOMAIN o
          /\ \A key \in DOMAIN s : s[key] = IF key \in DOMAIN a THEN a[key] ELSE o[key]
      BY <3>1
    <3> QED BY <3>2 DEF a, o
  <2> HIDE DEF s
  <2>7. new = [rules EXCEPT ![k].says = s]
    BY <2>3, <2>4 DEF s
  <2>8. /\ new \in Seq(Rule) /\ DOMAIN new = DOMAIN rules
        /\ new[k].id = rules[k].id /\ new[k].says = s
        /\ \A i \in DOMAIN rules : i # k => new[i] = rules[i]
    BY <1>0, <2>3, <2>5, <2>7 DEF Rule
  <2> HIDE DEF new
  <2>9. \A i \in DOMAIN rules : i \in DOMAIN new /\ new[i].id = rules[i].id
    BY <2>8
  <2>10. \A i, j \in DOMAIN new : new[i].id = new[j].id => i = j
    BY <2>8, <2>9, <1>a
  <2>11. \A x \in places \cup {z} : \E i \in DOMAIN new : new[i].id = entry[x].id
    BY <2>3, <2>8, <2>9, <1>a
  <2>12. \A i \in DOMAIN new : \E x \in places \cup {z} : entry[x].id = new[i].id
    BY <2>8, <2>9, <1>a
  <2>13. \A i \in DOMAIN new : \A key \in DOMAIN new[i].says :
           \E x \in places \cup {z} : entry[x].id = new[i].id /\ key \in DOMAIN entry[x].says
    <3> TAKE i \in DOMAIN new
    <3> TAKE key \in DOMAIN new[i].says
    <3>1. CASE i = k /\ key \in DOMAIN r.says
      BY <2>3, <2>8, <3>1
    <3>2. CASE key \in DOMAIN rules[i].says
      BY <1>b, <2>8, <2>9, <3>2
    <3> QED BY <2>6, <2>8, <3>1, <3>2
  <2>14. \A i \in DOMAIN new : \A x \in places \cup {z} : \A key \in DOMAIN entry[x].says :
           entry[x].id = new[i].id =>
               /\ key \in DOMAIN new[i].says
               /\ \/ new[i].says[key] = entry[x].says[key]
                  \/ \E y \in places \cup {z} : entry[y].id = new[i].id /\ key \in DOMAIN entry[y].says /\ ~Before(y, x)
    <3> TAKE i \in DOMAIN new
    <3> TAKE x \in places \cup {z}
    <3> TAKE key \in DOMAIN entry[x].says
    <3> HAVE entry[x].id = new[i].id
    <3>1. i \in DOMAIN rules /\ new[i].id = rules[i].id
      BY <2>8, <2>9
    <3>2. CASE i # k
      <4>1. x # z
        BY <1>a, <2>3, <3>1, <3>2
      <4> QED BY <1>c, <2>8, <3>1, <3>2, <4>1
    <3>3. CASE i = k /\ x = z
      BY <2>6, <2>8, <3>3
    <3>4. CASE i = k /\ x \in places /\ key \in DOMAIN r.says
      <4>1. ~Before(z, x) /\ entry[z].id = new[i].id /\ key \in DOMAIN entry[z].says
        BY <2>3, <3>1, <3>4
      <4> QED BY <2>6, <2>8, <3>4, <4>1
    <3>5. CASE i = k /\ x \in places /\ key \notin DOMAIN r.says
      <4>1. /\ key \in DOMAIN rules[i].says
            /\ \/ rules[i].says[key] = entry[x].says[key]
               \/ \E y \in places : entry[y].id = rules[i].id /\ key \in DOMAIN entry[y].says /\ ~Before(y, x)
        BY <1>c, <3>1, <3>5
      <4>2. key \in DOMAIN new[i].says /\ new[i].says[key] = rules[i].says[key]
        BY <2>6, <2>8, <3>5, <4>1
      <4> QED BY <3>1, <4>1, <4>2
    <3> QED BY <3>2, <3>3, <3>4, <3>5
  <2>15. Means(entry, places \cup {z}, new)
    BY <2>10, <2>11, <2>12, <2>13, <2>14 DEF Means
  <2> QED BY <2>8, <2>15 DEF new
<1> QED BY <1>1, <1>2

(* The places before <<i, j>>, and it, and what is said there.              *)
Places(said, out, i, j) ==
    {x \in Nat \X Nat : /\ x[1] \in 1..Len(out) /\ x[2] \in 1..Len(said[out[x[1]]])
                        /\ x[1] < i \/ (x[1] = i /\ x[2] <= j)}
EntryAt(said, out) == [x \in Nat \X Nat |-> said[out[x[1]]][x[2]]]

LEMMA PlaceAdded ==
    ASSUME NEW said \in [ConfigFiles -> Seq(Rule)], NEW out \in Seq(ConfigFiles),
           NEW i \in 1..Len(out), NEW j \in 1..Len(said[out[i]])
    PROVE  /\ Places(said, out, i, j) = Places(said, out, i, j - 1) \cup {<<i, j>>}
           /\ EntryAt(said, out)[<<i, j>>] = said[out[i]][j] /\ said[out[i]][j] \in Rule
           /\ \A x \in Places(said, out, i, j - 1) :
                  EntryAt(said, out)[x] \in Rule /\ ~Before(<<i, j>>, x)
<1>1. out[i] \in ConfigFiles /\ said[out[i]] \in Seq(Rule) /\ i \in Nat /\ j \in Nat
  OBVIOUS
<1>2. said[out[i]][j] \in Rule
  BY <1>1
<1>3. EntryAt(said, out)[<<i, j>>] = said[out[i]][j]
  BY <1>1 DEF EntryAt
<1>4. ASSUME NEW x \in Places(said, out, i, j - 1)
      PROVE  EntryAt(said, out)[x] \in Rule /\ ~Before(<<i, j>>, x)
  <2>1. /\ x \in Nat \X Nat /\ x[1] \in 1..Len(out) /\ x[2] \in 1..Len(said[out[x[1]]])
        /\ x[1] < i \/ (x[1] = i /\ x[2] <= j - 1)
    BY <1>4 DEF Places
  <2>2. EntryAt(said, out)[x] = said[out[x[1]]][x[2]]
    BY <2>1 DEF EntryAt
  <2>3. said[out[x[1]]] \in Seq(Rule)
    BY <2>1
  <2>4. ~Before(<<i, j>>, x)
    BY <1>1, <2>1 DEF Before
  <2> QED BY <2>1, <2>2, <2>3, <2>4
<1>5. Places(said, out, i, j) = Places(said, out, i, j - 1) \cup {<<i, j>>}
  <2>1. ASSUME NEW x \in Places(said, out, i, j) PROVE x \in Places(said, out, i, j - 1) \/ x = <<i, j>>
    <3>1. /\ x \in Nat \X Nat /\ x[1] \in 1..Len(out) /\ x[2] \in 1..Len(said[out[x[1]]])
          /\ x[1] < i \/ (x[1] = i /\ x[2] <= j)
      BY <2>1 DEF Places
    <3>2. CASE x[1] = i /\ x[2] = j
      BY <3>1, <3>2
    <3>3. CASE ~(x[1] = i /\ x[2] = j)
      <4>1. x[1] < i \/ (x[1] = i /\ x[2] <= j - 1)
        BY <1>1, <3>1, <3>3
      <4> QED BY <3>1, <4>1 DEF Places
    <3> QED BY <3>2, <3>3
  <2>2. ASSUME NEW x \in Places(said, out, i, j - 1) PROVE x \in Places(said, out, i, j)
    <3>1. /\ x \in Nat \X Nat /\ x[1] \in 1..Len(out) /\ x[2] \in 1..Len(said[out[x[1]]])
          /\ x[1] < i \/ (x[1] = i /\ x[2] <= j - 1)
      BY <2>2 DEF Places
    <3>2. x[1] < i \/ (x[1] = i /\ x[2] <= j)
      BY <1>1, <3>1
    <3> QED BY <3>1, <3>2 DEF Places
  <2>3. <<i, j>> \in Places(said, out, i, j)
    BY <1>1 DEF Places
  <2> QED BY <2>1, <2>2, <2>3
<1> QED BY <1>2, <1>3, <1>4, <1>5

LEMMA PlacesMeet ==
    ASSUME NEW said \in [ConfigFiles -> Seq(Rule)], NEW out \in Seq(ConfigFiles)
    PROVE  /\ Places(said, out, 1, 0) = {}
           /\ \A i \in 1..Len(out) : Places(said, out, i + 1, 0) = Places(said, out, i, Len(said[out[i]]))
<1>1. Places(said, out, 1, 0) = {}
  BY DEF Places
<1>2. ASSUME NEW i \in 1..Len(out)
      PROVE  Places(said, out, i + 1, 0) = Places(said, out, i, Len(said[out[i]]))
  <2>1. \A x \in Nat \X Nat : x[2] \in 1..Len(said[out[x[1]]]) =>
            ((x[1] < i + 1 \/ (x[1] = i + 1 /\ x[2] <= 0)) <=> (x[1] < i \/ (x[1] = i /\ x[2] <= Len(said[out[i]]))))
    OBVIOUS
  <2> QED BY <2>1 DEF Places
<1> QED BY <1>1, <1>2

(* One layer's rules.                                                       *)
LEMMA LayerMerged ==
    ASSUME NEW said \in [ConfigFiles -> Seq(Rule)], NEW out \in Seq(ConfigFiles), NEW i \in 1..Len(out),
           NEW rules \in Seq(Rule), Means(EntryAt(said, out), Places(said, out, i, 0), rules)
    PROVE  /\ MergeById(rules, said[out[i]]) \in Seq(Rule)
           /\ Means(EntryAt(said, out), Places(said, out, i, Len(said[out[i]])), MergeById(rules, said[out[i]]))
<1> DEFINE over == said[out[i]]
           entry == EntryAt(said, out)
           step == [r \in Rule |-> [rs \in Seq(Rule) |-> MergeEntry(rs, r)]]
           good == [j \in 0..Len(over) |-> {rs \in Seq(Rule) : Means(entry, Places(said, out, i, j), rs)}]
<1>1. over \in Seq(Rule) /\ Len(over) \in Nat
  OBVIOUS
<1>2. good[0] = {rs \in Seq(Rule) : Means(entry, Places(said, out, i, 0), rs)}
  BY <1>1
<1>3. rules \in good[0]
  BY <1>2
<1>4. ASSUME NEW j \in 1..Len(over), NEW rs \in good[j - 1] PROVE step[over[j]][rs] \in good[j]
  <2>1. /\ good[j - 1] = {s \in Seq(Rule) : Means(entry, Places(said, out, i, j - 1), s)}
        /\ good[j] = {s \in Seq(Rule) : Means(entry, Places(said, out, i, j), s)}
    BY <1>1
  <2> HIDE DEF good
  <2>2. rs \in Seq(Rule) /\ Means(entry, Places(said, out, i, j - 1), rs)
    BY <1>4, <2>1
  <2>3. /\ Places(said, out, i, j) = Places(said, out, i, j - 1) \cup {<<i, j>>}
        /\ entry[<<i, j>>] = over[j] /\ over[j] \in Rule
        /\ \A x \in Places(said, out, i, j - 1) : entry[x] \in Rule /\ ~Before(<<i, j>>, x)
    BY PlaceAdded
  <2>4. step[over[j]][rs] = MergeEntry(rs, over[j])
    BY <2>2, <2>3
  <2> HIDE DEF entry, over, step
  <2>5. /\ MergeEntry(rs, entry[<<i, j>>]) \in Seq(Rule)
        /\ Means(entry, Places(said, out, i, j - 1) \cup {<<i, j>>}, MergeEntry(rs, entry[<<i, j>>]))
    BY <2>2, <2>3, EntryMerged
  <2> QED BY <2>1, <2>3, <2>4, <2>5
<1>5. MergeById(rules, over) = Folded(step, rules, over)
  BY DEF MergeById
<1> HIDE DEF good, step
<1>6. Folded(step, rules, over) \in good[Len(over)]
  <2> HIDE DEF over
  <2> QED BY <1>1, <1>3, <1>4, FoldIn
<1>7. good[Len(over)] = {rs \in Seq(Rule) : Means(entry, Places(said, out, i, Len(over)), rs)}
  BY <1>1 DEF good
<1> QED BY <1>5, <1>6, <1>7

(* All layers' rules.                                                       *)
LEMMA RulesMerged ==
    ASSUME NEW said \in [ConfigFiles -> Seq(Rule)], NEW out \in Seq(ConfigFiles)
    PROVE  /\ MergedRules(said, out) \in Seq(Rule)
           /\ Means(EntryAt(said, out), Places(said, out, Len(out) + 1, 0), MergedRules(said, out))
<1> DEFINE entry == EntryAt(said, out)
           step == [f \in ConfigFiles |-> [rs \in Seq(Rule) |-> MergeById(rs, said[f])]]
           good == [i \in 0..Len(out) |-> {rs \in Seq(Rule) : Means(entry, Places(said, out, i + 1, 0), rs)}]
<1>1. Len(out) \in Nat /\ 0 + 1 = 1
  OBVIOUS
<1>2. <<>> \in good[0]
  <2>1. good[0] = {rs \in Seq(Rule) : Means(entry, Places(said, out, 1, 0), rs)}
    BY <1>1
  <2>2. Means(entry, {}, <<>>)
    BY DEF Means
  <2>3. Places(said, out, 1, 0) = {} /\ <<>> \in Seq(Rule)
    BY PlacesMeet
  <2> HIDE DEF entry, good
  <2> QED BY <2>1, <2>2, <2>3
<1>3. ASSUME NEW i \in 1..Len(out), NEW rs \in good[i - 1] PROVE step[out[i]][rs] \in good[i]
  <2>1. /\ good[i - 1] = {s \in Seq(Rule) : Means(entry, Places(said, out, i, 0), s)}
        /\ good[i] = {s \in Seq(Rule) : Means(entry, Places(said, out, i + 1, 0), s)}
    BY <1>1
  <2> HIDE DEF good
  <2>2. rs \in Seq(Rule) /\ Means(entry, Places(said, out, i, 0), rs)
    BY <1>3, <2>1
  <2>3. step[out[i]][rs] = MergeById(rs, said[out[i]])
    BY <2>2
  <2>4. /\ MergeById(rs, said[out[i]]) \in Seq(Rule)
        /\ Means(entry, Places(said, out, i, Len(said[out[i]])), MergeById(rs, said[out[i]]))
    BY <2>2, LayerMerged
  <2>5. Places(said, out, i + 1, 0) = Places(said, out, i, Len(said[out[i]]))
    BY PlacesMeet
  <2> HIDE DEF entry, step
  <2> QED BY <2>1, <2>3, <2>4, <2>5
<1>4. MergedRules(said, out) = Folded(step, <<>>, out)
  BY DEF MergedRules
<1>5. good[Len(out)] = {rs \in Seq(Rule) : Means(entry, Places(said, out, Len(out) + 1, 0), rs)}
  BY <1>1
<1> HIDE DEF good, step
<1>6. Folded(step, <<>>, out) \in good[Len(out)]
  BY <1>2, <1>3, FoldIn
<1> QED BY <1>4, <1>5, <1>6

LEMMA HuntMerged ==
    ASSUME NEW said \in [ConfigFiles -> Section], NEW out \in Seq(ConfigFiles), Default \in Hunts
    PROVE  /\ MergedHunt(said, out) \in Hunts
           /\ Len(out) > 0 /\ said[out[Len(out)]] \in Hunts => MergedHunt(said, out) = said[out[Len(out)]]
<1> DEFINE step == [f \in ConfigFiles |-> [hunt \in Hunts |-> Over(said[f], hunt)]]
           good == [i \in 0..Len(out) |->
                       {h \in Hunts : i > 0 /\ said[out[i]] \in Hunts => h = said[out[i]]}]
<1>1. Len(out) \in Nat
  OBVIOUS
<1>2. Default \in good[0]
  BY <1>1
<1>3. ASSUME NEW i \in 1..Len(out), NEW h \in good[i - 1] PROVE step[out[i]][h] \in good[i]
  <2>1. h \in Hunts
    BY <1>1, <1>3
  <2>2. step[out[i]][h] = Over(said[out[i]], h) /\ said[out[i]] \in Section
    BY <2>1
  <2>3. Over(said[out[i]], h) \in Hunts
    BY <2>1, <2>2, OverOf
  <2>4. said[out[i]] \in Hunts => Over(said[out[i]], h) = said[out[i]]
    BY <2>1, OverOf
  <2>5. good[i] = {k \in Hunts : i > 0 /\ said[out[i]] \in Hunts => k = said[out[i]]}
    BY <1>1
  <2> HIDE DEF good, step
  <2> QED BY <2>2, <2>3, <2>4, <2>5
<1>4. MergedHunt(said, out) = Folded(step, Default, out)
  BY DEF MergedHunt
<1>5. good[Len(out)] = {h \in Hunts : Len(out) > 0 /\ said[out[Len(out)]] \in Hunts => h = said[out[Len(out)]]}
  BY <1>1
<1> HIDE DEF good, step
<1>6. Folded(step, Default, out) \in good[Len(out)]
  BY <1>2, <1>3, FoldIn
<1> QED BY <1>4, <1>5, <1>6

-----------------------------------------------------------------------------
(* The files that are collected. *)

Listings == [ConfigFiles -> [state : {"ok", "bad", "missing"}, include : Seq(ConfigFiles)]]
Included(files) == UNION {{files[f].include[i] : i \in DOMAIN files[f].include} : f \in ConfigFiles}

LEMMA IncludedAre ==
    ASSUME NEW files \in Listings
    PROVE  \A f \in ConfigFiles : \A i \in 1..Len(files[f].include) : files[f].include[i] \in Included(files)
<1> SUFFICES ASSUME NEW f \in ConfigFiles, NEW i \in 1..Len(files[f].include)
             PROVE  files[f].include[i] \in Included(files)
  OBVIOUS
<1>1. files[f].include \in Seq(ConfigFiles)
  BY DEF Listings
<1>2. i \in DOMAIN files[f].include
  BY <1>1
<1> QED BY <1>2 DEF Included

(* What is collected in a file is done, or included by some file.           *)
Collects(files, within) ==
    \A f \in ConfigFiles : \A c \in Collections :
        within[f][c] \in Collections /\ within[f][c].done \subseteq c.done \cup {f} \cup Included(files)

LEMMA CollectionIs ==
    ASSUME NEW c \in Collections
    PROVE  /\ c.out \in Seq(ConfigFiles) /\ c.done \subseteq ConfigFiles /\ c.error \in BOOLEAN
           /\ c = [out |-> c.out, done |-> c.done, error |-> c.error]
BY DEF Collections

LEMMA WithError ==
    \A c \in Collections : \A e \in BOOLEAN :
        /\ [c EXCEPT !.error = e] \in Collections /\ [c EXCEPT !.error = e].done = c.done
        /\ [c EXCEPT !.error = e].error = e
BY DEF Collections

LEMMA WithDone ==
    \A c \in Collections : \A f \in ConfigFiles :
        /\ [c EXCEPT !.done = @ \cup {f}] \in Collections
        /\ [c EXCEPT !.done = @ \cup {f}].done = c.done \cup {f}
BY DEF Collections

LEMMA WithOut ==
    \A c \in Collections : \A f \in ConfigFiles :
        LET r == [c EXCEPT !.out = Append(@, f)]
        IN  /\ r \in Collections /\ r.done = c.done /\ r.error = c.error
            /\ Len(r.out) > 0 /\ r.out[Len(r.out)] = f
<1> SUFFICES ASSUME NEW c \in Collections, NEW f \in ConfigFiles
             PROVE  LET r == [c EXCEPT !.out = Append(@, f)]
                    IN  /\ r \in Collections /\ r.done = c.done /\ r.error = c.error
                        /\ Len(r.out) > 0 /\ r.out[Len(r.out)] = f
  OBVIOUS
<1> DEFINE o == Append(c.out, f)
           r == [c EXCEPT !.out = Append(@, f)]
<1>1. c.out \in Seq(ConfigFiles)
  BY CollectionIs
<1>2. o \in Seq(ConfigFiles) /\ Len(o) > 0 /\ o[Len(o)] = f
  BY <1>1
<1>3. r = [c EXCEPT !.out = o]
  OBVIOUS
<1> HIDE DEF o, r
<1>4. r \in Collections /\ r.done = c.done /\ r.error = c.error /\ r.out = o
  BY <1>2, <1>3 DEF Collections
<1> QED BY <1>2, <1>4 DEF r

(* One file with what it includes: what there was if it is done or missing,  *)
(* an error, or the file behind all it includes.                            *)
LEMMA CollectedIs ==
    ASSUME NEW files \in Listings, NEW within, Collects(files, within), NEW c \in Collections,
           NEW f \in ConfigFiles, NEW missingOk \in BOOLEAN
    PROVE  LET r == Collected(files, within, c, f, missingOk)
           IN  /\ r \in Collections /\ r.done \subseteq c.done \cup {f} \cup Included(files)
               /\ \/ r.error
                  \/ r = c /\ files[f].state = "missing" /\ missingOk
                  \/ r = c /\ f \in c.done
                  \/ Len(r.out) > 0 /\ r.out[Len(r.out)] = f
<1> DEFINE r == Collected(files, within, c, f, missingOk)
           start == [c EXCEPT !.done = @ \cup {f}]
           list == files[f].include
           all == Folded(within, start, list)
           A == {a \in Collections : a.done \subseteq c.done \cup {f} \cup Included(files)}
           good == [n \in 0..Len(list) |-> A]
<1>1. list \in Seq(ConfigFiles) /\ Len(list) \in Nat
  BY DEF Listings
<1>2. start \in good[0]
  <2>1. good[0] = A
    BY <1>1
  <2>2. start \in Collections /\ start.done = c.done \cup {f}
    BY WithDone
  <2> HIDE DEF start, good
  <2> QED BY <2>1, <2>2
<1>3. ASSUME NEW n \in 1..Len(list), NEW a \in good[n - 1] PROVE within[list[n]][a] \in good[n]
  <2>1. a \in A /\ good[n] = A
    BY <1>1, <1>3
  <2>2. a \in Collections /\ a.done \subseteq c.done \cup {f} \cup Included(files)
    BY <2>1
  <2>3. list[n] \in ConfigFiles /\ list[n] \in Included(files)
    BY <1>1, IncludedAre
  <2>4. /\ within[list[n]][a] \in Collections
        /\ within[list[n]][a].done \subseteq a.done \cup {list[n]} \cup Included(files)
    BY <2>2, <2>3 DEF Collects
  <2> HIDE DEF good, list
  <2> QED BY <2>1, <2>2, <2>3, <2>4
<1>4. good[Len(list)] = A
  BY <1>1
<1> HIDE DEF good, start, list
<1>5. all \in A
  BY <1>1, <1>2, <1>3, <1>4, FoldIn
<1>6. all \in Collections /\ all.done \subseteq c.done \cup {f} \cup Included(files)
  BY <1>5
<1>7. r = IF c.error \/ (files[f].state # "missing" /\ f \in c.done) THEN c
          ELSE IF files[f].state = "missing" THEN [c EXCEPT !.error = ~missingOk]
          ELSE IF files[f].state = "bad" THEN [c EXCEPT !.error = TRUE]
          ELSE IF all.error THEN all ELSE [all EXCEPT !.out = Append(@, f)]
  BY DEF Collected, start, list
<1> HIDE DEF all, A, r
<1>8. CASE c.error \/ (files[f].state # "missing" /\ f \in c.done)
  BY <1>7, <1>8 DEF r
<1>9. CASE ~c.error /\ files[f].state = "missing"
  <2>1. r = [c EXCEPT !.error = ~missingOk] /\ (~missingOk) \in BOOLEAN
    BY <1>7, <1>9
  <2>2. r \in Collections /\ r.done = c.done /\ r.error = ~missingOk
    BY <2>1, WithError
  <2>3. missingOk => r = c
    BY <1>9, <2>1, CollectionIs DEF Collections
  <2> QED BY <1>9, <2>2, <2>3 DEF r
<1>10. CASE ~c.error /\ f \notin c.done /\ files[f].state = "bad"
  <2>1. r = [c EXCEPT !.error = TRUE]
    BY <1>7, <1>10
  <2>2. r \in Collections /\ r.done = c.done /\ r.error
    BY <2>1, WithError
  <2> QED BY <2>2 DEF r
<1>11. CASE ~c.error /\ f \notin c.done /\ files[f].state \notin {"missing", "bad"}
  <2>1. r = IF all.error THEN all ELSE [all EXCEPT !.out = Append(@, f)]
    BY <1>7, <1>11
  <2>2. CASE all.error
    BY <1>6, <2>1, <2>2 DEF r
  <2>3. CASE ~all.error
    <3>1. /\ r \in Collections /\ r.done = all.done
          /\ Len(r.out) > 0 /\ r.out[Len(r.out)] = f
      BY <1>6, <2>1, <2>3, WithOut
    <3> QED BY <1>6, <3>1 DEF r
  <2> QED BY <2>2, <2>3
<1> QED BY <1>8, <1>9, <1>10, <1>11

(* The levels of inclusion, as far as n.                                    *)
Nests(files, n, h) ==
    h = [k \in 0..n |-> [f \in ConfigFiles |-> [c \in Collections |->
            IF k = 0 THEN c ELSE Collected(files, h[k - 1], c, f, FALSE)]]]

LEMMA NestExists ==
    ASSUME NEW files, NEW n \in Nat
    PROVE  \E h : Nests(files, n, h)
<1> DEFINE T == {k \in 0..n : ~\E h : Nests(files, k, h)}
           Rung(h, k) == [f \in ConfigFiles |-> [c \in Collections |->
                            IF k = 0 THEN c ELSE Collected(files, h[k - 1], c, f, FALSE)]]
<1>0. \A h, k : k = 0 => Rung(h, k) = Rung(<<>>, 0)
  OBVIOUS
<1>a. \A h1, h2, k : h1[k - 1] = h2[k - 1] => Rung(h1, k) = Rung(h2, k)
  OBVIOUS
<1>b. \A k, h : Nests(files, k, h) <=> h = [j \in 0..k |-> Rung(h, j)]
  BY DEF Nests
<1> HIDE DEF Rung
<1>1. T = {}
  <2>1. SUFFICES ASSUME T # {} PROVE FALSE
    OBVIOUS
  <2>2. T \in SUBSET Nat
    OBVIOUS
  <2>3. PICK m \in T : \A k \in T : m <= k
    BY <2>1, <2>2, LeastOf
  <2>4. m # 0
    <3> DEFINE h == [k \in 0..0 |-> Rung(<<>>, 0)]
    <3>1. \A k \in 0..0 : Rung(h, k) = Rung(<<>>, 0)
      <4> TAKE k \in 0..0
      <4>1. k = 0
        OBVIOUS
      <4> HIDE DEF h
      <4> QED BY <1>0, <4>1
    <3>2. h = [k \in 0..0 |-> Rung(h, k)]
      BY <3>1
    <3>3. Nests(files, 0, h)
      BY <1>b, <3>2
    <3> QED BY <2>3, <3>3
  <2>5. m \in 0..n /\ m - 1 \in 0..n /\ m - 1 \notin T
    BY <2>3, <2>4
  <2>6. PICK h : Nests(files, m - 1, h)
    BY <2>5
  <2> DEFINE g == [k \in 0..m |-> IF k = m THEN Rung(h, m) ELSE h[k]]
  <2>7. Nests(files, m, g)
    <3>1. \A k \in 0..m - 1 : h[k] = Rung(h, k)
      <4>1. h = [j \in 0..m - 1 |-> Rung(h, j)]
        BY <1>b, <2>6
      <4> QED BY <4>1
    <3>2. \A k \in 0..m - 1 : g[k] = h[k]
      BY <2>4, <2>5
    <3>3. g[m] = Rung(h, m)
      BY <2>5
    <3>5. \A k \in 0..m : Rung(g, k) = Rung(h, k)
      <4> TAKE k \in 0..m
      <4>1. k = 0 \/ k - 1 \in 0..m - 1
        BY <2>5
      <4> HIDE DEF g
      <4>2. CASE k = 0
        BY <1>0, <4>2
      <4>3. CASE k - 1 \in 0..m - 1
        <5>1. g[k - 1] = h[k - 1]
          BY <3>2, <4>3
        <5> QED BY <1>a, <5>1
      <4> QED BY <4>1, <4>2, <4>3
    <3>6. g = [k \in 0..m |-> g[k]]
      OBVIOUS
    <3> HIDE DEF g
    <3>7. \A k \in 0..m : g[k] = Rung(g, k)
      <4> TAKE k \in 0..m
      <4>1. k = m \/ k \in 0..m - 1
        BY <2>5
      <4> QED BY <3>1, <3>2, <3>3, <3>5, <4>1
    <3>8. g = [k \in 0..m |-> Rung(g, k)]
      BY <3>6, <3>7
    <3> QED BY <1>b, <3>8
  <2> QED BY <2>3, <2>7
<1> QED BY <1>1

LEMMA WithinCollects ==
    ASSUME NEW files \in Listings, IsFiniteSet(ConfigFiles)
    PROVE  Collects(files, Within(files))
<1> DEFINE N == Cardinality(ConfigFiles)
           h == CHOOSE h : Nests(files, N, h)
           T == {n \in 0..N : ~Collects(files, h[n])}
<1>0. N \in Nat
  BY FS_CardinalityType
<1>1. Within(files) = h[N]
  BY Zenon DEF Within, Nests
<1>2. Nests(files, N, h)
  BY <1>0, NestExists
<1> HIDE DEF h
<1>3. \A n \in 0..N : \A f \in ConfigFiles : \A c \in Collections :
          h[n][f][c] = IF n = 0 THEN c ELSE Collected(files, h[n - 1], c, f, FALSE)
  <2>1. \A n \in 0..N : h[n] = [f \in ConfigFiles |-> [c \in Collections |->
            IF n = 0 THEN c ELSE Collected(files, h[n - 1], c, f, FALSE)]]
    BY <1>2 DEF Nests
  <2> TAKE n \in 0..N
  <2> DEFINE V(f, c) == IF n = 0 THEN c ELSE Collected(files, h[n - 1], c, f, FALSE)
  <2>2. h[n] = [f \in ConfigFiles |-> [c \in Collections |-> V(f, c)]]
    BY <2>1
  <2> HIDE DEF V
  <2>3. \A f \in ConfigFiles : \A c \in Collections : h[n][f][c] = V(f, c)
    BY <2>2
  <2> QED BY <2>3 DEF V
<1>4. T = {}
  <2>1. SUFFICES ASSUME T # {} PROVE FALSE
    OBVIOUS
  <2>2. T \in SUBSET Nat
    BY <1>0
  <2>3. PICK m \in T : \A k \in T : m <= k
    BY <2>1, <2>2, LeastOf
  <2>4. m \in 0..N /\ m \in Nat /\ (m # 0 => m - 1 \in 0..N /\ m - 1 \notin T)
    BY <1>0, <2>3
  <2>5. CASE m = 0
    <3>1. \A f \in ConfigFiles : \A c \in Collections : h[m][f][c] = c
      BY <1>3, <2>4, <2>5
    <3>2. Collects(files, h[m])
      BY <3>1, Zenon DEF Collects
    <3> QED BY <2>3, <3>2
  <2>6. CASE m # 0
    <3>1. Collects(files, h[m - 1])
      BY <2>4, <2>6
    <3>2. ASSUME NEW f \in ConfigFiles, NEW c \in Collections
          PROVE  h[m][f][c] \in Collections /\ h[m][f][c].done \subseteq c.done \cup {f} \cup Included(files)
      <4>1. h[m][f][c] = Collected(files, h[m - 1], c, f, FALSE)
        BY <1>3, <2>4, <2>6
      <4>2. FALSE \in BOOLEAN
        OBVIOUS
      <4>3. /\ Collected(files, h[m - 1], c, f, FALSE) \in Collections
            /\ Collected(files, h[m - 1], c, f, FALSE).done \subseteq c.done \cup {f} \cup Included(files)
        BY <3>1, <4>2, CollectedIs
      <4> QED BY <4>1, <4>3
    <3>3. Collects(files, h[m])
      BY <3>2 DEF Collects
    <3> QED BY <2>3, <3>3
  <2> QED BY <2>5, <2>6
<1>5. Collects(files, h[N])
  BY <1>0, <1>4
<1> QED BY <1>1, <1>5

(* The last path is that only.                                              *)
LastOnly(files, paths) ==
    /\ paths[Len(paths)] \notin Included(files)
    /\ \A i \in 1..Len(paths) : paths[i] = paths[Len(paths)] => i = Len(paths)

(* If there is a last path and no error then there are layers, and it is the *)
(* last of them if it is nothing else.                                      *)
LEMMA AllCollected ==
    ASSUME NEW files \in Listings, IsFiniteSet(ConfigFiles), NEW paths \in Seq(ConfigFiles) \ {<<>>},
           NEW missingOk \in BOOLEAN
    PROVE  LET r == CollectedAll(files, paths, missingOk)
               last == paths[Len(paths)]
           IN  /\ r \in Collections
               /\ ~r.error /\ files[last].state # "missing" =>
                      Len(r.out) > 0 /\ (LastOnly(files, paths) => r.out[Len(r.out)] = last)
<1> DEFINE N == Len(paths)
           last == paths[N]
           start == [out |-> <<>>, done |-> {}, error |-> FALSE]
           step == [f \in ConfigFiles |-> [c \in Collections |-> Collected(files, Within(files), c, f, missingOk)]]
           Ended(a) == ~a.error /\ files[last].state # "missing" =>
                          Len(a.out) > 0 /\ (LastOnly(files, paths) => a.out[Len(a.out)] = last)
           P(n, a) == /\ a.done \subseteq {paths[i] : i \in 1..n} \cup Included(files)
                      /\ a.done # {} /\ ~a.error => Len(a.out) > 0
                      /\ n = N => Ended(a)
           good == [n \in 0..N |-> {a \in Collections : P(n, a)}]
<1>1. paths \in Seq(ConfigFiles) /\ N \in Nat /\ N # 0
  OBVIOUS
<1>2. start \in good[0]
  <2>1. good[0] = {a \in Collections : P(0, a)}
    BY <1>1
  <2>2. start \in Collections
    BY DEF Collections
  <2>3. P(0, start)
    BY <1>1
  <2> HIDE DEF good, P, start
  <2> QED BY <2>1, <2>2, <2>3
<1>3. ASSUME NEW n \in 1..N, NEW a \in good[n - 1] PROVE step[paths[n]][a] \in good[n]
  <2> DEFINE f == paths[n]
             r == Collected(files, Within(files), a, f, missingOk)
  <2>1. good[n - 1] = {c \in Collections : P(n - 1, c)} /\ good[n] = {c \in Collections : P(n, c)}
    BY <1>1
  <2> HIDE DEF good
  <2>2. a \in Collections /\ P(n - 1, a) /\ f \in ConfigFiles
    BY <1>1, <1>3, <2>1
  <2>3. step[f][a] = r
    BY <2>2
  <2>4. Collects(files, Within(files))
    BY WithinCollects
  <2> DEFINE Done == \/ r.error
                     \/ r = a /\ files[f].state = "missing" /\ missingOk
                     \/ r = a /\ f \in a.done
                     \/ Len(r.out) > 0 /\ r.out[Len(r.out)] = f
  <2>5. r \in Collections /\ r.done \subseteq a.done \cup {f} \cup Included(files) /\ Done
    BY <2>2, <2>4, CollectedIs
  <2> HIDE DEF r, step
  <2>6. r.done \subseteq {paths[i] : i \in 1..n} \cup Included(files)
    <3>1. a.done \subseteq {paths[i] : i \in 1..n - 1} \cup Included(files)
      BY <2>2
    <3>2. {paths[i] : i \in 1..n - 1} \cup {f} \subseteq {paths[i] : i \in 1..n}
      BY <1>1
    <3> QED BY <2>5, <3>1, <3>2
  <2>7. r.done # {} /\ ~r.error => Len(r.out) > 0
    BY <2>2, <2>5
  <2>8. n = N => Ended(r)
    <3> SUFFICES ASSUME n = N, ~r.error, files[last].state # "missing"
                 PROVE  Len(r.out) > 0 /\ (LastOnly(files, paths) => r.out[Len(r.out)] = last)
      OBVIOUS
    <3>1. f = last
      OBVIOUS
    <3>2. (r = a /\ f \in a.done) \/ (Len(r.out) > 0 /\ r.out[Len(r.out)] = f)
      BY <2>5, <3>1
    <3>3. CASE r = a /\ f \in a.done
      <4>1. Len(r.out) > 0
        BY <2>2, <3>3
      <4>2. last \in {paths[i] : i \in 1..N - 1} \cup Included(files)
        BY <2>2, <3>1, <3>3
      <4>3. ~LastOnly(files, paths)
        BY <1>1, <4>2 DEF LastOnly
      <4> QED BY <4>1, <4>3
    <3> QED BY <3>1, <3>2, <3>3
  <2>9. P(n, r)
    BY <2>6, <2>7, <2>8
  <2> HIDE DEF P
  <2> QED BY <2>1, <2>3, <2>5, <2>9
<1>4. CollectedAll(files, paths, missingOk) = Folded(step, start, paths)
  BY DEF CollectedAll
<1>5. good[N] = {a \in Collections : P(N, a)}
  BY <1>1
<1> HIDE DEF good, step, start
<1>6. Folded(step, start, paths) \in good[N]
  BY <1>1, <1>2, <1>3, FoldIn
<1>7. CollectedAll(files, paths, missingOk) \in Collections /\ P(N, CollectedAll(files, paths, missingOk))
  <2> HIDE DEF P
  <2> QED BY <1>4, <1>5, <1>6
<1> QED BY <1>7

(* Where a missing file is an error and there is none, it would not matter  *)
(* if it were not.                                                          *)
LEMMA StrictIsLenient ==
    ASSUME NEW files \in Listings, IsFiniteSet(ConfigFiles), NEW paths \in Seq(ConfigFiles) \ {<<>>},
           ~CollectedAll(files, paths, FALSE).error
    PROVE  CollectedAll(files, paths, FALSE) = CollectedAll(files, paths, TRUE)
<1> DEFINE N == Len(paths)
           W == Within(files)
           start == [out |-> <<>>, done |-> {}, error |-> FALSE]
           strict == [f \in ConfigFiles |-> [c \in Collections |-> Collected(files, W, c, f, FALSE)]]
           lenient == [f \in ConfigFiles |-> [c \in Collections |-> Collected(files, W, c, f, TRUE)]]
           g == CHOOSE g : FoldsTo(lenient, start, paths, N, g)
           good == [n \in 0..N |-> {a \in Collections : a.error \/ a = g[n]}]
<1>1. paths \in Seq(ConfigFiles) /\ N \in Nat
  OBVIOUS
<1>2. Folded(lenient, start, paths) = g[N]
  BY Zenon DEF Folded, FoldsTo
<1>3. FoldsTo(lenient, start, paths, N, g)
  BY <1>1, FoldExists
<1>4. CollectedAll(files, paths, FALSE) = Folded(strict, start, paths)
  BY DEF CollectedAll
<1>5. CollectedAll(files, paths, TRUE) = Folded(lenient, start, paths)
  BY DEF CollectedAll
<1> HIDE DEF g
<1>6. start \in Collections
  BY DEF Collections
<1>7. \A f \in ConfigFiles : \A c \in Collections :
          /\ strict[f][c] = Collected(files, W, c, f, FALSE)
          /\ lenient[f][c] = Collected(files, W, c, f, TRUE)
  OBVIOUS
<1> HIDE DEF start, strict, lenient, W
<1>8. g[0] = start /\ \A n \in 1..N : g[n] = lenient[paths[n]][g[n - 1]]
  BY <1>1, <1>3 DEF FoldsTo
<1>9. start \in good[0]
  BY <1>1, <1>6, <1>8
<1>10. ASSUME NEW n \in 1..N, NEW a \in good[n - 1] PROVE strict[paths[n]][a] \in good[n]
  <2> DEFINE f == paths[n]
             r == Collected(files, W, a, f, FALSE)
  <2>1. /\ good[n - 1] = {c \in Collections : c.error \/ c = g[n - 1]}
        /\ good[n] = {c \in Collections : c.error \/ c = g[n]}
    BY <1>1
  <2> HIDE DEF good
  <2>2. a \in Collections /\ (a.error \/ a = g[n - 1]) /\ f \in ConfigFiles
    BY <1>1, <1>10, <2>1
  <2>3. Collects(files, W)
    BY WithinCollects DEF W
  <2>4. FALSE \in BOOLEAN
    OBVIOUS
  <2>5. r \in Collections
    BY <2>2, <2>3, <2>4, CollectedIs
  <2>6. CASE a.error
    <3>1. r = a
      BY <2>6 DEF Collected
    <3>2. strict[f][a] = r
      BY <1>7, <2>2
    <3> HIDE DEF r
    <3> QED BY <2>1, <2>2, <2>6, <3>1, <3>2
  <2>7. CASE ~a.error
    <3>1. r = Collected(files, W, a, f, TRUE) \/ r = [a EXCEPT !.error = TRUE]
      BY <2>7 DEF Collected
    <3>2. [a EXCEPT !.error = TRUE].error
      BY <2>2, WithError
    <3>3. g[n] = Collected(files, W, a, f, TRUE)
      BY <1>7, <1>8, <2>2, <2>7
    <3>4. strict[f][a] = r
      BY <1>7, <2>2
    <3> HIDE DEF r
    <3>5. r.error \/ r = g[n]
      BY <3>1, <3>2, <3>3
    <3> QED BY <2>1, <2>5, <3>4, <3>5
  <2> QED BY <2>6, <2>7
<1>11. good[N] = {a \in Collections : a.error \/ a = g[N]}
  BY <1>1
<1> HIDE DEF good
<1>12. Folded(strict, start, paths) \in good[N]
  BY <1>1, <1>9, <1>10, FoldIn
<1> QED BY <1>2, <1>4, <1>5, <1>11, <1>12

-----------------------------------------------------------------------------
(* Loading, saving and editing. *)

(* What is in memory as it was loaded is what the layers say; what was       *)
(* saved is still in the last path.                                         *)
ConfigInv ==
    /\ LayersTypeOK
    /\ saved # {} => disk[LastPath].state # "missing" /\ saved = {disk[LastPath].hunt}
    /\ cfg.fresh => cfg.rules = MergedRules(SaidRules, Layers(TRUE).out)
    /\ SavedHuntIsLoaded

LEMMA FileIs ==
    \A w \in File :
        /\ w.state \in {"ok", "bad", "missing"} /\ w.include \in Seq(ConfigFiles)
        /\ w.rules \in Seq(Rule) /\ w.hunt \in Section
        /\ \A h \in Section :
               LET v == [w EXCEPT !.hunt = h, !.state = "ok"]
               IN  v \in File /\ v.hunt = h /\ v.state = "ok" /\ v.include = w.include /\ v.rules = w.rules
BY DEF File

LEMMA StateChanges ==
    \A w \in File : \A s \in {"ok", "bad", "missing"} :
        LET v == [w EXCEPT !.state = s] IN v \in File /\ v.hunt = w.hunt /\ v.state = s
BY DEF File

LEMMA NothingSaid == Gone \in File /\ Default \in Hunts /\ Default \in Section
<1>1. Unsaid \in [{} -> Settings]
  BY DEF Unsaid
<1>2. Unsaid \in Section
  BY <1>1 DEF Section
<1>3. Default \in Hunts
  BY LayersAssumption DEF Default, Hunts
<1>4. Gone \in File
  BY <1>2 DEF Gone, File
<1> QED BY <1>3, <1>4, OverOf

LEMMA DiskIs ==
    ASSUME LayersTypeOK
    PROVE  /\ Listing \in Listings /\ SaidRules \in [ConfigFiles -> Seq(Rule)] /\ SaidHunt \in [ConfigFiles -> Section]
           /\ chain \in Seq(ConfigFiles) \ {<<>>} /\ LastPath \in ConfigFiles /\ IsFiniteSet(ConfigFiles)
           /\ LastPath = chain[Len(chain)]
           /\ \A f \in ConfigFiles : Listing[f].state = disk[f].state /\ Listing[f].include = disk[f].include
<1>1. \A f \in ConfigFiles : disk[f] \in File
  BY DEF LayersTypeOK
<1>2. chain \in Seq(ConfigFiles) \ {<<>>} /\ IsFiniteSet(ConfigFiles)
  BY LayersAssumption DEF LayersTypeOK
<1>3. LastPath \in ConfigFiles
  BY <1>2 DEF LastPath
<1>4. \A f \in ConfigFiles : /\ disk[f].state \in {"ok", "bad", "missing"} /\ disk[f].include \in Seq(ConfigFiles)
                             /\ disk[f].rules \in Seq(Rule) /\ disk[f].hunt \in Section
  BY <1>1, FileIs
<1>5. Listing \in Listings
  BY <1>4 DEF Listing, Listings
<1>6. SaidRules \in [ConfigFiles -> Seq(Rule)] /\ SaidHunt \in [ConfigFiles -> Section]
  BY <1>4 DEF SaidRules, SaidHunt
<1> QED BY <1>2, <1>3, <1>5, <1>6 DEF LastPath, Listing

LEMMA OnlyThere ==
    ASSUME LayersTypeOK,
           \A f \in ConfigFiles : \A i \in DOMAIN disk[f].include : disk[f].include[i] # LastPath,
           \A i \in DOMAIN chain : chain[i] = LastPath => i = Len(chain)
    PROVE  LastOnly(Listing, chain)
<1>1. LastPath \notin Included(Listing)
  <2>1. \A f \in ConfigFiles : \A i \in DOMAIN Listing[f].include : Listing[f].include[i] # LastPath
    <3> TAKE f \in ConfigFiles
    <3>1. Listing[f].include = disk[f].include
      BY DiskIs
    <3> QED BY <3>1
  <2> QED BY <2>1 DEF Included
<1>2. chain \in Seq(ConfigFiles) /\ LastPath = chain[Len(chain)]
  BY DiskIs
<1> QED BY <1>1, <1>2 DEF LastOnly

LEMMA ConfigBegins == LayersInit => ConfigInv
<1> SUFFICES ASSUME LayersInit PROVE ConfigInv
  OBVIOUS
<1>1. disk \in [ConfigFiles -> File]
  <2>1. \A f \in ConfigFiles : disk[f] \in {Gone} \cup Contents[f]
    BY DEF LayersInit
  <2>2. \A f \in ConfigFiles : disk[f] \in File
    BY <2>1, LayersAssumption, NothingSaid
  <2>3. disk = [f \in ConfigFiles |-> disk[f]]
    BY DEF LayersInit
  <2> QED BY <2>2, <2>3
<1>2. cfg = Defaults /\ Defaults \in [hunt : Hunts, rules : Seq(Rule), fresh : BOOLEAN] /\ ~Defaults.fresh
  BY NothingSaid DEF LayersInit, Defaults
<1>3. LayersTypeOK
  BY <1>1, <1>2 DEF LayersInit, LayersTypeOK
<1> QED BY <1>2, <1>3 DEF LayersInit, ConfigInv, SavedHuntIsLoaded

(* Loaded without an error, by a start or by `reload`.                      *)
LEMMA Loaded ==
    ASSUME ConfigInv, ~Layers(TRUE).error, cfg' = Merged(Layers(TRUE).out), UNCHANGED <<chain, disk, saved>>
    PROVE  ConfigInv'
<1> DEFINE l == Layers(TRUE)
<1>0. LayersTypeOK
  BY DEF ConfigInv
<1>1. /\ l \in Collections
      /\ disk[LastPath].state # "missing" =>
            Len(l.out) > 0 /\ (LastOnly(Listing, chain) => l.out[Len(l.out)] = LastPath)
  <2>1. /\ Listing \in Listings /\ IsFiniteSet(ConfigFiles) /\ chain \in Seq(ConfigFiles) \ {<<>>}
        /\ chain[Len(chain)] = LastPath /\ Listing[LastPath].state = disk[LastPath].state
    BY <1>0, DiskIs
  <2>2. l = CollectedAll(Listing, chain, TRUE) /\ ~l.error /\ TRUE \in BOOLEAN
    BY DEF Layers
  <2> HIDE DEF l
  <2> QED BY <2>1, <2>2, AllCollected
<1>2. l.out \in Seq(ConfigFiles)
  BY <1>1, CollectionIs
<1>3. /\ cfg'.hunt = MergedHunt(SaidHunt, l.out) /\ cfg'.rules = MergedRules(SaidRules, l.out) /\ cfg'.fresh = TRUE
      /\ cfg' = [hunt |-> cfg'.hunt, rules |-> cfg'.rules, fresh |-> cfg'.fresh]
  BY DEF Merged
<1>4. MergedRules(SaidRules, l.out) \in Seq(Rule)
  BY <1>0, <1>2, DiskIs, RulesMerged
<1>5. /\ MergedHunt(SaidHunt, l.out) \in Hunts
      /\ Len(l.out) > 0 /\ SaidHunt[l.out[Len(l.out)]] \in Hunts =>
            MergedHunt(SaidHunt, l.out) = SaidHunt[l.out[Len(l.out)]]
  BY <1>0, <1>2, DiskIs, NothingSaid, HuntMerged
<1>6. LayersTypeOK'
  BY <1>0, <1>3, <1>4, <1>5 DEF LayersTypeOK
<1>7. (saved # {} => disk[LastPath].state # "missing" /\ saved = {disk[LastPath].hunt})'
  BY DEF ConfigInv, LastPath
<1>8. (cfg.fresh => cfg.rules = MergedRules(SaidRules, Layers(TRUE).out))'
  <2>1. Listing' = Listing /\ SaidRules' = SaidRules /\ chain' = chain
    BY DEF Listing, SaidRules
  <2>2. Layers(TRUE)' = Layers(TRUE)
    BY <2>1 DEF Layers
  <2> QED BY <1>3, <2>1, <2>2
<1>9. SavedHuntIsLoaded'
  <2> SUFFICES ASSUME disk[LastPath].state = "ok", saved # {},
                      \A f \in ConfigFiles : \A i \in DOMAIN disk[f].include : disk[f].include[i] # LastPath,
                      \A i \in DOMAIN chain : chain[i] = LastPath => i = Len(chain)
               PROVE  saved \subseteq {cfg'.hunt}
    BY DEF SavedHuntIsLoaded, LastPath
  <2>1. Len(l.out) > 0 /\ l.out[Len(l.out)] = LastPath
    BY <1>0, <1>1, OnlyThere
  <2>2. saved = {disk[LastPath].hunt} /\ disk[LastPath].hunt \in Hunts
    BY <1>0 DEF ConfigInv, LayersTypeOK
  <2>3. SaidHunt[LastPath] = disk[LastPath].hunt
    BY <1>0, DiskIs DEF SaidHunt
  <2> HIDE DEF l
  <2>4. cfg'.hunt = disk[LastPath].hunt
    BY <1>3, <1>5, <2>1, <2>2, <2>3
  <2> QED BY <2>2, <2>4
<1> QED BY <1>6, <1>7, <1>8, <1>9 DEF ConfigInv

(* In memory something else, on disk nothing.                               *)
LEMMA NotFresh ==
    ASSUME ConfigInv, cfg' \in [hunt : Hunts, rules : Seq(Rule), fresh : BOOLEAN], ~cfg'.fresh,
           UNCHANGED <<chain, disk, saved>>
    PROVE  ConfigInv'
BY DEF ConfigInv, LayersTypeOK, LastPath, SavedHuntIsLoaded

LEMMA LoadKeeps == ConfigInv /\ LoadFrom => ConfigInv'
<1> SUFFICES ASSUME ConfigInv, LoadFrom PROVE ConfigInv'
  OBVIOUS
<1> DEFINE l == Layers(TRUE)
           bare == l.error \/ l.out = <<>> \/ ~TypesFit(Merged(l.out))
<1>0. LayersTypeOK
  BY DEF ConfigInv
<1>1. /\ cfg' = IF bare THEN Defaults ELSE Merged(l.out)
      /\ disk' = IF l.error \/ l.out # <<>> THEN disk
                 ELSE [disk EXCEPT ![LastPath] = [Gone EXCEPT !.state = "ok", !.hunt = Default]]
      /\ UNCHANGED <<chain, saved>>
  BY DEF LoadFrom
<1>2. Defaults \in [hunt : Hunts, rules : Seq(Rule), fresh : BOOLEAN] /\ ~Defaults.fresh
  BY NothingSaid DEF Defaults
<1>3. CASE ~bare
  BY <1>1, <1>3, Loaded
<1>4. CASE bare /\ (l.error \/ l.out # <<>>)
  BY <1>1, <1>2, <1>4, NotFresh
<1>5. CASE ~l.error /\ l.out = <<>>
  <2>1. disk[LastPath].state = "missing"
    <3>1. /\ Listing \in Listings /\ IsFiniteSet(ConfigFiles) /\ chain \in Seq(ConfigFiles) \ {<<>>}
          /\ chain[Len(chain)] = LastPath /\ Listing[LastPath].state = disk[LastPath].state
      BY <1>0, DiskIs
    <3>2. l = CollectedAll(Listing, chain, TRUE) /\ TRUE \in BOOLEAN
      BY DEF Layers
    <3> HIDE DEF l
    <3>3. Len(l.out) = 0
      <4>1. Len(<<>>) = 0
        OBVIOUS
      <4> QED BY <1>5, <4>1
    <3>4. ~l.error /\ Listing[LastPath].state # "missing" => Len(l.out) > 0
      BY <3>1, <3>2, AllCollected
    <3> QED BY <1>5, <3>1, <3>3, <3>4
  <2>2. saved = {}
    BY <2>1 DEF ConfigInv
  <2> DEFINE w == [Gone EXCEPT !.state = "ok", !.hunt = Default]
  <2>3. w \in File
    BY NothingSaid DEF File
  <2>4. disk' = [disk EXCEPT ![LastPath] = w] /\ cfg' = Defaults
    BY <1>1, <1>5
  <2> HIDE DEF w, l
  <2>5. disk' \in [ConfigFiles -> File]
    BY <1>0, <2>3, <2>4 DEF LayersTypeOK
  <2>6. chain' = chain /\ saved' = {}
    BY <1>1, <2>2
  <2>7. LayersTypeOK'
    BY <1>0, <1>2, <2>4, <2>5, <2>6 DEF LayersTypeOK
  <2> QED BY <1>2, <2>4, <2>6, <2>7 DEF ConfigInv, SavedHuntIsLoaded
<1> QED BY <1>3, <1>4, <1>5

LEMMA ReloadKeeps == ConfigInv /\ ReloadFrom => ConfigInv'
<1> SUFFICES ASSUME ConfigInv, ReloadFrom PROVE ConfigInv'
  OBVIOUS
<1>1. ~Layers(FALSE).error /\ cfg' = Merged(Layers(FALSE).out) /\ UNCHANGED <<chain, disk, saved>>
  BY DEF ReloadFrom
<1>2. Listing \in Listings /\ IsFiniteSet(ConfigFiles) /\ chain \in Seq(ConfigFiles) \ {<<>>}
  BY DiskIs DEF ConfigInv
<1>3. Layers(FALSE) = Layers(TRUE)
  BY <1>1, <1>2, StrictIsLenient DEF Layers
<1> QED BY <1>1, <1>3, Loaded

LEMMA TuneKeeps == ConfigInv /\ Tune => ConfigInv'
<1> SUFFICES ASSUME ConfigInv, Tune PROVE ConfigInv'
  OBVIOUS
<1>1. cfg.hunt \in Hunts /\ cfg.rules \in Seq(Rule) /\ cfg \in [hunt : Hunts, rules : Seq(Rule), fresh : BOOLEAN]
  BY DEF ConfigInv, LayersTypeOK
<1>2. PICK key \in Params, v \in Settings \ {"wrong"} :
           \/ cfg' = [cfg EXCEPT !.hunt[key] = v, !.fresh = FALSE]
           \/ \E i \in DOMAIN cfg.rules :
                  cfg' = [cfg EXCEPT !.rules[i].says = Over([k \in {key} |-> v], @), !.fresh = FALSE]
  BY DEF Tune
<1>3. CASE cfg' = [cfg EXCEPT !.hunt[key] = v, !.fresh = FALSE]
  <2>1. [cfg.hunt EXCEPT ![key] = v] \in Hunts
    BY <1>1, <1>2 DEF Hunts
  <2>2. cfg' \in [hunt : Hunts, rules : Seq(Rule), fresh : BOOLEAN] /\ ~cfg'.fresh
    BY <1>1, <1>3, <2>1
  <2> QED BY <2>2, NotFresh DEF Tune
<1>4. ASSUME NEW i \in DOMAIN cfg.rules,
             cfg' = [cfg EXCEPT !.rules[i].says = Over([k \in {key} |-> v], @), !.fresh = FALSE]
      PROVE  ConfigInv'
  <2> DEFINE rule == cfg.rules[i]
             s == Over([k \in {key} |-> v], rule.says)
  <2>1. rule \in Rule /\ rule.says \in Section
    <3>1. rule \in Rule
      BY <1>1
    <3> QED BY <3>1 DEF Rule
  <2>2. s \in Section
    <3>1. [k \in {key} |-> v] \in [{key} -> Settings] /\ {key} \in SUBSET Params
      BY <1>2
    <3>2. [k \in {key} |-> v] \in Section
      BY <3>1 DEF Section
    <3> QED BY <2>1, <3>2, OverOf
  <2>3. cfg' = [cfg EXCEPT !.rules = [cfg.rules EXCEPT ![i] = [rule EXCEPT !.says = s]], !.fresh = FALSE]
    BY <1>1, <1>4
  <2> HIDE DEF s, rule
  <2>4. [rule EXCEPT !.says = s] \in Rule
    BY <2>1, <2>2 DEF Rule
  <2>5. [cfg.rules EXCEPT ![i] = [rule EXCEPT !.says = s]] \in Seq(Rule)
    BY <1>1, <1>4, <2>4
  <2>6. cfg' \in [hunt : Hunts, rules : Seq(Rule), fresh : BOOLEAN] /\ ~cfg'.fresh
    BY <1>1, <2>3, <2>5
  <2> QED BY <2>6, NotFresh DEF Tune
<1> QED BY <1>2, <1>3, <1>4

LEMMA SaveKeeps == ConfigInv /\ SaveHunt => ConfigInv'
<1> SUFFICES ASSUME ConfigInv, SaveHunt PROVE ConfigInv'
  OBVIOUS
<1> DEFINE last == LastPath
           w == [disk[last] EXCEPT !.hunt = cfg.hunt, !.state = "ok"]
<1>0. LayersTypeOK
  BY DEF ConfigInv
<1>1. /\ disk' = [disk EXCEPT ![LastPath].hunt = cfg.hunt, ![LastPath].state = "ok"]
      /\ cfg' = [cfg EXCEPT !.fresh = @ /\ disk[LastPath].state = "ok"]
      /\ saved' = {cfg.hunt} /\ chain' = chain
  BY DEF SaveHunt
<1>2. /\ cfg.hunt \in Hunts /\ cfg.hunt \in Section /\ cfg \in [hunt : Hunts, rules : Seq(Rule), fresh : BOOLEAN]
      /\ last \in ConfigFiles /\ disk \in [ConfigFiles -> File] /\ disk[last] \in File
  BY <1>0, OverOf, DiskIs DEF LayersTypeOK
<1>3. disk' = [disk EXCEPT ![last] = w]
  BY <1>1, <1>2
<1>4. w \in File /\ w.hunt = cfg.hunt /\ w.state = "ok" /\ w.include = disk[last].include /\ w.rules = disk[last].rules
  BY <1>2, FileIs
<1> HIDE DEF w, last
<1>5. /\ disk' \in [ConfigFiles -> File] /\ disk'[last] = w
      /\ \A f \in ConfigFiles : disk'[f].include = disk[f].include /\ disk'[f].rules = disk[f].rules
      /\ disk[last].state = "ok" => \A f \in ConfigFiles : disk'[f].state = disk[f].state
  BY <1>2, <1>3, <1>4
<1>6. /\ cfg'.hunt = cfg.hunt /\ cfg'.rules = cfg.rules /\ cfg'.fresh \in BOOLEAN
      /\ cfg'.fresh => cfg.fresh /\ disk[last].state = "ok"
      /\ cfg' \in [hunt : Hunts, rules : Seq(Rule), fresh : BOOLEAN]
  BY <1>1, <1>2 DEF last
<1>7. LastPath' = last
  BY <1>1 DEF LastPath, last
<1>8. LayersTypeOK'
  BY <1>0, <1>1, <1>2, <1>5, <1>6 DEF LayersTypeOK
<1>9. (saved # {} => disk[LastPath].state # "missing" /\ saved = {disk[LastPath].hunt})'
  BY <1>1, <1>4, <1>5, <1>7
<1>10. (cfg.fresh => cfg.rules = MergedRules(SaidRules, Layers(TRUE).out))'
  <2> SUFFICES ASSUME cfg'.fresh PROVE (cfg.rules = MergedRules(SaidRules, Layers(TRUE).out))'
    OBVIOUS
  <2>1. Listing' = Listing /\ SaidRules' = SaidRules
    BY <1>5, <1>6 DEF Listing, SaidRules
  <2>2. Layers(TRUE)' = Layers(TRUE)
    BY <1>1, <2>1 DEF Layers
  <2>3. cfg.rules = MergedRules(SaidRules, Layers(TRUE).out)
    BY <1>6 DEF ConfigInv
  <2> QED BY <1>6, <2>1, <2>2, <2>3
<1>11. SavedHuntIsLoaded'
  BY <1>1, <1>6 DEF SavedHuntIsLoaded
<1> QED BY <1>8, <1>9, <1>10, <1>11 DEF ConfigInv

LEMMA EditFileKeeps == ConfigInv /\ EditFile => ConfigInv'
<1> SUFFICES ASSUME ConfigInv, EditFile PROVE ConfigInv'
  OBVIOUS
<1>0. LayersTypeOK /\ disk \in [ConfigFiles -> File]
  BY DEF ConfigInv, LayersTypeOK
<1>1. /\ cfg' = [cfg EXCEPT !.fresh = FALSE] /\ chain' = chain
      /\ \E f \in ConfigFiles :
           \/ disk[f].state = "ok" /\ disk' = [disk EXCEPT ![f].state = "bad"] /\ UNCHANGED saved
           \/ disk[f].state = "bad" /\ disk' = [disk EXCEPT ![f].state = "ok"] /\ UNCHANGED saved
           \/ /\ \E w \in Contents[f] \cup {Gone} : disk' = [disk EXCEPT ![f] = w]
              /\ saved' = IF f = LastPath THEN {} ELSE saved
  BY DEF EditFile
<1>2. cfg' \in [hunt : Hunts, rules : Seq(Rule), fresh : BOOLEAN] /\ ~cfg'.fresh
  BY <1>0, <1>1 DEF LayersTypeOK
<1>3. LastPath' = LastPath /\ LastPath \in ConfigFiles
  BY <1>0, <1>1, DiskIs DEF LastPath
<1> DEFINE HuntKept == (saved # {} => disk[LastPath].state # "missing" /\ saved = {disk[LastPath].hunt})
<1>4. ASSUME NEW f \in ConfigFiles, NEW w \in File, disk' = [disk EXCEPT ![f] = w],
             \/ saved' = saved /\ w.hunt = disk[f].hunt /\ w.state # "missing"
             \/ saved' = IF f = LastPath THEN {} ELSE saved
      PROVE  disk' \in [ConfigFiles -> File] /\ HuntKept' /\ (saved' = {} \/ \E h \in Hunts : saved' = {h})
  <2>1. disk' \in [ConfigFiles -> File] /\ disk'[f] = w /\ \A g \in ConfigFiles : g # f => disk'[g] = disk[g]
    BY <1>0, <1>4
  <2>2. saved' = {} \/ \E h \in Hunts : saved' = {h}
    BY <1>0, <1>4 DEF LayersTypeOK
  <2>3. saved # {} => disk[LastPath].state # "missing" /\ saved = {disk[LastPath].hunt}
    BY DEF ConfigInv
  <2>4. saved' # {} => disk'[LastPath].state # "missing" /\ saved' = {disk'[LastPath].hunt}
    BY <1>3, <1>4, <2>1, <2>3
  <2> QED BY <1>3, <2>1, <2>2, <2>4
<1>5. disk' \in [ConfigFiles -> File] /\ HuntKept' /\ (saved' = {} \/ \E h \in Hunts : saved' = {h})
  <2>1. PICK f \in ConfigFiles :
           \/ disk' = [disk EXCEPT ![f].state = "bad"] /\ UNCHANGED saved
           \/ disk' = [disk EXCEPT ![f].state = "ok"] /\ UNCHANGED saved
           \/ /\ \E w \in Contents[f] \cup {Gone} : disk' = [disk EXCEPT ![f] = w]
              /\ saved' = IF f = LastPath THEN {} ELSE saved
    BY <1>1
  <2>2. disk[f] \in File
    BY <1>0
  <2> HIDE DEF HuntKept
  <2>3. ASSUME NEW s \in {"bad", "ok"}, disk' = [disk EXCEPT ![f].state = s], UNCHANGED saved
        PROVE  disk' \in [ConfigFiles -> File] /\ HuntKept' /\ (saved' = {} \/ \E h \in Hunts : saved' = {h})
    <3> DEFINE w == [disk[f] EXCEPT !.state = s]
    <3>1. w \in File /\ w.hunt = disk[f].hunt /\ w.state = s
      <4>1. s \in {"ok", "bad", "missing"}
        OBVIOUS
      <4> QED BY <2>2, <4>1, StateChanges, Zenon
    <3>2. disk' = [disk EXCEPT ![f] = w]
      BY <2>3
    <3> HIDE DEF w
    <3> QED BY <1>4, <2>3, <3>1, <3>2
  <2>4. ASSUME NEW w \in Contents[f] \cup {Gone}, disk' = [disk EXCEPT ![f] = w],
               saved' = IF f = LastPath THEN {} ELSE saved
        PROVE  disk' \in [ConfigFiles -> File] /\ HuntKept' /\ (saved' = {} \/ \E h \in Hunts : saved' = {h})
    <3>1. w \in File
      BY NothingSaid, LayersAssumption
    <3> QED BY <1>4, <2>4, <3>1
  <2> QED BY <2>1, <2>3, <2>4
<1>6. LayersTypeOK'
  BY <1>0, <1>1, <1>2, <1>5 DEF LayersTypeOK
<1> QED BY <1>2, <1>5, <1>6 DEF ConfigInv, SavedHuntIsLoaded

LEMMA ConfigKeeps == ConfigInv /\ [LayersNext]_layerVars => ConfigInv'
<1> SUFFICES ASSUME ConfigInv, [LayersNext]_layerVars PROVE ConfigInv'
  OBVIOUS
<1>1. CASE UNCHANGED layerVars
  <2>1. UNCHANGED <<chain, disk, cfg, saved>>
    BY <1>1 DEF layerVars
  <2>2. Layers(TRUE)' = Layers(TRUE) /\ SaidRules' = SaidRules /\ LastPath' = LastPath
    BY <2>1 DEF Layers, Listing, SaidRules, LastPath
  <2> QED BY <2>1, <2>2 DEF ConfigInv, LayersTypeOK, SavedHuntIsLoaded
<1> QED BY <1>1, LoadKeeps, ReloadKeeps, TuneKeeps, SaveKeeps, EditFileKeeps DEF LayersNext

(* In the words of the property.                                            *)
LEMMA ConfigSays == ConfigInv => SavedHuntIsLoaded /\ LastWordCounts
<1> SUFFICES ASSUME ConfigInv, cfg.fresh PROVE LastWordCounts
  BY DEF ConfigInv, LastWordCounts
<1> DEFINE l == Layers(TRUE)
           out == l.out
           places == UNION {{i} \X DOMAIN disk[out[i]].rules : i \in DOMAIN out}
           entry == EntryAt(SaidRules, out)
           ps == Places(SaidRules, out, Len(out) + 1, 0)
<1>0. LayersTypeOK /\ cfg.rules = MergedRules(SaidRules, out)
  BY DEF ConfigInv
<1>1. out \in Seq(ConfigFiles)
  <2>1. /\ Listing \in Listings /\ IsFiniteSet(ConfigFiles) /\ chain \in Seq(ConfigFiles) \ {<<>>}
    BY <1>0, DiskIs
  <2>2. l = CollectedAll(Listing, chain, TRUE) /\ TRUE \in BOOLEAN
    BY DEF Layers
  <2>3. l \in Collections
    <3> HIDE DEF l
    <3> QED BY <2>1, <2>2, AllCollected
  <2> QED BY <2>3, CollectionIs
<1> HIDE DEF l, out
<1>2. Means(entry, ps, cfg.rules)
  BY <1>0, <1>1, DiskIs, RulesMerged
<1>3. SaidRules \in [ConfigFiles -> Seq(Rule)] /\ \A f \in ConfigFiles : SaidRules[f] = disk[f].rules
  BY <1>0, DiskIs DEF SaidRules
<1>4. \A x \in places : x \in ps /\ entry[x] = disk[out[x[1]]].rules[x[2]]
  <2> TAKE x \in places
  <2>1. PICK i \in DOMAIN out : x \in {i} \X DOMAIN disk[out[i]].rules
    OBVIOUS
  <2>2. PICK j \in DOMAIN disk[out[i]].rules : x = <<i, j>>
    BY <2>1
  <2>3. i \in 1..Len(out) /\ i \in Nat /\ i < Len(out) + 1 /\ out[i] \in ConfigFiles
    BY <1>1, <2>1
  <2>4. SaidRules[out[i]] = disk[out[i]].rules /\ SaidRules[out[i]] \in Seq(Rule)
    BY <1>3, <2>3
  <2>5. j \in 1..Len(SaidRules[out[i]]) /\ j \in Nat
    BY <2>2, <2>4
  <2>6. x \in Nat \X Nat /\ x[1] = i /\ x[2] = j
    BY <2>2, <2>3, <2>5
  <2> QED BY <2>3, <2>4, <2>5, <2>6 DEF Places, EntryAt
<1>5. \A x \in ps : x \in places
  <2> SUFFICES ASSUME NEW x \in ps PROVE x \in places
    OBVIOUS
  <2>1. x \in Nat \X Nat /\ x[1] \in 1..Len(out) /\ x[2] \in 1..Len(SaidRules[out[x[1]]])
    BY DEF Places
  <2>2. x[1] \in DOMAIN out /\ out[x[1]] \in ConfigFiles
    BY <1>1, <2>1
  <2>3. x[2] \in DOMAIN disk[out[x[1]]].rules
    BY <1>3, <2>1, <2>2
  <2>4. x = <<x[1], x[2]>>
    BY <2>1
  <2>5. x \in {x[1]} \X DOMAIN disk[out[x[1]]].rules
    BY <2>3, <2>4
  <2> QED BY <2>2, <2>5
<1>6. places = ps
  BY <1>4, <1>5
<1> HIDE DEF places, entry, ps
<1>7. \A x \in places : entry[x] = disk[out[x[1]]].rules[x[2]]
  BY <1>4
<1>8. /\ \A i, j \in DOMAIN cfg.rules : cfg.rules[i].id = cfg.rules[j].id => i = j
      /\ {cfg.rules[i].id : i \in DOMAIN cfg.rules} = {entry[x].id : x \in places}
  BY <1>2, <1>6 DEF Means
<1>9. \A i \in DOMAIN cfg.rules, key \in Params :
          LET sayers == {x \in places : entry[x].id = cfg.rules[i].id /\ key \in DOMAIN entry[x].says}
          IN  /\ key \in DOMAIN cfg.rules[i].says <=> sayers # {}
              /\ \A x \in sayers : (\A y \in sayers : Before(y, x)) => cfg.rules[i].says[key] = entry[x].says[key]
  BY <1>2, <1>6 DEF Means
<1> DEFINE SaidAt(x) == disk[out[x[1]]].rules[x[2]]
<1>10. {cfg.rules[i].id : i \in DOMAIN cfg.rules} = {SaidAt(x).id : x \in places}
  <2>1. \A x \in places : entry[x] = SaidAt(x)
    BY <1>7
  <2> HIDE DEF SaidAt
  <2>2. {entry[x].id : x \in places} = {SaidAt(x).id : x \in places}
    BY <2>1
  <2> QED BY <1>8, <2>2
<1>11. \A i \in DOMAIN cfg.rules, key \in Params :
           LET sayers == {x \in places : SaidAt(x).id = cfg.rules[i].id /\ key \in DOMAIN SaidAt(x).says}
           IN  /\ key \in DOMAIN cfg.rules[i].says <=> sayers # {}
               /\ \A x \in sayers : (\A y \in sayers : Before(y, x)) => cfg.rules[i].says[key] = SaidAt(x).says[key]
  <2> TAKE i \in DOMAIN cfg.rules, key \in Params
  <2>1. {x \in places : SaidAt(x).id = cfg.rules[i].id /\ key \in DOMAIN SaidAt(x).says}
          = {x \in places : entry[x].id = cfg.rules[i].id /\ key \in DOMAIN entry[x].says}
    BY <1>7
  <2> DEFINE sayers == {x \in places : entry[x].id = cfg.rules[i].id /\ key \in DOMAIN entry[x].says}
  <2>2. /\ key \in DOMAIN cfg.rules[i].says <=> sayers # {}
        /\ \A x \in sayers : (\A y \in sayers : Before(y, x)) => cfg.rules[i].says[key] = entry[x].says[key]
    BY <1>9
  <2>3. \A x \in sayers : entry[x] = SaidAt(x)
    BY <1>7
  <2> HIDE DEF sayers, SaidAt
  <2>4. \A x \in sayers : (\A y \in sayers : Before(y, x)) => cfg.rules[i].says[key] = SaidAt(x).says[key]
    BY <2>2, <2>3
  <2> QED BY <2>1, <2>2, <2>4 DEF sayers
<1> QED BY <1>8, <1>10, <1>11, Zenon DEF LastWordCounts, places, out, l

-----------------------------------------------------------------------------
(* One bot, and all of Setup. *)

FieldNames == {Fields[i] : i \in 1..5}
Wizards == [open : BOOLEAN, filled : SUBSET Must, focus : FieldNames]

LEMMA FieldsAre ==
    /\ Must \subseteq FieldNames /\ {"ip", "account", "password"} \subseteq FieldNames
    /\ \A f \in FieldNames, d \in {0, 3} : NextField(f, d) \in FieldNames
<1>1. /\ Fields[1] = "ip" /\ Fields[2] = "port" /\ Fields[3] = "account"
      /\ Fields[4] = "password" /\ Fields[5] = "key"
  BY DEF Fields
<1>2. \A i \in 1..5 : Fields[i] \in FieldNames
  BY DEF FieldNames
<1>3. Must \subseteq FieldNames /\ {"ip", "account", "password"} \subseteq FieldNames
  <2>1. 1 \in 1..5 /\ 2 \in 1..5 /\ 3 \in 1..5 /\ 4 \in 1..5
    OBVIOUS
  <2> QED BY <1>1, <1>2, <2>1 DEF Must
<1>4. ASSUME NEW f \in FieldNames, NEW d \in {0, 3} PROVE NextField(f, d) \in FieldNames
  <2> DEFINE i == CHOOSE i \in 1..5 : Fields[i] = f
  <2>1. i \in 1..5
    BY DEF FieldNames
  <2>2. NextField(f, d) = Fields[((i + d) % 5) + 1]
    BY DEF NextField
  <2> HIDE DEF i
  <2>3. ((i + d) % 5) + 1 \in 1..5
    BY <2>1
  <2> QED BY <1>2, <2>2, <2>3
<1> QED BY <1>3, <1>4

LEMMA NewWizardOK == \A given \in SUBSET Must : NewWizard(given) \in Wizards
<1> SUFFICES ASSUME NEW given \in SUBSET Must PROVE NewWizard(given) \in Wizards
  OBVIOUS
<1>1. (IF {"account", "password"} \cap given = {} THEN "account"
       ELSE IF "password" \notin given THEN "password" ELSE "ip") \in FieldNames
  BY FieldsAre
<1> QED BY <1>1 DEF NewWizard, Wizards

LEMMA AppIs ==
    \A a \in App : /\ a.wizard \in Wizards /\ a.saved \subseteq Must /\ a.stage \in Stages
                   /\ a.wizard.focus \in FieldNames /\ a.wizard.filled \subseteq Must
BY DEF App, Wizards, FieldNames

LEMMA WithWizard == \A a \in App : \A w \in Wizards : [a EXCEPT !.wizard = w] \in App
BY DEF App, Wizards, FieldNames

LEMMA WithStage ==
    \A a \in App : \A s \in Stages : [a EXCEPT !.stage = s] \in App /\ [a EXCEPT !.stage = s].saved = a.saved
BY DEF App

LEMMA WithFlag ==
    \A a \in App : /\ [a EXCEPT !.left = TRUE] \in App /\ [a EXCEPT !.forced = TRUE] \in App
                   /\ [a EXCEPT !.ctrlC = TRUE] \in App /\ [a EXCEPT !.saved = Must] \in App
BY DEF App

LEMMA WithFocus == \A a \in App : \A f \in FieldNames : [a EXCEPT !.wizard.focus = f] \in App
BY DEF App, FieldNames

LEMMA WithFilled == \A a \in App : \A given \in SUBSET Must : [a EXCEPT !.wizard.filled = given] \in App
BY DEF App

LEMMA SingleBegins == SingleInit => SingleTypeOK
<1>1. NoWizard \in Wizards
  BY FieldsAre DEF NoWizard, Wizards
<1> QED BY <1>1, SingleAssumption DEF SingleInit, SingleTypeOK, App, Stages, Outcomes, Wizards, FieldNames

LEMMA OpenKeeps ==
    ASSUME SingleTypeOK, NEW given \in SUBSET Must, Open(given)
    PROVE  SingleTypeOK'
<1> DEFINE w == IF given = Must THEN NoWizard ELSE NewWizard(given)
<1>1. w \in Wizards
  BY FieldsAre, NewWizardOK DEF NoWizard, Wizards
<1>2. stage' \in Stages /\ main' \in {"start", "wizard"}
  BY DEF Open, Stages
<1>3. app' = [app EXCEPT !.stage = stage', !.saved = given, !.wizard = w]
  BY DEF Open
<1> HIDE DEF w
<1>4. app' \in App
  BY <1>1, <1>2, <1>3 DEF SingleTypeOK, App, Wizards, FieldNames
<1> QED BY <1>2, <1>4 DEF Open, SingleTypeOK

LEMMA PollKeeps == SingleTypeOK /\ PollEvents => SingleTypeOK'
<1> SUFFICES ASSUME SingleTypeOK, PollEvents PROVE SingleTypeOK'
  OBVIOUS
<1> DEFINE a == [app EXCEPT !.stage = stage]
<1>1. a \in App /\ a.saved = app.saved
  BY WithStage DEF SingleTypeOK
<1>2. NoWizard \in Wizards /\ NewWizard(app.saved) \in Wizards
  BY FieldsAre, NewWizardOK, AppIs DEF NoWizard, Wizards, SingleTypeOK
<1>3. app' = a \/ app' = [a EXCEPT !.wizard = NoWizard] \/ app' = [a EXCEPT !.wizard = NewWizard(app.saved)]
  BY DEF PollEvents
<1> HIDE DEF a
<1>4. app' \in App
  BY <1>1, <1>2, <1>3, WithWizard
<1> QED BY <1>4 DEF PollEvents, SingleTypeOK

LEMMA WizardKeyKeeps == SingleTypeOK /\ WizardKey => SingleTypeOK'
<1> SUFFICES ASSUME SingleTypeOK, WizardKey PROVE SingleTypeOK'
  OBVIOUS
<1>0. app \in App /\ app.wizard.focus \in FieldNames /\ app.wizard.filled \subseteq Must
  BY AppIs DEF SingleTypeOK
<1>1. ASSUME NEW d \in {0, 3}, app' = [app EXCEPT !.wizard.focus = NextField(@, d)], UNCHANGED results
      PROVE  SingleTypeOK'
  <2>1. NextField(app.wizard.focus, d) \in FieldNames
    BY <1>0, FieldsAre
  <2>2. app' = [app EXCEPT !.wizard.focus = NextField(app.wizard.focus, d)]
    BY <1>1
  <2>3. app' \in App
    BY <1>0, <2>1, <2>2, WithFocus
  <2> QED BY <1>1, <2>3 DEF WizardKey, SingleTypeOK
<1>2. ASSUME app.wizard.focus \in Must, UNCHANGED results,
             \/ app' = [app EXCEPT !.wizard.filled = @ \cup {app.wizard.focus}]
             \/ app' = [app EXCEPT !.wizard.filled = @ \ {app.wizard.focus}]
      PROVE  SingleTypeOK'
  <2> DEFINE a == app.wizard.filled \cup {app.wizard.focus}
             b == app.wizard.filled \ {app.wizard.focus}
  <2>1. a \in SUBSET Must /\ b \in SUBSET Must
    BY <1>0, <1>2
  <2>2. app' = [app EXCEPT !.wizard.filled = a] \/ app' = [app EXCEPT !.wizard.filled = b]
    BY <1>2
  <2> HIDE DEF a, b
  <2>3. app' \in App
    BY <1>0, <2>1, <2>2, WithFilled
  <2> QED BY <1>2, <2>3 DEF WizardKey, SingleTypeOK
<1>3. CASE results < MaxResults /\ results' = results + 1 /\ UNCHANGED app
  BY <1>3, SingleAssumption DEF WizardKey, SingleTypeOK
<1>4. CASE app' = [app EXCEPT !.forced = TRUE] /\ UNCHANGED results
  BY <1>0, <1>4, WithFlag DEF WizardKey, SingleTypeOK
<1> QED BY <1>1, <1>2, <1>3, <1>4 DEF WizardKey

LEMMA SingleKeeps == SingleTypeOK /\ SingleNext => SingleTypeOK'
<1> SUFFICES ASSUME SingleTypeOK, SingleNext PROVE SingleTypeOK'
  OBVIOUS
<1>0. app \in App
  BY DEF SingleTypeOK
<1>1. CASE TakeResult
  <2>1. app' \in App
    BY <1>0, <1>1, WithFlag DEF TakeResult
  <2>2. results' \in 0..MaxResults /\ main' \in {"over", "start"}
    BY <1>1, SingleAssumption DEF TakeResult, SingleTypeOK
  <2> QED BY <1>1, <2>1, <2>2 DEF TakeResult, SingleTypeOK
<1>2. CASE Start
  BY <1>2, SingleAssumption DEF Start, SingleTypeOK, Outcomes
<1>3. CASE StoreRunning \/ AfterRun \/ Join
  BY <1>3 DEF StoreRunning, AfterRun, Join, SingleTypeOK, Stages
<1>4. CASE BotEnds
  BY <1>4 DEF BotEnds, SingleTypeOK, Stages, Outcomes
<1>5. CASE BotTells
  BY <1>5 DEF BotTells, SingleTypeOK, Outcomes
<1>6. CASE Leave \/ CtrlC
  BY <1>0, <1>6, WithFlag DEF Leave, CtrlC, SingleTypeOK
<1> QED BY <1>1, <1>2, <1>3, <1>4, <1>5, <1>6, PollKeeps, WizardKeyKeeps DEF SingleNext

SetupInv == StartInv /\ SingleTypeOK /\ ConfigInv

LEMMA SetupBegins == SetupInit => SetupInv
BY StartBegins, SingleBegins, ConfigBegins DEF SetupInit, SetupInv

LEMMA SetupStep == SetupInv /\ [SetupNext]_setupVars => SetupInv'
<1> SUFFICES ASSUME SetupInv, [SetupNext]_setupVars PROVE SetupInv'
  OBVIOUS
<1>1. [StartNext \/ HandOver]_<<picker, startVars>>
  BY DEF SetupNext, Starting, OneBot, Configuring, setupVars
<1>2. SingleNext \/ (\E given \in SUBSET Must : Open(given)) \/ UNCHANGED singleVars
  <2> DEFINE given == {f \in Must : f \in DOMAIN config => config[f] # None}
  <2>1. given \in SUBSET Must
    OBVIOUS
  <2>2. SingleNext \/ Open(given) \/ UNCHANGED singleVars
    BY DEF SetupNext, Starting, OneBot, Configuring, setupVars
  <2> HIDE DEF given
  <2> QED BY <2>1, <2>2
<1>3. [LayersNext]_layerVars
  BY DEF SetupNext, Starting, OneBot, Configuring, setupVars
<1>4. SingleTypeOK'
  <2>1. CASE UNCHANGED singleVars
    BY <2>1 DEF SetupInv, SingleTypeOK, singleVars
  <2> QED BY <1>2, <2>1, SingleKeeps, OpenKeeps DEF SetupInv
<1> QED BY <1>1, <1>3, <1>4, StartKeeps, ConfigKeeps DEF SetupInv

LEMMA SetupSays == SetupInv => ChoiceIsKept /\ OwnLogin /\ FilesAreHeeded
BY StartSays, ConfigSays DEF SetupInv, ConfigInv, ChoiceIsKept, SetupTypeOK, FilesAreHeeded

(* An account whose profile names one is logged in as itself, the first     *)
(* time and later, whatever the profiles, the store, the command line and   *)
(* the answers hold; and the first login knows no other password than the   *)
(* template's.                                                              *)
THEOREM LoginIsOwn == SetupSpec => []OwnLogin
BY SetupBegins, SetupStep, SetupSays, PTL DEF SetupSpec

(* What the picker hands over is what the user has ticked; and the types.   *)
THEOREM TicksAreTaken == SetupSpec => []ChoiceIsKept
BY SetupBegins, SetupStep, SetupSays, PTL DEF SetupSpec

(* What `hunt save` wrote is loaded by the next start, and of all layers     *)
(* that set a key of a rule the last one counts, for any files that include *)
(* each other in any way.                                                  *)
THEOREM LastLayerCounts == SetupSpec => []FilesAreHeeded
BY SetupBegins, SetupStep, SetupSays, PTL DEF SetupSpec
=============================================================================
