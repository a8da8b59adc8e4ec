------------------------------ MODULE LogProofs ------------------------------
(* An account's log holds its own lines and no others, in the order they    *)
(* were said, with what is missing counted, through every switch, note,     *)
(* addition and removal; and switching changes no log at all.               *)
(*                                                                          *)
(* The argument: `Fine` says it of lines in a row, a log with the queue     *)
(* behind it, and is closed under what the console does to a row: cutting   *)
(* off its front, putting notes in, emitting one line more.  `LogOf` is the *)
(* row wherever the log stands, so swaps change nothing, and `Placed` says  *)
(* whose log the screen has whenever a key is pressed.                      *)
EXTENDS LogView, FiniteSetTheorems, SequenceTheorems, TLAPS

(* The accounts are in a list without repetition, and the two positions     *)
(* kept beside it point into it.                                            *)
Listed(c) ==
    /\ \A i, j \in DOMAIN c.order : c.order[i] = c.order[j] => i = j
    /\ c.order # <<>> => c.selected \in DOMAIN c.order
    /\ c.order = <<>> => c.selected = 1
    /\ c.synced \in 0..Len(c.order)
Good(c) == c \in Console /\ Listed(c)

(* What a step may do to the list and its positions. *)
SamePlaces(c, d) == d.order = c.order /\ d.selected = c.selected /\ d.synced = c.synced

-----------------------------------------------------------------------------
(* Lines in a row: whose they are, and the numbers of what a bot said.      *)

Own(p, lines) == \A i \in DOMAIN lines : lines[i].of \in {p, Nobody}
Notes(p, lines) == \A i \in DOMAIN lines : lines[i].of \in {p, Nobody} /\ lines[i].kind = "note"

(* All lines are p's, what its bot said is in order up to the last one, and *)
(* the holes are counted.                                                   *)
Fine(p, lines, e, lost) ==
    /\ Own(p, lines) /\ Rising(p, lines)
    /\ Numbers(p, lines) \subseteq 1..e /\ (Numbers(p, lines) # {} => e \in Numbers(p, lines))
    /\ Cardinality(Holes(Numbers(p, lines), e)) <= lost

LEMMA LinesAssociate ==
    ASSUME NEW s \in Seq(Line), NEW t \in Seq(Line), NEW u \in Seq(Line)
    PROVE  (s \o t) \o u = s \o (t \o u)
BY ConcatAssociative

(* Two rows, one behind the other. *)
LEMMA Joined ==
    ASSUME NEW p, NEW s \in Seq(Line), NEW t \in Seq(Line)
    PROVE  /\ s \o t \in Seq(Line)
           /\ Own(p, s \o t) <=> Own(p, s) /\ Own(p, t)
           /\ Numbers(p, s \o t) = Numbers(p, s) \cup Numbers(p, t)
           /\ Rising(p, s \o t) <=> /\ Rising(p, s) /\ Rising(p, t)
                                    /\ \A m \in Numbers(p, s), n \in Numbers(p, t) : m < n
<1> DEFINE u == s \o t
           a == Len(s)
<1>1. /\ u \in Seq(Line) /\ a \in Nat /\ Len(t) \in Nat
      /\ DOMAIN u = 1..(a + Len(t)) /\ DOMAIN s = 1..a /\ DOMAIN t = 1..Len(t)
  BY ConcatProperties
<1>2. \A i \in DOMAIN s : i \in DOMAIN u /\ u[i] = s[i]
  BY <1>1, ConcatProperties
<1>3. \A j \in DOMAIN t : j + a \in DOMAIN u /\ u[j + a] = t[j]
  BY <1>1, ConcatProperties
<1>4. \A i \in DOMAIN u : i \in DOMAIN s \/ \E j \in DOMAIN t : i = j + a
  <2> SUFFICES ASSUME NEW i \in DOMAIN u, i \notin DOMAIN s PROVE i - a \in DOMAIN t /\ i = (i - a) + a
    OBVIOUS
  <2> QED BY <1>1
<1>5. \A i \in DOMAIN s, j \in DOMAIN t : i < j + a
  BY <1>1
<1>6. \A i, j \in DOMAIN t : i < j <=> i + a < j + a
  BY <1>1
<1>7. \A i \in DOMAIN s, j \in DOMAIN t : ~(j + a < i)
  BY <1>1
<1> HIDE DEF u, a
<1>8. Own(p, u) <=> Own(p, s) /\ Own(p, t)
  BY <1>2, <1>3, <1>4 DEF Own
<1>9. /\ \A i \in DOMAIN s : i \in Said(p, u) <=> i \in Said(p, s)
      /\ \A j \in DOMAIN t : j + a \in Said(p, u) <=> j \in Said(p, t)
      /\ Said(p, s) \subseteq DOMAIN s /\ Said(p, t) \subseteq DOMAIN t /\ Said(p, u) \subseteq DOMAIN u
  BY <1>2, <1>3 DEF Said
<1>10. Numbers(p, u) = Numbers(p, s) \cup Numbers(p, t)
  <2>1. Numbers(p, u) \subseteq Numbers(p, s) \cup Numbers(p, t)
    BY <1>2, <1>3, <1>4, <1>9 DEF Numbers
  <2>2. Numbers(p, s) \subseteq Numbers(p, u)
    BY <1>2, <1>9 DEF Numbers
  <2>3. Numbers(p, t) \subseteq Numbers(p, u)
    BY <1>3, <1>9 DEF Numbers
  <2> QED BY <2>1, <2>2, <2>3
<1>11. ASSUME Rising(p, u)
       PROVE  /\ Rising(p, s) /\ Rising(p, t)
              /\ \A m \in Numbers(p, s), n \in Numbers(p, t) : m < n
  <2>1. Rising(p, s)
    BY <1>2, <1>9, <1>11 DEF Rising
  <2>2. ASSUME NEW i \in Said(p, t), NEW j \in Said(p, t), i < j PROVE t[i].n < t[j].n
    <3>1. i + a \in Said(p, u) /\ j + a \in Said(p, u) /\ i + a < j + a
      BY <1>6, <1>9, <2>2
    <3> QED BY <1>3, <1>9, <1>11, <3>1 DEF Rising
  <2>3. ASSUME NEW i \in Said(p, s), NEW j \in Said(p, t) PROVE s[i].n < t[j].n
    <3>1. i \in Said(p, u) /\ j + a \in Said(p, u) /\ i < j + a
      BY <1>5, <1>9
    <3>2. u[i].n < u[j + a].n
      BY <1>11, <3>1 DEF Rising
    <3> QED BY <1>2, <1>3, <1>9, <3>2
  <2> QED BY <2>1, <2>2, <2>3 DEF Rising, Numbers
<1>12. ASSUME Rising(p, s), Rising(p, t), \A m \in Numbers(p, s), n \in Numbers(p, t) : m < n
       PROVE  Rising(p, u)
  <2> SUFFICES ASSUME NEW i \in Said(p, u), NEW j \in Said(p, u), i < j PROVE u[i].n < u[j].n
    BY DEF Rising
  <2>1. CASE i \in DOMAIN s /\ j \in DOMAIN s
    BY <1>2, <1>9, <1>12, <2>1 DEF Rising
  <2>2. CASE i \in DOMAIN s /\ \E k \in DOMAIN t : j = k + a
    <3>1. PICK k \in DOMAIN t : j = k + a
      BY <2>2
    <3>2. i \in Said(p, s) /\ k \in Said(p, t) /\ u[i] = s[i] /\ u[j] = t[k]
      BY <1>2, <1>3, <1>9, <2>2, <3>1
    <3> QED BY <1>12, <3>2 DEF Numbers
  <2>3. CASE (\E k \in DOMAIN t : i = k + a) /\ j \in DOMAIN s
    BY <1>7, <2>3
  <2>4. CASE (\E k \in DOMAIN t : i = k + a) /\ \E k \in DOMAIN t : j = k + a
    <3>1. PICK k \in DOMAIN t : i = k + a
      BY <2>4
    <3>2. PICK l \in DOMAIN t : j = l + a
      BY <2>4
    <3>3. k < l /\ k \in Said(p, t) /\ l \in Said(p, t)
      BY <1>6, <1>9, <3>1, <3>2
    <3> QED BY <1>3, <1>12, <3>1, <3>2, <3>3 DEF Rising
  <2> QED BY <1>4, <1>9, <2>1, <2>2, <2>3, <2>4
<1> QED BY <1>1, <1>8, <1>10, <1>11, <1>12 DEF u

LEMMA NotesSayNothing ==
    ASSUME NEW p, NEW t \in Seq(Line), Notes(p, t)
    PROVE  Own(p, t) /\ Rising(p, t) /\ Numbers(p, t) = {}
BY DEF Notes, Own, Rising, Numbers, Said

LEMMA FewerHoles ==
    ASSUME NEW N, NEW M, NEW e \in Nat, NEW l \in Nat,
           Holes(M, e) \subseteq Holes(N, e), Cardinality(Holes(N, e)) <= l
    PROVE  Cardinality(Holes(M, e)) <= l
<1>1. IsFiniteSet(1..e) /\ Holes(N, e) \subseteq 1..e
  BY FS_Interval DEF Holes
<1>2. IsFiniteSet(Holes(N, e))
  BY <1>1, FS_Subset
<1>3. /\ Cardinality(Holes(M, e)) \in Nat /\ Cardinality(Holes(N, e)) \in Nat
      /\ Cardinality(Holes(M, e)) <= Cardinality(Holes(N, e))
  BY <1>2, FS_Subset, FS_CardinalityType
<1> QED BY <1>3

(* What goes at the front goes without a hole.                              *)
LEMMA FineCut ==
    ASSUME NEW p, NEW s \in Seq(Line), NEW t \in Seq(Line), NEW e \in Nat, NEW l \in Nat,
           Fine(p, s \o t, e, l)
    PROVE  Fine(p, t, e, l)
<1> DEFINE A == Numbers(p, s)
           B == Numbers(p, t)
<1>1. /\ Own(p, t) /\ Rising(p, t) /\ A \cup B \subseteq 1..e
      /\ (A \cup B # {} => e \in A \cup B) /\ Cardinality(Holes(A \cup B, e)) <= l
      /\ \A m \in A, n \in B : m < n
  BY Joined DEF Fine
<1> HIDE DEF A, B
<1>2. B # {} => e \in B
  BY <1>1
<1>3. Holes(B, e) \subseteq Holes(A \cup B, e)
  BY <1>1 DEF Holes
<1>4. Cardinality(Holes(B, e)) <= l
  BY <1>1, <1>3, FewerHoles
<1> QED BY <1>1, <1>2, <1>4 DEF Fine, B

(* Notes in between are not said by a bot.                                  *)
LEMMA FineInsert ==
    ASSUME NEW p, NEW s \in Seq(Line), NEW n \in Seq(Line), NEW t \in Seq(Line),
           NEW e \in Nat, NEW l \in Nat,
           Fine(p, s \o t, e, l), Notes(p, n)
    PROVE  Fine(p, s \o (n \o t), e, l)
<1> DEFINE u == n \o t
           A == Numbers(p, s)
           B == Numbers(p, t)
<1>1. /\ Own(p, s) /\ Own(p, t) /\ Rising(p, s) /\ Rising(p, t)
      /\ \A a \in A, b \in B : a < b
      /\ Numbers(p, s \o t) = A \cup B
  BY Joined DEF Fine
<1>2. Own(p, n) /\ Rising(p, n) /\ Numbers(p, n) = {}
  BY NotesSayNothing
<1>3. u \in Seq(Line) /\ Own(p, u)
  BY <1>1, <1>2, Joined
<1>4. Numbers(p, u) = B
  <2>1. Numbers(p, u) = Numbers(p, n) \cup B
    BY Joined
  <2> QED BY <1>2, <2>1
<1>5. Rising(p, u)
  <2>1. \A a \in Numbers(p, n), b \in B : a < b
    BY <1>2
  <2> QED BY <1>1, <1>2, <2>1, Joined
<1> HIDE DEF u
<1>6. Own(p, s \o u) /\ Numbers(p, s \o u) = A \cup B
  BY <1>1, <1>3, <1>4, Joined
<1>7. Rising(p, s \o u)
  BY <1>1, <1>3, <1>4, <1>5, Joined
<1> HIDE DEF A, B
<1> QED BY <1>1, <1>6, <1>7 DEF Fine, u

LEMMA FineNothing == ASSUME NEW p, NEW l \in Nat PROVE Fine(p, <<>>, 0, l)
<1>1. Numbers(p, <<>>) = {} /\ Own(p, <<>>) /\ Rising(p, <<>>)
  BY DEF Numbers, Said, Own, Rising
<1>2. Holes({}, 0) = {}
  BY DEF Holes
<1> QED BY <1>1, <1>2, FS_EmptySet DEF Fine

(* A log holds the last lines of what it is given.                          *)
LEMMA PushIsCut ==
    ASSUME NEW buf \in Seq(Line), NEW lines \in Seq(Line)
    PROVE  /\ Push(buf, lines) \in Seq(Line) /\ Len(Push(buf, lines)) <= LogCap
           /\ \E cut \in Seq(Line) : buf \o lines = cut \o Push(buf, lines)
<1> DEFINE all == buf \o lines
           from == IF Len(all) > LogCap THEN Len(all) - LogCap + 1 ELSE 1
<1>1. all \in Seq(Line) /\ Len(all) \in Nat
  OBVIOUS
<1>2. from \in 1..Len(all) + 1 /\ Len(all) - from + 1 <= LogCap
  BY <1>1, LogAssumption
<1>3. \A i \in from..Len(all) : all[i] \in Line
  BY <1>1, <1>2
<1> HIDE DEF all, from
<1>4. /\ SubSeq(all, from, Len(all)) \in Seq(Line)
      /\ Len(SubSeq(all, from, Len(all))) = IF from <= Len(all) THEN Len(all) - from + 1 ELSE 0
  BY <1>1, <1>2, <1>3, SubSeqProperties
<1>5. SubSeq(all, 1, from - 1) \in Seq(Line)
  BY <1>1, <1>2
<1>6. all = SubSeq(all, 1, from - 1) \o SubSeq(all, from, Len(all))
  <2>1. SubSeq(all, 1, Len(all)) = all
    BY <1>1, SubSeqFull
  <2> DEFINE k == from - 1
  <2>2. 1 \in 1..(Len(all) + 1) /\ k \in 0..Len(all) /\ Len(all) \in k..Len(all) /\ k + 1 = from
    BY <1>1, <1>2
  <2> HIDE DEF k
  <2>3. k \in (1 - 1)..Len(all)
    BY <2>2
  <2>4. SubSeq(all, 1, k) \o SubSeq(all, k + 1, Len(all)) = SubSeq(all, 1, Len(all))
    BY <1>1, <2>2, <2>3, ConcatAdjacentSubSeq
  <2> QED BY <2>1, <2>2, <2>4 DEF k
<1>7. Push(buf, lines) = SubSeq(all, from, Len(all))
  BY DEF Push, all, from
<1>8. Len(Push(buf, lines)) <= LogCap
  BY <1>1, <1>2, <1>4, <1>7, LogAssumption
<1> QED BY <1>4, <1>5, <1>6, <1>7, <1>8 DEF all

LEMMA FinePush ==
    ASSUME NEW p, NEW buf \in Seq(Line), NEW lines \in Seq(Line), NEW rest \in Seq(Line),
           NEW e \in Nat, NEW l \in Nat, Fine(p, buf \o (lines \o rest), e, l)
    PROVE  Fine(p, Push(buf, lines) \o rest, e, l)
<1>1. PICK cut \in Seq(Line) : buf \o lines = cut \o Push(buf, lines)
  BY PushIsCut
<1>2. Push(buf, lines) \in Seq(Line)
  BY PushIsCut
<1>3. buf \o (lines \o rest) = (buf \o lines) \o rest
  BY Zenon, LinesAssociate
<1>4. (cut \o Push(buf, lines)) \o rest = cut \o (Push(buf, lines) \o rest)
  <2> DEFINE new == Push(buf, lines)
  <2>1. new \in Seq(Line)
    BY <1>2
  <2> HIDE DEF new
  <2>2. (cut \o new) \o rest = cut \o (new \o rest)
    BY Zenon, <2>1, LinesAssociate
  <2> QED BY <2>2 DEF new
<1>5. Push(buf, lines) \o rest \in Seq(Line)
  BY <1>2, Joined
<1>6. Fine(p, cut \o (Push(buf, lines) \o rest), e, l)
  BY <1>1, <1>3, <1>4
<1> QED BY <1>5, <1>6, FineCut

(* The next line of a bot, behind what there is.                            *)
LEMMA FineNext ==
    ASSUME NEW p, NEW s \in Seq(Line), NEW line \in Line, NEW e \in Nat, NEW l \in Nat,
           Own(p, s), Rising(p, s), Numbers(p, s) \subseteq 1..e,
           Cardinality(Holes(Numbers(p, s) \cup {e + 1}, e + 1)) <= l,
           line.of = p, line.kind = "bot", line.n = e + 1
    PROVE  Fine(p, s \o <<line>>, e + 1, l)
<1> DEFINE t == <<line>>
           A == Numbers(p, s)
           B == {e + 1}
<1>1. t \in Seq(Line) /\ DOMAIN t = {1} /\ t[1] = line
  OBVIOUS
<1> HIDE DEF t
<1>2. Said(p, t) = {1}
  BY <1>1 DEF Said
<1>3. Own(p, t) /\ Rising(p, t) /\ Numbers(p, t) = B
  BY <1>1, <1>2 DEF Own, Rising, Numbers
<1>4. \A a \in A, b \in B : a < b
  OBVIOUS
<1>5. Own(p, s \o t) /\ Numbers(p, s \o t) = A \cup B
  BY <1>1, <1>3, Joined
<1>6. Rising(p, s \o t)
  BY <1>1, <1>3, <1>4, Joined
<1>7. A \cup B \subseteq 1..(e + 1) /\ e + 1 \in A \cup B
  OBVIOUS
<1> HIDE DEF A, B
<1>8. Cardinality(Holes(A \cup B, e + 1)) <= l
  BY DEF A, B
<1> QED BY <1>5, <1>6, <1>7, <1>8 DEF Fine, t

LEMMA FineEmit ==
    ASSUME NEW p, NEW log \in Seq(Line), NEW s \in BotSession, NEW line \in Line, NEW e \in Nat,
           Fine(p, log \o s.queue, e, s.lost),
           line.of = p, line.kind = "bot", line.n = e + 1
    PROVE  Fine(p, log \o Emits(s, line).queue, e + 1, Emits(s, line).lost)
<1> DEFINE q == s.queue
           N == Numbers(p, log \o q)
<1>1. q \in Seq(Line) /\ Len(q) \in Nat /\ s.lost \in Nat /\ <<line>> \in Seq(Line)
  BY DEF BotSession
<1>2. /\ Own(p, log) /\ Own(p, q) /\ Rising(p, log) /\ Rising(p, q)
      /\ \A m \in Numbers(p, log), n \in Numbers(p, q) : m < n
      /\ N = Numbers(p, log) \cup Numbers(p, q)
  BY <1>1, Joined DEF Fine
<1>3. /\ N \subseteq 1..e /\ (N # {} => e \in N) /\ Cardinality(Holes(N, e)) <= s.lost
  BY DEF Fine
<1>4. IsFiniteSet(Holes(N, e)) /\ Cardinality(Holes(N, e)) \in Nat
  <2>1. IsFiniteSet(1..e) /\ Holes(N, e) \subseteq 1..e
    BY FS_Interval DEF Holes
  <2> QED BY <2>1, FS_Subset, FS_CardinalityType
<1> HIDE DEF N, q
<1>5. CASE Len(q) >= QueueCap
  <2> DEFINE h == Head(q)
             r == Tail(q)
             M == Numbers(p, log \o r)
  <2>1. q # <<>>
    BY <1>1, <1>5, LogAssumption
  <2>2. h \in Line /\ r \in Seq(Line) /\ q = <<h>> \o r /\ <<h>> \in Seq(Line)
    BY <1>1, <2>1, HeadTailProperties
  <2> HIDE DEF h, r
  <2>3. Emits(s, line).queue = Append(r, line) /\ Emits(s, line).lost = s.lost + 1
    BY <1>5 DEF Emits, BotSession, r, q
  <2>4. Append(r, line) = r \o <<line>>
    BY <2>2, AppendIsConcat
  <2>5. log \o (r \o <<line>>) = (log \o r) \o <<line>>
    BY <1>1, <2>2, LinesAssociate
  <2>6. Own(p, r) /\ Rising(p, r) /\ Numbers(p, q) = Numbers(p, <<h>>) \cup Numbers(p, r)
    <3>1. Own(p, <<h>> \o r) /\ Rising(p, <<h>> \o r)
      BY <1>2, <2>2
    <3>2. Numbers(p, <<h>> \o r) = Numbers(p, <<h>>) \cup Numbers(p, r)
      BY <2>2, Joined
    <3>3. Own(p, r) /\ Rising(p, r)
      BY <2>2, <3>1, Joined
    <3> QED BY <2>2, <3>2, <3>3
  <2>7. Numbers(p, <<h>>) \subseteq {h.n}
    BY DEF Numbers, Said
  <2>8. log \o r \in Seq(Line) /\ Own(p, log \o r) /\ M = Numbers(p, log) \cup Numbers(p, r)
    BY <1>2, <2>2, <2>6, Joined
  <2>9. Rising(p, log \o r)
    BY <1>2, <2>2, <2>6, Joined
  <2> HIDE DEF M
  <2>10. M \subseteq N /\ N \subseteq M \cup {h.n}
    BY <1>2, <2>6, <2>7, <2>8
  <2>11. Holes(M \cup {e + 1}, e + 1) \subseteq Holes(N, e) \cup {h.n}
    <3> SUFFICES ASSUME NEW n \in 1..(e + 1), n \notin M \cup {e + 1}, NEW m \in M \cup {e + 1}, m < n
                 PROVE  n \in Holes(N, e) \cup {h.n}
      BY DEF Holes
    <3>1. n \in 1..e /\ m \in M
      OBVIOUS
    <3>2. n \notin N => n \in Holes(N, e)
      BY <2>10, <3>1 DEF Holes
    <3> QED BY <2>10, <3>2
  <2>12. Cardinality(Holes(M \cup {e + 1}, e + 1)) <= s.lost + 1
    <3>1. IsFiniteSet(Holes(N, e) \cup {h.n}) /\ Cardinality(Holes(N, e) \cup {h.n}) <= Cardinality(Holes(N, e)) + 1
      <4> DEFINE H == Holes(N, e)
                 x == h.n
      <4>1. IsFiniteSet(H) /\ Cardinality(H) \in Nat
        BY <1>4
      <4> HIDE DEF H, x
      <4>2. /\ IsFiniteSet(H \cup {x})
            /\ Cardinality(H \cup {x}) = IF x \in H THEN Cardinality(H) ELSE Cardinality(H) + 1
        BY <4>1, FS_AddElement
      <4>3. Cardinality(H \cup {x}) <= Cardinality(H) + 1
        BY <4>1, <4>2
      <4> QED BY <4>2, <4>3 DEF H, x
    <3>2. Cardinality(Holes(N, e) \cup {h.n}) \in Nat
      BY <3>1, FS_CardinalityType
    <3>3. /\ Cardinality(Holes(M \cup {e + 1}, e + 1)) <= Cardinality(Holes(N, e) \cup {h.n})
          /\ Cardinality(Holes(M \cup {e + 1}, e + 1)) \in Nat
      BY <2>11, <3>1, FS_Subset, FS_CardinalityType
    <3> QED BY <1>1, <1>3, <1>4, <3>1, <3>2, <3>3
  <2>13. M \subseteq 1..e /\ s.lost + 1 \in Nat
    BY <1>1, <1>3, <2>10
  <2>14. Fine(p, (log \o r) \o <<line>>, e + 1, s.lost + 1)
    BY <2>8, <2>9, <2>12, <2>13, FineNext DEF M
  <2> QED BY <2>3, <2>4, <2>5, <2>14
<1>6. CASE ~(Len(q) >= QueueCap)
  <2>1. Emits(s, line).queue = Append(q, line) /\ Emits(s, line).lost = s.lost
    BY <1>6 DEF Emits, BotSession, q
  <2>2. Append(q, line) = q \o <<line>>
    BY <1>1, AppendIsConcat
  <2>3. log \o (q \o <<line>>) = (log \o q) \o <<line>>
    BY <1>1, LinesAssociate
  <2>4. Holes(N \cup {e + 1}, e + 1) \subseteq Holes(N, e)
    BY <1>3 DEF Holes
  <2>5. Cardinality(Holes(N \cup {e + 1}, e + 1)) <= s.lost
    <3>1. /\ Cardinality(Holes(N \cup {e + 1}, e + 1)) <= Cardinality(Holes(N, e))
          /\ Cardinality(Holes(N \cup {e + 1}, e + 1)) \in Nat
      BY <1>4, <2>4, FS_Subset, FS_CardinalityType
    <3> QED BY <1>1, <1>3, <1>4, <3>1
  <2>6. log \o q \in Seq(Line) /\ Own(p, log \o q) /\ Rising(p, log \o q)
    BY <1>1, <1>2, Joined
  <2>7. Fine(p, (log \o q) \o <<line>>, e + 1, s.lost)
    BY <1>1, <1>3, <2>5, <2>6, FineNext DEF N
  <2> QED BY <2>1, <2>2, <2>3, <2>7
<1> QED BY <1>5, <1>6

-----------------------------------------------------------------------------
(* The list of accounts, and the operators of the console on it.            *)

LEMMA InitialType == Initial \in Filters
BY LogAssumption DEF Initial

LEMMA NewType == NewSession \in BotSession
BY InitialType DEF NewSession, BotSession

(* A console whose sessions, screen and pending lines are replaced.         *)
With(c, ses, log, pending) == [c EXCEPT !.ses = ses, !.app.log = log, !.pending = pending]

LEMMA WithGood ==
    ASSUME NEW c, Good(c), NEW ses \in [Profiles -> BotSession], NEW log \in Seq(Line),
           NEW pending \in Seq(Line)
    PROVE  LET d == With(c, ses, log, pending)
           IN  /\ Good(d) /\ SamePlaces(c, d) /\ d.ses = ses /\ d.app.log = log
               /\ d.pending = pending
BY DEF Good, Console, App, Listed, SamePlaces, With

LEMMA SwapGood ==
    ASSUME NEW c, Good(c), NEW i \in Nat
    PROVE  LET d == Swap(c, i)
           IN  /\ Good(d) /\ SamePlaces(c, d) /\ d.pending = c.pending
               /\ \A p \in Profiles : d.ses[p].log = IF p \in Nth(c, i) THEN c.app.log ELSE c.ses[p].log
               /\ i \in DOMAIN c.order => d.app.log = c.ses[c.order[i]].log
               /\ i \notin DOMAIN c.order => d.app.log = c.app.log
               /\ \A p \in Profiles : d.ses[p].filter = c.ses[p].filter
<1> DEFINE ses == [p \in Profiles |->
                      IF p \in Nth(c, i) THEN [c.ses[p] EXCEPT !.log = c.app.log] ELSE c.ses[p]]
           log == IF i \in DOMAIN c.order THEN c.ses[c.order[i]].log ELSE c.app.log
           d == Swap(c, i)
<1>1. /\ c.ses \in [Profiles -> BotSession] /\ c.app.log \in Seq(Line) /\ c.pending \in Seq(Line)
      /\ c.order \in Seq(Profiles)
  BY DEF Good, Console, App
<1>2. /\ ses \in [Profiles -> BotSession]
      /\ \A p \in Profiles : ses[p].log = IF p \in Nth(c, i) THEN c.app.log ELSE c.ses[p].log
      /\ \A p \in Profiles : ses[p].filter = c.ses[p].filter
  BY <1>1 DEF BotSession
<1>3. log \in Seq(Line)
  BY <1>1 DEF BotSession
<1>4. d = With(c, ses, log, c.pending)
  BY DEF Swap, Good, Console, App, With
<1> HIDE DEF ses, d, log
<1>5. Good(d) /\ SamePlaces(c, d) /\ d.ses = ses /\ d.app.log = log /\ d.pending = c.pending
  <2>1. ses \in [Profiles -> BotSession] /\ c.pending \in Seq(Line)
    BY <1>1, <1>2
  <2>2. LET e == With(c, ses, log, c.pending)
        IN  Good(e) /\ SamePlaces(c, e) /\ e.ses = ses /\ e.app.log = log /\ e.pending = c.pending
    BY <2>1, <1>3, WithGood
  <2> QED BY <1>4, <2>2
<1> QED BY <1>2, <1>5 DEF d, log

LEMMA WriteBackGood ==
    ASSUME NEW c, Good(c)
    PROVE  LET d == WriteBack(c)
           IN  /\ Good(d) /\ SamePlaces(c, d) /\ d.app.log = c.app.log
               /\ \A p \in Profiles : d.ses[p].log = c.ses[p].log
<1> DEFINE ses == [p \in Profiles |->
                      IF p \in Nth(c, c.synced) THEN [c.ses[p] EXCEPT !.filter = c.app.filter]
                      ELSE c.ses[p]]
<1>1. /\ c.ses \in [Profiles -> BotSession] /\ c.app.log \in Seq(Line) /\ c.pending \in Seq(Line)
      /\ c.app.filter \in Filters
  BY DEF Good, Console, App
<1>2. ses \in [Profiles -> BotSession] /\ \A p \in Profiles : ses[p].log = c.ses[p].log
  BY <1>1 DEF BotSession
<1>3. WriteBack(c) = With(c, ses, c.app.log, c.pending)
  BY DEF WriteBack, Good, Console, App, With
<1> HIDE DEF ses
<1>4. LET e == With(c, ses, c.app.log, c.pending)
      IN  Good(e) /\ SamePlaces(c, e) /\ e.ses = ses /\ e.app.log = c.app.log
  BY <1>1, <1>2, WithGood
<1> QED BY <1>2, <1>3, <1>4

(* The two swaps: the log on the screen goes to the session it belongs to,  *)
(* and the one of the selected session comes.                               *)
LEMMA RotateGood ==
    ASSUME NEW c, Good(c), c.order # <<>>
    PROVE  LET d == Rotate(c)
           IN  /\ Good(d) /\ SamePlaces(c, d)
               /\ d.app.log = LogOf(c, Selected(c))
               /\ \A p \in Profiles : p # Selected(c) => d.ses[p].log = LogOf(c, p)
<1>1. /\ c.order \in Seq(Profiles) /\ c.selected \in DOMAIN c.order /\ c.synced \in 0..Len(c.order)
      /\ \A i, j \in DOMAIN c.order : c.order[i] = c.order[j] => i = j
      /\ c.selected \in Nat /\ c.synced \in Nat /\ Selected(c) \in Profiles
  BY DEF Good, Console, Listed, Selected
<1>2. CASE c.synced = c.selected
  BY <1>1, <1>2 DEF Rotate, SamePlaces, LogOf, Nth, Selected
<1>3. CASE c.synced # c.selected
  <2> DEFINE d == Swap(c, c.synced)
             e == Swap(d, c.selected)
  <2>1. /\ Good(d) /\ SamePlaces(c, d)
        /\ \A p \in Profiles : d.ses[p].log = IF p \in Nth(c, c.synced) THEN c.app.log ELSE c.ses[p].log
    BY <1>1, SwapGood
  <2>2. \A p \in Profiles : d.ses[p].log = LogOf(c, p)
    BY <2>1 DEF LogOf
  <2>3. Rotate(c) = e
    BY <1>3 DEF Rotate
  <2> HIDE DEF d
  <2>4. /\ Good(e) /\ SamePlaces(d, e) /\ e.app.log = d.ses[d.order[c.selected]].log
        /\ \A p \in Profiles : p \notin Nth(d, c.selected) => e.ses[p].log = d.ses[p].log
    <3>1. c.selected \in DOMAIN d.order
      BY <1>1, <2>1 DEF SamePlaces
    <3>2. /\ Good(Swap(d, c.selected)) /\ SamePlaces(d, Swap(d, c.selected))
          /\ Swap(d, c.selected).app.log = d.ses[d.order[c.selected]].log
          /\ \A p \in Profiles : Swap(d, c.selected).ses[p].log
                                     = IF p \in Nth(d, c.selected) THEN d.app.log ELSE d.ses[p].log
      BY <1>1, <2>1, <3>1, SwapGood
    <3> QED BY <3>2
  <2>5. \A p : p \in Nth(d, c.selected) => p = Selected(c)
    BY <2>1 DEF Nth, SamePlaces, Selected
  <2>6. d.order[c.selected] = Selected(c)
    BY <2>1 DEF SamePlaces, Selected
  <2> HIDE DEF e
  <2> QED BY <1>1, <2>1, <2>2, <2>3, <2>4, <2>5, <2>6 DEF SamePlaces
<1> QED BY <1>2, <1>3

LEMMA ViewGood ==
    ASSUME NEW c, Good(c), c.order # <<>>, NEW free \in BOOLEAN
    PROVE  LET d == View(c, free)
           IN  /\ Good(d) /\ d.order = c.order /\ d.selected = c.selected /\ d.synced = c.selected
               /\ d.app.log = c.app.log /\ d.ses = c.ses /\ d.pending = c.pending
               /\ d.app.owner = Selected(c) /\ d.app.filter = c.ses[Selected(c)].filter
               /\ c.synced = c.selected => d.app.snap = c.app.snap
               /\ c.synced # c.selected => d.app.snap \in {Selected(c), Nobody}
<1>1. Selected(c) \in Profiles /\ c.ses[Selected(c)] \in BotSession /\ c.selected \in DOMAIN c.order
  BY DEF Good, Console, Listed, Selected
<1>2. c.app \in App /\ c.ses[Selected(c)].filter \in Filters /\ c.ses[Selected(c)].dropped \in Nat
  BY <1>1 DEF Good, Console, BotSession
<1> DEFINE snap == IF c.synced = c.selected THEN c.app.snap ELSE IF free THEN Selected(c) ELSE Nobody
<1>3. snap \in Profiles \cup {Nobody}
  BY <1>1, <1>2 DEF App
<1> DEFINE app == [c.app EXCEPT !.owner = Selected(c), !.filter = c.ses[Selected(c)].filter,
                                !.dropped = c.ses[Selected(c)].dropped, !.snap = snap]
<1>4. View(c, free) = [c EXCEPT !.synced = c.selected, !.app = app]
  BY DEF View, Good, Console, App
<1>7. /\ c.synced = c.selected => snap = c.app.snap
      /\ c.synced # c.selected => snap \in {Selected(c), Nobody}
  OBVIOUS
<1> HIDE DEF snap
<1>5. /\ app \in App /\ app.log = c.app.log /\ app.owner = Selected(c)
      /\ app.filter = c.ses[Selected(c)].filter /\ app.snap = snap
  BY <1>1, <1>2, <1>3 DEF App
<1> HIDE DEF app
<1>6. c.selected \in 0..Len(c.order)
  BY <1>1 DEF Good, Console
<1> DEFINE d == View(c, free)
<1>8. /\ d.order = c.order /\ d.selected = c.selected /\ d.synced = c.selected
      /\ d.ses = c.ses /\ d.pending = c.pending /\ d.app = app
  BY <1>4 DEF Good, Console
<1>9. Good(d)
  BY <1>1, <1>4, <1>5, <1>6 DEF Good, Console, Listed
<1> HIDE DEF d
<1> QED BY <1>5, <1>7, <1>8, <1>9 DEF d

(* sync_from_selected changes no account's log, whatever the selection is.  *)
LEMMA SyncGood ==
    ASSUME NEW c, Good(c), NEW free \in BOOLEAN
    PROVE  LET d == SyncFromSelected(c, free)
           IN  /\ Good(d) /\ d.order = c.order /\ d.selected = c.selected
               /\ \A p \in Attached(c) : LogOf(d, p) = LogOf(c, p)
<1> DEFINE b == WriteBack(c)
           r == Rotate(b)
           d == SyncFromSelected(c, free)
<1>1. /\ Good(b) /\ SamePlaces(c, b) /\ b.app.log = c.app.log
      /\ \A p \in Profiles : b.ses[p].log = c.ses[p].log
  BY WriteBackGood
<1>2. \A p \in Profiles : LogOf(b, p) = LogOf(c, p)
  BY <1>1 DEF LogOf, Nth, SamePlaces
<1>3. Selected(b) = Selected(c) /\ c.order \in Seq(Profiles) /\ Attached(c) \subseteq Profiles
  BY <1>1 DEF Selected, SamePlaces, Good, Console, Attached
<1>4. d = IF c.order = <<>> THEN r ELSE View(r, free)
  BY DEF SyncFromSelected
<1> HIDE DEF b, d
<1>5. CASE c.order = <<>>
  <2>1. Attached(c) = {}
    BY <1>5 DEF Attached
  <2>2. b.synced \in Nat /\ b.selected \in Nat
    BY <1>1 DEF Good, Console
  <2>3. Good(r) /\ SamePlaces(b, r)
    <3>1. CASE b.synced = b.selected
      BY <1>1, <3>1 DEF Rotate, SamePlaces
    <3>2. CASE b.synced # b.selected
      <4> DEFINE s == Swap(b, b.synced)
      <4>1. Good(s) /\ SamePlaces(b, s)
        BY <1>1, <2>2, SwapGood
      <4>2. r = Swap(s, b.selected)
        BY <3>2 DEF Rotate
      <4> HIDE DEF s, r
      <4>3. Good(Swap(s, b.selected)) /\ SamePlaces(s, Swap(s, b.selected))
        BY <2>2, <4>1, SwapGood
      <4> QED BY <4>1, <4>2, <4>3 DEF SamePlaces
    <3> QED BY <3>1, <3>2
  <2>4. Good(d) /\ d.order = c.order /\ d.selected = c.selected
    BY <1>1, <1>4, <1>5, <2>3 DEF SamePlaces
  <2> QED BY <2>1, <2>4 DEF d
<1>6. CASE c.order # <<>>
  <2>1. b.order # <<>>
    BY <1>1, <1>6 DEF SamePlaces
  <2>2. /\ Good(r) /\ SamePlaces(b, r)
        /\ r.app.log = LogOf(b, Selected(b))
        /\ \A p \in Profiles : p # Selected(b) => r.ses[p].log = LogOf(b, p)
    BY <1>1, <2>1, RotateGood
  <2> HIDE DEF r
  <2>3. r.order # <<>>
    BY <2>1, <2>2 DEF SamePlaces
  <2>4. LET v == View(r, free)
        IN  /\ Good(v) /\ v.order = r.order /\ v.selected = r.selected /\ v.synced = r.selected
            /\ v.app.log = r.app.log /\ v.ses = r.ses
    BY <2>2, <2>3, ViewGood
  <2>5. d = View(r, free)
    BY <1>4, <1>6
  <2>6. Good(d) /\ d.order = c.order /\ d.selected = c.selected /\ d.synced = c.selected
        /\ d.app.log = r.app.log /\ d.ses = r.ses
    BY <1>1, <2>2, <2>4, <2>5 DEF SamePlaces
  <2>7. c.selected \in DOMAIN c.order
    BY <1>1, <2>1 DEF Good, Listed, SamePlaces
  <2>8. \A p : p \in Nth(d, d.synced) <=> p = Selected(c)
    BY <2>6, <2>7 DEF Nth, Selected
  <2>9. \A p \in Profiles : LogOf(d, p) = LogOf(c, p)
    BY <1>2, <1>3, <2>2, <2>6, <2>8 DEF LogOf
  <2> QED BY <1>3, <2>6, <2>9 DEF d
<1> QED BY <1>5, <1>6 DEF d

-----------------------------------------------------------------------------
(* The other operators: what they write is a log or a queue of lines, and   *)
(* the list and its positions stay or are moved together.                   *)
LEMMA SayGood ==
    ASSUME NEW c, Good(c)
    PROVE  Good(Say(c)) /\ SamePlaces(c, Say(c))
<1> DEFINE line == [of |-> Nobody, kind |-> "note", n |-> 0]
           log == Push(c.app.log, <<line>>)
<1>1. c.app.log \in Seq(Line) /\ c.ses \in [Profiles -> BotSession] /\ c.pending \in Seq(Line)
  BY DEF Good, Console, App
<1>2. <<line>> \in Seq(Line)
  BY DEF Line
<1>3. log \in Seq(Line)
  BY <1>1, <1>2, PushIsCut
<1>4. Say(c) = With(c, c.ses, log, c.pending)
  BY DEF Say, Good, Console, App, With
<1> HIDE DEF log
<1>5. LET e == With(c, c.ses, log, c.pending) IN Good(e) /\ SamePlaces(c, e)
  BY <1>1, <1>3, WithGood
<1> QED BY <1>4, <1>5

LEMMA NoteGood ==
    ASSUME NEW c, Good(c), NEW p \in Profiles, NEW line \in Line
    PROVE  Good(NoteAt(c, p, line)) /\ SamePlaces(c, NoteAt(c, p, line))
<1>1. /\ c.app.log \in Seq(Line) /\ c.ses \in [Profiles -> BotSession] /\ c.pending \in Seq(Line)
      /\ c.ses[p] \in BotSession /\ c.ses[p].log \in Seq(Line)
  BY DEF Good, Console, App, BotSession
<1>2. CASE p = Selected(c)
  <2>1. NoteAt(c, p, line) = With(c, c.ses, c.app.log, Append(c.pending, line))
    BY <1>2 DEF NoteAt, Good, Console, App, With
  <2>2. Append(c.pending, line) \in Seq(Line)
    BY <1>1
  <2>3. LET e == With(c, c.ses, c.app.log, Append(c.pending, line)) IN Good(e) /\ SamePlaces(c, e)
    BY <1>1, <2>2, WithGood
  <2> QED BY <2>1, <2>3
<1>3. CASE p # Selected(c)
  <2> DEFINE log == Push(c.ses[p].log, <<line>>)
             ses == [c.ses EXCEPT ![p] = [c.ses[p] EXCEPT !.log = log]]
  <2>1. <<line>> \in Seq(Line)
    OBVIOUS
  <2>2. log \in Seq(Line)
    BY <1>1, <2>1, PushIsCut
  <2>3. NoteAt(c, p, line) = With(c, ses, c.app.log, c.pending)
    BY <1>1, <1>3 DEF NoteAt, Good, Console, App, With
  <2> HIDE DEF log
  <2>4. ses \in [Profiles -> BotSession]
    BY <1>1, <2>2 DEF BotSession
  <2> HIDE DEF ses
  <2>5. LET e == With(c, ses, c.app.log, c.pending) IN Good(e) /\ SamePlaces(c, e)
    BY <1>1, <2>4, WithGood
  <2> QED BY <2>3, <2>5
<1> QED BY <1>2, <1>3

LEMMA EmitsType ==
    ASSUME NEW s \in BotSession, NEW line \in Line
    PROVE  Emits(s, line) \in BotSession
<1>1. s.queue \in Seq(Line) /\ Len(s.queue) \in Nat /\ s.lost \in Nat
  BY DEF BotSession
<1>2. CASE Len(s.queue) >= QueueCap
  <2>1. s.queue # <<>>
    BY <1>1, <1>2, LogAssumption
  <2>2. Append(Tail(s.queue), line) \in Seq(Line)
    BY <1>1, <2>1
  <2> DEFINE q == Append(Tail(s.queue), line)
  <2>3. Emits(s, line) = [s EXCEPT !.queue = q, !.lost = s.lost + 1]
    BY <1>2 DEF Emits, BotSession
  <2>4. q \in Seq(Line) /\ s.lost + 1 \in Nat
    BY <1>1, <2>2
  <2> HIDE DEF q
  <2> QED BY <2>3, <2>4 DEF BotSession
<1>3. CASE ~(Len(s.queue) >= QueueCap)
  <2>1. Append(s.queue, line) \in Seq(Line)
    BY <1>1
  <2> QED BY <1>3, <2>1 DEF Emits, BotSession
<1> QED BY <1>2, <1>3

LEMMA DrainGood ==
    ASSUME NEW c, Good(c)
    PROVE  Good(DrainAll(c)) /\ SamePlaces(c, DrainAll(c))
<1> DEFINE Drained(p) ==
              IF p \notin Attached(c) THEN c.ses[p]
              ELSE [c.ses[p] EXCEPT !.log = IF p = Selected(c) THEN @ ELSE Push(@, c.ses[p].queue),
                                    !.queue = <<>>, !.dropped = c.ses[p].lost]
           ses == [p \in Profiles |-> Drained(p)]
           lines == c.pending \o (IF c.order = <<>> THEN <<>> ELSE c.ses[Selected(c)].queue)
           log == Push(c.app.log, lines)
<1>1. c.app.log \in Seq(Line) /\ c.ses \in [Profiles -> BotSession] /\ c.pending \in Seq(Line)
  BY DEF Good, Console, App
<1>2. \A p \in Profiles : Drained(p) \in BotSession
  <2> SUFFICES ASSUME NEW p \in Profiles PROVE Drained(p) \in BotSession
    OBVIOUS
  <2>1. c.ses[p] \in BotSession /\ c.ses[p].log \in Seq(Line) /\ c.ses[p].queue \in Seq(Line)
    BY <1>1 DEF BotSession
  <2> DEFINE new == IF p = Selected(c) THEN c.ses[p].log ELSE Push(c.ses[p].log, c.ses[p].queue)
  <2>2. new \in Seq(Line)
    BY <2>1, PushIsCut
  <2>3. CASE p \in Attached(c)
    <3>1. Drained(p) = [c.ses[p] EXCEPT !.log = new, !.queue = <<>>, !.dropped = c.ses[p].lost]
      BY <2>1, <2>3 DEF BotSession
    <3>2. <<>> \in Seq(Line) /\ c.ses[p].lost \in Nat
      BY <2>1 DEF BotSession
    <3> HIDE DEF new, Drained
    <3> QED BY <2>1, <2>2, <3>1, <3>2 DEF BotSession
  <2>4. CASE p \notin Attached(c)
    BY <2>1, <2>4
  <2> QED BY <2>3, <2>4
<1> HIDE DEF Drained
<1>3. ses \in [Profiles -> BotSession]
  BY <1>2
<1>4. lines \in Seq(Line)
  <2>1. c.order # <<>> => Selected(c) \in Profiles
    BY DEF Good, Console, Listed, Selected
  <2>2. c.order # <<>> => c.ses[Selected(c)].queue \in Seq(Line)
    BY <1>1, <2>1 DEF BotSession
  <2>3. <<>> \in Seq(Line)
    OBVIOUS
  <2> QED BY <1>1, <2>2, <2>3
<1>5. log \in Seq(Line)
  <2> HIDE DEF lines
  <2> QED BY <1>1, <1>4, PushIsCut
<1>6. DrainAll(c) = With(c, ses, log, <<>>)
  BY DEF DrainAll, Good, Console, App, With, Drained
<1> HIDE DEF ses, log
<1>7. LET e == With(c, ses, log, <<>>) IN Good(e) /\ SamePlaces(c, e)
  <2>1. <<>> \in Seq(Line)
    OBVIOUS
  <2> QED BY <1>3, <1>5, <2>1, WithGood
<1> QED BY <1>6, <1>7

LEMMA PollGood ==
    ASSUME NEW c, Good(c), NEW free \in BOOLEAN, NEW again \in BOOLEAN
    PROVE  LET d == Poll(c, free, again)
           IN  Good(d) /\ d.order = c.order /\ d.selected = c.selected
<1> DEFINE d == SyncFromSelected(c, free)
<1>1. Good(d) /\ d.order = c.order /\ d.selected = c.selected
  BY SyncGood
<1>2. Poll(c, free, again) = IF again THEN [d EXCEPT !.app.snap = d.app.owner] ELSE d
  BY DEF Poll
<1> HIDE DEF d
<1>3. d.app \in App /\ d.app.owner \in Profiles \cup {Nobody}
  BY <1>1 DEF Good, Console, App
<1>4. CASE again
  <2> DEFINE app == [d.app EXCEPT !.snap = d.app.owner]
  <2>1. app \in App
    BY <1>3 DEF App
  <2>2. Poll(c, free, again) = [d EXCEPT !.app = app]
    BY <1>1, <1>2, <1>4 DEF Good, Console
  <2> HIDE DEF app
  <2> QED BY <1>1, <2>1, <2>2 DEF Good, Console, Listed
<1>5. CASE ~again
  BY <1>1, <1>2, <1>5
<1> QED BY <1>4, <1>5

(* The console when the i-th account has left the list and nothing is on    *)
(* the screen yet.                                                          *)
Left(c, i) == [j \in 1..Len(c.order) - 1 |-> c.order[IF j < i THEN j ELSE j + 1]]
Gone(c, i) ==
    [c EXCEPT !.order = Left(c, i), !.ses[c.order[i]] = NewSession,
              !.selected = IF @ > Len(Left(c, i)) /\ Left(c, i) # <<>> THEN Len(Left(c, i)) ELSE @,
              !.synced = 0]

LEMMA LeftFacts ==
    ASSUME NEW c, Good(c), NEW i \in DOMAIN c.order
    PROVE  LET left == Left(c, i)
           IN  /\ left \in Seq(Profiles) /\ Len(left) = Len(c.order) - 1 /\ DOMAIN left = 1..Len(left)
               /\ \A j, k \in 1..Len(left) : left[j] = left[k] => j = k
               /\ \A j \in 1..Len(left) : left[j] = c.order[IF j < i THEN j ELSE j + 1]
               /\ left = <<>> <=> Len(left) = 0
               /\ Len(c.order) \in Nat \ {0} /\ i \in 1..Len(c.order)
               /\ {left[j] : j \in 1..Len(left)} = Attached(c) \ {c.order[i]}
<1> DEFINE left == Left(c, i)
           n == Len(c.order)
<1>1. /\ c.order \in Seq(Profiles) /\ n \in Nat \ {0} /\ i \in 1..n /\ DOMAIN c.order = 1..n
      /\ \A j, k \in 1..n : c.order[j] = c.order[k] => j = k
  BY DEF Good, Console, Listed
<1>2. left \in Seq(Profiles) /\ Len(left) = n - 1 /\ DOMAIN left = 1..Len(left)
  BY <1>1 DEF Left
<1>3. \A j \in 1..Len(left) : left[j] = c.order[IF j < i THEN j ELSE j + 1]
  BY <1>1, <1>2 DEF Left
<1> HIDE DEF left, n
<1>4. \A j \in 1..Len(left) : (IF j < i THEN j ELSE j + 1) \in 1..n /\ (IF j < i THEN j ELSE j + 1) # i
  BY <1>1, <1>2
<1>5. \A j, k \in 1..Len(left) : left[j] = left[k] => j = k
  <2> SUFFICES ASSUME NEW j \in 1..Len(left), NEW k \in 1..Len(left), left[j] = left[k] PROVE j = k
    OBVIOUS
  <2> DEFINE a == IF j < i THEN j ELSE j + 1
             b == IF k < i THEN k ELSE k + 1
  <2>1. a \in 1..n /\ b \in 1..n /\ c.order[a] = c.order[b]
    BY <1>3, <1>4
  <2>2. a = b
    <3> HIDE DEF a, b
    <3> QED BY <1>1, <2>1
  <2> QED BY <1>1, <1>2, <2>2
<1>6. left = <<>> <=> Len(left) = 0
  BY <1>2, EmptySeq
<1>7. {left[j] : j \in 1..Len(left)} = Attached(c) \ {c.order[i]}
  <2>1. ASSUME NEW j \in 1..Len(left) PROVE left[j] \in Attached(c) \ {c.order[i]}
    <3> DEFINE a == IF j < i THEN j ELSE j + 1
    <3>1. a \in 1..n /\ a # i /\ left[j] = c.order[a]
      BY <1>3, <1>4
    <3> HIDE DEF a
    <3> QED BY <1>1, <3>1 DEF Attached
  <2>2. ASSUME NEW k \in 1..n, c.order[k] # c.order[i] PROVE \E j \in 1..Len(left) : left[j] = c.order[k]
    <3>1. k < i \/ k > i
      BY <1>1, <2>2
    <3>2. CASE k < i
      <4>1. k \in 1..Len(left)
        BY <1>1, <1>2, <3>2
      <4> QED BY <1>3, <3>2, <4>1
    <3>3. CASE k > i
      <4>1. k - 1 \in 1..Len(left) /\ ~(k - 1 < i) /\ (k - 1) + 1 = k
        BY <1>1, <1>2, <3>3
      <4> QED BY <1>3, <4>1
    <3> QED BY <3>1, <3>2, <3>3
  <2>3. ASSUME NEW q \in Attached(c) \ {c.order[i]} PROVE \E j \in 1..Len(left) : left[j] = q
    <3>1. PICK k \in 1..n : q = c.order[k]
      BY <1>1 DEF Attached
    <3> QED BY <2>2, <3>1
  <2> QED BY <2>1, <2>3
<1> QED BY <1>1, <1>2, <1>3, <1>5, <1>6, <1>7 DEF left, n

(* One account leaves: the rest move up, the selection stays within them,   *)
(* and the log on the screen is given back by its old index.                *)
LEMMA RemoveIsSwap ==
    ASSUME NEW c, Good(c), NEW i \in DOMAIN c.order
    PROVE  LET e == Gone(c, i)
           IN  /\ Good(e) /\ e.order = Left(c, i) /\ e.synced = 0 /\ e.app = c.app
               /\ e.pending = c.pending /\ e.ses = [c.ses EXCEPT ![c.order[i]] = NewSession]
               /\ e.selected = IF c.selected > Len(e.order) /\ e.order # <<>> THEN Len(e.order)
                               ELSE c.selected
               /\ Remove(c, i) = Say(Swap(e, c.synced))
<1> DEFINE left == Left(c, i)
           ses == [c.ses EXCEPT ![c.order[i]] = NewSession]
           sel == IF c.selected > Len(left) /\ left # <<>> THEN Len(left) ELSE c.selected
           d == [c EXCEPT !.order = left, !.ses = ses, !.selected = sel]
           e == Gone(c, i)
           w == Swap(d, c.synced)
           z == [w EXCEPT !.synced = 0]
<1>1. /\ c.selected \in 1..Len(c.order) /\ c.synced \in 0..Len(c.order)
      /\ c.ses \in [Profiles -> BotSession] /\ c \in Console
  BY DEF Good, Console, Listed
<1>2. /\ left \in Seq(Profiles) /\ Len(left) = Len(c.order) - 1 /\ DOMAIN left = 1..Len(left)
      /\ \A j, k \in 1..Len(left) : left[j] = left[k] => j = k
      /\ left = <<>> <=> Len(left) = 0
      /\ Len(c.order) \in Nat \ {0}
  BY LeftFacts
<1>3. e = [c EXCEPT !.order = left, !.ses = ses, !.selected = sel, !.synced = 0]
  BY <1>1 DEF Gone, Console
<1>4. Remove(c, i) = Say(z)
  BY <1>1 DEF Remove, Left, Console
<1> HIDE DEF left
<1>5. sel \in Nat /\ (left # <<>> => sel \in 1..Len(left)) /\ (left = <<>> => sel = 1)
  BY <1>1, <1>2
<1>6. ses \in [Profiles -> BotSession]
  BY <1>1, NewType
<1> HIDE DEF ses, sel, e
<1>7. /\ e.order = left /\ e.ses = ses /\ e.selected = sel /\ e.synced = 0
      /\ e.pending = c.pending /\ e.app = c.app
  BY <1>1, <1>3 DEF Console
<1>8. Good(e)
  <2>1. e \in Console
    BY <1>1, <1>2, <1>3, <1>5, <1>6 DEF Console
  <2>2. 0 \in 0..Len(left)
    BY <1>2
  <2>3. Listed(e)
    BY <1>2, <1>5, <1>7, <2>2 DEF Listed
  <2> QED BY <2>1, <2>3 DEF Good
<1>9. z = Swap(e, c.synced)
  <2> DEFINE S == [p \in Profiles |->
                      IF p \in Nth(e, c.synced) THEN [ses[p] EXCEPT !.log = c.app.log] ELSE ses[p]]
             L == IF c.synced \in DOMAIN left THEN ses[left[c.synced]].log ELSE c.app.log
  <2>1. d.order = left /\ d.ses = ses /\ d.app = c.app
    BY <1>1 DEF Console
  <2>2. Nth(d, c.synced) = Nth(e, c.synced)
    BY <1>7, <2>1 DEF Nth
  <2>3. e = [d EXCEPT !.synced = 0]
    BY <1>1, <1>3 DEF Console
  <2>4. d \in Console
    BY <1>1, <1>2, <1>5, <1>6 DEF Console
  <2> HIDE DEF d
  <2>5. w = [d EXCEPT !.ses = S, !.app.log = L] /\ Swap(e, c.synced) = [e EXCEPT !.ses = S, !.app.log = L]
    BY <1>7, <2>1, <2>2 DEF Swap
  <2> HIDE DEF S, L, w
  <2>6. z = [[d EXCEPT !.ses = S, !.app.log = L] EXCEPT !.synced = 0]
    BY <2>5
  <2>7. [[d EXCEPT !.ses = S, !.app.log = L] EXCEPT !.synced = 0]
           = [[d EXCEPT !.synced = 0] EXCEPT !.ses = S, !.app.log = L]
    BY <2>4 DEF Console
  <2> QED BY <2>3, <2>5, <2>6, <2>7
<1> HIDE DEF z
<1> QED BY <1>4, <1>7, <1>8, <1>9 DEF e, left, ses, sel

LEMMA RemoveGood ==
    ASSUME NEW c, Good(c), NEW i \in DOMAIN c.order
    PROVE  LET d == Remove(c, i) IN Good(d) /\ Len(d.order) = Len(c.order) - 1
<1> DEFINE e == Gone(c, i)
           s == Swap(e, c.synced)
<1>1. /\ Good(e) /\ e.order = Left(c, i) /\ Remove(c, i) = Say(s) /\ c.synced \in Nat
      /\ Len(Left(c, i)) = Len(c.order) - 1
  <2>1. Good(e) /\ e.order = Left(c, i) /\ Remove(c, i) = Say(s)
    BY RemoveIsSwap
  <2>2. Len(Left(c, i)) = Len(c.order) - 1
    BY LeftFacts
  <2> QED BY <2>1, <2>2 DEF Good, Console
<1> HIDE DEF e
<1>2. Good(s) /\ SamePlaces(e, s)
  BY <1>1, SwapGood
<1> HIDE DEF s
<1>3. Good(Say(s)) /\ SamePlaces(s, Say(s))
  BY <1>2, SayGood
<1> QED BY <1>1, <1>2, <1>3 DEF SamePlaces

-----------------------------------------------------------------------------
LogInv == Good(con) /\ emitted \in [Profiles -> Nat] /\ notes \in Nat /\ running \subseteq Profiles

(* What a step may do to the selection without a change of the list.        *)
Kept == con'.order = con.order /\ con'.selected # con.selected
          => \A p \in Attached(con) : LogOf(con', p) = LogOf(con, p)

LEMMA NoteIsLine == ASSUME LogInv, NEW p \in Profiles PROVE NewNote(p) \in Line
BY DEF LogInv, NewNote, Line

LEMMA LogInit == Init => LogInv
<1> SUFFICES ASSUME Init PROVE LogInv
  OBVIOUS
<1> DEFINE C(p) == [order |-> <<p>>, selected |-> 1, synced |-> 0, pending |-> <<>>,
                    ses |-> [q \in Profiles |-> NewSession],
                    app |-> [log |-> <<>>, filter |-> Initial, dropped |-> 0,
                             owner |-> p, snap |-> Nobody]]
<1>1. PICK p \in Profiles : con = SyncFromSelected(C(p), TRUE)
  BY DEF Init
<1>2. <<>> \in Seq(Line) /\ <<p>> \in Seq(Profiles) /\ Len(<<p>>) = 1
  OBVIOUS
<1>3. C(p).app \in App
  BY <1>2, InitialType DEF App
<1>4. C(p).ses \in [Profiles -> BotSession]
  BY NewType
<1>5. C(p) \in Console
  BY <1>2, <1>3, <1>4 DEF Console
<1>6. Listed(C(p))
  BY <1>2 DEF Listed
<1> HIDE DEF C
<1>7. Good(con)
  BY <1>1, <1>5, <1>6, SyncGood DEF Good
<1> QED BY <1>7 DEF Init, LogInv

LEMMA BotStep == \A p \in Profiles : LogInv /\ (Emit(p) \/ BotEnds(p)) => LogInv' /\ Kept
<1> SUFFICES ASSUME NEW p \in Profiles, LogInv, Emit(p) \/ BotEnds(p) PROVE LogInv' /\ Kept
  OBVIOUS
<1>1. CASE Emit(p)
  <2> DEFINE line == [of |-> p, kind |-> "bot", n |-> emitted'[p]]
             ses == [con.ses EXCEPT ![p] = Emits(con.ses[p], line)]
  <2>1. emitted' \in [Profiles -> Nat] /\ UNCHANGED <<running, notes>>
    BY <1>1 DEF Emit, LogInv
  <2>2. line \in Line
    BY <2>1 DEF Line
  <2>3. /\ con.ses \in [Profiles -> BotSession] /\ con.app.log \in Seq(Line)
        /\ con.pending \in Seq(Line) /\ con \in Console
    BY DEF LogInv, Good, Console, App
  <2>4. con' = With(con, ses, con.app.log, con.pending)
    <3>1. con' = [con EXCEPT !.ses = ses]
      BY <1>1, <2>3 DEF Emit, Console
    <3> HIDE DEF ses
    <3> QED BY <2>3, <3>1 DEF With, Console, App
  <2> HIDE DEF line
  <2>5. ses \in [Profiles -> BotSession]
    BY <2>2, <2>3, EmitsType
  <2> HIDE DEF ses
  <2>6. LET e == With(con, ses, con.app.log, con.pending) IN Good(e) /\ SamePlaces(con, e)
    BY <2>3, <2>5, WithGood DEF LogInv
  <2> QED BY <2>1, <2>4, <2>6 DEF LogInv, Kept, SamePlaces
<1>2. CASE BotEnds(p)
  BY <1>2 DEF BotEnds, LogInv, Kept
<1> QED BY <1>1, <1>2

LEMMA FrameStep ==
    ASSUME NEW free \in BOOLEAN, NEW again \in BOOLEAN, LogInv,
           Frame(free, again) \/ \E p \in Profiles, r \in BOOLEAN : FrameNotes(p, r, free, again)
    PROVE  LogInv' /\ Kept
<1> DEFINE d == DrainAll(con)
<1>1. Good(d) /\ SamePlaces(con, d)
  BY DrainGood DEF LogInv
<1> HIDE DEF d
<1>2. CASE Frame(free, again)
  <2>1. con' = Poll(d, free, again) /\ UNCHANGED <<running, emitted, notes>>
    BY <1>2 DEF Frame, d
  <2>2. LET e == Poll(d, free, again) IN Good(e) /\ e.order = d.order /\ e.selected = d.selected
    BY <1>1, PollGood
  <2> QED BY <1>1, <2>1, <2>2 DEF LogInv, Kept, SamePlaces
<1>3. CASE \E p \in Profiles, r \in BOOLEAN : FrameNotes(p, r, free, again)
  <2>1. PICK p \in Profiles, r \in BOOLEAN : FrameNotes(p, r, free, again)
    BY <1>3
  <2> DEFINE c == NoteAt(d, p, NewNote(p))
  <2>2. Good(c) /\ SamePlaces(d, c)
    BY <1>1, NoteIsLine, NoteGood
  <2>3. con' = Poll(c, free, again) /\ UNCHANGED emitted /\ notes' = notes + 1
        /\ running' \subseteq running \cup {p}
    BY <2>1 DEF FrameNotes, d
  <2> HIDE DEF c
  <2>4. LET e == Poll(c, free, again) IN Good(e) /\ e.order = c.order /\ e.selected = c.selected
    BY <2>2, PollGood
  <2> QED BY <1>1, <2>2, <2>3, <2>4 DEF LogInv, Kept, SamePlaces
<1> QED BY <1>2, <1>3

LEMMA KeyStep ==
    LogInv /\ (NoteKey \/ Clear \/ \E f \in Filters : SetFilter(f)) => LogInv' /\ Kept
<1> SUFFICES ASSUME LogInv, NoteKey \/ Clear \/ \E f \in Filters : SetFilter(f) PROVE LogInv' /\ Kept
  OBVIOUS
<1>1. CASE NoteKey
  <2>1. Selected(con) \in Profiles
    BY <1>1 DEF NoteKey, LogInv, Good, Console, Listed, Selected
  <2> DEFINE c == NoteAt(con, Selected(con), NewNote(Selected(con)))
  <2>2. Good(c) /\ SamePlaces(con, c)
    BY <2>1, NoteIsLine, NoteGood DEF LogInv
  <2>3. con' = c /\ notes' = notes + 1 /\ UNCHANGED <<running, emitted>>
    BY <1>1 DEF NoteKey
  <2> HIDE DEF c
  <2> QED BY <2>2, <2>3 DEF LogInv, Kept, SamePlaces
<1>2. CASE Clear
  <2>1. /\ con.ses \in [Profiles -> BotSession] /\ con.pending \in Seq(Line) /\ con \in Console
        /\ <<>> \in Seq(Line)
    BY DEF LogInv, Good, Console
  <2> DEFINE c == With(con, con.ses, <<>>, con.pending)
  <2>2. Good(c) /\ SamePlaces(con, c)
    BY <2>1, WithGood DEF LogInv
  <2>3. con' = Say(c) /\ UNCHANGED <<running, emitted, notes>>
    BY <1>2, <2>1 DEF Clear, With, Console, App
  <2> HIDE DEF c
  <2>4. Good(Say(c)) /\ SamePlaces(c, Say(c))
    BY <2>2, SayGood
  <2> QED BY <2>2, <2>3, <2>4 DEF LogInv, Kept, SamePlaces
<1>3. CASE \E f \in Filters : SetFilter(f)
  <2>1. PICK f \in Filters : SetFilter(f)
    BY <1>3
  <2>2. con \in Console /\ Listed(con) /\ con.app \in App
    BY DEF LogInv, Good, Console
  <2> DEFINE app == [con.app EXCEPT !.filter = f]
  <2>3. app \in App
    BY <2>2 DEF App
  <2>4. con' = [con EXCEPT !.app = app] /\ UNCHANGED <<running, emitted, notes>>
    BY <2>1, <2>2 DEF SetFilter, Console
  <2> HIDE DEF app
  <2>5. Good(con') /\ con'.order = con.order /\ con'.selected = con.selected
    BY <2>2, <2>3, <2>4 DEF Good, Console, Listed
  <2> QED BY <2>4, <2>5 DEF LogInv, Kept
<1> QED BY <1>1, <1>2, <1>3

LEMMA BuiltinStep == \A free \in BOOLEAN : LogInv /\ Builtin(free) => LogInv' /\ Kept
<1> SUFFICES ASSUME NEW free \in BOOLEAN, LogInv, Builtin(free) PROVE LogInv' /\ Kept
  OBVIOUS
<1> DEFINE c == SyncFromSelected(con, free)
<1>1. Good(c) /\ c.order = con.order /\ c.selected = con.selected
  BY SyncGood DEF LogInv
<1>2. con' = Say(c) /\ UNCHANGED <<emitted, notes>> /\ running' \subseteq running \cup {Selected(con)}
  BY DEF Builtin
<1>3. Selected(con) \in Profiles
  BY DEF Builtin, LogInv, Good, Console, Listed, Selected
<1> HIDE DEF c
<1>4. Good(Say(c)) /\ SamePlaces(c, Say(c))
  BY <1>1, SayGood
<1> QED BY <1>1, <1>2, <1>3, <1>4 DEF LogInv, Kept, SamePlaces

(* A switch: the only step that changes the selection and not the list.     *)
LEMMA MoveStep ==
    ASSUME NEW free \in BOOLEAN, LogInv, SelectMove(1, free) \/ SelectMove(Len(con.order) - 1, free)
    PROVE  LogInv' /\ Kept
<1>1. /\ con \in Console /\ Listed(con) /\ con.order \in Seq(Profiles) /\ Len(con.order) > 1
      /\ con.selected \in 1..Len(con.order) /\ Len(con.order) \in Nat
  BY SMTT(30) DEF LogInv, Good, Console, Listed, SelectMove
<1>2. PICK d \in 0..Len(con.order) : SelectMove(d, free)
  <2>1. 1 \in 0..Len(con.order) /\ Len(con.order) - 1 \in 0..Len(con.order)
    BY <1>1
  <2> QED BY <2>1
<1> DEFINE to == ((con.selected - 1 + d) % Len(con.order)) + 1
           c == [con EXCEPT !.selected = to]
<1>3. to \in 1..Len(con.order)
  <2>1. con.selected - 1 + d \in Int /\ Len(con.order) \in Nat \ {0}
    BY <1>1
  <2> QED BY <2>1
<1>4. con' = SyncFromSelected(c, free) /\ UNCHANGED <<running, emitted, notes>>
  BY <1>1, <1>2 DEF SelectMove, Shows, Console
<1> HIDE DEF to
<1>5. /\ Good(c) /\ c.order = con.order /\ c.synced = con.synced /\ c.ses = con.ses /\ c.app = con.app
  BY <1>1, <1>3 DEF Good, Console, Listed
<1>6. Attached(c) = Attached(con) /\ \A p \in Attached(con) : LogOf(c, p) = LogOf(con, p)
  BY <1>5 DEF Attached, LogOf, Nth
<1> HIDE DEF c
<1>7. LET e == SyncFromSelected(c, free)
      IN  Good(e) /\ \A p \in Attached(c) : LogOf(e, p) = LogOf(c, p)
  BY <1>5, SyncGood
<1> QED BY <1>4, <1>6, <1>7 DEF LogInv, Kept

(* What a list with one more entry at the end looks like.                   *)
LEMMA AppendFacts ==
    ASSUME NEW T, NEW s \in Seq(T), NEW e \in T
    PROVE  LET more == Append(s, e)
           IN  /\ more \in Seq(T) /\ Len(more) = Len(s) + 1 /\ DOMAIN more = 1..Len(more)
               /\ more # <<>>
               /\ \A i \in 1..Len(more) : more[i] = IF i = Len(more) THEN e ELSE s[i]
<1> DEFINE more == Append(s, e)
<1>1. more \in Seq(T) /\ Len(more) = Len(s) + 1 /\ Len(s) \in Nat /\ Len(more) \in Nat
  BY AppendProperties
<1>2. \A i \in 1..Len(s) : more[i] = s[i]
  BY AppendProperties
<1>3. more[Len(s) + 1] = e
  BY AppendProperties
<1>4. DOMAIN more = 1..Len(more)
  BY <1>1
<1>5. more # <<>>
  BY AppendProperties
<1> HIDE DEF more
<1>6. \A i \in 1..Len(more) : more[i] = IF i = Len(more) THEN e ELSE s[i]
  BY <1>1, <1>2, <1>3
<1> QED BY <1>1, <1>4, <1>5, <1>6 DEF more

LEMMA AddStep == \A p \in Profiles : LogInv /\ AddProfile(p) => LogInv' /\ Kept
<1> SUFFICES ASSUME NEW p \in Profiles, LogInv, AddProfile(p) PROVE LogInv' /\ Kept
  OBVIOUS
<1>1. con \in Console /\ Listed(con) /\ con.order \in Seq(Profiles) /\ Len(con.order) \in Nat
      /\ con.ses \in [Profiles -> BotSession]
  BY DEF LogInv, Good, Console
<1> DEFINE more == Append(con.order, p)
           ses == [con.ses EXCEPT ![p] = NewSession]
           c == [con EXCEPT !.order = more, !.ses = ses]
<1>2. /\ more \in Seq(Profiles) /\ Len(more) = Len(con.order) + 1 /\ DOMAIN more = 1..Len(more)
      /\ more # <<>> /\ \A i \in 1..Len(more) : more[i] = IF i = Len(more) THEN p ELSE con.order[i]
  BY <1>1, AppendFacts
<1>3. \A i \in 1..Len(con.order) : con.order[i] # p
  BY <1>1 DEF AddProfile, Attached
<1>4. \A i, j \in 1..Len(more) : more[i] = more[j] => i = j
  <2>1. \A i, j \in 1..Len(con.order) : con.order[i] = con.order[j] => i = j
    BY <1>1 DEF Listed
  <2>2. \A i \in 1..Len(more) : i = Len(more) \/ i \in 1..Len(con.order)
    BY <1>1, <1>2
  <2> QED BY <1>2, <1>3, <2>1, <2>2
<1>5. ses \in [Profiles -> BotSession]
  BY <1>1, NewType
<1>6. con.selected \in 1..Len(more) /\ con.synced \in 0..Len(more)
  BY <1>1, <1>2, EmptySeq DEF Listed
<1>7. con' = Say(c) /\ UNCHANGED <<running, notes>> /\ emitted' \in [Profiles -> Nat]
  BY <1>1 DEF AddProfile, LogInv, Console
<1> HIDE DEF more, ses
<1>8. Good(c) /\ c.order = more /\ c.selected = con.selected
  BY ZenonT(40), <1>1, <1>2, <1>4, <1>5, <1>6 DEF Good, Console, Listed
<1> HIDE DEF c
<1>9. Good(Say(c)) /\ SamePlaces(c, Say(c))
  BY <1>8, SayGood
<1> QED BY <1>7, <1>8, <1>9 DEF LogInv, Kept, SamePlaces

LEMMA RemoveStep == \A i \in Nat, free \in BOOLEAN : LogInv /\ RemoveProfile(i, free) => LogInv' /\ Kept
<1> SUFFICES ASSUME NEW i \in Nat, NEW free \in BOOLEAN, LogInv, RemoveProfile(i, free)
             PROVE  LogInv' /\ Kept
  OBVIOUS
<1>1. i \in DOMAIN con.order /\ Len(con.order) \in Nat /\ con.order[i] \in Profiles
  BY DEF RemoveProfile, LogInv, Good, Console
<1> DEFINE c == Remove(con, i)
<1>2. Good(c) /\ Len(c.order) = Len(con.order) - 1
  BY <1>1, RemoveGood DEF LogInv
<1>3. con' = SyncFromSelected(c, free) /\ UNCHANGED <<running, notes>>
      /\ emitted' \in [Profiles -> Nat]
  BY <1>1 DEF RemoveProfile, LogInv
<1> HIDE DEF c
<1>4. LET e == SyncFromSelected(c, free) IN Good(e) /\ e.order = c.order
  BY <1>2, SyncGood
<1>5. con'.order # con.order
  BY <1>1, <1>2, <1>3, <1>4
<1> QED BY <1>3, <1>4, <1>5 DEF LogInv, Kept

LEMMA LogStep == LogInv /\ [Next]_vars => LogInv' /\ Kept
<1> SUFFICES ASSUME LogInv, [Next]_vars PROVE LogInv' /\ Kept
  OBVIOUS
<1>1. CASE \E p \in Profiles : Emit(p) \/ BotEnds(p) \/ AddProfile(p)
  BY <1>1, BotStep, AddStep
<1>2. CASE NoteKey \/ Clear \/ \E f \in Filters : SetFilter(f)
  BY <1>2, KeyStep
<1>3. ASSUME NEW free \in BOOLEAN, NEW again \in BOOLEAN,
             Frame(free, again) \/ \E p \in Profiles, r \in BOOLEAN : FrameNotes(p, r, free, again)
      PROVE  LogInv' /\ Kept
  BY <1>3, FrameStep
<1>4. ASSUME NEW free \in BOOLEAN,
             SelectMove(1, free) \/ SelectMove(Len(con.order) - 1, free)
      PROVE  LogInv' /\ Kept
  BY <1>4, MoveStep
<1>5. ASSUME NEW free \in BOOLEAN,
             Builtin(free) \/ \E i \in 1..Cardinality(Profiles) : RemoveProfile(i, free)
      PROVE  LogInv' /\ Kept
  <2>1. \A i \in 1..Cardinality(Profiles) : RemoveProfile(i, free) => i \in Nat
    BY DEF RemoveProfile, LogInv, Good, Console
  <2> QED BY <1>5, <2>1, BuiltinStep, RemoveStep
<1>6. CASE UNCHANGED vars
  BY <1>6 DEF vars, LogInv, Kept
<1> QED BY <1>1, <1>2, <1>3, <1>4, <1>5, <1>6 DEF Next

(* Switching accounts changes no account's log, however many there are and  *)
(* whatever was switched, noted, added and removed before (app.rs,          *)
(* sync_from_selected).                                                     *)
THEOREM SwitchIsHarmless == Spec => SwitchKeepsLogs
<1>1. LogInv /\ LogInv' /\ [Next]_vars
        => [con'.order = con.order /\ con'.selected # con.selected
               => \A p \in Attached(con) : LogOf(con', p) = LogOf(con, p)]_vars
  BY LogStep DEF Kept
<1>2. LogInv /\ [Next]_vars => LogInv'
  BY LogStep
<1> QED BY <1>1, <1>2, LogInit, PTL DEF Spec, SwitchKeepsLogs
-----------------------------------------------------------------------------
(* What every account's log holds, and what the operators of the console    *)
(* leave of it.                                                             *)

(* No buffer over its bound.                                                *)
Fitting(c) ==
    /\ Len(c.app.log) <= LogCap
    /\ \A p \in Profiles : Len(c.ses[p].log) <= LogCap /\ Len(c.ses[p].queue) <= QueueCap

(* Between two keys the account on the screen is the selected one, or none  *)
(* is on it yet, and then none has said a word.                             *)
OnScreen(c) == c.app.owner = Selected(c) /\ c.app.snap \in {Selected(c), Nobody}
Placed(c) ==
    /\ c.synced = 0 => c.selected = 1 /\ \A p \in Attached(c) : c.ses[p].queue = <<>>
    /\ c.synced # 0 => c.synced = c.selected /\ OnScreen(c)

(* The page an account's log is on, whether it is on the screen or not.     *)
Page(c, p) == IF p \in Nth(c, c.synced) THEN c.app.filter ELSE c.ses[p].filter

(* Every account's log with its queue, its page, and the pending notes.     *)
TidyLogs(c, em) ==
    \A p \in Attached(c) : Fine(p, LogOf(c, p) \o c.ses[p].queue, em[p], c.ses[p].lost)
TidyPages(c, ch) == \A p \in Attached(c) : Page(c, p) = ch[p]
TidyNotes(c) == c.pending # <<>> => c.order # <<>> /\ Notes(Selected(c), c.pending)
Tidy(c, em, ch) == TidyLogs(c, em) /\ TidyPages(c, ch) /\ TidyNotes(c)

(* What moving logs and pages leaves alone.                                 *)
Untouched(c, d) ==
    /\ d.pending = c.pending
    /\ \A p \in Profiles : d.ses[p].queue = c.ses[p].queue /\ d.ses[p].lost = c.ses[p].lost

LEMMA SwapLeaves ==
    ASSUME NEW c, Good(c), NEW i \in Nat, Fitting(c)
    PROVE  LET d == Swap(c, i)
           IN  /\ Untouched(c, d) /\ Fitting(d)
               /\ d.app.filter = c.app.filter /\ d.app.owner = c.app.owner /\ d.app.snap = c.app.snap
<1> DEFINE ses == [p \in Profiles |->
                      IF p \in Nth(c, i) THEN [c.ses[p] EXCEPT !.log = c.app.log] ELSE c.ses[p]]
           log == IF i \in DOMAIN c.order THEN c.ses[c.order[i]].log ELSE c.app.log
           d == Swap(c, i)
<1>1. /\ c.ses \in [Profiles -> BotSession] /\ c.order \in Seq(Profiles) /\ c \in Console /\ c.app \in App
  BY DEF Good, Console
<1>2. \A p \in Profiles :
         /\ ses[p].queue = c.ses[p].queue /\ ses[p].lost = c.ses[p].lost
         /\ ses[p].log \in {c.ses[p].log, c.app.log}
  BY <1>1 DEF BotSession
<1>3. log = c.app.log \/ \E p \in Profiles : log = c.ses[p].log
  BY <1>1
<1>4. d = [c EXCEPT !.ses = ses, !.app.log = log]
  BY DEF Swap
<1> HIDE DEF ses, log, d
<1>5. /\ d.ses = ses /\ d.pending = c.pending /\ d.app = [c.app EXCEPT !.log = log]
  BY <1>1, <1>4 DEF Console
<1>6. /\ d.app.log = log /\ d.app.filter = c.app.filter /\ d.app.owner = c.app.owner
      /\ d.app.snap = c.app.snap
  BY <1>1, <1>5 DEF App
<1> QED BY <1>2, <1>3, <1>5, <1>6 DEF Untouched, Fitting, d

LEMMA WriteBackLeaves ==
    ASSUME NEW c, Good(c), Fitting(c)
    PROVE  LET d == WriteBack(c)
           IN  /\ Untouched(c, d) /\ Fitting(d) /\ d.app = c.app
               /\ \A p \in Profiles : d.ses[p].filter = Page(c, p)
<1> DEFINE ses == [p \in Profiles |->
                      IF p \in Nth(c, c.synced) THEN [c.ses[p] EXCEPT !.filter = c.app.filter]
                      ELSE c.ses[p]]
           d == WriteBack(c)
<1>1. c.ses \in [Profiles -> BotSession] /\ c \in Console
  BY DEF Good, Console
<1>2. \A p \in Profiles :
         /\ ses[p].queue = c.ses[p].queue /\ ses[p].lost = c.ses[p].lost /\ ses[p].log = c.ses[p].log
         /\ ses[p].filter = Page(c, p)
  BY <1>1 DEF BotSession, Page
<1>3. d = [c EXCEPT !.ses = ses]
  BY DEF WriteBack
<1> HIDE DEF ses, d
<1>4. d.ses = ses /\ d.pending = c.pending /\ d.app = c.app
  BY <1>1, <1>3 DEF Console
<1> QED BY <1>2, <1>4 DEF Untouched, Fitting, d

LEMMA RotateLeaves ==
    ASSUME NEW c, Good(c), Fitting(c)
    PROVE  LET d == Rotate(c)
           IN  /\ Untouched(c, d) /\ Fitting(d)
               /\ d.app.filter = c.app.filter /\ d.app.owner = c.app.owner /\ d.app.snap = c.app.snap
               /\ \A p \in Profiles : d.ses[p].filter = c.ses[p].filter
<1>1. c.synced \in Nat /\ c.selected \in Nat
  BY DEF Good, Console
<1>2. CASE c.synced = c.selected
  BY <1>2 DEF Rotate, Untouched
<1>3. CASE c.synced # c.selected
  <2> DEFINE d == Swap(c, c.synced)
             e == Swap(d, c.selected)
  <2>1. /\ Good(d) /\ Untouched(c, d) /\ Fitting(d)
        /\ d.app.filter = c.app.filter /\ d.app.owner = c.app.owner /\ d.app.snap = c.app.snap
        /\ \A p \in Profiles : d.ses[p].filter = c.ses[p].filter
    BY <1>1, SwapGood, SwapLeaves
  <2>2. Rotate(c) = e
    BY <1>3 DEF Rotate
  <2> HIDE DEF d
  <2>3. /\ Untouched(d, e) /\ Fitting(e)
        /\ e.app.filter = d.app.filter /\ e.app.owner = d.app.owner /\ e.app.snap = d.app.snap
        /\ \A p \in Profiles : e.ses[p].filter = d.ses[p].filter
    BY <1>1, <2>1, SwapGood, SwapLeaves
  <2> HIDE DEF e
  <2> QED BY <2>1, <2>2, <2>3 DEF Untouched
<1> QED BY <1>2, <1>3

(* sync_from_selected puts the selected account on the screen, with its log *)
(* and its page, and changes no account's log, page or queue.               *)
LEMMA SyncPlaces ==
    ASSUME NEW c, Good(c), Fitting(c), NEW free \in BOOLEAN,
           c.synced = c.selected => c.app.snap \in {Selected(c), Nobody}
    PROVE  LET d == SyncFromSelected(c, free)
           IN  /\ Fitting(d) /\ Placed(d) /\ Untouched(c, d)
               /\ c.order # <<>> => d.synced = d.selected /\ d.synced # 0
               /\ \A p \in Attached(c) : Page(d, p) = Page(c, p)
<1> DEFINE b == WriteBack(c)
           r == Rotate(b)
           d == SyncFromSelected(c, free)
<1>1. /\ Good(b) /\ SamePlaces(c, b) /\ Untouched(c, b) /\ Fitting(b) /\ b.app = c.app
      /\ \A p \in Profiles : b.ses[p].filter = Page(c, p)
  BY WriteBackGood, WriteBackLeaves
<1>2. d = IF c.order = <<>> THEN r ELSE View(r, free)
  BY DEF SyncFromSelected
<1>3. Good(d) /\ d.order = c.order /\ d.selected = c.selected
  BY SyncGood
<1> HIDE DEF b
<1>4. /\ Untouched(b, r) /\ Fitting(r)
      /\ r.app.snap = b.app.snap /\ \A p \in Profiles : r.ses[p].filter = b.ses[p].filter
  BY <1>1, RotateLeaves
<1>5. CASE c.order = <<>>
  <2>1. d = r
    BY <1>2, <1>5
  <2> HIDE DEF r, d
  <2>2. d.selected = 1 /\ d.synced = 0
    <3>1. Len(d.order) = 0
      BY <1>3, <1>5
    <3>2. d.synced \in 0..0 /\ d.selected = 1
      BY <1>3, <1>5, <3>1 DEF Good, Listed
    <3> QED BY <3>2
  <2>3. Attached(c) = {} /\ Attached(d) = {}
    BY <1>3, <1>5 DEF Attached
  <2>4. Untouched(c, d) /\ Fitting(d)
    BY <1>1, <1>4, <2>1 DEF Untouched
  <2>5. Placed(d)
    BY <2>2, <2>3 DEF Placed
  <2> QED BY <1>5, <2>3, <2>4, <2>5 DEF d
<1>6. CASE c.order # <<>>
  <2> DEFINE p0 == Selected(c)
  <2>1. b.order # <<>> /\ Selected(b) = p0 /\ b.selected = c.selected /\ b.synced = c.synced
    BY <1>1, <1>6 DEF SamePlaces, Selected
  <2>2. Good(r) /\ SamePlaces(b, r)
    BY <1>1, <2>1, RotateGood
  <2> HIDE DEF r
  <2>3. Selected(r) = p0 /\ r.synced = c.synced /\ r.selected = c.selected /\ r.order # <<>>
    BY <2>1, <2>2 DEF SamePlaces, Selected
  <2>4. d = View(r, free)
    BY <1>2, <1>6
  <2>5. LET v == View(r, free)
        IN  /\ v.synced = r.selected /\ v.ses = r.ses /\ v.pending = r.pending
            /\ v.app.log = r.app.log
            /\ v.app.owner = Selected(r) /\ v.app.filter = r.ses[Selected(r)].filter
            /\ r.synced = r.selected => v.app.snap = r.app.snap
            /\ r.synced # r.selected => v.app.snap \in {Selected(r), Nobody}
    BY <2>2, <2>3, ViewGood
  <2> HIDE DEF d
  <2>6. /\ d.synced = c.selected /\ d.ses = r.ses /\ d.pending = r.pending
        /\ d.app.log = r.app.log /\ d.app.owner = p0 /\ d.app.filter = r.ses[p0].filter
    BY <2>3, <2>4, <2>5
  <2>7. d.app.snap \in {p0, Nobody}
    BY <1>1, <1>4, <2>3, <2>4, <2>5
  <2>9. c.selected \in DOMAIN c.order /\ c.selected # 0
    BY <1>6 DEF Good, Listed, Console
  <2>10. Selected(d) = p0
    BY <1>3 DEF Selected
  <2>11. Untouched(c, d) /\ Fitting(d)
    BY <1>1, <1>4, <2>6 DEF Untouched, Fitting
  <2>12. Placed(d)
    BY <1>3, <2>6, <2>7, <2>9, <2>10 DEF Placed, OnScreen
  <2>13. \A p : p \in Nth(d, d.synced) <=> p = p0
    BY <1>3, <2>6, <2>9 DEF Nth, Selected
  <2>14. \A p \in Attached(c) : Page(d, p) = Page(c, p)
    <3> SUFFICES ASSUME NEW p \in Attached(c) PROVE Page(d, p) = Page(c, p)
      OBVIOUS
    <3>1. p \in Profiles
      BY DEF Attached, Good, Console
    <3>2. Page(d, p) = IF p = p0 THEN d.app.filter ELSE d.ses[p].filter
      BY <2>13 DEF Page
    <3>3. r.ses[p].filter = Page(c, p)
      BY <1>1, <1>4, <3>1
    <3> HIDE DEF p0
    <3> QED BY <2>6, <3>2, <3>3
  <2> QED BY <1>3, <2>6, <2>9, <2>11, <2>12, <2>14 DEF d
<1> QED BY <1>5, <1>6 DEF d

(* What is tidy stays so when logs and pages are moved about.               *)
LEMMA SyncTidy ==
    ASSUME NEW c, Good(c), Fitting(c), NEW free \in BOOLEAN, NEW em, NEW ch, Tidy(c, em, ch),
           c.synced = c.selected => c.app.snap \in {Selected(c), Nobody}
    PROVE  Tidy(SyncFromSelected(c, free), em, ch)
<1> DEFINE d == SyncFromSelected(c, free)
<1>1. /\ d.order = c.order /\ d.selected = c.selected
      /\ \A p \in Attached(c) : LogOf(d, p) = LogOf(c, p)
  BY SyncGood
<1>2. Untouched(c, d) /\ \A p \in Attached(c) : Page(d, p) = Page(c, p)
  BY SyncPlaces
<1> HIDE DEF d
<1>3. Attached(d) = Attached(c) /\ Attached(c) \subseteq Profiles /\ Selected(d) = Selected(c)
  BY <1>1 DEF Attached, Selected, Good, Console
<1>4. TidyLogs(d, em)
  BY <1>1, <1>2, <1>3 DEF Tidy, TidyLogs, Untouched
<1>5. TidyPages(d, ch) /\ TidyNotes(d)
  BY <1>1, <1>2, <1>3 DEF Tidy, TidyPages, TidyNotes, Untouched
<1> QED BY <1>4, <1>5 DEF Tidy, d

(* Who is on the screen. *)
LEMMA WhoIsOn ==
    ASSUME NEW c, Good(c)
    PROVE  /\ Attached(c) \subseteq Profiles
           /\ c.synced = 0 => \A p : p \notin Nth(c, c.synced)
           /\ c.synced # 0 /\ c.synced = c.selected =>
                 /\ Selected(c) \in Attached(c)
                 /\ \A p : p \in Nth(c, c.synced) <=> p = Selected(c)
           /\ c.order # <<>> => Selected(c) \in Attached(c)
           /\ \A p : p \in Nth(c, c.synced) => p \in Attached(c)
           /\ c.order = <<>> => Attached(c) = {}
BY DEF Good, Console, Listed, Attached, Nth, Selected

(* What a step leaves alone when it only writes lines: the list, the pages, *)
(* and whose queue and state the App has cloned.                            *)
OnlyLines(c, d) ==
    /\ Good(d) /\ SamePlaces(c, d)
    /\ d.app.filter = c.app.filter /\ d.app.owner = c.app.owner /\ d.app.snap = c.app.snap
    /\ \A p \in Profiles : d.ses[p].filter = c.ses[p].filter

LEMMA OnlyLinesKeeps ==
    ASSUME NEW c, Good(c), NEW d, OnlyLines(c, d)
    PROVE  /\ Selected(d) = Selected(c) /\ Attached(d) = Attached(c)
           /\ Nth(d, d.synced) = Nth(c, c.synced)
           /\ OnScreen(d) <=> OnScreen(c)
           /\ \A p \in Profiles : Page(d, p) = Page(c, p)
           /\ \A ch : TidyPages(c, ch) <=> TidyPages(d, ch)
<1>1. /\ Selected(d) = Selected(c) /\ Attached(d) = Attached(c) /\ Attached(c) \subseteq Profiles
      /\ Nth(d, d.synced) = Nth(c, c.synced)
  BY WhoIsOn DEF OnlyLines, SamePlaces, Selected, Attached, Nth
<1>2. OnScreen(d) <=> OnScreen(c)
  BY <1>1 DEF OnlyLines, OnScreen
<1>3. \A p \in Profiles : Page(d, p) = Page(c, p)
  BY <1>1 DEF OnlyLines, Page
<1> QED BY <1>1, <1>2, <1>3 DEF TidyPages

(* What was in the queues is in the logs: nothing is lost on the way, and   *)
(* the selected session's lines come behind the notes about it.             *)
LEMMA DrainKeeps ==
    ASSUME NEW c, Good(c), Fitting(c), Placed(c)
    PROVE  LET d == DrainAll(c)
           IN  /\ OnlyLines(c, d) /\ Fitting(d) /\ Placed(d) /\ d.pending = <<>>
               /\ \A em \in [Profiles -> Nat], ch \in [Profiles -> Filters] : Tidy(c, em, ch) => Tidy(d, em, ch)
<1> DEFINE New(p) == IF p = Selected(c) THEN c.ses[p].log ELSE Push(c.ses[p].log, c.ses[p].queue)
           more == c.pending \o (IF c.order = <<>> THEN <<>> ELSE c.ses[Selected(c)].queue)
           d == DrainAll(c)
<1>1. /\ c \in Console /\ c.app \in App /\ c.app.log \in Seq(Line) /\ c.pending \in Seq(Line)
      /\ Attached(c) \subseteq Profiles /\ c.synced \in Nat
      /\ \A p \in Profiles : /\ c.ses[p] \in BotSession /\ c.ses[p].log \in Seq(Line)
                             /\ c.ses[p].queue \in Seq(Line) /\ c.ses[p].lost \in Nat
  BY WhoIsOn DEF Good, Console, App, BotSession
<1>2. Good(d) /\ SamePlaces(c, d)
  BY DrainGood
<1>3. \A p \in Attached(c) : /\ d.ses[p].log = New(p) /\ d.ses[p].queue = <<>>
                             /\ d.ses[p].lost = c.ses[p].lost /\ d.ses[p].filter = c.ses[p].filter
  <2> SUFFICES ASSUME NEW p \in Attached(c)
               PROVE  /\ d.ses[p].log = New(p) /\ d.ses[p].queue = <<>>
                      /\ d.ses[p].lost = c.ses[p].lost /\ d.ses[p].filter = c.ses[p].filter
    OBVIOUS
  <2>1. p \in Profiles /\ c.ses[p] \in BotSession
    BY <1>1
  <2>2. d.ses[p] = [c.ses[p] EXCEPT !.log = New(p), !.queue = <<>>, !.dropped = c.ses[p].lost]
    BY <1>1, <2>1 DEF DrainAll, Console, BotSession
  <2> HIDE DEF New, d
  <2> QED BY <2>1, <2>2 DEF BotSession
<1>4. \A p \in Profiles \ Attached(c) : d.ses[p] = c.ses[p]
  BY <1>1 DEF DrainAll, Console
<1>5. /\ d.app.log = Push(c.app.log, more) /\ d.app.filter = c.app.filter
      /\ d.app.owner = c.app.owner /\ d.app.snap = c.app.snap /\ d.pending = <<>>
  BY <1>1 DEF DrainAll, Console, App
<1> HIDE DEF d
<1>6. OnlyLines(c, d)
  BY <1>2, <1>3, <1>4, <1>5 DEF OnlyLines
<1>7. more \in Seq(Line)
  <2>1. c.order # <<>> => c.ses[Selected(c)].queue \in Seq(Line)
    BY <1>1, WhoIsOn
  <2>2. <<>> \in Seq(Line)
    OBVIOUS
  <2> QED BY <1>1, <2>1, <2>2
<1>8. Fitting(d)
  <2> HIDE DEF more
  <2>1. Len(d.app.log) <= LogCap
    BY <1>1, <1>5, <1>7, PushIsCut
  <2>2. ASSUME NEW p \in Profiles PROVE Len(d.ses[p].log) <= LogCap /\ Len(d.ses[p].queue) <= QueueCap
    <3>1. CASE p \notin Attached(c)
      BY <1>4, <3>1 DEF Fitting
    <3>2. CASE p \in Attached(c)
      <4>1. Len(<<>>) <= QueueCap
        BY LogAssumption
      <4>2. Len(Push(c.ses[p].log, c.ses[p].queue)) <= LogCap
        BY <1>1, PushIsCut
      <4> QED BY <1>3, <3>2, <4>1, <4>2 DEF Fitting
    <3> QED BY <3>1, <3>2
  <2> QED BY <2>1, <2>2 DEF Fitting
<1>9. Placed(d)
  <2>1. d.synced = c.synced /\ d.selected = c.selected /\ Attached(d) = Attached(c)
    BY <1>2, <1>6, OnlyLinesKeeps DEF SamePlaces
  <2>2. OnScreen(d) <=> OnScreen(c)
    BY <1>6, OnlyLinesKeeps
  <2> QED BY <1>3, <2>1, <2>2 DEF Placed
<1>10. ASSUME NEW em \in [Profiles -> Nat], NEW ch \in [Profiles -> Filters], Tidy(c, em, ch) PROVE Tidy(d, em, ch)
  <2>1. ASSUME NEW p \in Attached(c) PROVE Fine(p, LogOf(d, p) \o d.ses[p].queue, em[p], d.ses[p].lost)
    <3> DEFINE log == LogOf(c, p)
               q == c.ses[p].queue
               e == em[p]
               l == c.ses[p].lost
    <3>1. /\ log \in Seq(Line) /\ q \in Seq(Line) /\ e \in Nat /\ l \in Nat /\ p \in Profiles
          /\ Fine(p, log \o q, e, l) /\ <<>> \in Seq(Line)
      BY <1>1, <1>10 DEF Tidy, TidyLogs, LogOf
    <3>2. p \in Nth(d, d.synced) <=> p \in Nth(c, c.synced)
      BY <1>6, OnlyLinesKeeps
    <3>3. LogOf(d, p) = IF p \in Nth(c, c.synced) THEN Push(c.app.log, more) ELSE New(p)
      BY <1>3, <1>5, <3>2 DEF LogOf
    <3>4. d.ses[p].queue = <<>> /\ d.ses[p].lost = l
      BY <1>3
    <3>5. CASE p \in Nth(c, c.synced)
      <4>1. p = Selected(c) /\ c.order # <<>>
        BY <1>1, <3>5, WhoIsOn DEF Placed
      <4>2. more = c.pending \o q /\ log = c.app.log
        BY <3>5, <4>1 DEF LogOf
      <4>3. Notes(p, c.pending)
        BY <1>10, <4>1 DEF Tidy, TidyNotes, Notes
      <4>4. Fine(p, log \o (c.pending \o q), e, l)
        <5> HIDE DEF log, q, e, l
        <5> QED BY <1>1, <3>1, <4>3, FineInsert
      <4>5. more = more \o <<>>
        BY <1>7
      <4> HIDE DEF more, log, q, e, l
      <4>6. Fine(p, Push(log, more) \o <<>>, e, l)
        BY <1>7, <3>1, <4>2, <4>4, <4>5, FinePush
      <4> QED BY <3>3, <3>4, <3>5, <4>2, <4>6 DEF e
    <3>6. CASE p \notin Nth(c, c.synced) /\ p = Selected(c)
      <4>1. c.synced = 0
        BY <1>1, <3>6, WhoIsOn DEF Placed
      <4>2. q = <<>> /\ log = c.ses[p].log
        BY <3>6, <4>1 DEF Placed, LogOf
      <4> HIDE DEF log, q, e, l
      <4> QED BY <3>1, <3>3, <3>4, <3>6, <4>2 DEF e
    <3>7. CASE p \notin Nth(c, c.synced) /\ p # Selected(c)
      <4>1. log = c.ses[p].log /\ LogOf(d, p) = Push(log, q)
        BY <3>3, <3>7 DEF LogOf
      <4> HIDE DEF log, q, e, l
      <4>2. q = q \o <<>>
        BY <3>1
      <4>3. Fine(p, Push(log, q) \o <<>>, e, l)
        BY <3>1, <4>2, FinePush
      <4> QED BY <3>4, <4>1, <4>3 DEF e
    <3> QED BY <3>5, <3>6, <3>7
  <2>2. TidyLogs(d, em)
    BY <1>6, <2>1, OnlyLinesKeeps DEF TidyLogs
  <2>3. TidyPages(d, ch)
    BY <1>6, <1>10, OnlyLinesKeeps DEF Tidy
  <2>4. TidyNotes(d)
    BY <1>5 DEF TidyNotes
  <2> QED BY <2>2, <2>3, <2>4 DEF Tidy
<1> QED BY <1>5, <1>6, <1>8, <1>9, <1>10 DEF d

(* A note about an account, on the screen's list of pending notes or in the *)
(* account's own log.                                                       *)
LEMMA NoteKeeps ==
    ASSUME NEW c, Good(c), Fitting(c), Placed(c), c.order # <<>>, NEW p \in Attached(c),
           NEW line \in Line, line.of = p, line.kind = "note"
    PROVE  LET d == NoteAt(c, p, line)
           IN  /\ OnlyLines(c, d) /\ Fitting(d) /\ Placed(d)
               /\ \A em \in [Profiles -> Nat], ch \in [Profiles -> Filters] :
                     Tidy(c, em, ch) => Tidy(d, em, ch)
<1> DEFINE d == NoteAt(c, p, line)
           note == <<line>>
<1>1. /\ c \in Console /\ c.app \in App /\ c.app.log \in Seq(Line) /\ c.pending \in Seq(Line)
      /\ Attached(c) \subseteq Profiles /\ p \in Profiles /\ c.ses \in [Profiles -> BotSession]
      /\ \A q \in Profiles : /\ c.ses[q] \in BotSession /\ c.ses[q].log \in Seq(Line)
                             /\ c.ses[q].queue \in Seq(Line) /\ c.ses[q].lost \in Nat
  BY WhoIsOn DEF Good, Console, App, BotSession
<1>2. Good(d) /\ SamePlaces(c, d)
  BY <1>1, NoteGood
<1>3. note \in Seq(Line) /\ Notes(p, note)
  BY DEF Notes
<1> HIDE DEF note
<1>4. \A q \in Profiles : /\ d.ses[q].queue = c.ses[q].queue /\ d.ses[q].lost = c.ses[q].lost
                          /\ d.ses[q].filter = c.ses[q].filter
  BY <1>1 DEF NoteAt, Console, BotSession
<1>5. d.app = c.app
  BY <1>1 DEF NoteAt, Console
<1>6. \A q \in Profiles : d.ses[q].log = IF q = p /\ p # Selected(c) THEN Push(c.ses[p].log, note)
                                         ELSE c.ses[q].log
  BY <1>1 DEF NoteAt, Console, BotSession, note
<1>7. d.pending = IF p = Selected(c) THEN c.pending \o note ELSE c.pending
  <2>1. c.pending \o note = Append(c.pending, line)
    BY <1>1, AppendIsConcat DEF note
  <2> HIDE DEF note
  <2> QED BY <1>1, <2>1 DEF NoteAt, Console
<1> HIDE DEF d
<1>8. OnlyLines(c, d)
  BY <1>2, <1>4, <1>5 DEF OnlyLines
<1>9. Fitting(d)
  <2>1. Len(Push(c.ses[p].log, note)) <= LogCap
    BY <1>1, <1>3, PushIsCut
  <2> QED BY <1>4, <1>5, <1>6, <2>1 DEF Fitting
<1>10. Placed(d)
  <2>1. /\ d.synced = c.synced /\ d.selected = c.selected /\ Attached(d) = Attached(c)
        /\ OnScreen(d) <=> OnScreen(c)
    BY <1>2, <1>8, OnlyLinesKeeps DEF SamePlaces
  <2> QED BY <1>1, <1>4, <2>1 DEF Placed
<1>11. ASSUME NEW em \in [Profiles -> Nat], NEW ch \in [Profiles -> Filters], Tidy(c, em, ch)
       PROVE  Tidy(d, em, ch)
  <2>1. ASSUME NEW r \in Attached(c)
        PROVE  Fine(r, LogOf(d, r) \o d.ses[r].queue, em[r], d.ses[r].lost)
    <3> DEFINE log == LogOf(c, r)
               q == c.ses[r].queue
               e == em[r]
               l == c.ses[r].lost
    <3>1. /\ log \in Seq(Line) /\ q \in Seq(Line) /\ e \in Nat /\ l \in Nat /\ r \in Profiles
          /\ Fine(r, log \o q, e, l)
      BY <1>1, <1>11 DEF Tidy, TidyLogs, LogOf
    <3>2. r \in Nth(d, d.synced) <=> r \in Nth(c, c.synced)
      BY <1>8, OnlyLinesKeeps
    <3>3. d.ses[r].queue = q /\ d.ses[r].lost = l
      BY <1>4, <3>1
    <3>4. CASE r = p /\ p # Selected(c)
      <4>1. r \notin Nth(c, c.synced)
        BY <3>4, WhoIsOn DEF Placed
      <4>2. LogOf(d, r) = Push(log, note)
        BY <1>6, <3>1, <3>2, <3>4, <4>1 DEF LogOf
      <4> HIDE DEF log, q, e, l
      <4>3. Fine(r, log \o (note \o q), e, l)
        BY <1>3, <3>1, <3>4, FineInsert
      <4>4. Fine(r, Push(log, note) \o q, e, l)
        BY <1>3, <3>1, <4>3, FinePush
      <4> QED BY <3>3, <4>2, <4>4 DEF e
    <3>5. CASE ~(r = p /\ p # Selected(c))
      <4>1. LogOf(d, r) = log
        BY <1>5, <1>6, <3>1, <3>2, <3>5 DEF LogOf
      <4> HIDE DEF log, q, e, l
      <4> QED BY <3>1, <3>3, <4>1 DEF e
    <3> QED BY <3>4, <3>5
  <2>2. TidyLogs(d, em)
    BY <1>8, <2>1, OnlyLinesKeeps DEF TidyLogs
  <2>3. TidyPages(d, ch)
    BY <1>8, <1>11, OnlyLinesKeeps DEF Tidy
  <2>4. TidyNotes(d)
    <3>1. d.order = c.order /\ Selected(d) = Selected(c)
      BY <1>2, <1>8, OnlyLinesKeeps DEF SamePlaces
    <3>2. CASE p = Selected(c)
      <4>1. Notes(p, c.pending)
        BY <1>11, <3>2 DEF Tidy, TidyNotes, Notes
      <4>2. Notes(p, c.pending \o note)
        <5>1. c.pending \o note = Append(c.pending, line) /\ DOMAIN note = {1} /\ note[1] = line
          BY <1>1, AppendIsConcat DEF note
        <5>2. ASSUME NEW i \in DOMAIN (c.pending \o note)
              PROVE  (c.pending \o note)[i] = line \/ \E j \in DOMAIN c.pending : (c.pending \o note)[i] = c.pending[j]
          BY <1>1, <5>1
        <5> QED BY <1>3, <4>1, <5>1, <5>2 DEF Notes
      <4> QED BY <1>7, <3>1, <3>2, <4>2 DEF TidyNotes
    <3>3. CASE p # Selected(c)
      BY <1>7, <1>11, <3>1, <3>3 DEF Tidy, TidyNotes
    <3> QED BY <3>2, <3>3
  <2> QED BY <2>2, <2>3, <2>4 DEF Tidy
<1> QED BY <1>8, <1>9, <1>10, <1>11 DEF d

(* Only the log on the screen is written: what is fine with the old one is  *)
(* fine with the new.                                                       *)
LEMMA ScreenKeeps ==
    ASSUME NEW c, Good(c), Fitting(c), NEW log \in Seq(Line), Len(log) <= LogCap,
           \A p \in Nth(c, c.synced), e \in Nat, l \in Nat :
              Fine(p, c.app.log \o c.ses[p].queue, e, l) => Fine(p, log \o c.ses[p].queue, e, l)
    PROVE  LET d == [c EXCEPT !.app.log = log]
           IN  /\ OnlyLines(c, d) /\ Fitting(d) /\ Untouched(c, d) /\ (Placed(c) => Placed(d))
               /\ d.app.log = log
               /\ \A em \in [Profiles -> Nat], ch \in [Profiles -> Filters] :
                     Tidy(c, em, ch) => Tidy(d, em, ch)
<1> DEFINE d == [c EXCEPT !.app.log = log]
<1>1. /\ c \in Console /\ c.app \in App /\ c.ses \in [Profiles -> BotSession] /\ c.pending \in Seq(Line)
      /\ Attached(c) \subseteq Profiles
      /\ \A p \in Profiles : c.ses[p].lost \in Nat
  BY WhoIsOn DEF Good, Console, BotSession
<1>2. /\ d.ses = c.ses /\ d.pending = c.pending /\ d.app.log = log /\ d.app.filter = c.app.filter
      /\ d.app.owner = c.app.owner /\ d.app.snap = c.app.snap
  BY <1>1 DEF Console, App
<1>3. d = With(c, c.ses, log, c.pending)
  BY <1>1 DEF Console, App, With
<1> HIDE DEF d
<1>4. Good(d) /\ SamePlaces(c, d)
  BY <1>1, <1>3, WithGood
<1>5. OnlyLines(c, d)
  BY <1>2, <1>4 DEF OnlyLines
<1>6. Fitting(d) /\ Untouched(c, d)
  BY <1>2 DEF Fitting, Untouched
<1>7. Placed(c) => Placed(d)
  <2>1. /\ d.synced = c.synced /\ d.selected = c.selected /\ Attached(d) = Attached(c)
        /\ OnScreen(d) <=> OnScreen(c)
    BY <1>4, <1>5, OnlyLinesKeeps DEF SamePlaces
  <2> QED BY <1>2, <2>1 DEF Placed
<1>8. ASSUME NEW em \in [Profiles -> Nat], NEW ch \in [Profiles -> Filters], Tidy(c, em, ch)
      PROVE  Tidy(d, em, ch)
  <2>1. ASSUME NEW p \in Attached(c)
        PROVE  Fine(p, LogOf(d, p) \o d.ses[p].queue, em[p], d.ses[p].lost)
    <3>1. /\ em[p] \in Nat /\ c.ses[p].lost \in Nat
          /\ Fine(p, LogOf(c, p) \o c.ses[p].queue, em[p], c.ses[p].lost)
          /\ p \in Nth(d, d.synced) <=> p \in Nth(c, c.synced)
      BY <1>1, <1>5, <1>8, OnlyLinesKeeps DEF Tidy, TidyLogs
    <3>2. CASE p \in Nth(c, c.synced)
      BY <1>2, <3>1, <3>2 DEF LogOf
    <3>3. CASE p \notin Nth(c, c.synced)
      BY <1>2, <3>1, <3>3 DEF LogOf
    <3> QED BY <3>2, <3>3
  <2>2. TidyLogs(d, em)
    BY <1>5, <2>1, OnlyLinesKeeps DEF TidyLogs
  <2>3. TidyPages(d, ch)
    BY <1>5, <1>8, OnlyLinesKeeps DEF Tidy
  <2>4. TidyNotes(d)
    <3>1. d.order = c.order /\ Selected(d) = Selected(c)
      BY <1>4, <1>5, OnlyLinesKeeps DEF SamePlaces
    <3> QED BY <1>2, <1>8, <3>1 DEF Tidy, TidyNotes
  <2> QED BY <2>2, <2>3, <2>4 DEF Tidy
<1> QED BY <1>2, <1>5, <1>6, <1>7, <1>8 DEF d

(* A line in answer to a key. *)
LEMMA SayKeeps ==
    ASSUME NEW c, Good(c), Fitting(c)
    PROVE  LET d == Say(c)
           IN  /\ OnlyLines(c, d) /\ Fitting(d) /\ Untouched(c, d) /\ (Placed(c) => Placed(d))
               /\ \A em \in [Profiles -> Nat], ch \in [Profiles -> Filters] :
                     Tidy(c, em, ch) => Tidy(d, em, ch)
<1> DEFINE line == [of |-> Nobody, kind |-> "note", n |-> 0]
           note == <<line>>
           log == Push(c.app.log, note)
<1>1. /\ c.app.log \in Seq(Line) /\ Attached(c) \subseteq Profiles
      /\ \A p \in Profiles : c.ses[p].queue \in Seq(Line)
  BY WhoIsOn DEF Good, Console, App, BotSession
<1>2. note \in Seq(Line) /\ \A p : Notes(p, note)
  BY DEF Line, Notes
<1>3. Say(c) = [c EXCEPT !.app.log = log]
  BY DEF Say, Good, Console, App
<1> HIDE DEF note
<1>4. log \in Seq(Line) /\ Len(log) <= LogCap
  BY <1>1, <1>2, PushIsCut
<1>5. ASSUME NEW p \in Nth(c, c.synced), NEW e \in Nat, NEW l \in Nat,
             Fine(p, c.app.log \o c.ses[p].queue, e, l)
      PROVE  Fine(p, log \o c.ses[p].queue, e, l)
  <2> DEFINE q == c.ses[p].queue
             old == c.app.log
  <2>1. q \in Seq(Line) /\ old \in Seq(Line) /\ Fine(p, old \o q, e, l) /\ Notes(p, note)
    BY <1>1, <1>2, <1>5, WhoIsOn
  <2> HIDE DEF q, old
  <2>2. Fine(p, old \o (note \o q), e, l)
    BY <1>2, <2>1, FineInsert
  <2>3. Fine(p, Push(old, note) \o q, e, l)
    BY <1>2, <2>1, <2>2, FinePush
  <2> QED BY <2>3 DEF old, q
<1> HIDE DEF log
<1>6. LET d == [c EXCEPT !.app.log = log]
      IN  /\ OnlyLines(c, d) /\ Fitting(d) /\ Untouched(c, d) /\ (Placed(c) => Placed(d))
          /\ \A em \in [Profiles -> Nat], ch \in [Profiles -> Filters] :
                Tidy(c, em, ch) => Tidy(d, em, ch)
  BY <1>4, <1>5, ScreenKeeps
<1> QED BY Zenon, <1>3, <1>6

(* The log on the screen is emptied. *)
LEMMA ClearKeeps ==
    ASSUME NEW c, Good(c), Fitting(c)
    PROVE  LET d == [c EXCEPT !.app.log = <<>>]
           IN  /\ OnlyLines(c, d) /\ Fitting(d) /\ (Placed(c) => Placed(d))
               /\ \A em \in [Profiles -> Nat], ch \in [Profiles -> Filters] :
                     Tidy(c, em, ch) => Tidy(d, em, ch)
<1>1. /\ c.app.log \in Seq(Line) /\ Attached(c) \subseteq Profiles
      /\ \A p \in Profiles : c.ses[p].queue \in Seq(Line)
  BY WhoIsOn DEF Good, Console, App, BotSession
<1>2. <<>> \in Seq(Line) /\ Len(<<>>) <= LogCap
  BY LogAssumption
<1>3. ASSUME NEW p \in Nth(c, c.synced), NEW e \in Nat, NEW l \in Nat,
             Fine(p, c.app.log \o c.ses[p].queue, e, l)
      PROVE  Fine(p, <<>> \o c.ses[p].queue, e, l)
  <2> DEFINE q == c.ses[p].queue
  <2>1. q \in Seq(Line)
    BY <1>1, WhoIsOn
  <2> HIDE DEF q
  <2>2. <<>> \o q = q
    BY <2>1
  <2>3. Fine(p, q, e, l)
    BY <1>1, <1>3, <2>1, FineCut DEF q
  <2> QED BY <2>2, <2>3 DEF q
<1> QED BY <1>2, <1>3, ScreenKeeps

(* The frame's sync and refresh of the panel.                               *)
LEMMA PollKeeps ==
    ASSUME NEW c, Good(c), Fitting(c), Placed(c), NEW free \in BOOLEAN, NEW again \in BOOLEAN
    PROVE  LET d == Poll(c, free, again)
           IN  /\ Fitting(d) /\ Placed(d) /\ Attached(d) = Attached(c)
               /\ c.order # <<>> => d.synced # 0
               /\ \A em, ch : Tidy(c, em, ch) => Tidy(d, em, ch)
<1> DEFINE b == SyncFromSelected(c, free)
           d == Poll(c, free, again)
<1>1. c.synced = c.selected => c.app.snap \in {Selected(c), Nobody}
  <2>1. c.selected # 0 \/ c.synced # 0
    BY DEF Placed
  <2> QED BY <2>1 DEF Placed, OnScreen
<1>2. /\ Good(b) /\ b.order = c.order /\ Fitting(b) /\ Placed(b)
      /\ c.order # <<>> => b.synced # 0
  BY <1>1, SyncGood, SyncPlaces
<1>3. \A em, ch : Tidy(c, em, ch) => Tidy(b, em, ch)
  BY <1>1, SyncTidy
<1>4. d = IF again THEN [b EXCEPT !.app.snap = b.app.owner] ELSE b
  BY DEF Poll
<1> HIDE DEF b, d
<1>5. b \in Console /\ b.app \in App
  BY <1>2 DEF Good, Console
<1>6. /\ d.order = b.order /\ d.selected = b.selected /\ d.synced = b.synced /\ d.ses = b.ses
      /\ d.pending = b.pending /\ d.app.log = b.app.log /\ d.app.filter = b.app.filter
      /\ d.app.owner = b.app.owner /\ d.app.snap \in {b.app.snap, b.app.owner}
  BY <1>4, <1>5 DEF Console, App
<1>7. Attached(d) = Attached(b) /\ Attached(b) = Attached(c) /\ Selected(d) = Selected(b)
  BY <1>2, <1>6 DEF Attached, Selected
<1>8. Fitting(d) /\ Placed(d)
  BY <1>2, <1>6, <1>7 DEF Fitting, Placed, OnScreen
<1>9. ASSUME NEW em, NEW ch, Tidy(b, em, ch) PROVE Tidy(d, em, ch)
  BY <1>6, <1>7, <1>9 DEF Tidy, TidyLogs, TidyPages, TidyNotes, LogOf, Page, Nth
<1> QED BY <1>2, <1>3, <1>6, <1>7, <1>8, <1>9 DEF d

(* An account that may leave without a mix-up: the others keep their logs.  *)
LEMMA GoneTidy ==
    ASSUME NEW c, Good(c), Placed(c), NEW i \in DOMAIN c.order, NEW em \in [Profiles -> Nat],
           NEW ch \in [Profiles -> Filters], Tidy(c, em, ch),
           ~(i <= c.synced /\ i < Len(c.order)), ~(i = c.selected /\ c.pending # <<>>),
           c.app.filter = c.ses[Selected(c)].filter
    PROVE  Tidy(Swap(Gone(c, i), c.synced), [em EXCEPT ![c.order[i]] = 0], ch)
<1> DEFINE e == Gone(c, i)
           s == Swap(e, c.synced)
           out == c.order[i]
           n == Len(c.order)
<1>1. /\ Good(e) /\ e.order = Left(c, i) /\ e.synced = 0 /\ e.app = c.app
      /\ e.pending = c.pending /\ e.ses = [c.ses EXCEPT ![out] = NewSession]
      /\ e.selected = IF c.selected > Len(e.order) /\ e.order # <<>> THEN Len(e.order) ELSE c.selected
  BY RemoveIsSwap
<1> HIDE DEF e
<1>2. /\ Len(e.order) = n - 1 /\ DOMAIN e.order = 1..(n - 1) /\ n \in Nat \ {0} /\ i \in 1..n
      /\ \A j \in 1..(n - 1) : e.order[j] = c.order[IF j < i THEN j ELSE j + 1]
      /\ {e.order[j] : j \in 1..(n - 1)} = Attached(c) \ {out}
  <2> DEFINE left == Left(c, i)
  <2>1. /\ Len(left) = n - 1 /\ DOMAIN left = 1..Len(left) /\ n \in Nat \ {0} /\ i \in 1..n
        /\ \A j \in 1..Len(left) : left[j] = c.order[IF j < i THEN j ELSE j + 1]
        /\ {left[j] : j \in 1..Len(left)} = Attached(c) \ {out}
    BY LeftFacts
  <2>2. e.order = left
    BY <1>1
  <2> HIDE DEF left, n, out
  <2> QED BY <2>1, <2>2
<1>3. /\ c.synced \in 0..n /\ c.selected \in 1..n /\ Attached(c) \subseteq Profiles
      /\ c.ses \in [Profiles -> BotSession] /\ DOMAIN c.order = 1..n
      /\ \A j, k \in 1..n : c.order[j] = c.order[k] => j = k
  <2>1. c.order \in Seq(Profiles) /\ c.ses \in [Profiles -> BotSession] /\ Listed(c)
    BY DEF Good, Console
  <2>2. DOMAIN c.order = 1..n /\ c.order # <<>>
    BY <1>2, <2>1
  <2> QED BY <2>1, <2>2, WhoIsOn DEF Listed
<1>4. /\ Good(s) /\ SamePlaces(e, s) /\ s.pending = e.pending
      /\ \A p \in Profiles : s.ses[p].log = IF p \in Nth(e, c.synced) THEN e.app.log ELSE e.ses[p].log
      /\ \A p \in Profiles : /\ s.ses[p].filter = e.ses[p].filter
                             /\ s.ses[p].queue = e.ses[p].queue /\ s.ses[p].lost = e.ses[p].lost
  <2>1. c.synced \in Nat /\ Good(e)
    BY <1>1, <1>3
  <2>2. LET d == Swap(e, c.synced)
        IN  /\ Good(d) /\ SamePlaces(e, d) /\ d.pending = e.pending
            /\ \A p \in Profiles : d.ses[p].log = IF p \in Nth(e, c.synced) THEN e.app.log ELSE e.ses[p].log
            /\ \A p \in Profiles : d.ses[p].filter = e.ses[p].filter
    BY <2>1, SwapGood
  <2>3. \A p \in Profiles : s.ses[p].queue = e.ses[p].queue /\ s.ses[p].lost = e.ses[p].lost
    <3>1. e \in Console /\ e.ses \in [Profiles -> BotSession]
      BY <1>1 DEF Good, Console
    <3> QED BY <3>1 DEF Swap, Console, BotSession
  <2> QED BY <2>2, <2>3
<1> HIDE DEF s
<1>5. Attached(s) = Attached(c) \ {out} /\ Nth(s, s.synced) = {}
  <2>1. s.order = e.order /\ s.synced = 0 /\ 0 \notin 1..(n - 1)
    BY <1>1, <1>2, <1>4 DEF SamePlaces
  <2>2. DOMAIN s.order = 1..(n - 1)
    BY <1>2, <2>1
  <2>3. Attached(s) = {e.order[j] : j \in 1..(n - 1)}
    BY <2>1, <2>2 DEF Attached
  <2>4. Nth(s, s.synced) = {}
    BY <2>1, <2>2 DEF Nth
  <2> QED BY <1>2, <2>3, <2>4
<1>6. \A p \in Attached(c) \ {out} : p \in Nth(e, c.synced) <=> p \in Nth(c, c.synced)
  <2>1. CASE c.synced = 0
    BY <1>2, <1>3, <2>1 DEF Nth
  <2>2. CASE c.synced # 0 /\ c.synced < i
    <3>1. c.synced \in 1..(n - 1) /\ c.synced \in 1..n
      BY <1>2, <1>3, <2>2
    <3>2. e.order[c.synced] = c.order[c.synced]
      BY <1>2, <2>2, <3>1
    <3> QED BY <1>2, <1>3, <3>1, <3>2 DEF Nth
  <2>3. CASE c.synced # 0 /\ ~(c.synced < i)
    <3>1. c.synced = n /\ i = n
      BY <1>2, <1>3, <2>3
    <3>2. Nth(e, c.synced) = {} /\ Nth(c, c.synced) = {out}
      BY <1>2, <1>3, <3>1 DEF Nth
    <3> QED BY <3>2
  <2> QED BY <2>1, <2>2, <2>3
<1>7. ASSUME NEW p \in Attached(c) \ {out}
      PROVE  /\ LogOf(s, p) = LogOf(c, p) /\ Page(s, p) = Page(c, p)
             /\ s.ses[p].queue = c.ses[p].queue /\ s.ses[p].lost = c.ses[p].lost
  <2>1. p \in Profiles /\ e.ses[p] = c.ses[p]
    BY <1>1, <1>3
  <2>2. LogOf(s, p) = s.ses[p].log /\ Page(s, p) = s.ses[p].filter
    BY <1>5 DEF LogOf, Page
  <2>3. Page(c, p) = c.ses[p].filter
    <3>1. p \in Nth(c, c.synced) => p = Selected(c)
      BY WhoIsOn DEF Placed
    <3> QED BY <3>1 DEF Page
  <2>4. s.ses[p].log = IF p \in Nth(c, c.synced) THEN c.app.log ELSE c.ses[p].log
    BY <1>1, <1>4, <1>6, <2>1
  <2> QED BY <1>4, <2>1, <2>2, <2>3, <2>4 DEF LogOf
<1> DEFINE em2 == [em EXCEPT ![out] = 0]
<1>8. \A p \in Attached(c) \ {out} : em2[p] = em[p]
  BY <1>3
<1> HIDE DEF em2
<1>9. TidyLogs(s, em2) /\ TidyPages(s, ch)
  BY <1>5, <1>7, <1>8 DEF Tidy, TidyLogs, TidyPages
<1>10. TidyNotes(s)
  <2> SUFFICES ASSUME s.pending # <<>> PROVE s.order # <<>> /\ Notes(Selected(s), s.pending)
    BY DEF TidyNotes
  <2>1. c.pending # <<>> /\ s.pending = c.pending /\ Notes(Selected(c), c.pending)
    BY <1>1, <1>4 DEF Tidy, TidyNotes
  <2>2. c.selected < i
    <3>1. i # c.selected
      BY <2>1
    <3>2. ~(i < c.selected)
      <4> SUFFICES ASSUME i < c.selected PROVE FALSE
        OBVIOUS
      <4>1. c.synced = c.selected
        BY <1>2, <1>3 DEF Placed
      <4> QED BY <1>2, <1>3, <4>1
    <3> QED BY <1>2, <1>3, <3>1, <3>2
  <2>3. c.selected \in 1..(n - 1) /\ ~(c.selected > Len(e.order))
    BY <1>2, <1>3, <2>2
  <2>4. e.order[c.selected] = c.order[c.selected]
    BY <1>2, <2>2, <2>3
  <2>5. s.order = e.order /\ s.selected = c.selected /\ s.order # <<>>
    BY <1>1, <1>2, <1>4, <2>3 DEF SamePlaces
  <2> QED BY <2>1, <2>4, <2>5 DEF Selected
<1> QED BY <1>9, <1>10 DEF Tidy, s, e, em2

-----------------------------------------------------------------------------
(* The whole of it holds between two steps. *)
Screened ==
    /\ Fitting(con) /\ Placed(con) /\ (strayed \/ Tidy(con, emitted, chosen))
    /\ running \subseteq Attached(con) /\ (con.synced = 0 => running = {})
    /\ emitted \in [Profiles -> 0..MaxEmitted] /\ notes \in 0..MaxNotes
    /\ chosen \in [Profiles -> Filters] /\ strayed \in BOOLEAN

LEMMA ScreenTypes ==
    LogInv /\ Screened => /\ emitted \in [Profiles -> Nat] /\ Attached(con) \subseteq Profiles
                          /\ con \in Console /\ con.app \in App /\ con.ses \in [Profiles -> BotSession]
                          /\ con.app.log \in Seq(Line) /\ con.pending \in Seq(Line)
BY WhoIsOn DEF LogInv, Screened, Good, Console, App

(* A frame keeps it, with a note or without. *)
LEMMA ScreenedFrame ==
    ASSUME LogInv, Screened, NEW free \in BOOLEAN, NEW again \in BOOLEAN, NEW d,
           Good(d), Fitting(d), Placed(d), Attached(d) = Attached(con),
           Tidy(con, emitted, chosen) => Tidy(d, emitted, chosen),
           con' = Poll(d, free, again), running' \subseteq running \cup Attached(con),
           con.order # <<>> => d.order # <<>>,
           notes' \in 0..MaxNotes, UNCHANGED <<emitted, chosen, strayed>>
    PROVE  Screened'
<1>1. /\ Fitting(con') /\ Placed(con') /\ Attached(con') = Attached(con)
      /\ d.order # <<>> => con'.synced # 0
      /\ Tidy(d, emitted, chosen) => Tidy(con', emitted, chosen)
  BY PollKeeps
<1>2. running' \subseteq Attached(con')
  BY <1>1 DEF Screened
<1>3. con'.synced = 0 => running' = {}
  <2>1. con.order = <<>> => Attached(con) = {}
    BY DEF Attached
  <2> QED BY <1>1, <2>1 DEF Screened
<1> QED BY <1>1, <1>2, <1>3 DEF Screened

LEMMA FrameScreened ==
    ASSUME NEW free \in BOOLEAN, NEW again \in BOOLEAN, LogInv, Screened,
           Frame(free, again) \/ \E p \in Profiles, r \in BOOLEAN : FrameNotes(p, r, free, again)
    PROVE  Screened'
<1> DEFINE d == DrainAll(con)
<1>1. /\ Good(d) /\ SamePlaces(con, d) /\ OnlyLines(con, d) /\ Fitting(d) /\ Placed(d)
      /\ Tidy(con, emitted, chosen) => Tidy(d, emitted, chosen)
      /\ chosen \in [Profiles -> Filters]
  BY DrainGood, DrainKeeps, ScreenTypes DEF LogInv, Screened
<1> HIDE DEF d
<1>2. Attached(d) = Attached(con) /\ d.order = con.order
  BY <1>1, OnlyLinesKeeps DEF LogInv, SamePlaces
<1>3. CASE Frame(free, again)
  <2>1. con' = Poll(d, free, again) /\ UNCHANGED <<running, emitted, notes, chosen, strayed>>
    BY <1>3 DEF Frame, d
  <2> QED BY <1>1, <1>2, <2>1, ScreenedFrame DEF Screened
<1>4. CASE \E p \in Profiles, r \in BOOLEAN : FrameNotes(p, r, free, again)
  <2>1. PICK p \in Profiles, r \in BOOLEAN : FrameNotes(p, r, free, again)
    BY <1>4
  <2> DEFINE line == NewNote(p)
             c == NoteAt(d, p, line)
  <2>2. /\ p \in Attached(con) /\ notes < MaxNotes /\ notes' = notes + 1
        /\ con' = Poll(c, free, again) /\ UNCHANGED <<emitted, chosen, strayed>>
        /\ running' \subseteq running \cup {p}
    BY <2>1 DEF FrameNotes, d
  <2>3. line \in Line /\ line.of = p /\ line.kind = "note"
    BY NoteIsLine DEF NewNote
  <2>4. d.order # <<>>
    BY <1>1, <1>2, <2>2, WhoIsOn
  <2> HIDE DEF line
  <2>5. /\ Good(c) /\ SamePlaces(d, c) /\ OnlyLines(d, c) /\ Fitting(c) /\ Placed(c)
        /\ Tidy(d, emitted, chosen) => Tidy(c, emitted, chosen)
    <3>1. /\ OnlyLines(d, c) /\ Fitting(c) /\ Placed(c)
          /\ \A em \in [Profiles -> Nat], ch \in [Profiles -> Filters] :
                Tidy(d, em, ch) => Tidy(c, em, ch)
      BY <1>1, <1>2, <2>2, <2>3, <2>4, NoteKeeps
    <3>2. emitted \in [Profiles -> Nat] /\ chosen \in [Profiles -> Filters]
      BY <1>1, ScreenTypes
    <3> QED BY <3>1, <3>2 DEF OnlyLines
  <2> HIDE DEF c
  <2>6. Attached(c) = Attached(con) /\ c.order = con.order
    BY <1>1, <1>2, <2>5, OnlyLinesKeeps DEF SamePlaces
  <2>7. notes' \in 0..MaxNotes
    BY <2>2, LogAssumption DEF Screened
  <2> QED BY <1>1, <2>2, <2>5, <2>6, <2>7, ScreenedFrame
<1> QED BY <1>3, <1>4

LEMMA BotScreened ==
    ASSUME LogInv, Screened, NEW p \in Profiles, Emit(p) \/ BotEnds(p) PROVE Screened'
<1>1. CASE Emit(p)
  <2> DEFINE line == [of |-> p, kind |-> "bot", n |-> emitted'[p]]
             s == Emits(con.ses[p], line)
             ses == [con.ses EXCEPT ![p] = s]
  <2>1. /\ p \in running /\ p \in Attached(con) /\ con.synced # 0 /\ emitted[p] \in 0..MaxEmitted
        /\ emitted[p] < MaxEmitted /\ emitted' = [emitted EXCEPT ![p] = emitted[p] + 1]
        /\ UNCHANGED <<running, notes, chosen, strayed>> /\ MaxEmitted \in Nat
    BY <1>1, LogAssumption DEF Emit, Screened
  <2>2. /\ emitted'[p] = emitted[p] + 1 /\ emitted[p] \in Nat /\ emitted' \in [Profiles -> 0..MaxEmitted]
        /\ \A q \in Profiles \ {p} : emitted'[q] = emitted[q]
    BY <2>1 DEF Screened
  <2>3. /\ con \in Console /\ con.ses \in [Profiles -> BotSession]
        /\ con.ses[p] \in BotSession /\ con.ses[p].log \in Seq(Line) /\ con.ses[p].queue \in Seq(Line)
        /\ LogOf(con, p) \in Seq(Line)
    BY ScreenTypes DEF BotSession, LogOf
  <2>4. line \in Line /\ line.of = p /\ line.kind = "bot" /\ line.n = emitted[p] + 1
    BY <2>2 DEF Line
  <2>5. con' = [con EXCEPT !.ses = ses]
    BY <1>1, <2>3 DEF Emit, Console
  <2> HIDE DEF line
  <2>6. s.log = con.ses[p].log /\ s.filter = con.ses[p].filter
    BY <2>3 DEF Emits, BotSession
  <2>7. Len(s.queue) <= QueueCap
    <3> DEFINE q == con.ses[p].queue
    <3>1. q \in Seq(Line) /\ Len(q) \in Nat /\ Len(q) <= QueueCap /\ QueueCap \in Nat \ {0}
      BY <2>3, LogAssumption DEF Screened, Fitting
    <3>2. CASE Len(q) >= QueueCap
      <4>1. s.queue = Append(Tail(q), line)
        BY <2>3, <3>2 DEF Emits, BotSession
      <4>2. q # <<>>
        BY <3>1, <3>2
      <4>3. Tail(q) \in Seq(Line) /\ Len(Tail(q)) = Len(q) - 1
        BY <3>1, <4>2
      <4>4. Len(Append(Tail(q), line)) = Len(Tail(q)) + 1
        BY <2>4, <4>3
      <4> QED BY <3>1, <4>1, <4>3, <4>4
    <3>3. CASE ~(Len(q) >= QueueCap)
      <4>1. s.queue = Append(q, line)
        BY <2>3, <3>3 DEF Emits, BotSession
      <4>2. Len(Append(q, line)) = Len(q) + 1
        BY <2>4, <3>1
      <4> QED BY <3>1, <3>3, <4>1, <4>2
    <3> QED BY <3>2, <3>3
  <2>8. Fine(p, LogOf(con, p) \o con.ses[p].queue, emitted[p], con.ses[p].lost)
          => Fine(p, LogOf(con, p) \o s.queue, emitted'[p], s.lost)
    <3> DEFINE log == LogOf(con, p)
               old == con.ses[p]
               n == emitted[p]
    <3>1. log \in Seq(Line) /\ old \in BotSession /\ n \in Nat /\ emitted'[p] = n + 1
          /\ line \in Line /\ line.of = p /\ line.kind = "bot" /\ line.n = n + 1
      BY <2>2, <2>3, <2>4
    <3> HIDE DEF log, old, n
    <3>2. Fine(p, log \o old.queue, n, old.lost)
             => Fine(p, log \o Emits(old, line).queue, n + 1, Emits(old, line).lost)
      BY <3>1, FineEmit
    <3> QED BY <3>1, <3>2 DEF log, old, n
  <2> HIDE DEF s
  <2>9. /\ ses[p] = s /\ \A q \in Profiles \ {p} : ses[q] = con.ses[q]
    BY <2>3
  <2> HIDE DEF ses
  <2>10. /\ con'.order = con.order /\ con'.selected = con.selected /\ con'.synced = con.synced
         /\ con'.pending = con.pending /\ con'.app = con.app /\ con'.ses = ses
    BY <2>3, <2>5 DEF Console
  <2>11. /\ Attached(con') = Attached(con) /\ Selected(con') = Selected(con)
         /\ Nth(con', con'.synced) = Nth(con, con.synced) /\ Attached(con) \subseteq Profiles
    BY <2>10, ScreenTypes DEF Attached, Selected, Nth
  <2>12. Fitting(con')
    BY <2>6, <2>7, <2>9, <2>10 DEF Screened, Fitting
  <2>13. Placed(con')
    BY <2>1, <2>10, <2>11 DEF Screened, Placed, OnScreen
  <2>14. ASSUME Tidy(con, emitted, chosen) PROVE Tidy(con', emitted', chosen)
    <3>1. \A q \in Profiles : LogOf(con', q) = LogOf(con, q) /\ Page(con', q) = Page(con, q)
      BY <2>6, <2>9, <2>10, <2>11 DEF LogOf, Page
    <3>2. ASSUME NEW q \in Attached(con)
          PROVE  Fine(q, LogOf(con', q) \o con'.ses[q].queue, emitted'[q], con'.ses[q].lost)
      <4>1. q \in Profiles /\ Fine(q, LogOf(con, q) \o con.ses[q].queue, emitted[q], con.ses[q].lost)
        BY <2>11, <2>14 DEF Tidy, TidyLogs
      <4>2. CASE q = p
        BY <2>8, <2>9, <2>10, <3>1, <4>1, <4>2
      <4>3. CASE q # p
        BY <2>2, <2>9, <2>10, <3>1, <4>1, <4>3
      <4> QED BY <4>2, <4>3
    <3>3. TidyLogs(con', emitted')
      BY <2>11, <3>2 DEF TidyLogs
    <3>4. TidyPages(con', chosen)
      BY <2>11, <2>14, <3>1 DEF Tidy, TidyPages
    <3>5. TidyNotes(con')
      BY <2>10, <2>11, <2>14 DEF Tidy, TidyNotes
    <3> QED BY <3>3, <3>4, <3>5 DEF Tidy
  <2> QED BY <2>1, <2>2, <2>10, <2>11, <2>12, <2>13, <2>14 DEF Screened
<1>2. CASE BotEnds(p)
  BY <1>2 DEF BotEnds, Screened
<1> QED BY <1>1, <1>2

LEMMA KeyScreened ==
    ASSUME LogInv, Screened, NoteKey \/ Clear \/ \E f \in Filters : SetFilter(f) PROVE Screened'
<1>0. /\ Good(con) /\ Fitting(con) /\ Placed(con) /\ emitted \in [Profiles -> Nat]
      /\ chosen \in [Profiles -> Filters]
  BY ScreenTypes DEF LogInv, Screened
<1>1. CASE NoteKey
  <2> DEFINE p == Selected(con)
             line == NewNote(p)
             c == NoteAt(con, p, line)
  <2>1. p \in Attached(con) /\ con.order # <<>> /\ p \in Profiles
    BY <1>0, <1>1, WhoIsOn DEF NoteKey
  <2>2. /\ con' = c /\ notes < MaxNotes /\ notes' = notes + 1
        /\ UNCHANGED <<running, emitted, chosen, strayed>>
    BY <1>1 DEF NoteKey
  <2> HIDE DEF p
  <2>3. line \in Line /\ line.of = p /\ line.kind = "note"
    BY <2>1, NoteIsLine DEF NewNote
  <2> HIDE DEF line
  <2>4. /\ OnlyLines(con, c) /\ Fitting(c) /\ Placed(c)
        /\ \A em \in [Profiles -> Nat], ch \in [Profiles -> Filters] :
              Tidy(con, em, ch) => Tidy(c, em, ch)
    BY <1>0, <2>1, <2>3, NoteKeeps
  <2> HIDE DEF c
  <2>5. Attached(c) = Attached(con) /\ c.synced = con.synced
    BY <1>0, <2>4, OnlyLinesKeeps DEF OnlyLines, SamePlaces
  <2>6. notes' \in 0..MaxNotes
    BY <2>2, LogAssumption DEF Screened
  <2> QED BY <1>0, <2>2, <2>4, <2>5, <2>6 DEF Screened
<1>2. CASE Clear
  <2> DEFINE b == [con EXCEPT !.app.log = <<>>]
             c == Say(b)
  <2>1. con' = c /\ UNCHANGED <<running, emitted, notes, chosen, strayed>>
    BY <1>2 DEF Clear
  <2>2. /\ OnlyLines(con, b) /\ Fitting(b) /\ Placed(b)
        /\ \A em \in [Profiles -> Nat], ch \in [Profiles -> Filters] :
              Tidy(con, em, ch) => Tidy(b, em, ch)
    BY <1>0, ClearKeeps
  <2> HIDE DEF b
  <2>3. /\ OnlyLines(b, c) /\ Fitting(c) /\ Placed(c)
        /\ \A em \in [Profiles -> Nat], ch \in [Profiles -> Filters] :
              Tidy(b, em, ch) => Tidy(c, em, ch)
    BY <2>2, SayKeeps DEF OnlyLines
  <2> HIDE DEF c
  <2>4. Attached(c) = Attached(con) /\ c.synced = con.synced
    <3>1. Attached(b) = Attached(con) /\ b.synced = con.synced /\ Good(b)
      BY <1>0, <2>2, OnlyLinesKeeps DEF OnlyLines, SamePlaces
    <3>2. Attached(c) = Attached(b) /\ c.synced = b.synced
      BY <2>3, <3>1, OnlyLinesKeeps DEF OnlyLines, SamePlaces
    <3> QED BY <3>1, <3>2
  <2> QED BY <1>0, <2>1, <2>2, <2>3, <2>4 DEF Screened
<1>3. CASE \E f \in Filters : SetFilter(f)
  <2>1. PICK f \in Filters : SetFilter(f)
    BY <1>3
  <2>2. con \in Console /\ con.app \in App /\ Attached(con) \subseteq Profiles
    BY ScreenTypes
  <2> DEFINE app == [con.app EXCEPT !.filter = f]
  <2>3. /\ app.filter = f /\ app.log = con.app.log /\ app.owner = con.app.owner
        /\ app.snap = con.app.snap
    BY <2>2 DEF App
  <2>4. con' = [con EXCEPT !.app = app] /\ UNCHANGED <<running, emitted, notes, strayed>>
    BY <2>1, <2>2 DEF SetFilter, Console
  <2> HIDE DEF app
  <2>5. /\ con'.order = con.order /\ con'.selected = con.selected /\ con'.synced = con.synced
        /\ con'.pending = con.pending /\ con'.ses = con.ses /\ con'.app = app
    BY <2>2, <2>4 DEF Console
  <2>6. /\ Attached(con') = Attached(con) /\ Selected(con') = Selected(con)
        /\ Nth(con', con'.synced) = Nth(con, con.synced)
    BY <2>5 DEF Attached, Selected, Nth
  <2>7. Fitting(con') /\ Placed(con')
    BY <1>0, <2>3, <2>5, <2>6 DEF Fitting, Placed, OnScreen
  <2>8. Selected(con) \in Profiles
    BY <1>0, <2>1, WhoIsOn DEF SetFilter
  <2>9. /\ chosen' = IF con.synced = 0 THEN chosen ELSE [chosen EXCEPT ![Selected(con)] = f]
        /\ chosen' \in [Profiles -> Filters]
    BY <1>0, <2>1, <2>8 DEF SetFilter
  <2>10. ASSUME Tidy(con, emitted, chosen) PROVE Tidy(con', emitted, chosen')
    <3>1. TidyLogs(con', emitted)
      BY <2>3, <2>5, <2>6, <2>10 DEF Tidy, TidyLogs, LogOf
    <3>2. TidyPages(con', chosen')
      <4> SUFFICES ASSUME NEW p \in Attached(con) PROVE Page(con', p) = chosen'[p]
        BY <2>6 DEF TidyPages
      <4>1. Page(con, p) = chosen[p] /\ p \in Profiles
        BY <2>2, <2>10 DEF Tidy, TidyPages
      <4>2. p \in Nth(con, con.synced) <=> con.synced # 0 /\ p = Selected(con)
        BY <1>0, WhoIsOn DEF Placed
      <4>3. chosen'[p] = IF con.synced # 0 /\ p = Selected(con) THEN f ELSE chosen[p]
        BY <1>0, <2>9, <4>1
      <4>4. Page(con', p) = IF con.synced # 0 /\ p = Selected(con) THEN f ELSE con.ses[p].filter
        BY <2>3, <2>5, <2>6, <4>2 DEF Page
      <4>5. ~(con.synced # 0 /\ p = Selected(con)) => con.ses[p].filter = chosen[p]
        BY <4>1, <4>2 DEF Page
      <4> QED BY <4>3, <4>4, <4>5
    <3>3. TidyNotes(con')
      BY <2>5, <2>6, <2>10 DEF Tidy, TidyNotes
    <3> QED BY <3>1, <3>2, <3>3 DEF Tidy
  <2> QED BY <2>4, <2>5, <2>6, <2>7, <2>9, <2>10 DEF Screened
<1> QED BY <1>1, <1>2, <1>3

LEMMA BuiltinScreened ==
    ASSUME LogInv, Screened, NEW free \in BOOLEAN, Builtin(free) PROVE Screened'
<1> DEFINE b == SyncFromSelected(con, free)
           c == Say(b)
<1>1. /\ con' = c /\ con.order # <<>> /\ UNCHANGED <<emitted, notes, chosen, strayed>>
      /\ running' \subseteq running \cup {Selected(con)}
  BY DEF Builtin
<1>2. /\ Good(con) /\ Fitting(con) /\ Placed(con) /\ emitted \in [Profiles -> Nat]
      /\ chosen \in [Profiles -> Filters]
  BY ScreenTypes DEF LogInv, Screened
<1>3. con.synced = con.selected => con.app.snap \in {Selected(con), Nobody}
  BY <1>2 DEF Placed, OnScreen
<1>4. /\ Good(b) /\ Fitting(b) /\ Placed(b) /\ b.order = con.order /\ b.synced # 0
      /\ Tidy(con, emitted, chosen) => Tidy(b, emitted, chosen)
  BY <1>1, <1>2, <1>3, SyncGood, SyncPlaces, SyncTidy
<1> HIDE DEF b
<1>5. /\ OnlyLines(b, c) /\ Fitting(c) /\ Placed(c)
      /\ Tidy(b, emitted, chosen) => Tidy(c, emitted, chosen)
  BY <1>2, <1>4, SayKeeps
<1> HIDE DEF c
<1>6. Attached(c) = Attached(con) /\ c.synced # 0
  <2>1. Attached(b) = Attached(con)
    BY <1>4 DEF Attached
  <2> QED BY <1>4, <1>5, <2>1, OnlyLinesKeeps DEF OnlyLines, SamePlaces
<1>7. running' \subseteq Attached(con)
  BY <1>1, <1>2, WhoIsOn DEF Screened
<1> QED BY <1>1, <1>4, <1>5, <1>6, <1>7 DEF Screened

(* A switch with nothing pending, or to the same account.                   *)
LEMMA MoveScreened ==
    ASSUME LogInv, Screened, NEW free \in BOOLEAN,
           SelectMove(1, free) \/ SelectMove(Len(con.order) - 1, free)
    PROVE  Screened'
<1>1. /\ con \in Console /\ Listed(con) /\ con.order \in Seq(Profiles) /\ Len(con.order) > 1
      /\ con.selected \in 1..Len(con.order) /\ Len(con.order) \in Nat
  BY SMTT(30) DEF LogInv, Good, Console, Listed, SelectMove
<1>2. PICK d \in 0..Len(con.order) : SelectMove(d, free)
  <2>1. 1 \in 0..Len(con.order) /\ Len(con.order) - 1 \in 0..Len(con.order)
    BY <1>1
  <2> QED BY <2>1
<1> DEFINE to == ((con.selected - 1 + d) % Len(con.order)) + 1
           c == [con EXCEPT !.selected = to]
           e == SyncFromSelected(c, free)
<1>3. to \in 1..Len(con.order)
  <2>1. con.selected - 1 + d \in Int /\ Len(con.order) \in Nat \ {0}
    BY <1>1
  <2> QED BY <2>1
<1>4. /\ con' = e /\ UNCHANGED <<running, emitted, notes, chosen>>
      /\ strayed' = (strayed \/ (con.pending # <<>> /\ Selected(e) # Selected(con)))
  BY <1>1, <1>2 DEF SelectMove, Shows, Console
<1> HIDE DEF to
<1>5. /\ Good(c) /\ c.order = con.order /\ c.synced = con.synced /\ c.ses = con.ses /\ c.app = con.app
      /\ c.pending = con.pending /\ c.selected = to
  BY <1>1, <1>3 DEF Good, Console, Listed
<1> HIDE DEF c
<1>6. /\ Attached(c) = Attached(con) /\ Nth(c, c.synced) = Nth(con, con.synced) /\ Fitting(c)
  BY <1>5 DEF Attached, Nth, Screened, Fitting
<1>7. c.synced = c.selected => c.app.snap \in {Selected(c), Nobody}
  BY <1>3, <1>5 DEF Screened, Placed, OnScreen, Selected
<1>8. c.order # <<>>
  BY <1>1, <1>5
<1>9. /\ Fitting(e) /\ Placed(e) /\ e.synced # 0 /\ e.order = c.order /\ e.selected = c.selected
      /\ Tidy(c, emitted, chosen) => Tidy(e, emitted, chosen)
  BY <1>5, <1>6, <1>7, <1>8, SyncGood, SyncPlaces, SyncTidy
<1> HIDE DEF e
<1>10. Attached(e) = Attached(con) /\ Selected(e) = Selected(c)
  BY <1>6, <1>9 DEF Attached, Selected
<1>11. ASSUME ~strayed' PROVE Tidy(c, emitted, chosen)
  <2>1. Tidy(con, emitted, chosen) /\ (con.pending # <<>> => Selected(c) = Selected(con))
    BY <1>4, <1>10, <1>11 DEF Screened
  <2> QED BY <1>5, <1>6, <2>1 DEF Tidy, TidyLogs, TidyPages, TidyNotes, LogOf, Page
<1>12. strayed' \in BOOLEAN
  BY <1>4 DEF Screened
<1> QED BY <1>4, <1>9, <1>10, <1>11, <1>12 DEF Screened

(* An account arrives at the end of the list with an empty log.             *)
LEMMA AddScreened == ASSUME LogInv, Screened, NEW p \in Profiles, AddProfile(p) PROVE Screened'
<1>1. /\ con \in Console /\ Listed(con) /\ con.order \in Seq(Profiles) /\ Len(con.order) \in Nat
      /\ con.ses \in [Profiles -> BotSession] /\ Good(con) /\ Fitting(con) /\ Placed(con)
      /\ emitted \in [Profiles -> Nat] /\ chosen \in [Profiles -> Filters] /\ con.synced \in 0..Len(con.order)
  BY ScreenTypes DEF LogInv, Screened, Good, Console, Listed
<1> DEFINE more == Append(con.order, p)
           ses == [con.ses EXCEPT ![p] = NewSession]
           c == [con EXCEPT !.order = more, !.ses = ses]
<1>2. /\ more \in Seq(Profiles) /\ Len(more) = Len(con.order) + 1 /\ DOMAIN more = 1..Len(more)
      /\ more # <<>> /\ \A i \in 1..Len(more) : more[i] = IF i = Len(more) THEN p ELSE con.order[i]
  BY <1>1, AppendFacts
<1>3. p \notin Attached(con) /\ \A i \in 1..Len(con.order) : con.order[i] # p
  BY <1>1 DEF AddProfile, Attached
<1>4. \A i, j \in 1..Len(more) : more[i] = more[j] => i = j
  <2>1. \A i, j \in 1..Len(con.order) : con.order[i] = con.order[j] => i = j
    BY <1>1 DEF Listed
  <2>2. \A i \in 1..Len(more) : i = Len(more) \/ i \in 1..Len(con.order)
    BY <1>1, <1>2
  <2> QED BY <1>2, <1>3, <2>1, <2>2
<1>5. /\ ses \in [Profiles -> BotSession] /\ ses[p] = NewSession
      /\ \A q \in Profiles \ {p} : ses[q] = con.ses[q]
  BY <1>1, NewType
<1>6. con.selected \in 1..Len(more) /\ con.synced \in 0..Len(more)
  BY <1>1, <1>2, EmptySeq DEF Listed
<1>7. /\ con' = Say(c) /\ UNCHANGED <<running, notes, strayed>>
      /\ emitted' = [emitted EXCEPT ![p] = 0] /\ chosen' = [chosen EXCEPT ![p] = Initial]
  BY <1>1 DEF AddProfile
<1>8. /\ emitted' \in [Profiles -> 0..MaxEmitted] /\ emitted' \in [Profiles -> Nat] /\ emitted'[p] = 0
      /\ chosen' \in [Profiles -> Filters] /\ chosen'[p] = Initial
      /\ \A q \in Profiles \ {p} : emitted'[q] = emitted[q] /\ chosen'[q] = chosen[q]
  <2>1. 0 \in 0..MaxEmitted /\ 0 \in Nat /\ Initial \in Filters
    BY LogAssumption, InitialType
  <2> QED BY <1>1, <1>7, <2>1 DEF Screened
<1> HIDE DEF more, ses
<1>9. /\ Good(c) /\ c.order = more /\ c.selected = con.selected /\ c.synced = con.synced
      /\ c.ses = ses /\ c.app = con.app /\ c.pending = con.pending
  BY ZenonT(40), <1>1, <1>2, <1>4, <1>5, <1>6 DEF Good, Console, Listed
<1> HIDE DEF c
<1>10. Attached(c) = Attached(con) \cup {p}
  <2>1. \A q : q \in Attached(c) <=> \E i \in 1..Len(more) : q = more[i]
    BY <1>2, <1>9 DEF Attached
  <2>0. DOMAIN con.order = 1..Len(con.order) /\ Len(con.order) \in Nat /\ Len(more) = Len(con.order) + 1
    BY <1>1, <1>2
  <2>2. \A q : q \in Attached(con) <=> \E i \in 1..Len(con.order) : q = con.order[i]
    BY <2>0 DEF Attached
  <2>3. \A i \in 1..Len(con.order) : i \in 1..Len(more) /\ i # Len(more)
    BY <2>0
  <2>4. \A i \in 1..Len(more) : i = Len(more) \/ i \in 1..Len(con.order)
    BY <1>1, <1>2
  <2>5. Len(more) \in 1..Len(more)
    BY <1>1, <1>2
  <2> QED BY <1>2, <2>1, <2>2, <2>3, <2>4, <2>5
<1>11. Nth(c, c.synced) = Nth(con, con.synced) /\ p \notin Nth(con, con.synced)
  <2>1. con.synced \in DOMAIN con.order <=> con.synced # 0
    BY <1>1
  <2>2. con.synced \in DOMAIN more <=> con.synced # 0
    BY <1>2, <1>6
  <2>3. con.synced # 0 => more[con.synced] = con.order[con.synced]
    <3>1. con.synced \in 0..Len(con.order) /\ Len(con.order) \in Nat
      BY <1>1
    <3>2. con.synced # 0 => con.synced \in 1..Len(more) /\ con.synced # Len(more)
      BY <1>2, <3>1
    <3> QED BY <1>2, <3>2
  <2> QED BY <1>3, <1>9, <2>1, <2>2, <2>3, <1>1, WhoIsOn DEF Nth
<1>12. con.order # <<>> => Selected(c) = Selected(con)
  <2>1. con.order # <<>> => con.selected \in 1..Len(con.order)
    BY <1>1 DEF Listed
  <2>2. \A i \in 1..Len(con.order) : more[i] = con.order[i]
    BY <1>1, <1>2
  <2> QED BY <1>9, <2>1, <2>2 DEF Selected
<1>13. NewSession.log = <<>> /\ NewSession.queue = <<>> /\ NewSession.lost = 0 /\ NewSession.filter = Initial
  BY DEF NewSession
<1>14. Fitting(c)
  <2>1. Len(<<>>) <= LogCap /\ Len(<<>>) <= QueueCap
    BY LogAssumption
  <2> QED BY <1>1, <1>5, <1>9, <1>13, <2>1 DEF Fitting
<1>15. Placed(c)
  <2>1. con.synced = 0 => con.selected = 1 /\ \A q \in Attached(c) : c.ses[q].queue = <<>>
    <3>1. Attached(con) \subseteq Profiles
      BY <1>1, WhoIsOn
    <3> QED BY <1>1, <1>5, <1>9, <1>10, <1>13, <3>1 DEF Placed
  <2>2. con.synced # 0 => con.synced = con.selected /\ OnScreen(c)
    <3>1. con.synced # 0 => con.order # <<>>
      BY <1>1 DEF Listed
    <3> QED BY <1>1, <1>9, <1>12, <3>1 DEF Placed, OnScreen
  <2> QED BY <1>9, <2>1, <2>2 DEF Placed
<1>16. ASSUME Tidy(con, emitted, chosen) PROVE Tidy(c, emitted', chosen')
  <2>1. ASSUME NEW q \in Attached(con)
        PROVE  /\ Fine(q, LogOf(c, q) \o c.ses[q].queue, emitted'[q], c.ses[q].lost)
               /\ Page(c, q) = chosen'[q]
    <3>1. q \in Profiles \ {p}
      BY <1>1, <1>3, WhoIsOn
    <3> QED BY <1>5, <1>8, <1>9, <1>11, <1>16, <3>1 DEF Tidy, TidyLogs, TidyPages, LogOf, Page
  <2>2. /\ Fine(p, LogOf(c, p) \o c.ses[p].queue, emitted'[p], c.ses[p].lost)
        /\ Page(c, p) = chosen'[p]
    <3>1. LogOf(c, p) = <<>> /\ c.ses[p].queue = <<>> /\ c.ses[p].lost = 0 /\ Page(c, p) = Initial
      BY <1>5, <1>9, <1>11, <1>13 DEF LogOf, Page
    <3>2. <<>> \o <<>> = <<>>
      OBVIOUS
    <3> QED BY <1>8, <3>1, <3>2, FineNothing
  <2>3. TidyNotes(c)
    BY <1>2, <1>9, <1>12, <1>16 DEF Tidy, TidyNotes
  <2> QED BY <1>10, <2>1, <2>2, <2>3 DEF Tidy, TidyLogs, TidyPages
<1> DEFINE d == Say(c)
<1>17. /\ OnlyLines(c, d) /\ Fitting(d) /\ Placed(d)
       /\ Tidy(c, emitted', chosen') => Tidy(d, emitted', chosen')
  BY <1>8, <1>9, <1>14, <1>15, SayKeeps
<1> HIDE DEF d
<1>18. Attached(d) = Attached(c) /\ d.synced = con.synced
  BY <1>9, <1>17, OnlyLinesKeeps DEF OnlyLines, SamePlaces
<1>19. con' = d /\ notes' = notes /\ running' = running /\ strayed' = strayed
  BY <1>7 DEF d
<1> QED BY <1>8, <1>10, <1>16, <1>17, <1>18, <1>19 DEF Screened

LEMMA RemoveScreened ==
    ASSUME LogInv, Screened, NEW i \in Nat, NEW free \in BOOLEAN, RemoveProfile(i, free)
    PROVE  Screened'
<1>1. /\ i \in DOMAIN con.order /\ con.order[i] \in Profiles \ running
      /\ con' = SyncFromSelected(Remove(con, i), free) /\ UNCHANGED <<running, notes, chosen>>
      /\ strayed' = (strayed \/ Displaces(i)) /\ emitted' = [emitted EXCEPT ![con.order[i]] = 0]
  BY DEF RemoveProfile, LogInv, Good, Console
<1>2. /\ Good(con) /\ Fitting(con) /\ Placed(con) /\ emitted \in [Profiles -> Nat]
      /\ chosen \in [Profiles -> Filters] /\ con.synced \in Nat /\ con.ses \in [Profiles -> BotSession]
  BY ScreenTypes DEF LogInv, Screened, Good, Console
<1>3. emitted' \in [Profiles -> 0..MaxEmitted] /\ emitted' \in [Profiles -> Nat]
  <2>1. 0 \in 0..MaxEmitted
    BY LogAssumption
  <2> QED BY <1>1, <1>2, <2>1 DEF Screened
<1> DEFINE e == Gone(con, i)
           s == Swap(e, con.synced)
           c == Say(s)
           d == SyncFromSelected(c, free)
<1>4. /\ Good(e) /\ e.order = Left(con, i) /\ e.synced = 0 /\ e.app = con.app
      /\ e.ses = [con.ses EXCEPT ![con.order[i]] = NewSession] /\ Remove(con, i) = c
  BY <1>1, <1>2, RemoveIsSwap
<1>5. Fitting(e)
  <2>1. Len(<<>>) <= LogCap /\ Len(<<>>) <= QueueCap
    BY LogAssumption
  <2>2. NewSession.log = <<>> /\ NewSession.queue = <<>>
    BY DEF NewSession
  <2> HIDE DEF e
  <2> QED BY <1>2, <1>4, <2>1, <2>2 DEF Fitting
<1>6. ~strayed' => Tidy(s, emitted', chosen)
  <2> SUFFICES ASSUME ~strayed' PROVE Tidy(s, emitted', chosen)
    OBVIOUS
  <2>1. ~Displaces(i) /\ Tidy(con, emitted, chosen)
    BY <1>1 DEF Screened
  <2> QED BY <1>1, <1>2, <2>1, GoneTidy DEF Displaces
<1> HIDE DEF e
<1>7. Good(s) /\ SamePlaces(e, s) /\ Fitting(s)
  BY <1>2, <1>4, <1>5, SwapGood, SwapLeaves
<1> HIDE DEF s
<1>8. /\ OnlyLines(s, c) /\ Good(c) /\ SamePlaces(s, c) /\ Fitting(c)
      /\ Tidy(s, emitted', chosen) => Tidy(c, emitted', chosen)
  BY <1>2, <1>3, <1>7, SayKeeps DEF OnlyLines
<1> HIDE DEF c
<1>9. c.order = Left(con, i) /\ c.synced = 0 /\ c.selected # 0
  BY <1>4, <1>7, <1>8 DEF SamePlaces, Good, Listed
<1>10. Attached(c) = Attached(con) \ {con.order[i]}
  <2> DEFINE left == Left(con, i)
  <2>1. /\ DOMAIN left = 1..Len(left)
        /\ {left[j] : j \in 1..Len(left)} = Attached(con) \ {con.order[i]}
    BY <1>1, <1>2, LeftFacts
  <2>2. c.order = left
    BY <1>9
  <2> HIDE DEF left
  <2>3. Attached(c) = {left[j] : j \in DOMAIN left}
    BY <2>2 DEF Attached
  <2> QED BY <2>1, <2>3
<1>11. /\ Fitting(d) /\ Placed(d) /\ d.order = c.order
       /\ c.order # <<>> => d.synced # 0
       /\ Tidy(c, emitted', chosen) => Tidy(d, emitted', chosen)
  BY <1>8, <1>9, SyncGood, SyncPlaces, SyncTidy
<1> HIDE DEF d
<1>12. running \subseteq Attached(d) /\ (d.synced = 0 => running = {})
  <2>1. Attached(d) = Attached(c)
    BY <1>11 DEF Attached
  <2>2. c.order = <<>> => Attached(c) = {}
    BY <1>8, WhoIsOn
  <2>3. running \subseteq Attached(c)
    BY <1>1, <1>10 DEF Screened
  <2> QED BY <1>11, <2>1, <2>2, <2>3
<1>13. con' = d /\ strayed' \in BOOLEAN
  BY <1>1, <1>4 DEF d, Screened, Displaces
<1> QED BY <1>1, <1>3, <1>6, <1>8, <1>11, <1>12, <1>13 DEF Screened

LEMMA ScreenedInit == Init => Screened
<1> SUFFICES ASSUME Init PROVE Screened
  OBVIOUS
<1> DEFINE C(p) == [order |-> <<p>>, selected |-> 1, synced |-> 0, pending |-> <<>>,
                    ses |-> [q \in Profiles |-> NewSession],
                    app |-> [log |-> <<>>, filter |-> Initial, dropped |-> 0,
                             owner |-> p, snap |-> Nobody]]
<1>1. PICK p \in Profiles : con = SyncFromSelected(C(p), TRUE)
  BY DEF Init
<1> DEFINE c == C(p)
<1>2. /\ c.order = <<p>> /\ c.selected = 1 /\ c.synced = 0 /\ c.pending = <<>> /\ c.app.log = <<>>
      /\ \A q \in Profiles : c.ses[q] = NewSession
  OBVIOUS
<1>3. Good(c)
  <2>1. <<>> \in Seq(Line) /\ <<p>> \in Seq(Profiles) /\ Len(<<p>>) = 1
    OBVIOUS
  <2>2. c.app \in App
    BY <2>1, InitialType DEF App
  <2>3. c.ses \in [Profiles -> BotSession]
    BY NewType
  <2>4. c \in Console
    BY <2>1, <2>2, <2>3 DEF Console
  <2>5. Listed(c)
    BY <2>1 DEF Listed
  <2> QED BY <2>4, <2>5 DEF Good
<1> HIDE DEF C
<1>4. /\ NewSession.log = <<>> /\ NewSession.queue = <<>> /\ NewSession.lost = 0
      /\ NewSession.filter = Initial
  BY DEF NewSession
<1>5. Fitting(c)
  <2>1. Len(<<>>) <= LogCap /\ Len(<<>>) <= QueueCap
    BY LogAssumption
  <2> QED BY <1>2, <1>4, <2>1 DEF Fitting
<1>6. Tidy(c, emitted, chosen)
  <2>1. Attached(c) = {p} /\ Nth(c, c.synced) = {}
    BY <1>2 DEF Attached, Nth
  <2>2. LogOf(c, p) = <<>> /\ Page(c, p) = Initial /\ c.ses[p].queue = <<>> /\ c.ses[p].lost = 0
    BY <1>2, <1>4, <2>1 DEF LogOf, Page
  <2>3. emitted[p] = 0 /\ chosen[p] = Initial
    BY DEF Init
  <2>4. <<>> \o <<>> = <<>>
    OBVIOUS
  <2>5. Fine(p, <<>>, 0, 0)
    BY FineNothing
  <2> QED BY <1>2, <2>1, <2>2, <2>3, <2>4, <2>5 DEF Tidy, TidyLogs, TidyPages, TidyNotes
<1> HIDE DEF c
<1>7. /\ Fitting(con) /\ Placed(con) /\ con.order = c.order /\ con.synced # 0
      /\ Tidy(con, emitted, chosen)
  <2>1. c.order # <<>>
    BY <1>2
  <2>2. con = SyncFromSelected(c, TRUE) /\ TRUE \in BOOLEAN
    BY <1>1 DEF c
  <2>3. c.synced = c.selected => c.app.snap \in {Selected(c), Nobody}
    BY <1>2
  <2> QED BY <1>3, <1>5, <1>6, <2>1, <2>2, <2>3, SyncGood, SyncPlaces, SyncTidy
<1>8. /\ running = {} /\ notes = 0 /\ strayed = FALSE
      /\ emitted = [q \in Profiles |-> 0] /\ chosen = [q \in Profiles |-> Initial]
  BY DEF Init
<1>9. 0 \in 0..MaxEmitted /\ 0 \in 0..MaxNotes
  BY LogAssumption
<1> QED BY <1>7, <1>8, <1>9, InitialType DEF Screened

LEMMA ScreenedStep == LogInv /\ Screened /\ [Next]_vars => Screened'
<1> SUFFICES ASSUME LogInv, Screened, [Next]_vars PROVE Screened'
  OBVIOUS
<1>1. ASSUME NEW p \in Profiles, Emit(p) \/ BotEnds(p) \/ AddProfile(p) PROVE Screened'
  BY <1>1, BotScreened, AddScreened
<1>2. CASE NoteKey \/ Clear \/ \E f \in Filters : SetFilter(f)
  BY <1>2, KeyScreened
<1>3. ASSUME NEW free \in BOOLEAN, NEW again \in BOOLEAN,
             Frame(free, again) \/ \E p \in Profiles, r \in BOOLEAN : FrameNotes(p, r, free, again)
      PROVE  Screened'
  BY <1>3, FrameScreened
<1>4. ASSUME NEW free \in BOOLEAN, SelectMove(1, free) \/ SelectMove(Len(con.order) - 1, free)
      PROVE  Screened'
  BY <1>4, MoveScreened
<1>5. ASSUME NEW free \in BOOLEAN, Builtin(free) PROVE Screened'
  BY <1>5, BuiltinScreened
<1>6. ASSUME NEW free \in BOOLEAN, NEW i \in 1..Cardinality(Profiles), RemoveProfile(i, free)
      PROVE  Screened'
  <2>1. i \in Nat
    BY <1>6 DEF RemoveProfile, LogInv, Good, Console
  <2> QED BY <1>6, <2>1, RemoveScreened
<1>7. CASE UNCHANGED vars
  BY <1>7 DEF vars, Screened
<1> QED BY <1>1, <1>2, <1>3, <1>4, <1>5, <1>6, <1>7 DEF Next

(* What is tidy and placed says all the run checks. *)
LEMMA ScreenedSaysAll == LogInv /\ Screened => LogsAreKept
<1> SUFFICES ASSUME LogInv, Screened PROVE LogsAreKept
  OBVIOUS
<1>1. /\ Good(con) /\ con \in Console /\ Listed(con) /\ Attached(con) \subseteq Profiles
      /\ Placed(con) /\ con.order \in Seq(Profiles)
  BY ScreenTypes DEF LogInv, Good, Screened, Console
<1>2. Cardinality(Attached(con)) = Len(con.order)
  <2> DEFINE o == con.order
             n == Len(o)
  <2>1. n \in Nat /\ DOMAIN o = 1..n
    BY <1>1
  <2>2. \A i, j \in 1..n : o[i] = o[j] => i = j
    BY <1>1, <2>1 DEF Listed
  <2>3. Attached(con) = {o[i] : i \in 1..n}
    BY <2>1 DEF Attached
  <2> HIDE DEF o, n
  <2> DEFINE f == [i \in 1..n |-> o[i]]
  <2>4. f \in Bijection(1..n, Attached(con))
    BY <2>1, <2>2, <2>3 DEF Bijection, Injection, Surjection, IsInjective
  <2>5. ExistsBijection(1..n, Attached(con))
    BY <2>4 DEF ExistsBijection
  <2>6. Cardinality(Attached(con)) = n
    BY <2>1, <2>5, FS_CountingElements
  <2> QED BY <2>6 DEF n, o
<1>3. TypeOK
  BY <1>1, <1>2 DEF TypeOK, Screened, Fitting
<1>4. OwnLines
  <2> SUFFICES ASSUME ~strayed, NEW p \in Attached(con), NEW q \in Profiles, NEW i \in DOMAIN LogOf(con, p),
                      LogOf(con, p)[i].of = q
               PROVE  q = p
    BY DEF OwnLines
  <2> DEFINE log == LogOf(con, p)
             queue == con.ses[p].queue
  <2>1. log \in Seq(Line) /\ queue \in Seq(Line) /\ Own(p, log \o queue)
    BY <1>1, ScreenTypes DEF Screened, Tidy, TidyLogs, Fine, LogOf, BotSession
  <2> HIDE DEF log, queue
  <2>2. Own(p, log)
    BY <2>1, Joined
  <2>3. log[i].of \in {p, Nobody}
    BY <2>2 DEF Own, log
  <2> QED BY <2>3, LogAssumption DEF log
<1>5. HolesAreCounted
  BY DEF HolesAreCounted, Screened, Tidy, TidyLogs, Fine
<1>6. ScreenIsSelected
  <2> SUFFICES ASSUME con.order # <<>>, con.synced # 0
               PROVE  OnScreen(con) /\ (~strayed => con.app.filter = chosen[Selected(con)])
    BY DEF ScreenIsSelected, OnScreen
  <2>1. OnScreen(con) /\ Selected(con) \in Attached(con) /\ Selected(con) \in Nth(con, con.synced)
    BY <1>1, WhoIsOn DEF Placed
  <2>2. ~strayed => Page(con, Selected(con)) = chosen[Selected(con)]
    BY <2>1 DEF Screened, Tidy, TidyPages
  <2> QED BY <2>1, <2>2 DEF Page
<1> QED BY <1>3, <1>4, <1>5, <1>6 DEF LogsAreKept

(* An account's log, its queue and the screen belong to it and to no other, *)
(* and what its bot said is there in order or counted as lost, for any      *)
(* number of accounts, any buffer sizes and any sequence of keys, frames    *)
(* and lines (app.rs, sync_from_selected; sessions.rs, drain_all).          *)
THEOREM LogsKept == Spec => []LogsAreKept
<1>1. LogInv /\ Screened /\ [Next]_vars => LogInv' /\ Screened'
  BY LogStep, ScreenedStep
<1>2. Init => LogInv /\ Screened
  BY LogInit, ScreenedInit
<1> QED BY <1>1, <1>2, ScreenedSaysAll, PTL DEF Spec
=============================================================================
