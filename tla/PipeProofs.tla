----------------------------- MODULE PipeProofs -----------------------------
(* Framing implements Pipe, whatever the sizes of packets and reads; and    *)
(* what Cipher seals at one end it opens at the other; and no half of a     *)
(* body is believed by a handler that asks for `failed`.                    *)
EXTENDS Wire, SequenceTheorems, WellFoundedInduction, TLAPS

StreamByte == [iv : Nat, at : Nat \ {0}, body : Bodies]
Width(b) == HeaderLen + Size[b]

(* What comes after the byte d.                                             *)
NextIv(d) == IF d.at < Width(d.body) THEN d.iv ELSE d.iv + 1
NextAt(d) == IF d.at < Width(d.body) THEN d.at + 1 ELSE 1

(* The bytes of src from packet `first` on, as far as they go.              *)
Stream(q, first, src) ==
    /\ q \in Seq(StreamByte)
    /\ \A i \in 1..Len(q) : /\ q[i].iv < Len(src) /\ q[i].body = src[q[i].iv + 1]
                            /\ q[i].at <= Width(q[i].body)
    /\ Len(q) > 0 => q[1].iv = first /\ q[1].at = 1
    /\ \A i \in 1..Len(q) : i < Len(q) => /\ q[i + 1].iv = NextIv(q[i])
                                          /\ q[i + 1].at = NextAt(q[i])

(* The byte that comes next is the k-th of packet n.                        *)
Expects(q, first, n, k) ==
    IF Len(q) = 0 THEN n = first /\ k = 1
    ELSE n = NextIv(q[Len(q)]) /\ k = NextAt(q[Len(q)])

ToBot ==
    ~torn => /\ Stream(inbox \o sent, cipher.recv, said)
             /\ Expects(inbox \o sent, cipher.recv, Len(said), 1)
             /\ cipher.recv = Len(heard)

ToServer ==
    /\ Stream(written, serverIv, asked)
    /\ serverIv = Len(answered) /\ cipher.send = Len(asked)
    /\ open => IF step = "sending"
               THEN Len(asked) > 0 /\ Expects(written, serverIv, Len(asked) - 1, HeaderLen + 1)
               ELSE Expects(written, serverIv, Len(asked), 1)

Kinds ==
    /\ inbox \in Seq(StreamByte) /\ sent \in Seq(StreamByte)
    /\ said \in Seq(Bodies) /\ asked \in Seq(Bodies)
    /\ heard \in Seq(Bodies \cup {Noise}) /\ answered \in Seq(Bodies)
    /\ cipher \in [keyed : BOOLEAN, send : Nat, recv : Nat] /\ cipher.keyed /\ serverIv \in Nat
    /\ torn \in BOOLEAN /\ (step = "sending" => Len(asked) > 0)

PipeInv == Kinds /\ ToBot /\ ToServer

-----------------------------------------------------------------------------
(* Packets on the stream.                                                   *)
LEMMA Widths ==
    ASSUME NEW b \in Bodies
    PROVE  /\ Size[b] \in Nat /\ Size[b] > 0 /\ HeaderLen \in Nat /\ HeaderLen > 0
           /\ Width(b) \in Nat /\ Width(b) = HeaderLen + Size[b]
BY FramingAssumption DEF Width

LEMMA BytesType ==
    ASSUME NEW b \in Bodies, NEW iv \in Nat
    PROVE  /\ Bytes(iv, b) \in Seq(StreamByte) /\ Len(Bytes(iv, b)) = Width(b)
           /\ \A i \in 1..Width(b) : Bytes(iv, b)[i] = [iv |-> iv, at |-> i, body |-> b]
<1>1. Width(b) \in Nat
  BY Widths
<1>2. Bytes(iv, b) = [i \in 1..Width(b) |-> [iv |-> iv, at |-> i, body |-> b]]
  BY DEF Bytes, Width
<1>3. \A i \in 1..Width(b) : [iv |-> iv, at |-> i, body |-> b] \in StreamByte
  BY <1>1 DEF StreamByte
<1> QED BY <1>1, <1>2, <1>3

LEMMA PartsType ==
    ASSUME NEW b \in Bodies, NEW iv \in Nat
    PROVE  /\ Header(iv, b) \in Seq(StreamByte) /\ Len(Header(iv, b)) = HeaderLen
           /\ \A i \in 1..HeaderLen : Header(iv, b)[i] = [iv |-> iv, at |-> i, body |-> b]
           /\ Payload(iv, b) \in Seq(StreamByte) /\ Len(Payload(iv, b)) = Size[b]
           /\ \A i \in 1..Size[b] : Payload(iv, b)[i] = [iv |-> iv, at |-> HeaderLen + i, body |-> b]
<1> DEFINE y == Bytes(iv, b)
<1>1. /\ \A i \in 1..Width(b) : y[i] \in StreamByte /\ y[i] = [iv |-> iv, at |-> i, body |-> b]
      /\ HeaderLen \in Nat /\ HeaderLen > 0 /\ Size[b] \in Nat /\ Size[b] > 0
      /\ Width(b) = HeaderLen + Size[b]
  BY BytesType, Widths, ElementOfSeq
<1> HIDE DEF y
<1>2. /\ SubSeq(y, 1, HeaderLen) \in Seq(StreamByte) /\ Len(SubSeq(y, 1, HeaderLen)) = HeaderLen
      /\ \A i \in 1..HeaderLen : SubSeq(y, 1, HeaderLen)[i] = y[i]
  <2>0. \A i \in 1..HeaderLen : i \in 1..Width(b)
    BY <1>1
  <2>1. \A i \in 1..HeaderLen : y[i] \in StreamByte
    BY <1>1, <2>0
  <2> QED BY <1>1, <2>1, SubSeqProperties
<1>3. /\ SubSeq(y, HeaderLen + 1, Width(b)) \in Seq(StreamByte)
      /\ Len(SubSeq(y, HeaderLen + 1, Width(b))) = Size[b]
      /\ \A i \in 1..Size[b] : SubSeq(y, HeaderLen + 1, Width(b))[i] = y[HeaderLen + i]
  <2>0. \A i \in (HeaderLen + 1)..Width(b) : i \in 1..Width(b)
    BY <1>1
  <2>1. \A i \in (HeaderLen + 1)..Width(b) : y[i] \in StreamByte
    BY <1>1, <2>0
  <2>2. Width(b) \in Int /\ HeaderLen + 1 \in Int /\ HeaderLen + 1 <= Width(b)
        /\ Width(b) - (HeaderLen + 1) + 1 = Size[b]
    BY <1>1
  <2>3. /\ SubSeq(y, HeaderLen + 1, Width(b)) \in Seq(StreamByte)
        /\ Len(SubSeq(y, HeaderLen + 1, Width(b))) = Size[b]
        /\ \A i \in 1..Size[b] :
              SubSeq(y, HeaderLen + 1, Width(b))[i] = y[(HeaderLen + 1) + i - 1]
    BY <2>1, <2>2, SubSeqProperties
  <2>4. \A i \in 1..Size[b] : (HeaderLen + 1) + i - 1 = HeaderLen + i
    BY <1>1
  <2> QED BY <2>3, <2>4
<1>4. \A i \in 1..Size[b] : HeaderLen + i \in 1..Width(b)
  BY <1>1
<1>5. \A i \in 1..HeaderLen : i \in 1..Width(b)
  BY <1>1
<1>6. Header(iv, b) = SubSeq(y, 1, HeaderLen)
      /\ Payload(iv, b) = SubSeq(y, HeaderLen + 1, Width(b))
  BY DEF Header, Payload, y, Width
<1> QED BY <1>1, <1>2, <1>3, <1>4, <1>5, <1>6

LEMMA LeastOf ==
    ASSUME NEW T \in SUBSET Nat, T # {}
    PROVE  \E m \in T : \A k \in T : m <= k
<1>1. PICK m \in T : \A k \in T : ~(<<k, m>> \in OpToRel(<, Nat))
  BY WFMin, NatLessThanWellFounded, Zenon
<1>2. \A k \in T : ~(k < m)
  BY <1>1, Zenon DEF OpToRel
<1> QED BY <1>2

(* A stream begins with the bytes of its first packet, in order.            *)
LEMMA StreamHead ==
    ASSUME NEW q, NEW first \in Nat, NEW src \in Seq(Bodies), Stream(q, first, src), Len(q) > 0
    PROVE  /\ first < Len(src) /\ src[first + 1] \in Bodies
           /\ \A i \in 1..Len(q) : i <= Width(src[first + 1]) =>
                 q[i].iv = first /\ q[i].at = i /\ q[i].body = src[first + 1]
<1> DEFINE b == src[first + 1]
           T == {i \in 1..Len(q) : i <= Width(b) /\ ~(q[i].iv = first /\ q[i].at = i)}
<1>1. q \in Seq(StreamByte) /\ Len(q) \in Nat /\ \A i \in 1..Len(q) : q[i] \in StreamByte
  BY DEF Stream
<1>2. q[1].iv = first /\ q[1].at = 1 /\ first < Len(src)
  BY <1>1 DEF Stream
<1>3. b \in Bodies
  <2>1. first + 1 \in 1..Len(src)
    BY <1>2
  <2> QED BY <2>1
<1>4. Width(b) \in Nat
  BY <1>3, Widths
<1>5. \A i \in 1..Len(q) : q[i].iv = first => q[i].body = b
  BY DEF Stream
<1> HIDE DEF b
<1>6. T = {}
  <2>1. SUFFICES ASSUME T # {} PROVE FALSE
    OBVIOUS
  <2>2. T \in SUBSET Nat
    OBVIOUS
  <2>3. PICK m \in T : \A k \in T : m <= k
    BY <2>1, <2>2, LeastOf
  <2>4. m \in 1..Len(q) /\ m <= Width(b) /\ m # 1 /\ ~(q[m].iv = first /\ q[m].at = m)
    BY <1>2, <2>3
  <2>5. m - 1 \in 1..Len(q) /\ m - 1 < Len(q) /\ m - 1 \notin T /\ m - 1 < Width(b)
        /\ (m - 1) + 1 = m
    BY <1>1, <1>4, <2>3, <2>4
  <2>6. q[m - 1].iv = first /\ q[m - 1].at = m - 1
    <3>1. m - 1 <= Width(b)
      BY <1>1, <1>4, <2>4, <2>5
    <3> QED BY <2>5, <3>1
  <2>7. q[m].iv = NextIv(q[m - 1]) /\ q[m].at = NextAt(q[m - 1])
    BY <2>5 DEF Stream
  <2>8. q[m - 1].body = b
    BY <1>5, <2>5, <2>6
  <2> HIDE DEF T
  <2> QED BY <1>1, <2>4, <2>5, <2>6, <2>7, <2>8 DEF NextIv, NextAt
<1> QED BY <1>2, <1>3, <1>5, <1>6 DEF b

(* A packet that is whole at the head of a stream is its first, as spoken.  *)
LEMMA HeadParts ==
    ASSUME NEW p, NEW first \in Nat, NEW src \in Seq(Bodies), Stream(p, first, src),
           NEW n \in Complete(p)
    PROVE  /\ first < Len(src) /\ src[first + 1] \in Bodies
           /\ n = Size[src[first + 1]] /\ Len(p) >= Width(src[first + 1])
           /\ Decrypted(p, TRUE, first) = src[first + 1]
<1> DEFINE b == src[first + 1]
<1>1. p \in Seq(StreamByte) /\ Len(p) \in Nat
  BY DEF Stream
<1>2. HeaderLen \in Nat /\ HeaderLen > 0
  BY FramingAssumption
<1>3. Len(p) >= HeaderLen
  BY DEF Complete, HeaderLengths, Aligned
<1>4. Len(p) > 0
  BY <1>1, <1>2, <1>3
<1>5. /\ first < Len(src) /\ b \in Bodies
      /\ \A i \in 1..Len(p) : i <= Width(b) => p[i].iv = first /\ p[i].at = i /\ p[i].body = b
  BY <1>4, StreamHead
<1>6. Width(b) = HeaderLen + Size[b] /\ Size[b] \in Nat /\ Size[b] > 0
  BY <1>5, Widths
<1> HIDE DEF b
<1>7. \A i \in 1..HeaderLen : i \in 1..Len(p) /\ i <= Width(b)
  BY <1>1, <1>2, <1>3, <1>6
<1>8. \A i \in 1..HeaderLen : p[i].iv = first /\ p[i].at = i /\ p[i].body = b
  BY <1>5, <1>7
<1>9. p[1].iv = first /\ p[1].body = b
  BY <1>2, <1>8
<1>10. Aligned(p)
  BY <1>3, <1>8, <1>9 DEF Aligned
<1>11. n = Size[b] /\ Len(p) >= HeaderLen + n
  BY <1>9, <1>10 DEF Complete, HeaderLengths
<1>12. Decrypted(p, TRUE, first) = b
  BY <1>9, <1>10 DEF Decrypted
<1> QED BY <1>5, <1>6, <1>11, <1>12 DEF b

LEMMA DropType ==
    ASSUME NEW u \in Seq(StreamByte), NEW h \in Nat, h <= Len(u)
    PROVE  /\ SubSeq(u, h + 1, Len(u)) \in Seq(StreamByte)
           /\ Len(SubSeq(u, h + 1, Len(u))) = Len(u) - h
           /\ \A i \in 1..(Len(u) - h) : SubSeq(u, h + 1, Len(u))[i] = u[h + i]
<1>1. Len(u) \in Nat
  OBVIOUS
<1>2. \A i \in (h + 1)..Len(u) : u[i] \in StreamByte
  BY <1>1
<1>3. /\ SubSeq(u, h + 1, Len(u)) \in Seq(StreamByte)
      /\ Len(SubSeq(u, h + 1, Len(u))) = IF h + 1 <= Len(u) THEN Len(u) - (h + 1) + 1 ELSE 0
      /\ \A i \in 1..(Len(u) - (h + 1) + 1) : SubSeq(u, h + 1, Len(u))[i] = u[(h + 1) + i - 1]
  BY <1>1, <1>2, SubSeqProperties
<1>4. \A i \in 1..(Len(u) - h) : i \in 1..(Len(u) - (h + 1) + 1) /\ (h + 1) + i - 1 = h + i
  BY <1>1
<1>5. (IF h + 1 <= Len(u) THEN Len(u) - (h + 1) + 1 ELSE 0) = Len(u) - h
  BY <1>1
<1> QED BY <1>3, <1>4, <1>5

(* What is left when the first packet is taken off is a stream of the rest. *)
LEMMA StreamRest ==
    ASSUME NEW q, NEW first \in Nat, NEW src \in Seq(Bodies), Stream(q, first, src),
           first < Len(src), src[first + 1] \in Bodies, Len(q) >= Width(src[first + 1])
    PROVE  LET r == Rest(q, Size[src[first + 1]])
           IN /\ Stream(r, first + 1, src)
              /\ \A n, k : Expects(q, first, n, k) => Expects(r, first + 1, n, k)
<1> DEFINE b == src[first + 1]
           w == Width(b)
           r == Rest(q, Size[b])
<1>1. q \in Seq(StreamByte) /\ Len(q) \in Nat
  BY DEF Stream
<1>2. w \in Nat /\ w > 0 /\ w = HeaderLen + Size[b] /\ w <= Len(q)
      /\ HeaderLen \in Nat /\ Size[b] \in Nat
  BY Widths
<1>3. q[w].iv = first /\ q[w].at = w /\ q[w].body = b
  BY <1>1, <1>2, StreamHead
<1> HIDE DEF b
<1>4. r = SubSeq(q, w + 1, Len(q))
  BY <1>2 DEF Rest
<1> HIDE DEF w, r
<1>5. /\ r \in Seq(StreamByte) /\ Len(r) = Len(q) - w
      /\ \A i \in 1..(Len(q) - w) : r[i] = q[w + i]
  BY <1>1, <1>2, <1>4, DropType
<1>6. /\ \A i \in 1..Len(r) : /\ w + i \in 1..Len(q) /\ i + w = w + i
                              /\ i < Len(r) => /\ i + 1 \in 1..Len(r) /\ i + w < Len(q)
                                               /\ (i + 1) + w = (i + w) + 1
      /\ Len(r) \in Nat /\ Len(r) + w = Len(q)
      /\ (Len(r) > 0 => w < Len(q)) /\ (Len(r) = 0 => Len(q) = w)
  <2>1. Len(r) = Len(q) - w
    BY <1>5
  <2>2. /\ \A i \in 1..(Len(q) - w) :
             /\ w + i \in 1..Len(q) /\ i + w = w + i
             /\ i < Len(q) - w => /\ i + 1 \in 1..(Len(q) - w) /\ i + w < Len(q)
                                  /\ (i + 1) + w = (i + w) + 1
        /\ Len(q) - w \in Nat /\ (Len(q) - w) + w = Len(q)
        /\ (Len(q) - w > 0 => w < Len(q)) /\ (Len(q) - w = 0 => Len(q) = w)
    <3>1. Len(q) \in Nat /\ w \in Nat /\ w <= Len(q)
      BY <1>1, <1>2
    <3> QED BY ONLY <3>1
  <2> QED BY ONLY <2>1, <2>2, Zenon
<1>7. \A i \in 1..Len(r) : i + w \in 1..Len(q) /\ r[i] = q[i + w]
  <2>1. Len(r) = Len(q) - w /\ \A i \in 1..(Len(q) - w) : r[i] = q[w + i]
    BY <1>5
  <2>2. \A i \in 1..Len(r) : r[i] = q[w + i]
    BY ONLY <2>1
  <2> QED BY ONLY <1>6, <2>2
<1>8. \A i \in 1..Len(r) : i < Len(r) => r[i + 1] = q[(i + w) + 1] /\ i + w < Len(q)
  <2> SUFFICES ASSUME NEW i \in 1..Len(r), i < Len(r)
               PROVE  r[i + 1] = q[(i + w) + 1] /\ i + w < Len(q)
    OBVIOUS
  <2>1. i + 1 \in 1..Len(r) /\ (i + 1) + w = (i + w) + 1 /\ i + w < Len(q)
    BY <1>6
  <2> QED BY <1>7, <2>1
<1>9. Len(r) > 0 => r[1].iv = first + 1 /\ r[1].at = 1
  <2> SUFFICES ASSUME Len(r) > 0 PROVE r[1].iv = first + 1 /\ r[1].at = 1
    OBVIOUS
  <2>1. w \in 1..Len(q) /\ w < Len(q) /\ 1 \in 1..Len(r) /\ 1 + w = w + 1
    BY <1>1, <1>2, <1>6
  <2>2. r[1] = q[w + 1]
    BY <1>7, <2>1
  <2>3. q[w + 1].iv = NextIv(q[w]) /\ q[w + 1].at = NextAt(q[w])
    BY <2>1 DEF Stream
  <2>4. ~(q[w].at < Width(q[w].body))
    BY <1>2, <1>3 DEF w
  <2> QED BY <1>3, <2>2, <2>3, <2>4 DEF NextIv, NextAt
<1>10. \A i \in 1..Len(r) : /\ r[i].iv < Len(src) /\ r[i].body = src[r[i].iv + 1]
                            /\ r[i].at <= Width(r[i].body)
  BY <1>7 DEF Stream
<1>11. \A i \in 1..Len(r) : i < Len(r) => /\ r[i + 1].iv = NextIv(r[i])
                                          /\ r[i + 1].at = NextAt(r[i])
  <2> SUFFICES ASSUME NEW i \in 1..Len(r), i < Len(r)
               PROVE  r[i + 1].iv = NextIv(r[i]) /\ r[i + 1].at = NextAt(r[i])
    OBVIOUS
  <2>1. i + w \in 1..Len(q) /\ i + w < Len(q) /\ r[i + 1] = q[(i + w) + 1] /\ r[i] = q[i + w]
    BY <1>7, <1>8
  <2> QED BY <2>1 DEF Stream
<1>12. Stream(r, first + 1, src)
  BY <1>5, <1>9, <1>10, <1>11 DEF Stream
<1>13. ASSUME NEW n, NEW k, Expects(q, first, n, k) PROVE Expects(r, first + 1, n, k)
  <2>0. Len(q) # 0 /\ n = NextIv(q[Len(q)]) /\ k = NextAt(q[Len(q)])
    BY <1>1, <1>2, <1>13 DEF Expects
  <2>1. CASE Len(r) = 0
    <3>1. Len(q) = w
      BY <1>6, <2>1
    <3>2. ~(q[w].at < Width(q[w].body))
      BY <1>2, <1>3 DEF w
    <3> QED BY <1>3, <2>0, <2>1, <3>1, <3>2 DEF Expects, NextIv, NextAt
  <2>2. CASE Len(r) # 0
    <3>1. Len(r) \in 1..Len(r) /\ Len(r) + w = Len(q)
      BY <1>6, <2>2
    <3>2. r[Len(r)] = q[Len(q)]
      BY <1>7, <3>1
    <3> QED BY <2>0, <2>2, <3>2 DEF Expects
  <2> QED BY <2>1, <2>2
<1>14. r = Rest(q, Size[src[first + 1]])
  BY DEF r, b
<1> QED BY <1>12, <1>13, <1>14

(* The next bytes of the next packet go on the end of a stream.             *)
LEMMA StreamJoin ==
    ASSUME NEW q, NEW first \in Nat, NEW src \in Seq(Bodies), Stream(q, first, src),
           NEW n \in Nat, NEW k \in Nat \ {0}, Expects(q, first, n, k),
           n < Len(src), src[n + 1] \in Bodies,
           NEW c \in Seq(StreamByte), Len(c) > 0, k + Len(c) - 1 <= Width(src[n + 1]),
           \A i \in 1..Len(c) : c[i] = [iv |-> n, at |-> k + i - 1, body |-> src[n + 1]]
    PROVE  /\ Stream(q \o c, first, src)
           /\ IF k + Len(c) - 1 = Width(src[n + 1])
              THEN Expects(q \o c, first, n + 1, 1)
              ELSE Expects(q \o c, first, n, k + Len(c))
<1> DEFINE b == src[n + 1]
           w == Width(b)
           s == q \o c
<1>1. q \in Seq(StreamByte) /\ Len(q) \in Nat /\ Len(c) \in Nat
  BY DEF Stream
<1>2. w \in Nat
  BY Widths
<1>3. /\ s \in Seq(StreamByte) /\ Len(s) = Len(q) + Len(c)
      /\ \A i \in 1..(Len(q) + Len(c)) : s[i] = IF i <= Len(q) THEN q[i] ELSE c[i - Len(q)]
  BY <1>1, ConcatProperties
<1> HIDE DEF s
<1>4. \A i \in 1..Len(q) : s[i] = q[i]
  <2>1. \A i \in 1..Len(q) : i \in 1..(Len(q) + Len(c)) /\ i <= Len(q)
    BY <1>1
  <2> QED BY <1>3, <2>1
<1>5. \A i \in 1..Len(c) : s[Len(q) + i] = [iv |-> n, at |-> k + i - 1, body |-> b]
  <2> SUFFICES ASSUME NEW i \in 1..Len(c) PROVE s[Len(q) + i] = c[i]
    OBVIOUS
  <2>1. Len(q) + i \in 1..(Len(q) + Len(c)) /\ ~(Len(q) + i <= Len(q)) /\ (Len(q) + i) - Len(q) = i
    BY <1>1
  <2> QED BY <1>3, <2>1
<1> HIDE DEF b, w
<1>6. \A i \in 1..Len(s) : /\ s[i].iv < Len(src) /\ s[i].body = src[s[i].iv + 1]
                           /\ s[i].at <= Width(s[i].body)
  <2> SUFFICES ASSUME NEW i \in 1..Len(s)
               PROVE  /\ s[i].iv < Len(src) /\ s[i].body = src[s[i].iv + 1]
                      /\ s[i].at <= Width(s[i].body)
    OBVIOUS
  <2>1. CASE i <= Len(q)
    <3>1. i \in 1..Len(q)
      BY <1>1, <1>3, <2>1
    <3> QED BY <1>4, <3>1 DEF Stream
  <2>2. CASE ~(i <= Len(q))
    <3>1. PICK j \in 1..Len(c) : i = Len(q) + j
      <4>1. i - Len(q) \in 1..Len(c) /\ i = Len(q) + (i - Len(q))
        BY <1>1, <1>3, <2>2
      <4> QED BY <4>1
    <3>2. s[i] = [iv |-> n, at |-> k + j - 1, body |-> b]
      BY <1>5, <3>1
    <3>3. k + j - 1 <= w
      BY <1>1, <1>2, <3>1 DEF b, w
    <3> QED BY <3>2, <3>3 DEF b, w
  <2> QED BY <2>1, <2>2
<1>7. s[Len(q) + 1].iv = n /\ s[Len(q) + 1].at = k
  <2>1. 1 \in 1..Len(c) /\ k + 1 - 1 = k
    BY <1>1
  <2>2. s[Len(q) + 1] = [iv |-> n, at |-> k + 1 - 1, body |-> b]
    BY ONLY <1>5, <2>1
  <2> QED BY ONLY <2>1, <2>2
<1>8. s[1].iv = first /\ s[1].at = 1
  <2>1. CASE Len(q) = 0
    BY <1>7, <2>1 DEF Expects
  <2>2. CASE Len(q) # 0
    <3>1. 1 \in 1..Len(q) /\ Len(q) > 0
      BY <1>1, <2>2
    <3> QED BY <1>4, <3>1 DEF Stream
  <2> QED BY <2>1, <2>2
<1>9. \A i \in 1..Len(s) : i < Len(s) => /\ s[i + 1].iv = NextIv(s[i])
                                         /\ s[i + 1].at = NextAt(s[i])
  <2> SUFFICES ASSUME NEW i \in 1..Len(s), i < Len(s)
               PROVE  s[i + 1].iv = NextIv(s[i]) /\ s[i + 1].at = NextAt(s[i])
    OBVIOUS
  <2>1. CASE i < Len(q)
    <3>1. i \in 1..Len(q) /\ i + 1 \in 1..Len(q)
      BY <1>1, <2>1
    <3>2. s[i] = q[i] /\ s[i + 1] = q[i + 1]
      BY <1>4, <3>1
    <3> QED BY <2>1, <3>1, <3>2 DEF Stream
  <2>2. CASE i = Len(q)
    <3>1. i \in 1..Len(q) /\ Len(q) # 0
      BY <1>1, <2>2
    <3>2. s[i] = q[Len(q)]
      BY <1>4, <2>2, <3>1
    <3> QED BY <1>7, <2>2, <3>1, <3>2 DEF Expects
  <2>3. CASE i > Len(q)
    <3>1. PICK j \in 1..Len(c) : i = Len(q) + j
      <4>1. i - Len(q) \in 1..Len(c) /\ i = Len(q) + (i - Len(q))
        BY <1>1, <1>3, <2>3
      <4> QED BY <4>1
    <3>2. j + 1 \in 1..Len(c) /\ i + 1 = Len(q) + (j + 1) /\ k + (j + 1) - 1 = (k + j - 1) + 1
          /\ k + j - 1 \in Int
      BY <1>1, <1>3, <3>1
    <3>3. s[i] = [iv |-> n, at |-> k + j - 1, body |-> b]
      BY <1>5, <3>1
    <3>4. s[i + 1] = [iv |-> n, at |-> (k + j - 1) + 1, body |-> b]
      BY <1>5, <3>2
    <3>5. k + j - 1 < w
      BY <1>1, <1>2, <3>1, <3>2, SMTT(30) DEF b, w
    <3> QED BY <3>3, <3>4, <3>5 DEF NextIv, NextAt, w
  <2> QED BY <1>1, <1>3, <2>1, <2>2, <2>3
<1>10. Stream(s, first, src)
  BY <1>3, <1>6, <1>8, <1>9 DEF Stream
<1>11. s[Len(s)] = [iv |-> n, at |-> k + Len(c) - 1, body |-> b] /\ Len(s) # 0
  <2>1. Len(c) \in 1..Len(c) /\ Len(s) # 0
    BY <1>1, <1>3
  <2> QED BY <1>3, <1>5, <2>1
<1>12. CASE k + Len(c) - 1 = w
  <2>1. NextIv(s[Len(s)]) = n + 1 /\ NextAt(s[Len(s)]) = 1
    <3>1. ~(k + Len(c) - 1 < w)
      BY <1>2, <1>12
    <3> QED BY <1>11, <3>1 DEF NextIv, NextAt, w
  <2>2. Expects(s, first, n + 1, 1)
    BY <1>11, <2>1 DEF Expects
  <2>3. Stream(q \o c, first, src) /\ Expects(q \o c, first, n + 1, 1)
    BY <1>10, <2>2 DEF s
  <2>4. k + Len(c) - 1 = Width(src[n + 1])
    BY <1>12 DEF b, w
  <2> QED BY <2>3, <2>4
<1>13. CASE k + Len(c) - 1 # w
  <2>1. k + Len(c) - 1 < w /\ (k + Len(c) - 1) + 1 = k + Len(c)
    <3>1. k + Len(c) - 1 <= w
      BY DEF b, w
    <3>2. k \in Nat
      OBVIOUS
    <3> QED BY ONLY <1>1, <1>2, <1>13, <3>1, <3>2
  <2>2. NextIv(s[Len(s)]) = n /\ NextAt(s[Len(s)]) = k + Len(c)
    BY <1>11, <2>1 DEF NextIv, NextAt, w
  <2>3. Expects(s, first, n, k + Len(c))
    BY <1>11, <2>2 DEF Expects
  <2>4. Stream(q \o c, first, src) /\ Expects(q \o c, first, n, k + Len(c))
    BY <1>10, <2>3 DEF s
  <2>5. k + Len(c) - 1 # Width(src[n + 1])
    BY <1>13 DEF b, w
  <2> QED BY <2>4, <2>5
<1> QED BY <1>12, <1>13

(* One more packet is spoken: nothing on the way changes.                   *)
LEMMA StreamGrows ==
    ASSUME NEW q, NEW first \in Nat, NEW src \in Seq(Bodies), NEW b \in Bodies, Stream(q, first, src)
    PROVE  Stream(q, first, Append(src, b))
<1>1. /\ Append(src, b) \in Seq(Bodies) /\ Len(Append(src, b)) = Len(src) + 1
      /\ \A i \in 1..Len(src) : Append(src, b)[i] = src[i]
  BY AppendProperties
<1>2. \A i \in 1..Len(q) : /\ q[i].iv < Len(Append(src, b))
                           /\ q[i].body = Append(src, b)[q[i].iv + 1]
                           /\ q[i].at <= Width(q[i].body)
  <2> SUFFICES ASSUME NEW i \in 1..Len(q)
               PROVE  /\ q[i].iv < Len(Append(src, b)) /\ q[i].body = Append(src, b)[q[i].iv + 1]
                      /\ q[i].at <= Width(q[i].body)
    OBVIOUS
  <2>1. q[i] \in StreamByte /\ q[i].iv < Len(src) /\ q[i].body = src[q[i].iv + 1]
        /\ q[i].at <= Width(q[i].body)
    BY DEF Stream
  <2>2. q[i].iv \in Nat
    BY <2>1 DEF StreamByte
  <2>3. q[i].iv + 1 \in 1..Len(src)
    BY <2>1, <2>2
  <2> QED BY <1>1, <2>1, <2>2, <2>3
<1> QED BY <1>2 DEF Stream

(* The beginning of a stream is one.                                        *)
LEMMA StreamPrefix ==
    ASSUME NEW p \in Seq(StreamByte), NEW t \in Seq(StreamByte), NEW first, NEW src, Stream(p \o t, first, src)
    PROVE  Stream(p, first, src)
<1>1. /\ Len(p) \in Nat /\ Len(t) \in Nat /\ Len(p \o t) = Len(p) + Len(t)
      /\ \A i \in 1..(Len(p) + Len(t)) : (p \o t)[i] = IF i <= Len(p) THEN p[i] ELSE t[i - Len(p)]
  BY ConcatProperties
<1>2. \A i \in 1..Len(p) : i \in 1..Len(p \o t) /\ (p \o t)[i] = p[i]
  BY <1>1
<1>3. \A i \in 1..Len(p) : i < Len(p) => (p \o t)[i + 1] = p[i + 1] /\ i < Len(p \o t)
  BY <1>1
<1>4. Len(p) > 0 => 1 \in 1..Len(p) /\ Len(p \o t) > 0
  BY <1>1
<1> QED BY <1>2, <1>3, <1>4 DEF Stream

(* To take a packet off what was read is to take it off the whole stream.   *)
LEMMA RestOfConcat ==
    ASSUME NEW p \in Seq(StreamByte), NEW t \in Seq(StreamByte), NEW n \in Nat, Len(p) >= HeaderLen + n
    PROVE  Rest(p, n) \in Seq(StreamByte) /\ Rest(p, n) \o t = Rest(p \o t, n)
<1> DEFINE h == HeaderLen + n
           r == Rest(p, n)
           s == Rest(p \o t, n)
<1>1. h \in Nat /\ Len(p) \in Nat /\ Len(t) \in Nat /\ h <= Len(p)
  BY FramingAssumption
<1>2. /\ p \o t \in Seq(StreamByte) /\ Len(p \o t) = Len(p) + Len(t)
      /\ \A i \in 1..(Len(p) + Len(t)) : (p \o t)[i] = IF i <= Len(p) THEN p[i] ELSE t[i - Len(p)]
  BY ConcatProperties
<1>3. r = SubSeq(p, h + 1, Len(p)) /\ s = SubSeq(p \o t, h + 1, Len(p \o t))
  BY <1>1, FramingAssumption DEF Rest
<1> HIDE DEF h, r, s
<1>5. r \in Seq(StreamByte) /\ Len(r) = Len(p) - h /\ \A i \in 1..(Len(p) - h) : r[i] = p[h + i]
  BY <1>1, <1>3, DropType
<1>6. /\ s \in Seq(StreamByte) /\ Len(s) = Len(p \o t) - h
      /\ \A i \in 1..(Len(p \o t) - h) : s[i] = (p \o t)[h + i]
  <2>1. h <= Len(p \o t)
    BY <1>1, <1>2
  <2> QED BY <1>1, <1>2, <1>3, <2>1, DropType
<1>7. /\ r \o t \in Seq(StreamByte) /\ Len(r \o t) = Len(r) + Len(t)
      /\ \A i \in 1..(Len(r) + Len(t)) : (r \o t)[i] = IF i <= Len(r) THEN r[i] ELSE t[i - Len(r)]
  BY <1>5, ConcatProperties
<1>8. Len(r \o t) = Len(s)
  BY <1>1, <1>2, <1>5, <1>6, <1>7
<1>9. ASSUME NEW i \in 1..Len(r \o t) PROVE (r \o t)[i] = s[i]
  <2>1. i \in 1..(Len(r) + Len(t)) /\ i \in 1..(Len(p \o t) - h) /\ h + i \in 1..(Len(p) + Len(t))
    BY <1>1, <1>2, <1>5, <1>7
  <2>2. CASE i <= Len(r)
    <3>1. i \in 1..(Len(p) - h) /\ h + i <= Len(p)
      BY <1>1, <1>5, <2>1, <2>2
    <3> QED BY <1>2, <1>5, <1>6, <1>7, <2>1, <2>2, <3>1
  <2>3. CASE ~(i <= Len(r))
    <3>1. ~(h + i <= Len(p)) /\ (h + i) - Len(p) = i - Len(r)
      BY <1>1, <1>5, <2>1, <2>3
    <3> QED BY <1>2, <1>6, <1>7, <2>1, <2>3, <3>1
  <2> QED BY <2>2, <2>3
<1>10. r \o t = s
  BY <1>6, <1>7, <1>8, <1>9, SeqEqual
<1> QED BY <1>5, <1>10 DEF r, s

-----------------------------------------------------------------------------
(* The invariant.                                                           *)
LEMMA NothingYet ==
    ASSUME NEW src \in Seq(Bodies)
    PROVE  /\ <<>> \in Seq(StreamByte) /\ Stream(<<>>, 0, src) /\ Expects(<<>>, 0, 0, 1)
           /\ <<>> \o <<>> = <<>>
<1>1. <<>> \in Seq(StreamByte) /\ Len(<<>>) = 0 /\ <<>> \o <<>> = <<>>
  BY EmptySeq, ConcatEmptySeq
<1> QED BY <1>1 DEF Stream, Expects

(* All that is put together or cut out of what was read is one packet.      *)
LEMMA ReadType ==
    ASSUME NEW p \in Seq(StreamByte), NEW n \in Complete(p), NEW iv
    PROVE  /\ n \in Nat /\ Len(p) >= HeaderLen + n /\ Rest(p, n) \in Seq(StreamByte)
           /\ Decrypted(p, TRUE, iv) \in Bodies \cup {Noise}
<1>1. Len(p) \in Nat /\ HeaderLen \in Nat /\ HeaderLen > 0
  BY FramingAssumption
<1>2. Len(p) >= HeaderLen /\ Len(p) >= HeaderLen + n
  BY DEF Complete, HeaderLengths, Aligned
<1>3. 1 \in 1..Len(p)
  BY <1>1, <1>2
<1>4. p[1].body \in Bodies
  <2>1. p[1] \in StreamByte
    BY <1>3, ElementOfSeq
  <2> QED BY <2>1 DEF StreamByte
<1>5. n \in Nat
  <2>1. CASE Aligned(p)
    BY <1>4, <2>1, FramingAssumption DEF Complete, HeaderLengths
  <2>2. CASE ~Aligned(p)
    BY <1>1, <2>2 DEF Complete, HeaderLengths
  <2> QED BY <2>1, <2>2
<1>6. Rest(p, n) \in Seq(StreamByte)
  <2>1. <<>> \in Seq(StreamByte)
    BY EmptySeq
  <2> QED BY <1>2, <1>5, <2>1, RestOfConcat
<1> QED BY <1>2, <1>4, <1>5, <1>6 DEF Decrypted

LEMMA ConcatBytes ==
    ASSUME NEW p \in Seq(StreamByte), NEW t \in Seq(StreamByte), NEW u \in Seq(StreamByte)
    PROVE  p \o t \in Seq(StreamByte) /\ (p \o t) \o u = p \o (t \o u)
BY SMTT(20), ConcatProperties, ConcatAssociative

LEMMA ReadSplit ==
    ASSUME NEW p \in Seq(StreamByte), NEW t \in Seq(StreamByte), NEW n \in 1..Len(t)
    PROVE  /\ SubSeq(t, 1, n) \in Seq(StreamByte) /\ SubSeq(t, n + 1, Len(t)) \in Seq(StreamByte)
           /\ p \o SubSeq(t, 1, n) \in Seq(StreamByte)
           /\ (p \o SubSeq(t, 1, n)) \o SubSeq(t, n + 1, Len(t)) = p \o t
<1>1. Len(t) \in Nat /\ n \in Nat /\ n <= Len(t)
  OBVIOUS
<1>2. \A i \in 1..n : t[i] \in StreamByte
  BY <1>1
<1>3. SubSeq(t, 1, n) \in Seq(StreamByte)
  BY <1>1, <1>2, SubSeqProperties
<1>4. SubSeq(t, n + 1, Len(t)) \in Seq(StreamByte)
  BY <1>1, DropType
<1>5. SubSeq(t, 1, n) \o SubSeq(t, n + 1, Len(t)) = t
  <2>1. 1 \in 1..(Len(t) + 1) /\ n \in (1 - 1)..Len(t) /\ Len(t) \in n..Len(t)
    BY <1>1
  <2>2. SubSeq(t, 1, n) \o SubSeq(t, n + 1, Len(t)) = SubSeq(t, 1, Len(t))
    BY <2>1, ConcatAdjacentSubSeq
  <2> QED BY <2>2, SubSeqFull
<1>6. p \o SubSeq(t, 1, n) \in Seq(StreamByte)
  BY <1>3, ConcatProperties
<1>7. (p \o SubSeq(t, 1, n)) \o SubSeq(t, n + 1, Len(t))
        = p \o (SubSeq(t, 1, n) \o SubSeq(t, n + 1, Len(t)))
  <2> DEFINE x == SubSeq(t, 1, n)
             y == SubSeq(t, n + 1, Len(t))
  <2>1. x \in Seq(StreamByte) /\ y \in Seq(StreamByte)
    BY <1>3, <1>4
  <2> HIDE DEF x, y
  <2>2. (p \o x) \o y = p \o (x \o y)
    BY ZenonT(20), <2>1, ConcatBytes
  <2> QED BY <2>2 DEF x, y
<1> QED BY <1>3, <1>4, <1>5, <1>6, <1>7

LEMMA InvStart == FramingInit => PipeInv
<1> SUFFICES ASSUME FramingInit PROVE PipeInv
  OBVIOUS
<1>1. /\ <<>> \in Seq(Bodies) /\ <<>> \in Seq(Bodies \cup {Noise}) /\ <<>> \in Seq(StreamByte)
      /\ Len(<<>>) = 0
  BY EmptySeq
<1>2. Kinds
  BY <1>1 DEF FramingInit, Kinds, Fresh
<1>3. ToBot
  BY <1>1, NothingYet DEF FramingInit, ToBot, Fresh
<1>4. ToServer
  BY <1>1, NothingYet DEF FramingInit, ToServer, Fresh
<1> QED BY <1>2, <1>3, <1>4 DEF PipeInv

LEMMA InvRenewed == Connected => PipeInv'
<1> SUFFICES ASSUME Connected PROVE PipeInv'
  OBVIOUS
<1>1. /\ <<>> \in Seq(Bodies) /\ <<>> \in Seq(Bodies \cup {Noise}) /\ <<>> \in Seq(StreamByte)
      /\ Len(<<>>) = 0
  BY EmptySeq
<1>2. Kinds'
  BY <1>1 DEF Connected, Handshake, Kinds, Fresh
<1>3. ToBot'
  BY <1>1, NothingYet DEF Connected, Handshake, ToBot, Fresh
<1>4. ToServer'
  BY <1>1, NothingYet DEF Connected, Handshake, ToServer, Fresh
<1> QED BY <1>2, <1>3, <1>4 DEF PipeInv

(* The server speaks: a whole packet goes on the end of its stream.         *)
LEMMA InvSpeaks ==
    ASSUME PipeInv, NEW b \in Bodies, ServerSpeaks(b)
    PROVE  PipeInv'
<1>1. Kinds /\ ToBot /\ ToServer
  BY DEF PipeInv
<1>2. Len(said) \in Nat /\ said' \in Seq(Bodies) /\ Len(said') = Len(said) + 1
      /\ said'[Len(said) + 1] = b
  BY <1>1, AppendProperties DEF Kinds, ServerSpeaks
<1> DEFINE c == Bytes(Len(said), b)
<1>3. /\ c \in Seq(StreamByte) /\ Len(c) = Width(b) /\ Width(b) \in Nat /\ Width(b) > 0
      /\ \A i \in 1..Width(b) : c[i] = [iv |-> Len(said), at |-> i, body |-> b]
  <2>1. Len(said) \in Nat
    BY <1>2
  <2> QED BY ONLY <2>1, b \in Bodies, BytesType, Widths
<1>4. sent' = sent \o c
  BY DEF ServerSpeaks
<1> HIDE DEF c
<1>5. sent' \in Seq(StreamByte) /\ inbox \o sent' = (inbox \o sent) \o c
  <2>1. inbox \in Seq(StreamByte) /\ sent \in Seq(StreamByte)
    BY <1>1 DEF Kinds
  <2> QED BY ONLY SMTT(25), <1>3, <1>4, <2>1, ConcatBytes
<1>6. Kinds'
  BY <1>1, <1>2, <1>5 DEF Kinds, ServerSpeaks
<1>7. ToServer'
  BY <1>1 DEF ToServer, ServerSpeaks
<1>8. ToBot'
  <2> SUFFICES ASSUME ~torn PROVE ToBot'
    BY DEF ToBot, ServerSpeaks
  <2>1. /\ Stream(inbox \o sent, cipher.recv, said)
        /\ Expects(inbox \o sent, cipher.recv, Len(said), 1)
        /\ cipher.recv = Len(heard) /\ cipher.recv \in Nat
    BY <1>1 DEF ToBot, Kinds
  <2>2. Stream(inbox \o sent, cipher.recv, said')
    BY <1>1, <2>1, StreamGrows DEF Kinds, ServerSpeaks
  <2>3. \A i \in 1..Len(c) : c[i] = [iv |-> Len(said), at |-> 1 + i - 1, body |-> said'[Len(said) + 1]]
    BY <1>2, <1>3
  <2>4. 1 + Len(c) - 1 = Width(said'[Len(said) + 1]) /\ 1 + Len(c) - 1 <= Width(said'[Len(said) + 1])
        /\ Len(c) > 0 /\ Len(said) < Len(said') /\ 1 \in Nat \ {0}
    BY <1>2, <1>3
  <2>5. /\ Stream((inbox \o sent) \o c, cipher.recv, said')
        /\ Expects((inbox \o sent) \o c, cipher.recv, Len(said) + 1, 1)
    <3> DEFINE s == inbox \o sent
               src == said'
               n == Len(said)
    <3>1. /\ cipher.recv \in Nat /\ src \in Seq(Bodies) /\ Stream(s, cipher.recv, src)
          /\ n \in Nat /\ Expects(s, cipher.recv, n, 1) /\ src[n + 1] \in Bodies
      BY <1>2, <2>1, <2>2
    <3>2. /\ c \in Seq(StreamByte)
          /\ \A i \in 1..Len(c) : c[i] = [iv |-> n, at |-> 1 + i - 1, body |-> src[n + 1]]
          /\ 1 + Len(c) - 1 = Width(src[n + 1]) /\ 1 + Len(c) - 1 <= Width(src[n + 1])
          /\ Len(c) > 0 /\ n < Len(src) /\ 1 \in Nat \ {0}
      BY <1>3, <2>3, <2>4
    <3> HIDE DEF s, src, n
    <3>3. Stream(s \o c, cipher.recv, src) /\ Expects(s \o c, cipher.recv, n + 1, 1)
      BY ONLY <3>1, <3>2, StreamJoin
    <3> QED BY <3>3 DEF s, src, n
  <2> QED BY <1>2, <1>5, <2>1, <2>5 DEF ToBot, ServerSpeaks
<1> QED BY <1>6, <1>7, <1>8 DEF PipeInv

(* A read moves bytes from the stream to the inbox: together they are what  *)
(* they were.                                                               *)
LEMMA InvRead ==
    ASSUME PipeInv, NEW n \in 1..Len(sent), Read(n)
    PROVE  PipeInv'
<1>1. Kinds /\ ToBot /\ ToServer
  BY DEF PipeInv
<1>2. inbox' \in Seq(StreamByte) /\ sent' \in Seq(StreamByte) /\ inbox' \o sent' = inbox \o sent
  BY <1>1, ReadSplit DEF Kinds, Read
<1>3. Kinds'
  BY <1>1, <1>2 DEF Kinds, Read
<1>4. ToBot'
  BY <1>1, <1>2 DEF ToBot, Read
<1>5. ToServer'
  BY <1>1 DEF ToServer, Read
<1> QED BY <1>3, <1>4, <1>5 DEF PipeInv

(* What a whole packet at the head of the inbox is to the bot.              *)
LEMMA HeardNext ==
    ASSUME PipeInv, ~torn, NEW n \in Complete(inbox)
    PROVE  /\ Len(heard) < Len(said) /\ Len(heard) = cipher.recv
           /\ Decrypted(inbox, TRUE, cipher.recv) = said[Len(heard) + 1]
           /\ Stream(Rest(inbox, n) \o sent, cipher.recv + 1, said)
           /\ Expects(Rest(inbox, n) \o sent, cipher.recv + 1, Len(said), 1)
<1>1. Kinds /\ ToBot
  BY DEF PipeInv
<1>2. /\ inbox \in Seq(StreamByte) /\ sent \in Seq(StreamByte) /\ said \in Seq(Bodies)
      /\ cipher.recv \in Nat /\ cipher.recv = Len(heard)
      /\ Stream(inbox \o sent, cipher.recv, said)
      /\ Expects(inbox \o sent, cipher.recv, Len(said), 1)
  BY <1>1 DEF Kinds, ToBot
<1>3. Stream(inbox, cipher.recv, said)
  BY <1>2, StreamPrefix
<1> DEFINE b == said[cipher.recv + 1]
<1>4. /\ cipher.recv < Len(said) /\ b \in Bodies
      /\ n = Size[b] /\ Len(inbox) >= Width(b)
      /\ Decrypted(inbox, TRUE, cipher.recv) = b
  BY <1>2, <1>3, HeadParts
<1>5. n \in Nat /\ Len(inbox) >= HeaderLen + n
  BY <1>2, ReadType
<1>6. Rest(inbox, n) \o sent = Rest(inbox \o sent, n)
  BY <1>2, <1>5, RestOfConcat
<1>7. Len(inbox \o sent) >= Width(b)
  <2>1. Len(inbox \o sent) = Len(inbox) + Len(sent) /\ Len(inbox) \in Nat /\ Len(sent) \in Nat
    BY <1>2, ConcatProperties
  <2>2. Width(b) \in Nat
    BY <1>4, Widths
  <2> QED BY <1>4, <2>1, <2>2
<1>8. /\ Stream(Rest(inbox \o sent, Size[b]), cipher.recv + 1, said)
      /\ Expects(Rest(inbox \o sent, Size[b]), cipher.recv + 1, Len(said), 1)
  BY <1>2, <1>4, <1>7, StreamRest
<1> QED BY <1>2, <1>4, <1>6, <1>8

LEMMA InvReceive ==
    ASSUME PipeInv, Receive
    PROVE  PipeInv'
<1>1. Kinds /\ ToBot /\ ToServer
  BY DEF PipeInv
<1>2. PICK n \in Complete(inbox) :
         /\ heard' = Append(heard, Decrypted(inbox, cipher.keyed, cipher.recv))
         /\ step' \in {"moving", step}
         /\ inbox' = Rest(inbox, n)
  BY DEF Receive
<1>3. cipher.keyed = TRUE /\ cipher.recv \in Nat /\ heard \in Seq(Bodies \cup {Noise})
      /\ inbox \in Seq(StreamByte) /\ step = "receiving"
  BY <1>1 DEF Kinds, Receive
<1>4. inbox' \in Seq(StreamByte)
  BY <1>2, <1>3, ReadType
<1>5. heard' \in Seq(Bodies \cup {Noise}) /\ Len(heard') = Len(heard) + 1
  <2>1. Decrypted(inbox, cipher.keyed, cipher.recv) \in Bodies \cup {Noise}
    BY <1>2, <1>3, ReadType
  <2> QED BY <1>2, <1>3, <2>1, AppendProperties
<1>6. /\ cipher' \in [keyed : BOOLEAN, send : Nat, recv : Nat] /\ cipher'.keyed = cipher.keyed
      /\ cipher'.recv = cipher.recv + 1 /\ cipher'.send = cipher.send
  <2>1. cipher \in [keyed : BOOLEAN, send : Nat, recv : Nat] /\ cipher' = [cipher EXCEPT !.recv = @ + 1]
    BY <1>1 DEF Kinds, Receive
  <2> QED BY ONLY <2>1
<1>7. step # "sending" /\ step' # "sending"
  BY <1>2, <1>3
<1>8. Kinds'
  BY <1>1, <1>4, <1>5, <1>6, <1>7 DEF Kinds, Receive
<1>9. ToServer'
  BY <1>1, <1>6, <1>7 DEF ToServer, Receive
<1>10. ToBot'
  <2> SUFFICES ASSUME ~torn PROVE ToBot'
    BY DEF ToBot, Receive
  <2>1. /\ Len(heard) = cipher.recv
        /\ Stream(inbox' \o sent, cipher.recv + 1, said)
        /\ Expects(inbox' \o sent, cipher.recv + 1, Len(said), 1)
    BY <1>2, HeardNext
  <2> QED BY <1>5, <1>6, <2>1 DEF ToBot, Receive
<1> QED BY <1>8, <1>9, <1>10 DEF PipeInv

(* What a whole packet at the head of the other stream is to the server.    *)
LEMMA AnsweredNext ==
    ASSUME PipeInv, NEW n \in Complete(written)
    PROVE  /\ Len(answered) < Len(asked) /\ Len(answered) = serverIv
           /\ Decrypted(written, TRUE, serverIv) = asked[Len(answered) + 1]
           /\ asked[Len(answered) + 1] \in Bodies
           /\ Stream(Rest(written, n), serverIv + 1, asked)
           /\ \A m, k : Expects(written, serverIv, m, k) => Expects(Rest(written, n), serverIv + 1, m, k)
<1>1. /\ Stream(written, serverIv, asked) /\ serverIv = Len(answered)
      /\ serverIv \in Nat /\ asked \in Seq(Bodies)
  BY DEF PipeInv, Kinds, ToServer
<1> DEFINE b == asked[serverIv + 1]
<1>2. /\ serverIv < Len(asked) /\ b \in Bodies
      /\ n = Size[b] /\ Len(written) >= Width(b)
      /\ Decrypted(written, TRUE, serverIv) = b
  BY <1>1, HeadParts
<1>3. /\ Stream(Rest(written, Size[b]), serverIv + 1, asked)
      /\ \A m, k : Expects(written, serverIv, m, k) => Expects(Rest(written, Size[b]), serverIv + 1, m, k)
  BY <1>1, <1>2, StreamRest
<1> QED BY <1>1, <1>2, <1>3

LEMMA InvServerReads ==
    ASSUME PipeInv, ServerReads
    PROVE  PipeInv'
<1>1. Kinds /\ ToBot /\ ToServer
  BY DEF PipeInv
<1>2. PICK n \in Complete(written) :
         /\ answered' = Append(answered, Decrypted(written, TRUE, serverIv))
         /\ written' = Rest(written, n)
  BY DEF ServerReads
<1>3. /\ serverIv = Len(answered) /\ Decrypted(written, TRUE, serverIv) \in Bodies
      /\ Stream(written', serverIv + 1, asked)
      /\ \A m, k : Expects(written, serverIv, m, k) => Expects(written', serverIv + 1, m, k)
  <2>1. serverIv = Len(answered) /\ Decrypted(written, TRUE, serverIv) \in Bodies
    BY <1>2, AnsweredNext
  <2>2. /\ Stream(Rest(written, n), serverIv + 1, asked)
        /\ \A m, k : Expects(written, serverIv, m, k) => Expects(Rest(written, n), serverIv + 1, m, k)
    BY <1>2, AnsweredNext
  <2> QED BY <1>2, <2>1, <2>2
<1>4. answered' \in Seq(Bodies) /\ Len(answered') = Len(answered) + 1
  <2> DEFINE body == Decrypted(written, TRUE, serverIv)
  <2>1. answered \in Seq(Bodies) /\ body \in Bodies /\ answered' = Append(answered, body)
    BY <1>1, <1>2, <1>3 DEF Kinds
  <2> HIDE DEF body
  <2> QED BY <2>1, AppendProperties
<1>5. serverIv' = serverIv + 1 /\ serverIv' \in Nat
  BY <1>1 DEF ServerReads, Kinds
<1>6. Kinds'
  BY <1>1, <1>4, <1>5 DEF Kinds, ServerReads
<1>7. ToBot'
  BY <1>1 DEF ToBot, ServerReads
<1>8. ToServer'
  BY <1>1, <1>3, <1>4, <1>5 DEF ToServer, ServerReads
<1> QED BY <1>6, <1>7, <1>8 DEF PipeInv

(* The header of the next packet goes out, and its body after it.           *)
LEMMA InvSendHeader ==
    ASSUME PipeInv, NEW b \in Bodies, SendHeader(b)
    PROVE  PipeInv'
<1>1. Kinds /\ ToBot /\ ToServer
  BY DEF PipeInv
<1>2. /\ Len(asked) \in Nat /\ asked' \in Seq(Bodies) /\ Len(asked') = Len(asked) + 1
      /\ asked'[Len(asked) + 1] = b /\ Len(asked') > 0
  <2>1. asked' = Append(asked, b) /\ asked \in Seq(Bodies)
    BY <1>1 DEF Kinds, SendHeader
  <2> QED BY <2>1, AppendProperties
<1>3. /\ cipher' \in [keyed : BOOLEAN, send : Nat, recv : Nat] /\ cipher'.keyed = cipher.keyed
      /\ cipher'.send = cipher.send + 1 /\ cipher'.recv = cipher.recv
  <2>1. cipher \in [keyed : BOOLEAN, send : Nat, recv : Nat] /\ cipher' = [cipher EXCEPT !.send = @ + 1]
    BY <1>1 DEF Kinds, SendHeader
  <2> QED BY ONLY <2>1
<1>4. Kinds'
  BY <1>1, <1>2, <1>3 DEF Kinds, SendHeader
<1>5. ToBot'
  BY <1>1, <1>3 DEF ToBot, SendHeader
<1>6. Stream(written, serverIv, asked')
  BY <1>1, StreamGrows DEF Kinds, ToServer, SendHeader
<1>7. ToServer'
  <2>1. CASE ~open
    BY <1>1, <1>2, <1>3, <1>6, <2>1 DEF ToServer, SendHeader
  <2>2. CASE open
    <3> DEFINE c == Header(cipher.send, b)
    <3>1. /\ c \in Seq(StreamByte) /\ Len(c) = HeaderLen /\ cipher.send = Len(asked)
          /\ \A i \in 1..HeaderLen : c[i] = [iv |-> Len(asked), at |-> i, body |-> b]
      <4>1. cipher.send = Len(asked) /\ Len(asked) \in Nat
        BY <1>1, <1>2 DEF ToServer
      <4> QED BY <4>1, PartsType
    <3>2. written' = written \o c /\ step' = "sending" /\ open' = open
          /\ serverIv' = serverIv /\ answered' = answered
      BY <2>2 DEF SendHeader
    <3>3. Expects(written, serverIv, Len(asked), 1)
      BY <1>1, <2>2 DEF ToServer, SendHeader
    <3> HIDE DEF c
    <3>4. HeaderLen \in Nat /\ HeaderLen > 0 /\ Width(b) \in Nat /\ HeaderLen < Width(b)
      BY Widths
    <3>5. \A i \in 1..Len(c) : c[i] = [iv |-> Len(asked), at |-> 1 + i - 1, body |-> asked'[Len(asked) + 1]]
      BY <1>2, <3>1, <3>4
    <3>6. /\ 1 + Len(c) - 1 # Width(asked'[Len(asked) + 1])
          /\ 1 + Len(c) - 1 <= Width(asked'[Len(asked) + 1])
          /\ Len(c) > 0 /\ Len(asked) < Len(asked') /\ 1 \in Nat \ {0}
          /\ 1 + Len(c) = HeaderLen + 1 /\ Len(asked') - 1 = Len(asked)
      BY <1>2, <3>1, <3>4
    <3>7. serverIv \in Nat
      BY <1>1 DEF Kinds
    <3>8. /\ Stream(written \o c, serverIv, asked')
          /\ Expects(written \o c, serverIv, Len(asked), 1 + Len(c))
      BY <1>2, <1>6, <3>1, <3>3, <3>5, <3>6, <3>7, StreamJoin
    <3> QED BY <1>1, <1>2, <1>3, <3>2, <3>6, <3>8 DEF ToServer
  <2> QED BY <2>1, <2>2
<1> QED BY <1>4, <1>5, <1>7 DEF PipeInv

LEMMA InvSendBody ==
    ASSUME PipeInv, SendBody
    PROVE  PipeInv'
<1>1. Kinds /\ ToBot /\ ToServer
  BY DEF PipeInv
<1>2. Kinds'
  BY <1>1 DEF Kinds, SendBody
<1>3. ToBot'
  BY <1>1 DEF ToBot, SendBody
<1>4. ToServer'
  <2>1. CASE ~open
    BY <1>1, <2>1 DEF ToServer, SendBody
  <2>2. CASE open
    <3> DEFINE n == Len(asked) - 1
               b == asked[Len(asked)]
               c == Payload(cipher.send - 1, b)
    <3>1. /\ asked \in Seq(Bodies) /\ Len(asked) \in Nat /\ Len(asked) > 0
          /\ serverIv \in Nat /\ cipher.send = Len(asked)
          /\ Stream(written, serverIv, asked)
          /\ Expects(written, serverIv, n, HeaderLen + 1)
      BY <1>1, <2>2 DEF Kinds, ToServer, SendBody
    <3>2. written' = written \o c /\ step' = "receiving" /\ open' = open
          /\ serverIv' = serverIv /\ answered' = answered /\ asked' = asked /\ cipher' = cipher
      BY <2>2 DEF SendBody
    <3>3. n \in Nat /\ n + 1 = Len(asked) /\ n < Len(asked) /\ b = asked[n + 1] /\ b \in Bodies
          /\ cipher.send - 1 = n
      BY <3>1
    <3> HIDE DEF n, b
    <3>4. /\ c \in Seq(StreamByte) /\ Len(c) = Size[b]
          /\ \A i \in 1..Size[b] : c[i] = [iv |-> n, at |-> HeaderLen + i, body |-> b]
      BY <3>3, PartsType
    <3> HIDE DEF c
    <3>5. HeaderLen \in Nat /\ Size[b] \in Nat /\ Size[b] > 0 /\ Width(b) = HeaderLen + Size[b]
      BY <3>3, Widths
    <3>6. \A i \in 1..Len(c) : c[i] = [iv |-> n, at |-> (HeaderLen + 1) + i - 1, body |-> asked[n + 1]]
      BY <3>3, <3>4, <3>5
    <3>7. /\ (HeaderLen + 1) + Len(c) - 1 = Width(asked[n + 1])
          /\ (HeaderLen + 1) + Len(c) - 1 <= Width(asked[n + 1])
          /\ Len(c) > 0 /\ HeaderLen + 1 \in Nat \ {0}
      BY <3>3, <3>4, <3>5
    <3> DEFINE k == HeaderLen + 1
    <3>8. /\ k \in Nat \ {0} /\ Expects(written, serverIv, n, k) /\ asked[n + 1] \in Bodies
          /\ k + Len(c) - 1 = Width(asked[n + 1]) /\ k + Len(c) - 1 <= Width(asked[n + 1])
          /\ \A i \in 1..Len(c) : c[i] = [iv |-> n, at |-> k + i - 1, body |-> asked[n + 1]]
      BY <3>1, <3>3, <3>6, <3>7
    <3> HIDE DEF k
    <3>10. /\ serverIv \in Nat /\ asked \in Seq(Bodies) /\ Stream(written, serverIv, asked)
          /\ n \in Nat /\ n < Len(asked) /\ c \in Seq(StreamByte) /\ Len(c) > 0
      BY <3>1, <3>3, <3>4, <3>7
    <3>9. /\ Stream(written \o c, serverIv, asked)
          /\ Expects(written \o c, serverIv, n + 1, 1)
      BY ONLY <3>10, <3>8, StreamJoin
    <3> QED BY <1>1, <3>2, <3>3, <3>9 DEF ToServer
  <2> QED BY <2>1, <2>2
<1> QED BY <1>2, <1>3, <1>4 DEF PipeInv

LEMMA InvReconnectFails ==
    ASSUME PipeInv, ReconnectFails
    PROVE  PipeInv'
<1>1. Kinds /\ ToBot /\ ToServer
  BY DEF PipeInv
<1>2. <<>> \in Seq(StreamByte)
  BY EmptySeq
<1>3. Kinds'
  BY <1>1, <1>2 DEF Kinds, ReconnectFails
<1>4. ToServer'
  BY <1>1 DEF ToServer, ReconnectFails
<1>5. ToBot'
  BY <1>1 DEF ToBot, ReconnectFails
<1> QED BY <1>3, <1>4, <1>5 DEF PipeInv

LEMMA InvStep == PipeInv /\ [FramingNext]_framing => PipeInv'
<1> SUFFICES ASSUME PipeInv, [FramingNext]_framing PROVE PipeInv'
  OBVIOUS
<1>1. ASSUME NEW b \in Bodies, ServerSpeaks(b) PROVE PipeInv'
  BY <1>1, InvSpeaks
<1>2. ASSUME NEW b \in Bodies, SendHeader(b) PROVE PipeInv'
  BY <1>2, InvSendHeader
<1>3. CASE ServerReads
  BY <1>3, InvServerReads
<1>4. CASE ServerCloses
  BY <1>4 DEF PipeInv, Kinds, ToBot, ToServer, ServerCloses
<1>5. ASSUME NEW n \in 1..Len(sent), Read(n) PROVE PipeInv'
  BY <1>5, InvRead
<1>6. CASE Receive
  BY <1>6, InvReceive
<1>7. CASE EndOfStream
  BY <1>7 DEF PipeInv, Kinds, ToBot, ToServer, EndOfStream
<1>8. CASE SendBody
  BY <1>8, InvSendBody
<1>9. CASE Connect \/ Reconnect
  BY <1>9, InvRenewed DEF Connect, Reconnect
<1>10. CASE ReconnectFails
  BY <1>10, InvReconnectFails
<1>11. CASE UNCHANGED framing
  BY <1>11 DEF PipeInv, Kinds, ToBot, ToServer, framing
<1> QED BY <1>1, <1>2, <1>3, <1>4, <1>5, <1>6, <1>7, <1>8, <1>9, <1>10, <1>11 DEF FramingNext

-----------------------------------------------------------------------------
(* Every step is one of the pipe's, or none.                                *)
LEMMA StepMaps ==
    ASSUME PipeInv, [FramingNext]_framing
    PROVE  [Channel!Next]_(Channel!pipe)
<1> USE DEF Channel!Next, Channel!pipe
<1>1. ASSUME NEW b \in Bodies, ServerSpeaks(b) PROVE Channel!Next
  BY <1>1 DEF ServerSpeaks, Channel!Speak
<1>2. ASSUME NEW b \in Bodies, SendHeader(b) PROVE Channel!Next
  BY <1>2 DEF SendHeader, Channel!Ask
<1>3. CASE ServerReads
  <2>1. PICK n \in Complete(written) : answered' = Append(answered, Decrypted(written, TRUE, serverIv))
    BY <1>3 DEF ServerReads
  <2>2. Len(answered) < Len(asked) /\ answered' = Append(answered, asked[Len(answered) + 1])
    BY <2>1, AnsweredNext
  <2> QED BY <1>3, <2>2 DEF ServerReads, Channel!Answer
<1>4. CASE ServerCloses
  BY <1>4 DEF ServerCloses
<1>5. ASSUME NEW n \in 1..Len(sent), Read(n) PROVE UNCHANGED Channel!pipe
  BY <1>5 DEF Read
<1>6. CASE Receive
  <2> DEFINE body == Decrypted(inbox, TRUE, cipher.recv)
  <2>1. cipher.keyed = TRUE /\ inbox \in Seq(StreamByte)
    BY DEF PipeInv, Kinds
  <2>2. PICK n \in Complete(inbox) : heard' = Append(heard, body)
    BY <1>6, <2>1 DEF Receive
  <2>3. body \in Bodies \cup {Noise}
    BY <2>1, <2>2, ReadType
  <2>4. torn \/ (Len(heard) < Len(said) /\ body = said[Len(heard) + 1])
    BY <2>2, HeardNext
  <2> HIDE DEF body
  <2> QED BY <1>6, <2>2, <2>3, <2>4 DEF Receive, Channel!Hear
<1>7. CASE EndOfStream
  BY <1>7 DEF EndOfStream
<1>8. CASE SendBody
  BY <1>8 DEF SendBody
<1>9. CASE Connect \/ Reconnect
  BY <1>9 DEF Connect, Reconnect, Connected, Channel!Renew
<1>10. CASE ReconnectFails
  <2>1. CASE inbox = <<>>
    <3>1. torn' = torn
      BY <1>10, <2>1 DEF ReconnectFails, PipeInv, Kinds
    <3> QED BY <1>10, <3>1 DEF ReconnectFails
  <2>2. CASE inbox # <<>>
    BY <1>10, <2>2 DEF ReconnectFails, Channel!Tear
  <2> QED BY <2>1, <2>2
<1>11. CASE UNCHANGED framing
  BY <1>11 DEF framing
<1> QED BY <1>1, <1>2, <1>3, <1>4, <1>5, <1>6, <1>7, <1>8, <1>9, <1>10, <1>11 DEF FramingNext

(* Each end hears what the other said, in order, nothing twice and nothing  *)
(* made up, whatever the packets, their sizes and what each read returns,   *)
(* and for as many connections as the run makes (session.rs).               *)
THEOREM PipeImplemented == FramingInit /\ [][FramingNext]_framing => ImplementsPipe
<1>1. FramingInit => Channel!Init
  BY DEF FramingInit, Channel!Init
<1>2. PipeInv /\ [FramingNext]_framing => [Channel!Next]_(Channel!pipe)
  BY StepMaps
<1> QED BY <1>1, <1>2, InvStart, InvStep, PTL DEF ImplementsPipe, Channel!Spec

(* -- a body and its header ----------------------------------------------- *)
(* A number is made of its halves, of 1, 2, 4 and 8 bits each.              *)
(* A number of two bits is made of its halves, and they of it.              *)
LEMMA Halves2 ==
    /\ \A a \in 0..3 : a \div 2 \in 0..1 /\ a % 2 \in 0..1 /\ 2 * (a \div 2) + (a % 2) = a
    /\ \A h, l \in 0..1 : 2 * h + l \in 0..3 /\ (2 * h + l) \div 2 = h /\ (2 * h + l) % 2 = l
<1>1. ASSUME NEW a \in 0..3
      PROVE  a \div 2 \in 0..1 /\ a % 2 \in 0..1 /\ 2 * (a \div 2) + (a % 2) = a
  <2>1. a \div 2 \in Int /\ 2 * (a \div 2) <= a /\ a < 2 * (a \div 2) + 2
    OBVIOUS
  <2>2. a % 2 = a - 2 * (a \div 2)
    OBVIOUS
  <2> QED BY <2>1, <2>2
<1>2. ASSUME NEW h \in 0..1, NEW l \in 0..1
      PROVE  2 * h + l \in 0..3 /\ (2 * h + l) \div 2 = h /\ (2 * h + l) % 2 = l
  OBVIOUS
<1> QED BY <1>1, <1>2

(* So is one of four bits.                                                  *)
LEMMA Halves4 ==
    /\ \A a \in 0..15 : a \div 4 \in 0..3 /\ a % 4 \in 0..3 /\ 4 * (a \div 4) + (a % 4) = a
    /\ \A h, l \in 0..3 : 4 * h + l \in 0..15 /\ (4 * h + l) \div 4 = h /\ (4 * h + l) % 4 = l
<1>1. ASSUME NEW a \in 0..15
      PROVE  a \div 4 \in 0..3 /\ a % 4 \in 0..3 /\ 4 * (a \div 4) + (a % 4) = a
  <2>1. a \div 4 \in Int /\ 4 * (a \div 4) <= a /\ a < 4 * (a \div 4) + 4
    OBVIOUS
  <2>2. a % 4 = a - 4 * (a \div 4)
    OBVIOUS
  <2> QED BY <2>1, <2>2
<1>2. ASSUME NEW h \in 0..3, NEW l \in 0..3
      PROVE  4 * h + l \in 0..15 /\ (4 * h + l) \div 4 = h /\ (4 * h + l) % 4 = l
  OBVIOUS
<1> QED BY <1>1, <1>2

(* So is one of eight.                                                      *)
LEMMA Halves16 ==
    /\ \A a \in 0..255 : a \div 16 \in 0..15 /\ a % 16 \in 0..15 /\ 16 * (a \div 16) + (a % 16) = a
    /\ \A h, l \in 0..15 : 16 * h + l \in 0..255 /\ (16 * h + l) \div 16 = h /\ (16 * h + l) % 16 = l
<1>1. ASSUME NEW a \in 0..255
      PROVE  a \div 16 \in 0..15 /\ a % 16 \in 0..15 /\ 16 * (a \div 16) + (a % 16) = a
  <2>1. a \div 16 \in Int /\ 16 * (a \div 16) <= a /\ a < 16 * (a \div 16) + 16
    OBVIOUS
  <2>2. a % 16 = a - 16 * (a \div 16)
    OBVIOUS
  <2> QED BY <2>1, <2>2
<1>2. ASSUME NEW h \in 0..15, NEW l \in 0..15
      PROVE  16 * h + l \in 0..255 /\ (16 * h + l) \div 16 = h /\ (16 * h + l) % 16 = l
  OBVIOUS
<1> QED BY <1>1, <1>2

(* So is one of sixteen.                                                    *)
LEMMA Halves256 ==
    /\ \A a \in Words : a \div 256 \in 0..255 /\ a % 256 \in 0..255 /\ 256 * (a \div 256) + (a % 256) = a
    /\ \A h, l \in 0..255 : 256 * h + l \in Words /\ (256 * h + l) \div 256 = h /\ (256 * h + l) % 256 = l
<1>1. ASSUME NEW a \in Words
      PROVE  a \div 256 \in 0..255 /\ a % 256 \in 0..255 /\ 256 * (a \div 256) + (a % 256) = a
  <2>0. a \in Nat /\ a < 65536
    BY DEF Words
  <2>1. a \div 256 \in Int /\ 256 * (a \div 256) <= a /\ a < 256 * (a \div 256) + 256
    BY <2>0
  <2>2. a % 256 = a - 256 * (a \div 256)
    BY <2>0
  <2> QED BY <2>0, <2>1, <2>2
<1>2. ASSUME NEW h \in 0..255, NEW l \in 0..255
      PROVE  256 * h + l \in Words /\ (256 * h + l) \div 256 = h /\ (256 * h + l) % 256 = l
  BY DEF Words
<1> QED BY <1>1, <1>2

(* The exclusive or of single bits is one, goes either way round and undoes *)
(* itself.                                                                  *)
LEMMA Xors1 ==
    \A a, b \in 0..1 : Xor1(a, b) \in 0..1 /\ Xor1(Xor1(a, b), b) = a /\ Xor1(a, b) = Xor1(b, a)
BY DEF Xor1

(* So has that of two bits, half by half.                                   *)
LEMMA Xors2 ==
    \A a, b \in 0..3 :
       Xor2(a, b) \in 0..3 /\ Xor2(Xor2(a, b), b) = a /\ Xor2(a, b) = Xor2(b, a)
<1> SUFFICES ASSUME NEW a \in 0..3, NEW b \in 0..3
             PROVE  Xor2(a, b) \in 0..3 /\ Xor2(Xor2(a, b), b) = a /\ Xor2(a, b) = Xor2(b, a)
  OBVIOUS
<1> DEFINE ah == a \div 2
           al == a % 2
           bh == b \div 2
           bl == b % 2
           h == Xor1(ah, bh)
           l == Xor1(al, bl)
           x == 2 * h + l
<1>1. ah \in 0..1 /\ al \in 0..1 /\ bh \in 0..1 /\ bl \in 0..1 /\ 2 * ah + al = a
  BY Halves2
<1>2. Xor2(a, b) = x /\ Xor2(b, a) = 2 * Xor1(bh, ah) + Xor1(bl, al)
      /\ Xor2(x, b) = 2 * Xor1(x \div 2, bh) + Xor1(x % 2, bl)
  BY DEF Xor2
<1> HIDE DEF ah, al, bh, bl
<1>3. h \in 0..1 /\ l \in 0..1 /\ Xor1(h, bh) = ah /\ Xor1(l, bl) = al
      /\ h = Xor1(bh, ah) /\ l = Xor1(bl, al)
  BY <1>1, Xors1
<1> HIDE DEF h, l
<1>4. x \in 0..3 /\ x \div 2 = h /\ x % 2 = l
  BY <1>3, Halves2
<1> HIDE DEF x
<1>5. Xor2(x, b) = a
  BY <1>1, <1>2, <1>3, <1>4
<1>6. Xor2(a, b) = Xor2(b, a)
  BY <1>2, <1>3 DEF x
<1> QED BY <1>2, <1>4, <1>5, <1>6

(* That of four.                                                            *)
LEMMA Xors4 ==
    \A a, b \in 0..15 :
       Xor4(a, b) \in 0..15 /\ Xor4(Xor4(a, b), b) = a /\ Xor4(a, b) = Xor4(b, a)
<1> SUFFICES ASSUME NEW a \in 0..15, NEW b \in 0..15
             PROVE  Xor4(a, b) \in 0..15 /\ Xor4(Xor4(a, b), b) = a /\ Xor4(a, b) = Xor4(b, a)
  OBVIOUS
<1> DEFINE ah == a \div 4
           al == a % 4
           bh == b \div 4
           bl == b % 4
           h == Xor2(ah, bh)
           l == Xor2(al, bl)
           x == 4 * h + l
<1>1. ah \in 0..3 /\ al \in 0..3 /\ bh \in 0..3 /\ bl \in 0..3 /\ 4 * ah + al = a
  BY Halves4
<1>2. Xor4(a, b) = x /\ Xor4(b, a) = 4 * Xor2(bh, ah) + Xor2(bl, al)
      /\ Xor4(x, b) = 4 * Xor2(x \div 4, bh) + Xor2(x % 4, bl)
  BY DEF Xor4
<1> HIDE DEF ah, al, bh, bl
<1>3. h \in 0..3 /\ l \in 0..3 /\ Xor2(h, bh) = ah /\ Xor2(l, bl) = al
      /\ h = Xor2(bh, ah) /\ l = Xor2(bl, al)
  BY <1>1, Xors2
<1> HIDE DEF h, l
<1>4. x \in 0..15 /\ x \div 4 = h /\ x % 4 = l
  BY <1>3, Halves4
<1> HIDE DEF x
<1>5. Xor4(x, b) = a
  BY <1>1, <1>2, <1>3, <1>4
<1>6. Xor4(a, b) = Xor4(b, a)
  BY <1>2, <1>3 DEF x
<1> QED BY <1>2, <1>4, <1>5, <1>6

Octet == 0..255
Octets == Seq(Octet)

(* That of eight.                                                           *)
LEMMA Xors8 ==
    \A a, b \in Octet :
       Xor8(a, b) \in Octet /\ Xor8(Xor8(a, b), b) = a /\ Xor8(a, b) = Xor8(b, a)
<1> SUFFICES ASSUME NEW a \in Octet, NEW b \in Octet
             PROVE  Xor8(a, b) \in Octet /\ Xor8(Xor8(a, b), b) = a /\ Xor8(a, b) = Xor8(b, a)
  OBVIOUS
<1> DEFINE ah == a \div 16
           al == a % 16
           bh == b \div 16
           bl == b % 16
           h == Xor4(ah, bh)
           l == Xor4(al, bl)
           x == 16 * h + l
<1>1. ah \in 0..15 /\ al \in 0..15 /\ bh \in 0..15 /\ bl \in 0..15 /\ 16 * ah + al = a
  BY Halves16, Zenon DEF Octet
<1>2. Xor8(a, b) = x /\ Xor8(b, a) = 16 * Xor4(bh, ah) + Xor4(bl, al)
      /\ Xor8(x, b) = 16 * Xor4(x \div 16, bh) + Xor4(x % 16, bl)
  BY DEF Xor8
<1> HIDE DEF ah, al, bh, bl
<1>3. h \in 0..15 /\ l \in 0..15 /\ Xor4(h, bh) = ah /\ Xor4(l, bl) = al
      /\ h = Xor4(bh, ah) /\ l = Xor4(bl, al)
  BY <1>1, Xors4
<1> HIDE DEF h, l
<1>4. x \in Octet /\ x \div 16 = h /\ x % 16 = l
  BY <1>3, Halves16 DEF Octet
<1> HIDE DEF x
<1>5. Xor8(x, b) = a
  BY <1>1, <1>2, <1>3, <1>4
<1>6. Xor8(a, b) = Xor8(b, a)
  BY <1>2, <1>3 DEF x
<1> QED BY <1>2, <1>4, <1>5, <1>6

(* Bits shifted out come in on the other side.                              *)
LEMMA RotatesBack ==
    \A i \in 1..9, b \in Octet :
       Rolled(b, Powers[i]) \in Octet /\ Rolled(Rolled(b, Powers[i]), Powers[10 - i]) = b
<1> SUFFICES ASSUME NEW i \in 1..9, NEW b \in Octet
             PROVE  Rolled(b, Powers[i]) \in Octet /\ Rolled(Rolled(b, Powers[i]), Powers[10 - i]) = b
  OBVIOUS
<1>1. CASE i = 1
  <2>1. Powers[i] = 1 /\ Powers[10 - i] = 256
    BY <1>1 DEF Powers
  <2> QED BY <2>1, SMTT(30) DEF Rolled, Low, Octet
<1>2. CASE i = 2
  <2>1. Powers[i] = 2 /\ Powers[10 - i] = 128
    BY <1>2 DEF Powers
  <2> QED BY <2>1, SMTT(30) DEF Rolled, Low, Octet
<1>3. CASE i = 3
  <2>1. Powers[i] = 4 /\ Powers[10 - i] = 64
    BY <1>3 DEF Powers
  <2> QED BY <2>1, SMTT(30) DEF Rolled, Low, Octet
<1>4. CASE i = 4
  <2>1. Powers[i] = 8 /\ Powers[10 - i] = 32
    BY <1>4 DEF Powers
  <2> QED BY <2>1, SMTT(30) DEF Rolled, Low, Octet
<1>5. CASE i = 5
  <2>1. Powers[i] = 16 /\ Powers[10 - i] = 16
    BY <1>5 DEF Powers
  <2> QED BY <2>1, SMTT(30) DEF Rolled, Low, Octet
<1>6. CASE i = 6
  <2>1. Powers[i] = 32 /\ Powers[10 - i] = 8
    BY <1>6 DEF Powers
  <2> QED BY <2>1, SMTT(30) DEF Rolled, Low, Octet
<1>7. CASE i = 7
  <2>1. Powers[i] = 64 /\ Powers[10 - i] = 4
    BY <1>7 DEF Powers
  <2> QED BY <2>1, SMTT(30) DEF Rolled, Low, Octet
<1>8. CASE i = 8
  <2>1. Powers[i] = 128 /\ Powers[10 - i] = 2
    BY <1>8 DEF Powers
  <2> QED BY <2>1, SMTT(30) DEF Rolled, Low, Octet
<1>9. CASE i = 9
  <2>1. Powers[i] = 256 /\ Powers[10 - i] = 1
    BY <1>9 DEF Powers
  <2> QED BY <2>1, SMTT(30) DEF Rolled, Low, Octet
<1> QED BY <1>1, <1>2, <1>3, <1>4, <1>5, <1>6, <1>7, <1>8, <1>9

(* So do those of any count, either way.                                    *)
LEMMA Rolls ==
    \A b \in Octet, count \in Nat :
       /\ rollleft(b, count) \in Octet /\ rollright(rollleft(b, count), count) = b
       /\ rollright(b, count) \in Octet /\ rollleft(rollright(b, count), count) = b
<1> SUFFICES ASSUME NEW b \in Octet, NEW count \in Nat
             PROVE  /\ rollleft(b, count) \in Octet /\ rollright(rollleft(b, count), count) = b
                    /\ rollright(b, count) \in Octet /\ rollleft(rollright(b, count), count) = b
  OBVIOUS
<1> DEFINE l == 1 + (count % 8)
           r == 9 - (count % 8)
<1>1. l \in 1..9 /\ r \in 1..9 /\ 10 - l = r /\ 10 - r = l
  <2>1. count % 8 \in 0..7
    OBVIOUS
  <2> QED BY <2>1
<1>2. \A x : rollleft(x, count) = Rolled(x, Powers[l]) /\ rollright(x, count) = Rolled(x, Powers[r])
  BY DEF rollleft, rollright
<1> HIDE DEF l, r
<1>3. Rolled(b, Powers[l]) \in Octet /\ Rolled(Rolled(b, Powers[l]), Powers[r]) = b
  BY <1>1, RotatesBack, Zenon
<1>4. Rolled(b, Powers[r]) \in Octet /\ Rolled(Rolled(b, Powers[r]), Powers[l]) = b
  <2>1. Rolled(b, Powers[r]) \in Octet /\ Rolled(Rolled(b, Powers[r]), Powers[10 - r]) = b
    BY <1>1, RotatesBack, Zenon
  <2> QED BY <1>1, <2>1
<1> QED BY <1>2, <1>3, <1>4

(* What is added without a carry can be taken off again.                    *)
LEMMA LowIs ==
    /\ \A n \in Int : Low(n) \in Octet
    /\ \A b \in Octet, n \in Int : Low(Low(b + n) - n) = b
BY DEF Low, Octet

(* What was proved of 0..255, said of octets.                               *)
LEMMA OctetFacts ==
    /\ \A a, b \in Octet : Xor8(a, b) \in Octet /\ Xor8(Xor8(a, b), b) = a
    /\ \A b \in Octet, count \in Nat :
          /\ rollleft(b, count) \in Octet /\ rollright(rollleft(b, count), count) = b
          /\ rollright(b, count) \in Octet /\ rollleft(rollright(b, count), count) = b
    /\ \A b \in Octet : Flipped(b) \in Octet /\ Flipped(Flipped(b)) = b
    /\ Octet \subseteq Nat /\ 19 \in Octet /\ 0 \in Octet
<1>1. \A b \in Octet : Flipped(b) \in Octet /\ Flipped(Flipped(b)) = b
  BY DEF Flipped, Octet
<1>2. Octet \subseteq Nat /\ 19 \in Octet /\ 0 \in Octet
  BY DEF Octet
<1> QED BY <1>1, <1>2, Xors8, Rolls, Zenon

(* A word and its two bytes.                                                *)
Hi(w) == w \div 256
Lo(w) == w % 256
Joined(h, l) == 256 * h + l

LEMMA WordHalves ==
    /\ \A w \in Words : Hi(w) \in Octet /\ Lo(w) \in Octet /\ Joined(Hi(w), Lo(w)) = w
    /\ \A h, l \in Octet : Joined(h, l) \in Words /\ Hi(Joined(h, l)) = h /\ Lo(Joined(h, l)) = l
<1>1. \A w \in Words : Hi(w) \in Octet /\ Lo(w) \in Octet /\ Joined(Hi(w), Lo(w)) = w
  BY Halves256, Zenon DEF Hi, Lo, Joined, Octet
<1>2. \A h, l \in Octet : Joined(h, l) \in Words /\ Hi(Joined(h, l)) = h /\ Lo(Joined(h, l)) = l
  BY Halves256, Zenon DEF Hi, Lo, Joined, Octet
<1> QED BY <1>1, <1>2

(* The exclusive or of words is that of their bytes.                        *)
LEMMA Xors16 ==
    \A a, b \in Words :
       Xor16(a, b) \in Words /\ Xor16(Xor16(a, b), b) = a /\ Xor16(a, b) = Xor16(b, a)
<1>1. \A a, b \in Octet : Xor8(a, b) \in Octet /\ Xor8(Xor8(a, b), b) = a /\ Xor8(a, b) = Xor8(b, a)
  BY Xors8, Zenon
<1>2. \A a, b : Xor16(a, b) = Joined(Xor8(Hi(a), Hi(b)), Xor8(Lo(a), Lo(b)))
  BY Zenon DEF Xor16, Joined, Hi, Lo
<1> SUFFICES ASSUME NEW a \in Words, NEW b \in Words
             PROVE  Xor16(a, b) \in Words /\ Xor16(Xor16(a, b), b) = a /\ Xor16(a, b) = Xor16(b, a)
  OBVIOUS
<1>3. Hi(a) \in Octet /\ Lo(a) \in Octet /\ Joined(Hi(a), Lo(a)) = a /\ Hi(b) \in Octet /\ Lo(b) \in Octet
  BY WordHalves, Zenon
<1> DEFINE h == Xor8(Hi(a), Hi(b))
           l == Xor8(Lo(a), Lo(b))
<1>4. h \in Octet /\ Xor8(h, Hi(b)) = Hi(a) /\ h = Xor8(Hi(b), Hi(a))
  BY <1>1, <1>3, Zenon
<1>5. l \in Octet /\ Xor8(l, Lo(b)) = Lo(a) /\ l = Xor8(Lo(b), Lo(a))
  BY <1>1, <1>3, Zenon
<1>6. Xor16(a, b) = Joined(h, l) /\ Xor16(b, a) = Joined(h, l)
  BY <1>2, <1>4, <1>5, Zenon
<1> HIDE DEF h, l
<1>7. Joined(h, l) \in Words /\ Hi(Joined(h, l)) = h /\ Lo(Joined(h, l)) = l
  BY <1>4, <1>5, WordHalves, Zenon
<1>8. Xor16(Joined(h, l), b) = a
  BY <1>2, <1>3, <1>4, <1>5, <1>7, Zenon
<1> QED BY <1>6, <1>7, <1>8, Zenon

(* Each step of a pass can be taken back.                                   *)
LEMMA MixesBack ==
    \A count \in Nat, b, left, before \in Octet :
       /\ Mixed(count, b, left, before) \in Octet
       /\ Unmixed(count, Mixed(count, b, left, before), left, before) = b
<1> SUFFICES ASSUME NEW count \in Nat, NEW b \in Octet, NEW left \in Octet, NEW before \in Octet
             PROVE  /\ Mixed(count, b, left, before) \in Octet
                    /\ Unmixed(count, Mixed(count, b, left, before), left, before) = b
  OBVIOUS
<1>0. left \in Nat /\ left \in Int /\ Octet \subseteq Int
  BY DEF Octet
<1> DEFINE r == rollleft(b, count)
           s == Low(r + left)
           m == Xor8(s, before)
<1>1. r \in Octet /\ rollright(r, count) = b
  BY OctetFacts, Zenon
<1> HIDE DEF r
<1>2. s \in Octet
  <2>1. r + left \in Int
    BY <1>0, <1>1, OctetFacts
  <2> QED BY <2>1, LowIs, Zenon
<1>3. Low(s - left) = r
  BY <1>0, <1>1, LowIs, Zenon
<1> HIDE DEF s
<1>4. m \in Octet /\ Xor8(m, before) = s
  BY <1>2, OctetFacts, Zenon
<1>5. Mixed(count, b, left, before) = m /\ Unmixed(count, m, left, before) = rollright(Low(Xor8(m, before) - left), count)
  BY Zenon DEF Mixed, Unmixed, r, s
<1> HIDE DEF m
<1>6. rollright(Low(Xor8(m, before) - left), count) = b
  BY <1>1, <1>3, <1>4, Zenon
<1> QED BY <1>4, <1>5, <1>6, Zenon

(* The rest of either kind of pass.                                         *)
LEMMA StepsBack ==
    ASSUME NEW b \in Octet, NEW left \in Octet
    PROVE  /\ EncryptForth(b, left) \in Octet /\ DecryptForth(EncryptForth(b, left), left) = b
           /\ EncryptBack(b) \in Octet /\ DecryptBack(EncryptBack(b)) = b
<1>0. left \in Nat /\ left \in Int /\ 72 \in Int /\ 3 \in Nat /\ Octet \subseteq Int
  BY DEF Octet
<1>1. EncryptForth(b, left) \in Octet /\ DecryptForth(EncryptForth(b, left), left) = b
  <2> DEFINE r == rollright(b, left)
             e == Low(Flipped(r) + 72)
  <2>1. r \in Octet /\ rollleft(r, left) = b
    BY <1>0, OctetFacts, Zenon
  <2> HIDE DEF r
  <2>2. Flipped(r) \in Octet /\ Flipped(Flipped(r)) = r
    BY <2>1, OctetFacts, Zenon
  <2>3. e \in Octet
    <3>1. Flipped(r) \in Int
      BY <1>0, <2>2
    <3>2. Flipped(r) + 72 \in Int
      BY <3>1
    <3> QED BY <3>2, LowIs, Zenon
  <2>4. Low(e - 72) = Flipped(r)
    BY <1>0, <2>2, LowIs, Zenon
  <2>5. EncryptForth(b, left) = e /\ DecryptForth(e, left) = rollleft(Flipped(Low(e - 72)), left)
    BY Zenon DEF EncryptForth, DecryptForth, r
  <2> HIDE DEF e
  <2>6. rollleft(Flipped(Low(e - 72)), left) = b
    BY <2>1, <2>2, <2>4, Zenon
  <2> QED BY <2>3, <2>5, <2>6, Zenon
<1>2. EncryptBack(b) \in Octet /\ DecryptBack(EncryptBack(b)) = b
  <2> DEFINE x == Xor8(b, 19)
  <2>1. x \in Octet /\ Xor8(x, 19) = b
    BY OctetFacts, Zenon
  <2> HIDE DEF x
  <2>2. rollright(x, 3) \in Octet /\ rollleft(rollright(x, 3), 3) = x
    BY <1>0, <2>1, OctetFacts, Zenon
  <2>3. EncryptBack(b) = rollright(x, 3) /\ DecryptBack(rollright(x, 3)) = Xor8(rollleft(rollright(x, 3), 3), 19)
    BY Zenon DEF EncryptBack, DecryptBack, x
  <2> QED BY <2>1, <2>2, <2>3, Zenon
<1> QED BY <1>1, <1>2

(* What is left of the length is one byte of it.                            *)
LEMMA LeftIs == ASSUME NEW n \in Nat, NEW i \in Nat PROVE datalen(n, i) \in Octet
<1>1. n + 1 - i \in Int
  OBVIOUS
<1> QED BY <1>1, LowIs, Zenon DEF datalen

(* A chain of mixes: every byte with the mix before it.                     *)
Chain(count, bytes, n, mixes) ==
    /\ mixes \in Octets /\ Len(mixes) = n
    /\ \A k \in 1..n : mixes[k] = Mixed(count, bytes[k], datalen(Len(bytes), k), remember(mixes, k))

(* The mix before is a byte, at the start too.                              *)
LEMMA RememberIs ==
    ASSUME NEW mixes \in Octets, NEW i \in 1..Len(mixes) + 1
    PROVE  remember(mixes, i) \in Octet
<1>1. CASE i = 1
  BY <1>1, OctetFacts DEF remember
<1>2. CASE i # 1
  <2>1. i - 1 \in 1..Len(mixes)
    BY <1>2, LenProperties DEF Octets
  <2>2. mixes[i - 1] \in Octet
    BY <2>1, ElementOfSeq DEF Octets
  <2> QED BY <1>2, <2>2 DEF remember
<1> QED BY <1>1, <1>2

(* One more mix makes the chain longer by one.                              *)
LEMMA ChainGrows ==
    ASSUME NEW count \in Nat, NEW bytes \in Octets, NEW k \in 1..Len(bytes), NEW mixes,
           Chain(count, bytes, k - 1, mixes)
    PROVE  Chain(count, bytes, k,
                 Append(mixes, Mixed(count, bytes[k], datalen(Len(bytes), k), remember(mixes, k))))
<1> DEFINE m == Mixed(count, bytes[k], datalen(Len(bytes), k), remember(mixes, k))
           new == Append(mixes, m)
<1>1. mixes \in Octets /\ Len(mixes) = k - 1 /\ k \in Nat /\ Len(bytes) \in Nat /\ bytes[k] \in Octet
  BY DEF Chain, Octets
<1>2. remember(mixes, k) \in Octet
  BY <1>1, RememberIs
<1>3. m \in Octet
  BY <1>1, <1>2, LeftIs, MixesBack
<1> HIDE DEF m
<1>4. new \in Octets /\ Len(new) = k /\ new[k] = m /\ \A i \in 1..k - 1 : new[i] = mixes[i]
  BY <1>1, <1>3 DEF Octets
<1>5. \A i \in 1..k : remember(new, i) = remember(mixes, i)
  <2> SUFFICES ASSUME NEW i \in 1..k, i # 1 PROVE new[i - 1] = mixes[i - 1]
    BY DEF remember
  <2> QED BY <1>1, <1>4
<1>6. \A i \in 1..k : new[i] = Mixed(count, bytes[i], datalen(Len(bytes), i), remember(new, i))
  <2> TAKE i \in 1..k
  <2>1. CASE i = k
    BY <1>4, <1>5, <2>1 DEF m
  <2>2. CASE i # k
    <3>1. i \in 1..k - 1
      BY <1>1, <2>2
    <3> QED BY <1>4, <1>5, <3>1 DEF Chain
  <2> QED BY <2>1, <2>2
<1> QED BY <1>4, <1>6 DEF Chain, m

(* What a pass makes of the mixes so far, n bytes further on.               *)
NextMixed(count, bytes, mixes) ==
    LET k == Len(mixes) + 1
    IN  Append(mixes, Mixed(count, bytes[k], datalen(Len(bytes), k), remember(mixes, k)))
HalfMore(count, bytes, f, n) ==
    [mixes \in Seq(0..255) |->
       IF n = 0 THEN mixes
       ELSE IF n = 1 THEN NextMixed(count, bytes, mixes)
       ELSE f[n - (n \div 2)][f[n \div 2][mixes]]]
HalvesMore(count, bytes, n, f) == f = [k \in 0..n |-> HalfMore(count, bytes, f, k)]

(* Either half of two bytes or more is shorter, and together they are all.  *)
LEMMA HalvesOf ==
    ASSUME NEW n \in Nat, n # 0, n # 1
    PROVE  n \div 2 \in 1..n - 1 /\ n - (n \div 2) \in 1..n - 1
<1>1. n \div 2 \in Int /\ 2 * (n \div 2) <= n /\ n < 2 * (n \div 2) + 2
  OBVIOUS
<1> QED BY <1>1

(* It depends on what it makes of fewer bytes only.                         *)
LEMMA HalfMoreOf ==
    ASSUME NEW count, NEW bytes, NEW m \in Nat, NEW f, NEW g, \A k \in 0..m - 1 : f[k] = g[k]
    PROVE  HalfMore(count, bytes, f, m) = HalfMore(count, bytes, g, m)
<1>1. ASSUME m # 0, m # 1 PROVE f[m - (m \div 2)] = g[m - (m \div 2)] /\ f[m \div 2] = g[m \div 2]
  <2>1. m \div 2 \in 0..m - 1 /\ m - (m \div 2) \in 0..m - 1
    BY <1>1, HalvesOf
  <2> QED BY <2>1
<1> QED BY <1>1 DEF HalfMore

(* A pass comes to an end.                                                  *)
LEMMA PassEnds ==
    ASSUME NEW count, NEW bytes, NEW n \in Nat
    PROVE  \E f : HalvesMore(count, bytes, n, f)
<1> DEFINE T == {k \in 0..n : ~\E f : HalvesMore(count, bytes, k, f)}
<1>1. T = {}
  <2>1. SUFFICES ASSUME T # {} PROVE FALSE
    OBVIOUS
  <2>2. T \in SUBSET Nat
    OBVIOUS
  <2>3. PICK m \in T : \A k \in T : m <= k
    BY <2>1, <2>2, LeastOf
  <2> DEFINE Half(f, k) == HalfMore(count, bytes, f, k)
  <2>4. m # 0
    <3> DEFINE f == [j \in 0..0 |-> Half(<<>>, 0)]
    <3>1. f[0] = Half(<<>>, 0)
      OBVIOUS
    <3>2. Half(f, 0) = Half(<<>>, 0)
      BY HalfMoreOf
    <3> HIDE DEF Half
    <3>3. f = [j \in 0..0 |-> Half(f, j)]
      BY <3>2
    <3>4. HalvesMore(count, bytes, 0, f)
      BY <3>3 DEF HalvesMore, Half
    <3> QED BY <2>3, <3>4
  <2>5. m \in 0..n /\ m - 1 \in 0..n /\ m - 1 \notin T
    BY <2>3, <2>4
  <2>6. PICK f : HalvesMore(count, bytes, m - 1, f)
    BY <2>5
  <2> DEFINE g == [j \in 0..m |-> IF j = m THEN Half(f, m) ELSE f[j]]
  <2>7. HalvesMore(count, bytes, m, g)
    <3>1. \A j \in 0..m - 1 : f[j] = Half(f, j)
      BY <2>5, <2>6 DEF HalvesMore
    <3>2. \A j \in 0..m - 1 : g[j] = f[j]
      BY <2>4, <2>5
    <3>3. \A j \in 0..m : Half(g, j) = Half(f, j)
      <4> TAKE j \in 0..m
      <4>1. j \in Nat /\ \A k \in 0..j - 1 : g[k] = f[k]
        BY <2>5, <3>2
      <4> HIDE DEF g
      <4> QED BY <4>1, HalfMoreOf
    <3> HIDE DEF Half
    <3>4. \A j \in 0..m : g[j] = Half(f, j)
      BY <2>4, <2>5, <3>1
    <3>5. g = [j \in 0..m |-> g[j]]
      OBVIOUS
    <3> HIDE DEF g
    <3>6. g = [j \in 0..m |-> Half(g, j)]
      BY <3>3, <3>4, <3>5
    <3> QED BY <3>6 DEF HalvesMore, Half
  <2> QED BY <2>3, <2>7
<1> QED BY <1>1

(* What a pass leaves of a body is a chain of mixes over all of it.         *)
LEMMA MixesChain ==
    ASSUME NEW count \in Nat, NEW bytes \in Octets
    PROVE  Chain(count, bytes, Len(bytes), Mixes(count, bytes))
<1> DEFINE N == Len(bytes)
           Is(h) == h = [n \in 0..N |-> [mixes \in Seq(0..255) |->
                           IF n = 0 THEN mixes
                           ELSE IF n = 1 THEN NextMixed(count, bytes, mixes)
                           ELSE h[n - (n \div 2)][h[n \div 2][mixes]]]]
           more == CHOOSE h : Is(h)
           Grows(k, n, mixes) == Chain(count, bytes, k, mixes) => Chain(count, bytes, k + n, more[n][mixes])
           T == {n \in 0..N : ~\A k \in 0..N - n : \A mixes \in Octets : Grows(k, n, mixes)}
<1>0. N \in Nat
  BY DEF Octets
<1>1. Mixes(count, bytes) = more[N][<<>>]
  BY Zenon DEF Mixes, NextMixed
<1>2. HalvesMore(count, bytes, N, more)
  <2>1. \A h : Is(h) <=> HalvesMore(count, bytes, N, h)
    BY Zenon DEF HalvesMore, HalfMore
  <2> HIDE DEF Is
  <2>2. \E h : Is(h)
    BY <1>0, <2>1, PassEnds
  <2>3. Is(more)
    BY <2>2
  <2> QED BY <2>1, <2>3
<1> HIDE DEF more
<1>3. \A n \in 0..N : more[n] = HalfMore(count, bytes, more, n)
  BY <1>0, <1>2 DEF HalvesMore
<1>4. T = {}
  <2>1. SUFFICES ASSUME T # {} PROVE FALSE
    OBVIOUS
  <2>2. T \in SUBSET Nat
    BY <1>0
  <2>3. PICK m \in T : \A k \in T : m <= k
    BY <2>1, <2>2, LeastOf
  <2>4. m \in 0..N /\ m \in Nat
    BY <1>0, <2>3
  <2>5. ASSUME NEW k \in 0..N - m, NEW mixes \in Octets, Chain(count, bytes, k, mixes)
        PROVE  Chain(count, bytes, k + m, more[m][mixes])
    <3>0. mixes \in Seq(0..255) /\ k \in Nat /\ Len(mixes) = k
      BY <1>0, <2>4, <2>5 DEF Octets, Octet, Chain
    <3>1. more[m][mixes] = IF m = 0 THEN mixes
                           ELSE IF m = 1 THEN NextMixed(count, bytes, mixes)
                           ELSE more[m - (m \div 2)][more[m \div 2][mixes]]
      <4>1. more[m] = HalfMore(count, bytes, more, m)
        BY <1>3, <2>4
      <4>2. HalfMore(count, bytes, more, m)[mixes]
              = IF m = 0 THEN mixes
                ELSE IF m = 1 THEN NextMixed(count, bytes, mixes)
                ELSE more[m - (m \div 2)][more[m \div 2][mixes]]
        BY <3>0, Zenon DEF HalfMore
      <4> QED BY <4>1, <4>2, Zenon
    <3>2. CASE m = 0
      BY <2>5, <3>0, <3>1, <3>2
    <3>3. CASE m = 1
      <4>1. k + 1 \in 1..Len(bytes) /\ (k + 1) - 1 = k
        BY <1>0, <2>4, <3>0, <3>3
      <4>2. more[m][mixes] = Append(mixes, Mixed(count, bytes[k + 1], datalen(Len(bytes), k + 1), remember(mixes, k + 1)))
        BY <3>0, <3>1, <3>3 DEF NextMixed
      <4> DEFINE j == k + 1
      <4>3. Chain(count, bytes, j - 1, mixes)
        BY <2>5, <4>1
      <4> HIDE DEF j
      <4>4. Chain(count, bytes, j, Append(mixes, Mixed(count, bytes[j], datalen(Len(bytes), j), remember(mixes, j))))
        BY <4>1, <4>3, ChainGrows DEF j
      <4> QED BY <3>3, <4>2, <4>4 DEF j
    <3>4. CASE m # 0 /\ m # 1
      <4> DEFINE h == m \div 2
                 r == m - h
                 half == more[h][mixes]
      <4>1. h \in 1..m - 1 /\ r \in 1..m - 1 /\ h + r = m
        BY <2>4, <3>4, HalvesOf
      <4>2. more[m][mixes] = more[r][half]
        BY <3>1, <3>4
      <4> HIDE DEF h, r
      <4>3. h \notin T /\ r \notin T /\ h \in 0..N /\ r \in 0..N
        BY <1>0, <2>3, <2>4, <4>1
      <4>4. k \in 0..N - h /\ k + h \in 0..N - r
        BY <1>0, <2>4, <3>0, <4>1
      <4>5. Chain(count, bytes, k + h, half)
        BY <2>5, <4>3, <4>4
      <4> HIDE DEF half
      <4>6. half \in Octets
        BY <4>5 DEF Chain
      <4>7. Chain(count, bytes, (k + h) + r, more[r][half])
        BY <4>3, <4>4, <4>5, <4>6
      <4>8. (k + h) + r = k + m
        BY <3>0, <4>1, <2>4
      <4> QED BY <4>2, <4>7, <4>8
    <3> QED BY <3>2, <3>3, <3>4
  <2> QED BY <2>3, <2>5
<1>5. N \in 0..N /\ 0 \in 0..N - N /\ 0 + N = N
  BY <1>0
<1>6. Chain(count, bytes, 0, <<>>) /\ <<>> \in Octets
  <2>1. <<>> \in Octets /\ Len(<<>>) = 0 /\ 1..0 = {}
    BY DEF Octets
  <2> QED BY <2>1, Zenon DEF Chain
<1>7. Chain(count, bytes, 0 + N, more[N][<<>>])
  BY <1>4, <1>5, <1>6
<1> QED BY <1>1, <1>5, <1>7

(* A chain of mixes taken apart is the body it came of.                     *)
LEMMA ChainBack ==
    ASSUME NEW count \in Nat, NEW bytes \in Octets, NEW mixes, Chain(count, bytes, Len(bytes), mixes)
    PROVE  Unmixes(count, Len(bytes), mixes) = bytes
<1> DEFINE n == Len(bytes)
<1>1. n \in Nat /\ mixes \in Octets /\ Len(mixes) = n
  BY DEF Chain, Octets
<1>2. ASSUME NEW i \in 1..n
      PROVE  Unmixed(count, mixes[i], datalen(n, i), remember(mixes, i)) = bytes[i]
  <2>1. bytes[i] \in Octet
    BY ElementOfSeq DEF Octets
  <2>2. datalen(n, i) \in Octet
    <3>1. i \in Nat
      BY <1>1
    <3> QED BY <1>1, <3>1, LeftIs
  <2>3. remember(mixes, i) \in Octet
    <3>1. i \in 1..Len(mixes) + 1
      BY <1>1
    <3> QED BY <1>1, <3>1, RememberIs
  <2>4. mixes[i] = Mixed(count, bytes[i], datalen(n, i), remember(mixes, i))
    BY Zenon DEF Chain
  <2>5. Unmixed(count, Mixed(count, bytes[i], datalen(n, i), remember(mixes, i)), datalen(n, i), remember(mixes, i))
          = bytes[i]
    <3> DEFINE b == bytes[i]
               left == datalen(n, i)
               before == remember(mixes, i)
    <3>1. b \in Octet /\ left \in Octet /\ before \in Octet
      BY <2>1, <2>2, <2>3
    <3> HIDE DEF b, left, before
    <3>2. Unmixed(count, Mixed(count, b, left, before), left, before) = b
      BY <3>1, MixesBack
    <3> QED BY <3>2 DEF b, left, before
  <2> QED BY <2>4, <2>5, Zenon
<1>3. Unmixes(count, n, mixes) = [i \in 1..n |-> bytes[i]]
  BY <1>2 DEF Unmixes
<1>4. bytes = [i \in 1..n |-> bytes[i]]
  BY DEF Octets
<1> QED BY <1>3, <1>4, Zenon

(* Forth and back are undone.                                               *)
LEMMA ForthBack ==
    ASSUME NEW bytes \in Octets
    PROVE  Forth(bytes) \in Octets /\ Len(Forth(bytes)) = Len(bytes) /\ Unforth(Forth(bytes)) = bytes
<1> DEFINE n == Len(bytes)
           mixes == Mixes(3, bytes)
           f == Forth(bytes)
<1>1. Chain(3, bytes, n, mixes)
  BY MixesChain
<1> HIDE DEF mixes
<1>2. n \in Nat /\ mixes \in Octets /\ Len(mixes) = n /\ DOMAIN mixes = 1..n
      /\ mixes = [i \in 1..n |-> mixes[i]]
  BY <1>1 DEF Chain, Octets
<1>3. ASSUME NEW i \in 1..n
      PROVE  /\ EncryptForth(mixes[i], datalen(n, i)) \in Octet
             /\ DecryptForth(EncryptForth(mixes[i], datalen(n, i)), datalen(n, i)) = mixes[i]
  <2>1. mixes[i] \in Octet
    BY <1>2, ElementOfSeq DEF Octets
  <2>2. datalen(n, i) \in Octet
    <3>1. i \in Nat
      BY <1>2
    <3> QED BY <1>2, <3>1, LeftIs
  <2>3. 0 \in Octet /\ 3 \in Nat
    BY OctetFacts
  <2> QED BY <2>1, <2>2, <2>3, StepsBack, Zenon
<1>4. f = [i \in 1..n |-> EncryptForth(mixes[i], datalen(n, i))]
  BY <1>2 DEF Forth, mixes
<1>5. f \in Octets /\ Len(f) = n
  <2>1. f \in [1..n -> Octet]
    BY <1>3, <1>4
  <2> QED BY <1>2, <2>1 DEF Octets
<1>6. [i \in 1..n |-> DecryptForth(f[i], datalen(n, i))] = mixes
  BY <1>2, <1>3, <1>4
<1>7. Unforth(f) = Unmixes(3, n, mixes)
  BY <1>5, <1>6 DEF Unforth
<1> QED BY <1>1, <1>5, <1>7, ChainBack

(* The passes of the other kind are undone as well.                         *)
LEMMA BackForth ==
    ASSUME NEW bytes \in Octets
    PROVE  Back(bytes) \in Octets /\ Len(Back(bytes)) = Len(bytes) /\ Unback(Back(bytes)) = bytes
<1> DEFINE n == Len(bytes)
           mixes == Mixes(4, bytes)
           f == Back(bytes)
<1>1. Chain(4, bytes, n, mixes)
  BY MixesChain
<1> HIDE DEF mixes
<1>2. n \in Nat /\ mixes \in Octets /\ Len(mixes) = n /\ DOMAIN mixes = 1..n
      /\ mixes = [i \in 1..n |-> mixes[i]]
  BY <1>1 DEF Chain, Octets
<1>3. ASSUME NEW i \in 1..n
      PROVE  EncryptBack(mixes[i]) \in Octet /\ DecryptBack(EncryptBack(mixes[i])) = mixes[i]
  <2>1. mixes[i] \in Octet
    BY <1>2, ElementOfSeq DEF Octets
  <2>2. 0 \in Octet /\ 3 \in Nat
    BY OctetFacts
  <2> QED BY <2>1, <2>2, StepsBack, Zenon
<1>4. f = [i \in 1..n |-> EncryptBack(mixes[i])]
  BY <1>2 DEF Back, mixes
<1>5. f \in Octets /\ Len(f) = n
  <2>1. f \in [1..n -> Octet]
    BY <1>3, <1>4
  <2> QED BY <1>2, <2>1 DEF Octets
<1>6. [i \in 1..n |-> DecryptBack(f[i])] = mixes
  BY <1>2, <1>3, <1>4
<1>7. Unback(f) = Unmixes(4, n, mixes)
  BY <1>5, <1>6 DEF Unback
<1> QED BY <1>1, <1>5, <1>7, ChainBack

(* A body turned twice is as it was.                                        *)
LEMMA TurnsBack ==
    ASSUME NEW bytes \in Octets
    PROVE  Turned(bytes) \in Octets /\ Len(Turned(bytes)) = Len(bytes) /\ Turned(Turned(bytes)) = bytes
<1> DEFINE n == Len(bytes)
           t == Turned(bytes)
<1>1. n \in Nat /\ bytes = [i \in 1..n |-> bytes[i]]
  BY DEF Octets
<1>2. t = [i \in 1..n |-> bytes[n + 1 - i]]
  BY DEF Turned
<1>3. \A i \in 1..n : n + 1 - i \in 1..n /\ n + 1 - (n + 1 - i) = i
  BY <1>1
<1>4. t \in Octets /\ Len(t) = n
  <2>1. \A i \in 1..n : bytes[i] \in Octet
    BY ElementOfSeq DEF Octets
  <2>2. t \in [1..n -> Octet]
    BY <1>2, <1>3, <2>1
  <2> QED BY <1>1, <2>2 DEF Octets
<1>5. Turned(t) = [i \in 1..n |-> t[n + 1 - i]]
  BY <1>4 DEF Turned
<1>6. \A i \in 1..n : t[n + 1 - i] = bytes[i]
  BY <1>2, <1>3
<1> QED BY <1>1, <1>4, <1>5, <1>6

(* A round of the six passes is undone.                                     *)
LEMMA RoundBack ==
    ASSUME NEW bytes \in Octets
    PROVE  /\ EncryptRound(bytes) \in Octets /\ Len(EncryptRound(bytes)) = Len(bytes)
           /\ DecryptRound(EncryptRound(bytes)) = bytes
<1> DEFINE a == Forth(bytes)
           b == Turned(a)
           c == Back(b)
           d == Turned(c)
<1>1. a \in Octets /\ Len(a) = Len(bytes) /\ Unforth(a) = bytes
  BY ForthBack
<1> HIDE DEF a
<1>2. b \in Octets /\ Len(b) = Len(a) /\ Turned(b) = a
  BY <1>1, TurnsBack
<1> HIDE DEF b
<1>3. c \in Octets /\ Len(c) = Len(b) /\ Unback(c) = b
  BY <1>2, BackForth
<1> HIDE DEF c
<1>4. d \in Octets /\ Len(d) = Len(c) /\ Turned(d) = c
  BY <1>3, TurnsBack
<1>5. EncryptRound(bytes) = d /\ DecryptRound(d) = Unforth(Turned(Unback(Turned(d))))
  BY Zenon DEF EncryptRound, DecryptRound, a, b, c
<1> HIDE DEF d
<1> QED BY <1>1, <1>2, <1>3, <1>4, <1>5

(* So are the three rounds of them.                                         *)
LEMMA MapleBack ==
    ASSUME NEW bytes \in Octets
    PROVE  /\ mapleencrypt(bytes) \in Octets /\ Len(mapleencrypt(bytes)) = Len(bytes)
           /\ mapledecrypt(mapleencrypt(bytes)) = bytes
<1> DEFINE a == EncryptRound(bytes)
           b == EncryptRound(a)
           c == EncryptRound(b)
<1>1. a \in Octets /\ Len(a) = Len(bytes) /\ DecryptRound(a) = bytes
  BY RoundBack
<1> HIDE DEF a
<1>2. b \in Octets /\ Len(b) = Len(a) /\ DecryptRound(b) = a
  BY <1>1, RoundBack
<1> HIDE DEF b
<1>3. c \in Octets /\ Len(c) = Len(b) /\ DecryptRound(c) = b
  BY <1>2, RoundBack
<1>4. mapleencrypt(bytes) = c /\ mapledecrypt(c) = DecryptRound(DecryptRound(DecryptRound(c)))
  BY Zenon DEF mapleencrypt, mapledecrypt, a, b
<1> HIDE DEF c
<1> QED BY <1>1, <1>2, <1>3, <1>4

(* The positions a stream can be at.                                        *)
Ivs == [1..4 -> Octet]

(* Positions and the bytes of the stream are bytes.                         *)
LEMMA StreamIs ==
    /\ \A iv \in Ivs : updateiv(iv) \in Ivs
    /\ \A iv \in Ivs, n \in Nat, place \in Nat : Scrambled(iv, n, place) \in Octet
    /\ \A x \in Nat : 1 + (InBlock(x) \div Ring) \in Nat /\ InBlock(x) % Ring \in Nat
<1>1. ASSUME NEW iv \in Ivs PROVE updateiv(iv) \in Ivs
  <2>1. ASSUME NEW i \in 1..4 PROVE Low(5 * iv[i] + 3 * iv[1 + (i % 4)] + 11 * i) \in Octet
    <3>1. 1 + (i % 4) \in 1..4
      OBVIOUS
    <3>2. iv[i] \in Int /\ iv[1 + (i % 4)] \in Int
      BY <3>1 DEF Ivs, Octet
    <3>3. 5 * iv[i] + 3 * iv[1 + (i % 4)] + 11 * i \in Int
      BY <3>2
    <3> QED BY <3>3, LowIs, Zenon
  <2> QED BY <2>1 DEF updateiv, Ivs
<1>2. ASSUME NEW iv \in Ivs, NEW n \in Nat, NEW place \in Nat PROVE Scrambled(iv, n, place) \in Octet
  <2> DEFINE v == iv[1 + (place % 4)]
  <2>1. v \in Int
    <3>1. 1 + (place % 4) \in 1..4
      OBVIOUS
    <3> QED BY <3>1 DEF Ivs, Octet
  <2> HIDE DEF v
  <2>2. v * (2 * n + 1) + 31 * n + 7 * place \in Int
    BY <2>1
  <2> QED BY <2>2, LowIs, Zenon DEF Scrambled, v
<1>3. ASSUME NEW x \in Nat PROVE 1 + (InBlock(x) \div Ring) \in Nat /\ InBlock(x) % Ring \in Nat
  <2>1. InBlock(x) \in Nat
    BY CipherAssumption DEF InBlock
  <2> QED BY <2>1, CipherAssumption
<1> QED BY <1>1, <1>2, <1>3

(* The stream laid over a body twice leaves the body.                       *)
LEMMA StreamBack ==
    ASSUME NEW bytes \in Octets, NEW iv \in Ivs
    PROVE  /\ aesofb(bytes, iv) \in Octets /\ Len(aesofb(bytes, iv)) = Len(bytes)
           /\ aesofb(aesofb(bytes, iv), iv) = bytes
<1> DEFINE n == Len(bytes)
           Key(i) == Scrambled(iv, 1 + (InBlock(i - 1) \div Ring), InBlock(i - 1) % Ring)
           a == aesofb(bytes, iv)
<1>1. n \in Nat /\ bytes = [i \in 1..n |-> bytes[i]]
  BY DEF Octets
<1>2. a = [i \in 1..n |-> Xor8(bytes[i], Key(i))]
  BY DEF aesofb
<1>3. \A i \in 1..n : Key(i) \in Octet
  <2> TAKE i \in 1..n
  <2>1. i - 1 \in Nat
    BY <1>1
  <2> QED BY <2>1, StreamIs
<1> HIDE DEF Key
<1>4. \A i \in 1..n : Xor8(bytes[i], Key(i)) \in Octet /\ Xor8(Xor8(bytes[i], Key(i)), Key(i)) = bytes[i]
  <2>1. \A i \in 1..n : bytes[i] \in Octet
    BY ElementOfSeq DEF Octets
  <2> QED BY <1>3, <2>1, OctetFacts, Zenon
<1>5. a \in Octets /\ Len(a) = n
  <2>1. a \in [1..n -> Octet]
    BY <1>2, <1>4
  <2> QED BY <1>1, <2>1 DEF Octets
<1>6. aesofb(a, iv) = [i \in 1..n |-> Xor8(a[i], Key(i))]
  BY <1>5 DEF aesofb, Key
<1> QED BY <1>1, <1>2, <1>4, <1>5, <1>6

(* What was sealed at a position is opened at it.                           *)
LEMMA SealBack ==
    ASSUME NEW bytes \in Octets, NEW iv \in Ivs
    PROVE  /\ encrypt(bytes, iv) \in Octets /\ Len(encrypt(bytes, iv)) = Len(bytes)
           /\ decrypt(encrypt(bytes, iv), iv) = bytes
<1> DEFINE m == mapleencrypt(bytes)
           e == aesofb(m, iv)
<1>1. m \in Octets /\ Len(m) = Len(bytes) /\ mapledecrypt(m) = bytes
  BY MapleBack
<1>2. encrypt(bytes, iv) = e /\ decrypt(e, iv) = mapledecrypt(aesofb(e, iv))
  BY Zenon DEF encrypt, decrypt
<1> HIDE DEF m
<1>3. e \in Octets /\ Len(e) = Len(m) /\ aesofb(e, iv) = m
  BY <1>1, StreamBack
<1> HIDE DEF e
<1> QED BY <1>1, <1>2, <1>3

(* The header says the length, at every position and of every version.      *)
LEMMA HeaderSays ==
    ASSUME NEW n \in Words, NEW iv \in Ivs
    PROVE  create_header(n, iv) \in Octets /\ check_length(create_header(n, iv)) = n
<1> DEFINE p == 256 * iv[4] + iv[3]
           a == Xor16(p, Version)
           b == Xor16(a, n)
<1>1. p \in Words
  <2>1. iv[4] \in Octet /\ iv[3] \in Octet /\ Octet \subseteq Nat
    BY OctetFacts DEF Ivs
  <2>2. Joined(iv[4], iv[3]) \in Words
    BY <2>1, WordHalves, Zenon
  <2>3. p = Joined(iv[4], iv[3])
    BY Zenon DEF Joined
  <2> QED BY <2>2, <2>3
<1> HIDE DEF p
<1>2. a \in Words
  BY <1>1, CipherAssumption, Xors16
<1> HIDE DEF a
<1>3. b \in Words /\ Xor16(a, b) = n
  <2>1. b \in Words /\ Xor16(b, a) = Xor16(a, b) /\ b = Xor16(n, a)
    BY <1>2, Xors16
  <2>2. Xor16(Xor16(n, a), a) = n
    BY <1>2, Xors16
  <2> QED BY <2>1, <2>2
<1> HIDE DEF b
<1>4. create_header(n, iv) = <<Lo(a), Hi(a), Lo(b), Low(Hi(b))>>
  BY DEF create_header, p, a, b, Low, Lo, Hi
<1>5. ASSUME NEW w \in Words
      PROVE  Lo(w) \in Octet /\ Hi(w) \in Octet /\ Low(Hi(w)) = Hi(w) /\ Lo(w) + 256 * Hi(w) = w
  <2>1. Lo(w) \in Octet /\ Hi(w) \in Octet /\ Joined(Hi(w), Lo(w)) = w
    BY WordHalves, Zenon
  <2>2. \A o \in Octet : Low(o) = o
    BY DEF Low, Octet
  <2>3. Joined(Hi(w), Lo(w)) = Lo(w) + 256 * Hi(w)
    <3>1. Lo(w) \in Nat /\ Hi(w) \in Nat
      BY <2>1, OctetFacts
    <3> QED BY <3>1 DEF Joined
  <2> QED BY <2>1, <2>2, <2>3, Zenon
<1>6. /\ Lo(a) \in Octet /\ Hi(a) \in Octet /\ Lo(a) + 256 * Hi(a) = a
      /\ Lo(b) \in Octet /\ Low(Hi(b)) \in Octet /\ Lo(b) + 256 * Low(Hi(b)) = b
  BY <1>2, <1>3, <1>5
<1>7. create_header(n, iv) \in Octets
  BY <1>4, <1>6 DEF Octets
<1>8. check_length(create_header(n, iv)) = Xor16(Lo(a) + 256 * Hi(a), Lo(b) + 256 * Low(Hi(b)))
  BY <1>4 DEF check_length
<1> QED BY <1>3, <1>6, <1>7, <1>8

(* Both ends are at one position when nothing is on its way; a body on its  *)
(* way was sealed at the position of the end that is to open it.            *)
CipherInv ==
    /\ sendiv \in Ivs /\ recviv \in Ivs
    /\ plain \in Octets /\ Len(plain) \in Words
    /\ wire = Idle => opened = plain /\ sendiv = recviv
    /\ wire # Idle => /\ sendiv = updateiv(recviv)
                      /\ wire.header = create_header(Len(plain), recviv)
                      /\ wire.body = encrypt(plain, recviv)

(* Both ends start at one position, with nothing on its way.                *)
LEMMA CipherStart == CipherInit => CipherInv
<1> SUFFICES ASSUME CipherInit PROVE CipherInv
  OBVIOUS
<1>1. sendiv \in Ivs /\ recviv = sendiv
  BY DEF CipherInit, Ivs, Octet
<1>2. plain \in Octets /\ Len(plain) \in Words
  BY DEF CipherInit, Octets, Words
<1>3. wire = Idle /\ opened = plain
  BY DEF CipherInit
<1> QED BY <1>1, <1>2, <1>3 DEF CipherInv

(* Every step keeps it.                                                     *)
LEMMA CipherStep == CipherInv /\ [CipherNext]_cipherVars => CipherInv'
<1> SUFFICES ASSUME CipherInv, [CipherNext]_cipherVars PROVE CipherInv'
  OBVIOUS
<1>1. CASE Unseal
  <2>1. wire # Idle /\ wire' = Idle /\ recviv' = updateiv(recviv) /\ sendiv' = sendiv /\ plain' = plain
    BY <1>1 DEF Unseal
  <2>2. recviv' = sendiv /\ recviv' \in Ivs
    BY <2>1 DEF CipherInv
  <2>3. opened' = plain
    <3>1. check_length(wire.header) = Len(plain)
      BY <2>1, HeaderSays DEF CipherInv
    <3>2. wire.body \in Octets /\ Len(wire.body) = Len(plain) /\ decrypt(wire.body, recviv) = plain
      BY <2>1, SealBack DEF CipherInv
    <3>3. SubSeq(wire.body, 1, Len(wire.body)) = wire.body
      BY <3>2 DEF Octets
    <3> QED BY <1>1, <3>1, <3>2, <3>3 DEF Unseal
  <2> QED BY <2>1, <2>2, <2>3 DEF CipherInv
<1>2. ASSUME wire = Idle, NEW bytes \in Sealable \cup {Again}, Seal(bytes) PROVE CipherInv'
  <2>1. bytes \in Octets /\ Len(bytes) \in Words
    <3>1. CASE bytes \in {<<b>> : b \in 0..255}
      <4>1. PICK b \in 0..255 : bytes = <<b>>
        BY <3>1
      <4> QED BY <4>1 DEF Octets, Octet, Words
    <3>2. CASE bytes \in {[i \in 1..n |-> Low(37 * i)] : n \in BodyLengths}
      <4>1. PICK n \in BodyLengths : bytes = [i \in 1..n |-> Low(37 * i)]
        BY <3>2
      <4>2. n \in Words /\ n \in Nat
        BY CipherAssumption DEF Words
      <4>3. \A i \in 1..n : Low(37 * i) \in Octet
        BY <4>2, LowIs
      <4>4. bytes \in [1..n -> Octet]
        BY <4>1, <4>3
      <4> QED BY <4>2, <4>4 DEF Octets
    <3>3. CASE bytes = Again
      BY <3>3 DEF Again, Octets, Octet, Words
    <3> QED BY <1>2, <3>1, <3>2, <3>3 DEF Sealable
  <2>2. /\ plain' = bytes /\ sendiv' = updateiv(sendiv) /\ recviv' = recviv
        /\ wire' = [header |-> create_header(Len(bytes), sendiv), body |-> encrypt(bytes, sendiv)]
    BY <1>2 DEF Seal
  <2>3. sendiv = recviv /\ sendiv \in Ivs
    BY <1>2 DEF CipherInv
  <2>4. sendiv' \in Ivs
    BY <2>2, <2>3, StreamIs
  <2>5. wire' # Idle
    <3>1. create_header(Len(bytes), sendiv) # <<>>
      BY DEF create_header
    <3> QED BY <2>2, <3>1 DEF Idle
  <2> QED BY <2>1, <2>2, <2>3, <2>4, <2>5 DEF CipherInv
<1>3. CASE UNCHANGED cipherVars
  BY <1>3 DEF cipherVars, CipherInv
<1>4. CASE CipherNext /\ ~Unseal
  <2>1. wire = Idle /\ \E b \in IF sealed = 0 THEN Sealable ELSE {Again} : Seal(b)
    BY <1>4 DEF CipherNext
  <2>2. \E b \in Sealable \cup {Again} : Seal(b)
    BY <2>1
  <2> QED BY <1>2, <2>1, <2>2
<1> QED BY <1>1, <1>3, <1>4

(* The other end opens what was sealed.                                     *)
LEMMA CipherMeans == CipherInv => OpensWhatWasSealed
<1> SUFFICES ASSUME CipherInv, wire # Idle
             PROVE  check_length(wire.header) = Len(wire.body) /\ Len(wire.body) = Len(plain)
  BY DEF CipherInv, OpensWhatWasSealed
<1>1. check_length(wire.header) = Len(plain)
  BY HeaderSays DEF CipherInv
<1>2. Len(wire.body) = Len(plain)
  BY SealBack DEF CipherInv
<1> QED BY <1>1, <1>2

(* Whatever the version, the blocks of the stream and the lengths of the    *)
(* bodies: every body is opened by the other end as it was sealed.          *)
THEOREM SealedIsOpened == CipherSpec => []OpensWhatWasSealed
<1>1. CipherSpec => []CipherInv
  BY CipherStart, CipherStep, PTL DEF CipherSpec
<1> QED BY <1>1, CipherMeans, PTL


(* What is true of the first and, with any of them, of the next, is true of *)
(* all.                                                                     *)
LEMMA UpTo ==
    ASSUME NEW n \in Nat, NEW T, 0 \in T, \A j \in 0..n - 1 : j \in T => j + 1 \in T
    PROVE  \A j \in 0..n : j \in T
<1> DEFINE U == {j \in 0..n : j \notin T}
<1>1. SUFFICES ASSUME U # {} PROVE FALSE
  OBVIOUS
<1>2. U \in SUBSET Nat
  OBVIOUS
<1>3. PICK m \in U : \A j \in U : m <= j
  BY <1>1, <1>2, LeastOf
<1>4. m \in 0..n /\ m # 0 /\ m \notin T
  BY <1>3
<1>5. m - 1 \in 0..n - 1 /\ m - 1 \in 0..n /\ m - 1 \notin U /\ m - 1 + 1 = m
  BY <1>3, <1>4
<1> QED BY <1>4, <1>5

(* -- a body and one that is cut -------------------------------------------*)
Parts == {"bytes", "pos", "failed", "got", "stuck"}
StartOf(a, b) ==
    /\ a \in Seq(Byte) /\ b \in Seq(Byte) /\ Len(a) <= Len(b)
    /\ \A i \in 1..Len(a) : a[i] = b[i]
(* A cursor that has failed, and two, over a body and over its start, that  *)
(* are where they would be without the cut.                                 *)
Lost(c) == DOMAIN c = Parts /\ c.failed = TRUE /\ Len(c.bytes) \in Nat
Alike(c, d) ==
    /\ DOMAIN c = Parts /\ DOMAIN d = Parts /\ StartOf(c.bytes, d.bytes)
    /\ c.failed = FALSE /\ d.failed = FALSE /\ c.got = d.got
    /\ c.pos = d.pos /\ c.pos \in 0..Len(c.bytes)
(* From c and d on to e and f: what has failed stays so, and what has not   *)
(* yet is still where it would be.                                          *)
Follows(c, d, e, f) ==
    /\ Lost(c) => Lost(e)
    /\ Alike(c, d) => \/ Lost(e)
                      \/ Alike(e, f) /\ c.pos <= e.pos /\ e.bytes = c.bytes

LEMMA FollowsOn ==
    ASSUME NEW c, NEW d, NEW e, NEW f, NEW g, NEW h, Follows(c, d, e, f), Follows(e, f, g, h)
    PROVE  Follows(c, d, g, h)
<1>1. Lost(c) => Lost(g)
  BY DEF Follows
<1>2. ASSUME Alike(c, d), ~Lost(g) PROVE Alike(g, h) /\ c.pos <= g.pos /\ g.bytes = c.bytes
  <2>1. ~Lost(e)
    BY <1>2 DEF Follows
  <2>2. Alike(e, f) /\ c.pos <= e.pos /\ e.bytes = c.bytes
    BY <1>2, <2>1 DEF Follows
  <2>3. Alike(g, h) /\ e.pos <= g.pos /\ g.bytes = e.bytes
    BY <1>2, <2>2 DEF Follows
  <2>4. c.pos \in Int /\ e.pos \in Int /\ g.pos \in Int
    BY <1>2, <2>2, <2>3 DEF Alike
  <2> QED BY <2>2, <2>3, <2>4
<1> QED BY <1>1, <1>2 DEF Follows

LEMMA FollowsSelf == ASSUME NEW c, NEW d PROVE Follows(c, d, c, d)
BY DEF Follows, Alike

LEMMA StartParts ==
    ASSUME NEW a, NEW b, StartOf(a, b), NEW i \in Nat, NEW j \in Nat, 1 <= i, j <= Len(a)
    PROVE  SubSeq(a, i, j) = SubSeq(b, i, j) /\ SubSeq(a, i, j) \in Seq(Byte)
<1> DEFINE m == IF i <= j THEN j - i + 1 ELSE 0
<1>1. Len(a) \in Nat /\ Len(b) \in Nat /\ a \in Seq(Byte) /\ b \in Seq(Byte)
  BY DEF StartOf
<1>2. SubSeq(a, i, j) = [k \in 1..m |-> a[i + k - 1]]
  BY <1>1
<1>3. SubSeq(b, i, j) = [k \in 1..m |-> b[i + k - 1]]
  BY <1>1
<1>4. m \in Nat
  OBVIOUS
<1>5. \A k \in 1..m : a[i + k - 1] = b[i + k - 1] /\ a[i + k - 1] \in Byte
  <2> TAKE k \in 1..m
  <2>1. i + k - 1 \in 1..Len(a)
    BY <1>1
  <2>2. \A x \in 1..Len(a) : a[x] \in Byte
    BY <1>1, ElementOfSeq
  <2> QED BY <2>1, <2>2 DEF StartOf
<1> HIDE DEF m
<1>6. [k \in 1..m |-> a[i + k - 1]] \in [1..m -> Byte]
  BY <1>5
<1>7. [k \in 1..m |-> a[i + k - 1]] \in Seq(Byte)
  <2> DEFINE w == [k \in 1..m |-> a[i + k - 1]]
  <2>1. w \in [1..m -> Byte]
    BY <1>6
  <2> HIDE DEF w
  <2>2. w \in Seq(Byte)
    BY <1>4, <2>1
  <2> QED BY <2>2 DEF w
<1>8. [k \in 1..m |-> a[i + k - 1]] = [k \in 1..m |-> b[i + k - 1]]
  BY <1>5
<1> QED BY <1>2, <1>3, <1>7, <1>8

(* -- the fields -----------------------------------------------------------*)
Holding(c, v) == [c EXCEPT !.got = v]
MovedTo(c, p) == [c EXCEPT !.pos = p]
Same(c, e) == e.pos = c.pos /\ e.bytes = c.bytes

LEMMA KeepLost == ASSUME NEW c, NEW v, Lost(c) PROVE Lost(Keep(c, v)) /\ Lost(Holding(c, v))
BY DEF Lost, Keep, Holding, Parts

LEMMA FailLost == ASSUME NEW c, DOMAIN c = Parts, Len(c.bytes) \in Nat PROVE Lost(Fail(c))
BY DEF Lost, Fail, Parts

LEMMA HoldingAlike ==
    ASSUME NEW c, NEW d, NEW v, Alike(c, d)
    PROVE  Alike(Holding(c, v), Holding(d, v)) /\ Same(c, Holding(c, v)) /\ Holding(c, v).got = v
BY DEF Alike, Holding, Parts, Same

LEMMA KeepAlike ==
    ASSUME NEW c, NEW d, NEW v, Alike(c, d)
    PROVE  Alike(Keep(c, v), Keep(d, v)) /\ Same(c, Keep(c, v)) /\ Keep(c, v).got = Append(c.got, v)
<1> DEFINE w == Append(c.got, v)
<1>1. Keep(c, v) = Holding(c, w) /\ Keep(d, v) = Holding(d, w)
  BY DEF Keep, Holding, Alike
<1> HIDE DEF w
<1>2. Alike(Holding(c, w), Holding(d, w)) /\ Same(c, Holding(c, w)) /\ Holding(c, w).got = w
  BY HoldingAlike
<1> QED BY <1>1, <1>2 DEF w

LEMMA MovedAlike ==
    ASSUME NEW c, NEW d, Alike(c, d), NEW p \in 0..Len(c.bytes)
    PROVE  LET e == MovedTo(c, p) IN Alike(e, MovedTo(d, p)) /\ e.pos = p /\ e.bytes = c.bytes /\ e.got = c.got
BY DEF Alike, Parts, MovedTo

LEMMA AlikeParts ==
    ASSUME NEW c, NEW d, Alike(c, d)
    PROVE  /\ Len(c.bytes) \in Nat /\ Len(d.bytes) \in Nat /\ Len(c.bytes) <= Len(d.bytes) /\ StartOf(c.bytes, d.bytes)
           /\ c.pos \in 0..Len(c.bytes) /\ d.pos = c.pos /\ c.failed = FALSE /\ d.failed = FALSE /\ c.bytes \in Seq(Byte)
           /\ DOMAIN c = Parts /\ DOMAIN d = Parts /\ c.got = d.got /\ c.pos \in Int
BY DEF Alike, StartOf

LEMMA Room ==
    ASSUME NEW c, NEW d, NEW n \in Nat,
           Len(c.bytes) \in Nat /\ Len(d.bytes) \in Nat /\ Len(c.bytes) <= Len(d.bytes) /\ c.pos \in 0..Len(c.bytes) /\ d.pos = c.pos,
           n <= Remaining(c)
    PROVE  /\ ~(n > Remaining(c)) /\ ~(n > Remaining(d)) /\ n \in 0..Remaining(d)
           /\ c.pos + n \in 0..Len(c.bytes) /\ c.pos <= c.pos + n
           /\ c.pos + 1 \in Nat /\ c.pos + n \in Nat /\ 1 <= c.pos + 1 /\ c.pos + n <= Len(c.bytes)
BY DEF Remaining

LEMMA Further ==
    ASSUME NEW c, NEW d, Alike(c, d), NEW n \in Nat, n <= Remaining(c)
    PROVE  /\ ~(n > Remaining(c)) /\ ~(n > Remaining(d)) /\ n \in 0..Remaining(d)
           /\ c.pos + n \in 0..Len(c.bytes) /\ c.pos <= c.pos + n
           /\ c.pos + 1 \in Nat /\ c.pos + n \in Nat /\ 1 <= c.pos + 1 /\ c.pos + n <= Len(c.bytes)
<1>1. Len(c.bytes) \in Nat /\ Len(d.bytes) \in Nat /\ Len(c.bytes) <= Len(d.bytes) /\ c.pos \in 0..Len(c.bytes) /\ d.pos = c.pos
  BY AlikeParts
<1> QED BY <1>1, Room

LEMMA Left == ASSUME NEW c, NEW d, Alike(c, d), NEW n PROVE
    /\ Remaining(c) \in Nat /\ Remaining(d) \in Nat /\ (n \in 0..Remaining(c) => n \in Nat /\ n <= Remaining(c))
    /\ n \in Nat /\ ~(n > Remaining(c)) => n <= Remaining(c)
<1>1. Len(c.bytes) \in Nat /\ Len(d.bytes) \in Nat /\ Len(c.bytes) <= Len(d.bytes) /\ c.pos \in 0..Len(c.bytes) /\ d.pos = c.pos
  BY AlikeParts
<1> QED BY <1>1 DEF Remaining

(* The next n bytes are the same ones.                                      *)
Ahead(c, n) == SubSeq(c.bytes, c.pos + 1, c.pos + n)
LEMMA NextIs ==
    ASSUME NEW c, NEW d, Alike(c, d), NEW n \in Nat, n <= Remaining(c)
    PROVE  Ahead(d, n) = Ahead(c, n) /\ Ahead(c, n) \in Seq(Byte) /\ Len(Ahead(c, n)) = n
<1>1. c.pos + 1 \in Nat /\ c.pos + n \in Nat /\ 1 <= c.pos + 1 /\ c.pos + n <= Len(c.bytes)
  BY Further
<1>2. StartOf(c.bytes, d.bytes) /\ d.pos = c.pos /\ c.bytes \in Seq(Byte) /\ c.pos \in 0..Len(c.bytes)
  BY AlikeParts
<1>3. SubSeq(c.bytes, c.pos + 1, c.pos + n) = SubSeq(d.bytes, c.pos + 1, c.pos + n) /\ SubSeq(c.bytes, c.pos + 1, c.pos + n) \in Seq(Byte)
  BY <1>1, <1>2, StartParts
<1>4. Len(SubSeq(c.bytes, c.pos + 1, c.pos + n)) = n
  BY <1>1, <1>2
<1> QED BY <1>2, <1>3, <1>4 DEF Ahead

LEMMA OverFollows == ASSUME NEW c, NEW d, NEW n PROVE Follows(c, d, Over(c, n), Over(d, n))
<1>1. ASSUME Lost(c) PROVE Lost(Over(c, n))
  BY <1>1 DEF Over, Lost
<1>2. ASSUME Alike(c, d), n \in 0..Remaining(c)
      PROVE  Alike(Over(c, n), Over(d, n)) /\ c.pos <= Over(c, n).pos /\ Over(c, n).bytes = c.bytes
  <2>1. n \in 0..Remaining(d) /\ c.pos + n \in 0..Len(c.bytes) /\ c.pos <= c.pos + n
    <3>1. n \in Nat /\ n <= Remaining(c)
      BY <1>2, Left
    <3> QED BY <1>2, <3>1, Further
  <2>2. Over(c, n) = MovedTo(c, c.pos + n) /\ Over(d, n) = MovedTo(d, c.pos + n)
    BY <1>2, <2>1, AlikeParts DEF Over, MovedTo
  <2> QED BY <1>2, <2>1, <2>2, MovedAlike
<1>3. ASSUME Alike(c, d), n \notin 0..Remaining(c) PROVE Lost(Over(c, n))
  <2>1. Over(c, n) = Fail(c)
    BY <1>3 DEF Over, Alike
  <2> QED BY <1>3, <2>1, FailLost, AlikeParts
<1> QED BY <1>1, <1>2, <1>3 DEF Follows

LEMMA NumberLost == ASSUME NEW c, NEW n, Lost(c) PROVE Lost(Number(c, n))
<1>1. Number(c, n) = Keep(Fail(c), Zeros(n)) /\ DOMAIN c = Parts /\ Len(c.bytes) \in Nat
  BY DEF Number, Lost
<1> QED BY <1>1, FailLost, KeepLost

(* The number that is read where there is one.                              *)
LEMMA NumberIs ==
    ASSUME NEW c, NEW d, NEW n \in Nat, Alike(c, d), ~Lost(Number(c, n))
    PROVE  /\ Alike(Number(c, n), Number(d, n))
           /\ Number(c, n).pos = c.pos + n /\ Number(c, n).bytes = c.bytes /\ c.pos <= c.pos + n
           /\ Ahead(c, n) \in Seq(Byte) /\ Len(Ahead(c, n)) = n /\ Number(c, n).got = Append(c.got, Ahead(c, n))
<1>1. n <= Remaining(c)
  <2>1. n > Remaining(c) => Lost(Number(c, n))
    <3> SUFFICES ASSUME n > Remaining(c) PROVE Lost(Number(c, n))
      OBVIOUS
    <3>1. Number(c, n) = Keep(Fail(c), Zeros(n))
      BY DEF Number
    <3> QED BY <3>1, FailLost, KeepLost, AlikeParts
  <2> QED BY <2>1, Left
<1>2. ~(n > Remaining(c)) /\ ~(n > Remaining(d)) /\ c.pos + n \in 0..Len(c.bytes) /\ c.pos <= c.pos + n
  BY <1>1, Further
<1>3. Ahead(d, n) = Ahead(c, n) /\ Ahead(c, n) \in Seq(Byte) /\ Len(Ahead(c, n)) = n
  BY <1>1, NextIs
<1> DEFINE e == MovedTo(c, c.pos + n)
           f == MovedTo(d, c.pos + n)
<1>4. Number(c, n) = Keep(e, Ahead(c, n)) /\ Number(d, n) = Keep(f, Ahead(c, n))
  <2>1. c.failed = FALSE /\ d.failed = FALSE /\ d.pos = c.pos
    BY AlikeParts
  <2>2. Number(d, n) = Keep(f, Ahead(d, n))
    BY <1>2, <2>1 DEF Number, Ahead, MovedTo
  <2> QED BY <1>2, <1>3, <2>1, <2>2 DEF Number, Ahead, MovedTo
<1>5. Alike(e, f) /\ e.pos = c.pos + n /\ e.bytes = c.bytes /\ e.got = c.got
  BY <1>2, MovedAlike
<1> HIDE DEF e, f
<1>6. Alike(Keep(e, Ahead(c, n)), Keep(f, Ahead(c, n))) /\ Same(e, Keep(e, Ahead(c, n)))
      /\ Keep(e, Ahead(c, n)).got = Append(e.got, Ahead(c, n))
  BY <1>5, KeepAlike
<1> QED BY <1>2, <1>3, <1>4, <1>5, <1>6 DEF Same

LEMMA NumberFollows == ASSUME NEW c, NEW d, NEW n \in Nat PROVE Follows(c, d, Number(c, n), Number(d, n))
<1>1. Lost(c) => Lost(Number(c, n))
  BY NumberLost
<1>2. ASSUME Alike(c, d), ~Lost(Number(c, n))
      PROVE  Alike(Number(c, n), Number(d, n)) /\ c.pos <= Number(c, n).pos /\ Number(c, n).bytes = c.bytes
  BY <1>2, NumberIs
<1> QED BY <1>1, <1>2 DEF Follows

LEMMA LettersLost == ASSUME NEW c, NEW n, Lost(c) PROVE Lost(Letters(c, n))
<1>1. Letters(c, n) = Keep(c, <<>>)
  BY DEF Letters, Lost
<1> QED BY <1>1, KeepLost

Halted(c, p, failed) == [c EXCEPT !.pos = p, !.failed = failed]

LEMMA LettersFollow == ASSUME NEW c, NEW d, NEW n \in Nat PROVE Follows(c, d, Letters(c, n), Letters(d, n))
<1>1. Lost(c) => Lost(Letters(c, n))
  BY LettersLost
<1>2. ASSUME Alike(c, d), ~Lost(Letters(c, n))
      PROVE  Alike(Letters(c, n), Letters(d, n)) /\ c.pos <= Letters(c, n).pos /\ Letters(c, n).bytes = c.bytes
  <2>1. n <= Remaining(c)
    <3>1. n > Remaining(c) => Lost(Letters(c, n))
      <4> SUFFICES ASSUME n > Remaining(c) PROVE Lost(Letters(c, n))
        OBVIOUS
      <4>1. Letters(c, n) = Keep(Halted(c, Len(c.bytes), TRUE), Dropped(SubSeq(c.bytes, c.pos + 1, Len(c.bytes))))
        <5>1. c.failed = FALSE
          BY <1>2, AlikeParts
        <5>2. (n > Remaining(c)) = TRUE
          OBVIOUS
        <5> QED BY <5>1, <5>2 DEF Letters, Halted
      <4>2. Lost(Halted(c, Len(c.bytes), TRUE))
        <5>1. Len(c.bytes) \in Nat /\ DOMAIN c = Parts
          BY <1>2, AlikeParts
        <5> QED BY <5>1 DEF Lost, Parts, Halted
      <4> QED BY <4>1, <4>2, KeepLost
    <3> QED BY <1>2, <3>1, Left
  <2>2. ~(n > Remaining(c)) /\ ~(n > Remaining(d)) /\ c.pos + n \in 0..Len(c.bytes) /\ c.pos <= c.pos + n
    BY <1>2, <2>1, Further
  <2>3. Ahead(d, n) = Ahead(c, n)
    BY <1>2, <2>1, NextIs
  <2> DEFINE e == Halted(c, c.pos + n, FALSE)
             f == Halted(d, c.pos + n, FALSE)
             v == Dropped(Ahead(c, n))
  <2>4. Letters(c, n) = Keep(e, v)
    <3>1. c.failed = FALSE
      BY <1>2, AlikeParts
    <3>2. (n > Remaining(c)) = FALSE
      BY <2>2
    <3> QED BY <3>1, <3>2 DEF Letters, Halted, Ahead
  <2>5. Letters(d, n) = Keep(f, v)
    <3>1. d.failed = FALSE /\ d.pos = c.pos
      BY <1>2, AlikeParts
    <3>2. (n > Remaining(d)) = FALSE
      BY <2>2
    <3>3. Letters(d, n) = Keep(Halted(d, d.pos + n, FALSE), Dropped(Ahead(d, n)))
      BY <3>1, <3>2 DEF Letters, Halted, Ahead
    <3> QED BY <2>3, <3>1, <3>3
  <2>6. Alike(e, f) /\ e.pos = c.pos + n /\ e.bytes = c.bytes
    BY <1>2, <2>2 DEF Alike, Parts, Halted
  <2> HIDE DEF e, f, v
  <2>7. Alike(Keep(e, v), Keep(f, v)) /\ Same(e, Keep(e, v))
    BY <2>6, KeepAlike
  <2> QED BY <2>2, <2>4, <2>5, <2>6, <2>7 DEF Same
<1> QED BY <1>1, <1>2 DEF Follows

LEMMA OneByte ==
    ASSUME NEW u, NEW s, NEW x \in 0..255, u = x, s = IF x < 128 THEN u ELSE x - 256 PROVE u \in Nat /\ s \in Int
OBVIOUS
LEMMA TwoBytes ==
    ASSUME NEW u, NEW s, NEW x \in 0..255, NEW y \in 0..255, u = x + 256 * y, s = IF y < 128 THEN u ELSE x + 256 * (y - 256)
    PROVE  u \in Nat /\ s \in Int
OBVIOUS
LEMMA Values ==
    ASSUME NEW v \in Seq(Byte), Len(v) \in {1, 2, 4}
    PROVE  Unsigned(v) \in Nat /\ Signed(v) \in Int
<1>0. \A i \in 1..Len(v) : v[i] \in 0..255
  BY ElementOfSeq DEF Byte
<1>1. CASE Len(v) = 1
  <2>1. v[1] \in 0..255
    BY <1>0, <1>1
  <2>2. Unsigned(v) = v[1]
    BY <1>1 DEF Unsigned
  <2>3. Signed(v) = IF v[1] < 128 THEN Unsigned(v) ELSE v[1] - 256
    BY <1>1 DEF Signed
  <2> QED BY <2>1, <2>2, <2>3, OneByte
<1>2. CASE Len(v) = 2
  <2>1. v[1] \in 0..255 /\ v[2] \in 0..255
    BY <1>0, <1>2
  <2>2. Unsigned(v) = v[1] + 256 * v[2]
    BY <1>2 DEF Unsigned
  <2>3. Signed(v) = IF v[2] < 128 THEN Unsigned(v) ELSE v[1] + 256 * (v[2] - 256)
    BY <1>2 DEF Signed
  <2> QED BY <2>1, <2>2, <2>3, TwoBytes, Zenon
<1>3. CASE Len(v) = 4
  <2>1. v[1] \in 0..255 /\ v[2] \in 0..255 /\ v[3] \in 0..255 /\ v[4] \in 0..255
    BY <1>0, <1>3
  <2>2. Unsigned(v) = v[1] + 256 * v[2] + 65536 * v[3] + 16777216 * v[4]
    BY <1>3 DEF Unsigned
  <2>3. Signed(v) = IF v[4] < 128 THEN Unsigned(v) ELSE v[1] + 256 * v[2] + 65536 * v[3] + 16777216 * (v[4] - 256)
    BY <1>3 DEF Signed
  <2> DEFINE x == v[1]  y == v[2]  z == v[3]  w == v[4]
             u == Unsigned(v)  s == Signed(v)
  <2>4. /\ x \in 0..255 /\ y \in 0..255 /\ z \in 0..255 /\ w \in 0..255
        /\ u = x + 256 * y + 65536 * z + 16777216 * w
        /\ s = IF w < 128 THEN u ELSE x + 256 * y + 65536 * z + 16777216 * (w - 256)
    BY <2>1, <2>2, <2>3
  <2> HIDE DEF x, y, z, w, u, s
  <2>5. u \in Nat /\ s \in Int
    BY <2>4
  <2> QED BY <2>5 DEF u, s
<1> QED BY <1>1, <1>2, <1>3

Fit(f) == f.kind \in {"get", "padded"} => f.n \in Nat

LEMMA CountedFollows ==
    ASSUME NEW c, NEW d, NEW kept
    PROVE  Follows(c, d, Counted(c, Number(Holding(c, <<>>), 2), kept), Counted(d, Number(Holding(d, <<>>), 2), kept))
<1> DEFINE p == Number(Holding(c, <<>>), 2)
           q == Number(Holding(d, <<>>), 2)
           c1 == Holding(p, c.got)
           d1 == Holding(q, d.got)
           n == Unsigned(p.got[1])
           x == Counted(c, p, kept)
           y == Counted(d, q, kept)
<1>1. x = IF kept THEN Letters(c1, n) ELSE Over(c1, n)
  BY DEF Counted, Holding
<1>2. y = IF kept THEN Letters(d1, Unsigned(q.got[1])) ELSE Over(d1, Unsigned(q.got[1]))
  BY DEF Counted, Holding
<1>3. Lost(c) => Lost(p)
  BY KeepLost, NumberLost
<1> HIDE DEF x, y
<1>4. Lost(p) => Lost(c1)
  <2> HIDE DEF p
  <2> QED BY KeepLost
<1>5. Lost(c1) => Lost(x)
  <2> HIDE DEF c1, n
  <2>1. Lost(c1) => Lost(Letters(c1, n)) /\ Lost(Over(c1, n))
    BY LettersLost, OverFollows DEF Follows
  <2> QED BY <1>1, <2>1
<1>6. ASSUME Alike(c, d), ~Lost(p) PROVE Follows(c, d, x, y)
  <2>1. Alike(Holding(c, <<>>), Holding(d, <<>>)) /\ Same(c, Holding(c, <<>>)) /\ Holding(c, <<>>).got = <<>>
    BY <1>6, HoldingAlike
  <2> DEFINE v == Ahead(Holding(c, <<>>), 2)
  <2>2. /\ Alike(p, q) /\ p.pos = c.pos + 2 /\ p.bytes = c.bytes /\ c.pos <= c.pos + 2
        /\ v \in Seq(Byte) /\ Len(v) = 2 /\ p.got = Append(<<>>, v)
    <3>1. /\ Alike(p, q) /\ p.pos = Holding(c, <<>>).pos + 2 /\ p.bytes = Holding(c, <<>>).bytes
          /\ Holding(c, <<>>).pos <= Holding(c, <<>>).pos + 2
          /\ v \in Seq(Byte) /\ Len(v) = 2 /\ p.got = Append(Holding(c, <<>>).got, v)
      <4> DEFINE c0 == Holding(c, <<>>)
                 d0 == Holding(d, <<>>)
      <4> HIDE DEF c0, d0
      <4>0. 2 \in Nat
        OBVIOUS
      <4>1. Alike(c0, d0)
        BY <2>1 DEF c0, d0
      <4>2. ~Lost(Number(c0, 2))
        BY <1>6 DEF c0
      <4>3. /\ Alike(Number(c0, 2), Number(d0, 2)) /\ Number(c0, 2).pos = c0.pos + 2
            /\ Number(c0, 2).bytes = c0.bytes /\ c0.pos <= c0.pos + 2
            /\ Ahead(c0, 2) \in Seq(Byte) /\ Len(Ahead(c0, 2)) = 2 /\ Number(c0, 2).got = Append(c0.got, Ahead(c0, 2))
        BY <4>1, <4>2, NumberIs, Zenon, <4>0
      <4> QED BY <4>3 DEF c0, d0
    <3> HIDE DEF p, q, v
    <3> QED BY <2>1, <3>1 DEF Same
  <2> HIDE DEF v, p, q
  <2>3. p.got[1] = v /\ q.got = p.got
    BY <2>2 DEF Alike
  <2>4. n \in Nat
    BY <2>2, <2>3, Values
  <2>5. Alike(c1, d1) /\ Same(p, c1)
    <3>1. c.got = d.got
      BY <1>6 DEF Alike
    <3> QED BY <2>2, <3>1, HoldingAlike
  <2>6. c.pos <= c1.pos /\ c1.bytes = c.bytes
    BY <2>2, <2>5 DEF Same
  <2>7. ~Lost(c)
    BY <1>6 DEF Lost, Alike
  <2>8. y = IF kept THEN Letters(d1, n) ELSE Over(d1, n)
    BY <1>2, <2>3
  <2> HIDE DEF c1, d1, n
  <2>9. Follows(c, d, c1, d1)
    BY <2>5, <2>6, <2>7 DEF Follows
  <2>10. Follows(c1, d1, x, y)
    BY <1>1, <2>4, <2>8, LettersFollow, OverFollows
  <2> QED BY <2>9, <2>10, FollowsOn
<1>7. Lost(c) => Lost(x)
  BY <1>3, <1>4, <1>5
<1>8. Lost(p) => Lost(x)
  BY <1>4, <1>5
<1>9. Follows(c, d, x, y)
  BY <1>6, <1>7, <1>8 DEF Follows
<1> QED BY <1>9 DEF x, y

LEMMA FieldFollows == ASSUME NEW c, NEW d, NEW f, Fit(f) PROVE Follows(c, d, Field(c, f), Field(d, f))
<1>1. CASE f.kind = "skip"
  <2>1. Field(c, f) = Over(c, f.n) /\ Field(d, f) = Over(d, f.n)
    BY <1>1 DEF Field
  <2> QED BY <2>1, OverFollows
<1>2. CASE f.kind = "get"
  <2>1. Field(c, f) = Number(c, f.n) /\ Field(d, f) = Number(d, f.n) /\ f.n \in Nat
    BY <1>2 DEF Field, Fit
  <2> QED BY <2>1, NumberFollows
<1>3. CASE f.kind = "padded"
  <2>1. Field(c, f) = Letters(c, f.n) /\ Field(d, f) = Letters(d, f.n) /\ f.n \in Nat
    BY <1>3 DEF Field, Fit
  <2> QED BY <2>1, LettersFollow
<1>4. CASE f.kind \notin {"skip", "get", "padded"}
  <2>1. /\ Field(c, f) = Counted(c, Number(Holding(c, <<>>), 2), f.kind = "text")
        /\ Field(d, f) = Counted(d, Number(Holding(d, <<>>), 2), f.kind = "text")
    BY <1>4 DEF Field, Holding
  <2> QED BY <2>1, CountedFollows
<1> QED BY <1>1, <1>2, <1>3, <1>4

(* -- layouts and loops ----------------------------------------------------*)
(* Along two lists of cursors that follow each other, one step at a time.   *)
LEMMA Along ==
    ASSUME NEW f, NEW g, NEW n \in Nat, \A k \in 0..n - 1 : Follows(f[k], g[k], f[k + 1], g[k + 1])
    PROVE  \A k \in 0..n : Follows(f[0], g[0], f[k], g[k]) /\ Follows(f[k], g[k], f[n], g[n])
<1>1. \A k \in 0..n : Follows(f[0], g[0], f[k], g[k])
  <2> DEFINE T == {k \in 0..n : Follows(f[0], g[0], f[k], g[k])}
  <2>1. 0 \in T
    BY FollowsSelf
  <2>2. ASSUME NEW j \in 0..n - 1, j \in T PROVE j + 1 \in T
    <3>1. Follows(f[0], g[0], f[j + 1], g[j + 1])
      BY <2>2, FollowsOn
    <3> QED BY <3>1
  <2> HIDE DEF T
  <2>3. \A k \in 0..n : k \in T
    BY <2>1, <2>2, UpTo
  <2> QED BY <2>3 DEF T
<1>2. \A k \in 0..n : Follows(f[k], g[k], f[n], g[n])
  <2> DEFINE T == {k \in 0..n : Follows(f[n - k], g[n - k], f[n], g[n])}
  <2>1. 0 \in T
    BY FollowsSelf
  <2>2. ASSUME NEW j \in 0..n - 1, j \in T PROVE j + 1 \in T
    <3> DEFINE k == n - (j + 1)
    <3>1. k \in 0..n - 1 /\ k + 1 = n - j /\ j + 1 \in 0..n
      OBVIOUS
    <3> HIDE DEF k
    <3>2. Follows(f[k], g[k], f[k + 1], g[k + 1]) /\ Follows(f[k + 1], g[k + 1], f[n], g[n])
      BY <2>2, <3>1
    <3>3. Follows(f[k], g[k], f[n], g[n])
      BY <3>2, FollowsOn
    <3> QED BY <3>1, <3>3 DEF k
  <2> HIDE DEF T
  <2>3. \A k \in 0..n : k \in T
    BY <2>1, <2>2, UpTo
  <2>4. ASSUME NEW k \in 0..n PROVE Follows(f[k], g[k], f[n], g[n])
    <3>1. n - k \in 0..n /\ n - (n - k) = k
      OBVIOUS
    <3> QED BY <2>3, <3>1 DEF T
  <2> QED BY <2>4
<1> QED BY <1>1, <1>2

(* Whoever is still reading at the end has been all along.                  *)
LEMMA AllAlong ==
    ASSUME NEW f, NEW g, NEW n \in Nat, \A k \in 0..n - 1 : Follows(f[k], g[k], f[k + 1], g[k + 1]),
           Alike(f[0], g[0]), ~Lost(f[n])
    PROVE  \A k \in 0..n : Alike(f[k], g[k])
<1> TAKE k \in 0..n
<1>1. Follows(f[0], g[0], f[k], g[k]) /\ Follows(f[k], g[k], f[n], g[n])
  BY Along
<1> QED BY <1>1 DEF Follows

Layout(l) == Len(l) \in Nat /\ \A i \in 1..Len(l) : Fit(l[i])

(* The cursors a layout is read with.                                       *)
IsRead(r, c, l, n) == r = [i \in 0..n |-> IF i = 0 THEN c ELSE Field(r[i - 1], l[i])]

LEMMA ReadIs ==
    ASSUME NEW c, NEW l, Len(l) \in Nat
    PROVE  \E r : /\ r[0] = c /\ \A k \in 0..Len(l) - 1 : r[k + 1] = Field(r[k], l[k + 1])
                  /\ Fields(c, l) = IF Remaining(c) < 0 THEN c ELSE r[Len(l)]
<1> DEFINE N == Len(l)
           T == {n \in 0..N : \E r : IsRead(r, c, l, n)}
<1>1. 0 \in T
  <2>1. IsRead([i \in 0..0 |-> c], c, l, 0)
    BY DEF IsRead
  <2> QED BY <2>1
<1>2. ASSUME NEW j \in 0..N - 1, j \in T PROVE j + 1 \in T
  <2>1. PICK r : IsRead(r, c, l, j)
    BY <1>2
  <2> DEFINE s == [i \in 0..j + 1 |-> IF i = j + 1 THEN Field(r[j], l[j + 1]) ELSE r[i]]
  <2>2. \A i \in 0..j + 1 : s[i] = IF i = 0 THEN c ELSE Field(s[i - 1], l[i])
    <3> TAKE i \in 0..j + 1
    <3>1. CASE i = 0
      BY <2>1, <3>1 DEF IsRead
    <3>2. CASE i # 0 /\ i # j + 1
      <4>1. i \in 0..j /\ i - 1 \in 0..j + 1 /\ i - 1 # j + 1
        BY <3>2
      <4>2. r[i] = Field(r[i - 1], l[i])
        BY <2>1, <3>2, <4>1 DEF IsRead
      <4> QED BY <3>2, <4>1, <4>2
    <3>3. CASE i = j + 1
      <4>1. i # 0 /\ i - 1 = j /\ j \in 0..j + 1 /\ j # j + 1
        BY <3>3
      <4> QED BY <3>3, <4>1
    <3> QED BY <3>1, <3>2, <3>3
  <2>3. s = [i \in 0..j + 1 |-> IF i = 0 THEN c ELSE Field(s[i - 1], l[i])]
    <3>1. s = [i \in 0..j + 1 |-> s[i]]
      OBVIOUS
    <3> HIDE DEF s
    <3> QED BY <2>2, <3>1
  <2> HIDE DEF s
  <2>4. IsRead(s, c, l, j + 1)
    BY <2>3 DEF IsRead
  <2> QED BY <2>4
<1>3. N \in T
  <2> HIDE DEF T
  <2>1. \A n \in 0..N : n \in T
    BY <1>1, <1>2, UpTo
  <2> QED BY <2>1
<1> DEFINE r == CHOOSE r : IsRead(r, c, l, N)
<1>4. IsRead(r, c, l, N)
  BY <1>3
<1>5. Fields(c, l) = IF Remaining(c) < 0 THEN c ELSE r[N]
  BY DEF Fields, IsRead
<1> HIDE DEF r
<1>6. r[0] = c /\ \A k \in 0..N - 1 : r[k + 1] = Field(r[k], l[k + 1])
  <2>1. r = [i \in 0..N |-> IF i = 0 THEN c ELSE Field(r[i - 1], l[i])]
    BY <1>4 DEF IsRead
  <2>2. r[0] = c
    BY <2>1
  <2>3. ASSUME NEW k \in 0..N - 1 PROVE r[k + 1] = Field(r[k], l[k + 1])
    <3>1. k + 1 \in 0..N /\ k + 1 # 0 /\ k + 1 - 1 = k
      OBVIOUS
    <3> QED BY <2>1, <3>1
  <2> QED BY <2>2, <2>3
<1> QED BY <1>5, <1>6

LEMMA FieldsFollow == ASSUME NEW c, NEW d, NEW l, Layout(l) PROVE Follows(c, d, Fields(c, l), Fields(d, l))
<1>0. Len(l) \in Nat
  BY DEF Layout
<1>1. PICK r : /\ r[0] = c /\ \A k \in 0..Len(l) - 1 : r[k + 1] = Field(r[k], l[k + 1])
               /\ Fields(c, l) = IF Remaining(c) < 0 THEN c ELSE r[Len(l)]
  BY <1>0, ReadIs
<1>2. PICK s : /\ s[0] = d /\ \A k \in 0..Len(l) - 1 : s[k + 1] = Field(s[k], l[k + 1])
               /\ Fields(d, l) = IF Remaining(d) < 0 THEN d ELSE s[Len(l)]
  BY <1>0, ReadIs
<1>3. \A k \in 0..Len(l) - 1 : Follows(r[k], s[k], r[k + 1], s[k + 1])
  <2> TAKE k \in 0..Len(l) - 1
  <2>1. Fit(l[k + 1])
    BY DEF Layout
  <2> QED BY <1>1, <1>2, <2>1, FieldFollows
<1>4. Follows(c, d, r[Len(l)], s[Len(l)])
  <2>1. Len(l) \in Nat /\ Len(l) \in 0..Len(l)
    BY DEF Layout
  <2>2. Follows(r[0], s[0], r[Len(l)], s[Len(l)])
    BY <1>3, <2>1, Along
  <2> QED BY <1>1, <1>2, <2>2
<1>5. Lost(c) => Lost(Fields(c, l))
  BY <1>1, <1>4 DEF Follows
<1>6. ASSUME Alike(c, d) PROVE Fields(c, l) = r[Len(l)] /\ Fields(d, l) = s[Len(l)]
  <2>1. Remaining(c) \in Nat /\ Remaining(d) \in Nat
    BY <1>6, Left
  <2>2. ~(Remaining(c) < 0) /\ ~(Remaining(d) < 0)
    BY <2>1
  <2> QED BY <1>1, <1>2, <2>2
<1> QED BY <1>4, <1>5, <1>6 DEF Follows

LEMMA TakeFollows == ASSUME NEW c, NEW d, NEW l, Layout(l) PROVE Follows(c, d, Take(c, l), Take(d, l))
<1>1. Take(c, l) = Fields(Holding(c, <<>>), l) /\ Take(d, l) = Fields(Holding(d, <<>>), l)
  BY DEF Take, Holding
<1>2. Follows(c, d, Holding(c, <<>>), Holding(d, <<>>))
  <2>1. ASSUME Alike(c, d) PROVE c.pos <= c.pos
    <3>1. c.pos \in Int
      BY <2>1, AlikeParts
    <3> QED BY <3>1
  <2>2. Lost(c) => Lost(Holding(c, <<>>))
    BY KeepLost
  <2>3. Alike(c, d) => Alike(Holding(c, <<>>), Holding(d, <<>>)) /\ Same(c, Holding(c, <<>>))
    BY HoldingAlike
  <2> QED BY <2>1, <2>2, <2>3 DEF Follows, Same
<1>3. Follows(Holding(c, <<>>), Holding(d, <<>>), Take(c, l), Take(d, l))
  BY <1>1, FieldsFollow
<1> QED BY <1>2, <1>3, FollowsOn

(* -- what parsers answer ---------------------------------------------------*)
(* Two answers, read on from c and from d: one of a body that ended is lost, *)
(* any other is the same.                                                   *)
Reads(c, d, r, s) ==
    /\ Follows(c, d, r.c, s.c)
    /\ Alike(c, d) /\ ~Lost(r.c) => r.ok = s.ok /\ r.v = s.v
(* An answer is given of what was there.                                    *)
Doubts(r) == r.ok => ~Lost(r.c)

LEMMA ReadsOn ==
    ASSUME NEW c, NEW d, NEW e, NEW f, NEW r, NEW s, Follows(c, d, e, f), Reads(e, f, r, s)
    PROVE  Reads(c, d, r, s)
<1>1. Follows(c, d, r.c, s.c)
  BY FollowsOn DEF Reads
<1>2. Alike(c, d) /\ ~Lost(r.c) => r.ok = s.ok /\ r.v = s.v
  BY DEF Reads, Follows
<1> QED BY <1>1, <1>2 DEF Reads

(* What is the same only where the cursors are.                             *)
LEMMA ReadsSame ==
    ASSUME NEW c, NEW d, NEW r, NEW s, NEW t, Reads(c, d, r, s), Alike(c, d) => t = s
    PROVE  Reads(c, d, r, t)
BY DEF Reads, Follows

LEMMA FollowsSame ==
    ASSUME NEW c, NEW d, NEW e, NEW f, NEW g, Follows(c, d, e, f), Alike(c, d) => g = f
    PROVE  Follows(c, d, e, g)
BY DEF Follows

LEMMA AnswerIs == ASSUME NEW e, NEW v PROVE /\ Answer(e, v).c = e /\ Answer(e, v).ok = TRUE /\ Answer(e, v).v = v
                                            /\ Nothing(e).c = e /\ Nothing(e).ok = FALSE /\ Nothing(e).v = <<>>
BY DEF Answer, Nothing

LEMMA AnswerReads ==
    ASSUME NEW c, NEW d, NEW e, NEW f, NEW v, NEW w, Follows(c, d, e, f), Alike(c, d) /\ ~Lost(e) => v = w
    PROVE  Reads(c, d, Answer(e, v), Answer(f, w))
<1>1. /\ Answer(e, v).c = e /\ Answer(e, v).ok = TRUE /\ Answer(e, v).v = v
      /\ Answer(f, w).c = f /\ Answer(f, w).ok = TRUE /\ Answer(f, w).v = w
  BY DEF Answer
<1> QED BY <1>1 DEF Reads

LEMMA NothingReads ==
    ASSUME NEW c, NEW d, NEW e, NEW f, Follows(c, d, e, f) PROVE Reads(c, d, Nothing(e), Nothing(f))
BY AnswerIs DEF Reads

LEMMA CheckedReads ==
    ASSUME NEW c, NEW d, NEW e, NEW f, NEW v, NEW w, Follows(c, d, e, f), Alike(c, d) /\ ~Lost(e) => v = w
    PROVE  Reads(c, d, Checked(e, v), Checked(f, w)) /\ Doubts(Checked(e, v))
<1>1. Checked(e, v).c = e /\ Checked(f, w).c = f
  BY AnswerIs DEF Checked
<1>2. ASSUME Alike(c, d), ~Lost(e) PROVE Checked(e, v).ok = Checked(f, w).ok /\ Checked(e, v).v = Checked(f, w).v
  <2>1. Alike(e, f) /\ v = w
    BY <1>2 DEF Follows
  <2>2. e.failed = FALSE /\ f.failed = FALSE
    BY <2>1 DEF Alike
  <2>3. Checked(e, v) = Answer(e, v) /\ Checked(f, w) = Answer(f, w)
    BY <2>2 DEF Checked
  <2> QED BY <2>1, <2>3 DEF Answer
<1>3. Doubts(Checked(e, v))
  <2>1. CASE e.failed = TRUE
    BY <2>1, AnswerIs DEF Checked, Doubts
  <2>2. CASE e.failed # TRUE
    BY <1>1, <2>2 DEF Doubts, Lost
  <2> QED BY <2>1, <2>2
<1> QED BY <1>1, <1>2, <1>3 DEF Reads

(* Who has failed is asked nothing more.                                    *)
LEMMA GuardReads ==
    ASSUME NEW c, NEW d, NEW e, NEW f, NEW r, NEW s, Follows(c, d, e, f), Reads(e, f, r, s)
    PROVE  /\ Reads(c, d, IF e.failed THEN Nothing(e) ELSE r, IF f.failed THEN Nothing(f) ELSE s)
           /\ Doubts(r) => Doubts(IF e.failed THEN Nothing(e) ELSE r)
<1> DEFINE x == IF e.failed THEN Nothing(e) ELSE r
           y == IF f.failed THEN Nothing(f) ELSE s
<1>1. Reads(c, d, r, s)
  BY ReadsOn
<1>2. ASSUME Lost(e) PROVE x = Nothing(e) /\ x.c = e
  BY <1>2, AnswerIs DEF Lost
<1>3. ASSUME Alike(e, f) PROVE x = r /\ y = s
  BY <1>3 DEF Alike
<1>4. Doubts(r) => Doubts(x)
  BY AnswerIs DEF Doubts
<1> HIDE DEF x, y
<1>5. Lost(c) => Lost(x.c)
  BY <1>2 DEF Follows
<1>6. ASSUME Alike(c, d) PROVE Lost(x.c) \/ (x = r /\ y = s)
  BY <1>2, <1>3, <1>6 DEF Follows
<1>7. Reads(c, d, x, y)
  BY <1>1, <1>5, <1>6 DEF Reads, Follows
<1> QED BY <1>4, <1>7 DEF x, y

LEMMA TakeSame ==
    ASSUME NEW c, NEW d, NEW l, NEW m, Layout(l), Alike(c, d) => l = m
    PROVE  Follows(c, d, Take(c, l), Take(d, m))
<1>1. Follows(c, d, Take(c, l), Take(d, l))
  BY TakeFollows
<1>2. Alike(c, d) => Take(d, m) = Take(d, l)
  OBVIOUS
<1> QED BY <1>1, <1>2, FollowsSame

(* What is put together of layouts is one.                                  *)
Fitting == [kind : {"skip", "get", "padded", "text", "over"}, n : Nat]
LEMMA LayoutIs == ASSUME NEW l \in Seq(Fitting) PROVE Layout(l)
<1>1. \A i \in 1..Len(l) : l[i] \in Fitting
  BY ElementOfSeq
<1> QED BY <1>1 DEF Layout, Fit, Fitting

LEMMA FieldsAre == ASSUME NEW n \in Nat PROVE /\ Skip(n) \in Fitting /\ Get(n) \in Fitting /\ Padded(n) \in Fitting
                                              /\ Text \in Fitting /\ SkipText \in Fitting
<1>1. Skip(n) \in Fitting
  BY DEF Skip, Fitting
<1>2. Get(n) \in Fitting
  BY DEF Get, Fitting
<1>3. Padded(n) \in Fitting
  BY DEF Padded, Fitting
<1>4. Text \in Fitting
  BY DEF Text, Fitting
<1>5. SkipText \in Fitting
  BY DEF SkipText, Fitting
<1> QED BY <1>1, <1>2, <1>3, <1>4, <1>5

LEMMA ManyAre == ASSUME NEW k \in Nat, NEW n \in Nat PROVE [i \in 1..k |-> Get(n)] \in Seq(Fitting)
<1>1. [i \in 1..k |-> Get(n)] \in [1..k -> Fitting]
  BY FieldsAre
<1> QED BY <1>1

(* A byte that is read, and a count at the end of a layout.                 *)
LEMMA TakeOne ==
    ASSUME NEW c, NEW d, NEW n \in Nat, Alike(c, d), ~Lost(Take(c, <<Get(n)>>))
    PROVE  LET e == Take(c, <<Get(n)>>) IN
           /\ Alike(e, Take(d, <<Get(n)>>)) /\ e.pos = c.pos + n /\ e.bytes = c.bytes
           /\ e.got[1] \in Seq(Byte) /\ Len(e.got[1]) = n
<1> DEFINE l == <<Get(n)>>
           c0 == Holding(c, <<>>)
           d0 == Holding(d, <<>>)
<1>1. Len(l) = 1 /\ l[1] = Get(n)
  OBVIOUS
<1> HIDE DEF l
<1>2. Alike(c0, d0) /\ Same(c, c0) /\ c0.got = <<>>
  BY HoldingAlike
<1> HIDE DEF c0, d0
<1>3. \A x : ~(Remaining(x) < 0) => Fields(x, l) = Number(x, n)
  <2> TAKE x
  <2>1. PICK r : /\ r[0] = x /\ \A k \in 0..Len(l) - 1 : r[k + 1] = Field(r[k], l[k + 1])
                 /\ Fields(x, l) = IF Remaining(x) < 0 THEN x ELSE r[Len(l)]
    <3>1. Len(l) \in Nat
      BY <1>1
    <3> QED BY <3>1, ReadIs
  <2>2. r[1] = Field(x, Get(n))
    <3>1. 0 \in 0..Len(l) - 1 /\ 0 + 1 = 1
      BY <1>1
    <3> QED BY <1>1, <2>1, <3>1
  <2>3. Field(x, Get(n)) = Number(x, n)
    BY DEF Field, Get
  <2> QED BY <1>1, <2>1, <2>2, <2>3
<1>4. ~(Remaining(c0) < 0) /\ ~(Remaining(d0) < 0)
  <2>1. Remaining(c0) \in Nat /\ Remaining(d0) \in Nat
    BY <1>2, Left
  <2> QED BY <2>1
<1>5. Take(c, l) = Number(c0, n) /\ Take(d, l) = Number(d0, n)
  <2>1. Take(c, l) = Fields(c0, l) /\ Take(d, l) = Fields(d0, l)
    BY DEF Take, Holding, c0, d0
  <2> QED BY <1>3, <1>4, <2>1
<1>6. ~Lost(Number(c0, n))
  BY <1>5 DEF l
<1>7. /\ Alike(Number(c0, n), Number(d0, n)) /\ Number(c0, n).pos = c0.pos + n /\ Number(c0, n).bytes = c0.bytes
      /\ Ahead(c0, n) \in Seq(Byte) /\ Len(Ahead(c0, n)) = n /\ Number(c0, n).got = Append(c0.got, Ahead(c0, n))
  BY <1>2, <1>6, NumberIs
<1>8. Number(c0, n).got[1] = Ahead(c0, n)
  <2> DEFINE v == Ahead(c0, n)
  <2> HIDE DEF v
  <2>1. Append(<<>>, v)[1] = v
    OBVIOUS
  <2> QED BY <1>2, <1>7, <2>1 DEF v
<1> QED BY <1>2, <1>5, <1>7, <1>8 DEF l, Same

LEMMA TakeTwo ==
    ASSUME NEW c, NEW d, NEW f, NEW n \in Nat, Fit(f), Alike(c, d), ~Lost(Take(c, <<f, Get(n)>>))
    PROVE  LET e == Take(c, <<f, Get(n)>>) IN
           /\ f.kind = "skip" => e.got[1] \in Seq(Byte) /\ Len(e.got[1]) = n
           /\ f.kind = "get" => e.got[2] \in Seq(Byte) /\ Len(e.got[2]) = n
<1> DEFINE l == <<f, Get(n)>>
           c0 == Holding(c, <<>>)
           d0 == Holding(d, <<>>)
<1>1. Len(l) = 2 /\ l[1] = f /\ l[2] = Get(n)
  OBVIOUS
<1> HIDE DEF l
<1>2. Alike(c0, d0) /\ Same(c, c0) /\ c0.got = <<>>
  BY HoldingAlike
<1>3. Take(c, l) = Fields(c0, l)
  BY DEF Take, Holding
<1> HIDE DEF c0, d0
<1>4. Fields(c0, l) = Number(Field(c0, f), n)
  <2>1. PICK r : /\ r[0] = c0 /\ \A k \in 0..Len(l) - 1 : r[k + 1] = Field(r[k], l[k + 1])
                 /\ Fields(c0, l) = IF Remaining(c0) < 0 THEN c0 ELSE r[Len(l)]
    <3>1. Len(l) \in Nat
      BY <1>1
    <3> QED BY <3>1, ReadIs
  <2>2. r[1] = Field(c0, f)
    <3>1. 0 \in 0..Len(l) - 1 /\ 0 + 1 = 1
      BY <1>1
    <3> QED BY <1>1, <2>1, <3>1
  <2>3. r[2] = Field(r[1], Get(n))
    <3>1. 1 \in 0..Len(l) - 1 /\ 1 + 1 = 2
      BY <1>1
    <3> QED BY <1>1, <2>1, <3>1
  <2>4. Field(r[1], Get(n)) = Number(r[1], n)
    BY DEF Field, Get
  <2>5. ~(Remaining(c0) < 0)
    <3>1. Remaining(c0) \in Nat
      BY <1>2, Left
    <3> QED BY <3>1
  <2> QED BY <1>1, <2>1, <2>2, <2>3, <2>4, <2>5
<1> DEFINE x == Field(c0, f)
           y == Field(d0, f)
<1>5. ~Lost(Number(x, n))
  BY <1>3, <1>4 DEF l
<1>6. Follows(c0, d0, x, y)
  BY FieldFollows
<1>7. f.kind = "skip" => x.got = <<>>
  <2>1. f.kind = "skip" => x = Over(c0, f.n)
    BY DEF Field
  <2>2. DOMAIN c0 = Parts
    BY <1>2 DEF Alike
  <2>3. Over(c0, f.n).got = c0.got
    BY <2>2 DEF Over, Fail, Parts
  <2> QED BY <1>2, <2>1, <2>3
<1>8. f.kind = "get" => \E w : x.got = Append(<<>>, w)
  <2>1. f.kind = "get" => x = Number(c0, f.n)
    BY DEF Field
  <2>2. DOMAIN c0 = Parts
    BY <1>2 DEF Alike
  <2>3. \E w : Number(c0, f.n).got = Append(c0.got, w)
    BY <2>2 DEF Number, Keep, Fail, Parts
  <2> QED BY <1>2, <2>1, <2>3
<1> HIDE DEF x, y
<1>9. Alike(x, y)
  <2>1. ~Lost(x)
    BY <1>5, NumberLost
  <2> QED BY <1>2, <1>6, <2>1 DEF Follows
<1> DEFINE v == Ahead(x, n)
<1>10. v \in Seq(Byte) /\ Len(v) = n /\ Number(x, n).got = Append(x.got, v)
  BY <1>5, <1>9, NumberIs
<1> HIDE DEF v
<1>11. Append(<<>>, v)[1] = v
  OBVIOUS
<1>12. \A w : Append(Append(<<>>, w), v)[2] = v
  OBVIOUS
<1>13. Take(c, l).got = Append(x.got, v)
  BY <1>3, <1>4, <1>10 DEF x
<1> QED BY <1>7, <1>8, <1>10, <1>11, <1>12, <1>13 DEF l

(* -- items -----------------------------------------------------------------*)
Kinds2 == {"equip", "pet", "stack"}

LEMMA ItemLayouts == ASSUME NEW kind \in Kinds2, NEW id, NEW unique PROVE Layout(ItemLayout(kind, id, unique))
<1>1. CASE kind = "equip"
  <2> DEFINE p1 == <<Get(1), Get(1)>>
             p2 == [i \in 1..15 |-> Get(2)]
             p3 == <<SkipText, Get(2), Get(1), Get(1), Get(4), Get(4)>>
             p4 == IF unique THEN <<>> ELSE <<Skip(8)>>
             p5 == <<Skip(12)>>
  <2>1. p1 \in Seq(Fitting) /\ p3 \in Seq(Fitting) /\ p4 \in Seq(Fitting) /\ p5 \in Seq(Fitting)
    <3>1. Get(1) \in Fitting /\ Get(2) \in Fitting /\ Get(4) \in Fitting /\ SkipText \in Fitting /\ Skip(8) \in Fitting /\ Skip(12) \in Fitting
      BY FieldsAre
    <3> QED BY <3>1
  <2>2. p2 \in Seq(Fitting)
    BY ManyAre
  <2>3. ItemLayout(kind, id, unique) = p1 \o p2 \o p3 \o p4 \o p5
    BY <1>1 DEF ItemLayout, EquipLayout
  <2> HIDE DEF p1, p2, p3, p4, p5
  <2>4. p1 \o p2 \o p3 \o p4 \o p5 \in Seq(Fitting)
    BY <2>1, <2>2
  <2> QED BY <2>3, <2>4, LayoutIs
<1>2. CASE kind = "pet"
  <2>1. Skip(35) \in Fitting
    BY FieldsAre
  <2>2. <<Skip(35)>> \in Seq(Fitting)
    BY <2>1
  <2>3. ItemLayout(kind, id, unique) = <<Skip(35)>>
    BY <1>2 DEF ItemLayout
  <2> QED BY <2>2, <2>3, LayoutIs
<1>3. CASE kind = "stack"
  <2> DEFINE p1 == <<Get(2), SkipText, Skip(2)>>
             p2 == IF id \div 10000 \in {207, 233} THEN <<Skip(8)>> ELSE <<>>
  <2>1. p1 \in Seq(Fitting) /\ p2 \in Seq(Fitting)
    <3>1. Get(2) \in Fitting /\ SkipText \in Fitting /\ Skip(8) \in Fitting /\ Skip(2) \in Fitting
      BY FieldsAre
    <3> QED BY <3>1
  <2>2. ItemLayout(kind, id, unique) = p1 \o p2
    BY <1>3 DEF ItemLayout
  <2> HIDE DEF p1, p2
  <2>3. p1 \o p2 \in Seq(Fitting)
    BY <2>1
  <2> QED BY <2>2, <2>3, LayoutIs
<1> QED BY <1>1, <1>2, <1>3 DEF Kinds2

LEMMA BodyOfItemReads ==
    ASSUME NEW kind \in Kinds2, NEW type, NEW id, NEW unique, NEW c, NEW d
    PROVE  /\ Reads(c, d, BodyOfItem(kind, type, id, unique, c), BodyOfItem(kind, type, id, unique, d))
           /\ Doubts(BodyOfItem(kind, type, id, unique, c))
<1> DEFINE l == ItemLayout(kind, id, unique)
           e == Take(c, l)
           f == Take(d, l)
           u == IF unique THEN c.got[1] ELSE Zeros(8)
           w == IF unique THEN d.got[1] ELSE Zeros(8)
           r == TheItem(kind, type, id, u, e)
           s == TheItem(kind, type, id, w, f)
<1>1. Follows(c, d, e, f)
  BY ItemLayouts, TakeFollows
<1>2. Alike(c, d) => u = w
  BY DEF Alike
<1>3. ASSUME Alike(c, d), ~Lost(e) PROVE e.got = f.got
  BY <1>1, <1>3 DEF Follows, Alike
<1>4. Reads(c, d, r, s) /\ Doubts(r)
  <2> HIDE DEF e, f, u, w
  <2> DEFINE V(x, y) == [id |-> id, uid |-> x,
                   qty |-> IF kind = "stack" THEN Value(y, 1) ELSE 1,
                   type |-> CASE kind = "equip" -> 1 [] kind = "pet" -> 5 [] kind = "stack" -> type,
                   upgrades |-> IF kind = "equip" THEN Value(y, 1) ELSE 0]
  <2>1. r = Checked(e, V(u, e)) /\ s = Checked(f, V(w, f))
    BY DEF TheItem
  <2>2. ASSUME Alike(c, d), ~Lost(e) PROVE V(u, e) = V(w, f)
    <3>1. u = w /\ e.got = f.got
      BY <1>2, <1>3, <2>2
    <3> QED BY <3>1 DEF Value
  <2> HIDE DEF V, r, s
  <2>3. Reads(c, d, Checked(e, V(u, e)), Checked(f, V(w, f))) /\ Doubts(Checked(e, V(u, e)))
    BY <1>1, <2>2, CheckedReads
  <2> QED BY <2>1, <2>3
<1>5. /\ BodyOfItem(kind, type, id, unique, c) = IF c.failed THEN Nothing(c) ELSE r
      /\ BodyOfItem(kind, type, id, unique, d) = IF d.failed THEN Nothing(d) ELSE s
  BY DEF BodyOfItem
<1> HIDE DEF r, s
<1>6. Follows(c, d, c, d)
  BY FollowsSelf
<1> QED BY <1>4, <1>5, <1>6, GuardReads

LEMMA ItemReads == ASSUME NEW c, NEW d PROVE Reads(c, d, ParseItem(c), ParseItem(d)) /\ Doubts(ParseItem(c))
<1> DEFINE l == <<Get(1), Get(4), Get(1)>>
           e == Take(c, l)
           f == Take(d, l)
           Body(h) == (IF Unsigned(h.got[3]) # 0 THEN <<Get(8)>> ELSE <<>>) \o <<Skip(8)>>
           Kind(h) == KindOf(Value(h, 1), Value(h, 2))
           X(h, body) == BodyOfItem(Kind(h), Value(h, 1), Value(h, 2), Unsigned(h.got[3]) # 0, body)
<1>1. ParseItem(c) = X(e, Take(e, Body(e))) /\ ParseItem(d) = X(f, Take(f, Body(f)))
  BY DEF ParseItem, ItemAfter
<1>2. Layout(l)
  <2>1. Get(1) \in Fitting /\ Get(4) \in Fitting
    BY FieldsAre
  <2>2. l \in Seq(Fitting)
    BY <2>1
  <2> QED BY <2>2, LayoutIs
<1> HIDE DEF l
<1>3. Follows(c, d, e, f)
  BY <1>2, TakeFollows
<1> HIDE DEF e, f
<1>4. Layout(Body(e))
  <2>1. Get(8) \in Fitting /\ Skip(8) \in Fitting
    BY FieldsAre
  <2>2. Body(e) \in Seq(Fitting)
    BY <2>1
  <2> QED BY <2>2, LayoutIs
<1>5. Alike(e, f) => Body(e) = Body(f)
  BY DEF Alike
<1> HIDE DEF Body
<1> DEFINE g == Take(e, Body(e))
           h == Take(f, Body(f))
<1>6. Follows(e, f, g, h)
  BY <1>4, <1>5, TakeSame
<1> HIDE DEF g, h
<1>7. Kind(e) \in Kinds2
  BY DEF KindOf, Kinds2
<1>8. Reads(g, h, X(e, g), X(e, h)) /\ Doubts(X(e, g))
  BY <1>7, BodyOfItemReads
<1>9. Alike(e, f) => X(e, h) = X(f, h)
  BY DEF Alike, Value
<1> HIDE DEF X, Kind
<1>10. Reads(e, f, X(e, g), X(e, h))
  BY <1>6, <1>8, ReadsOn
<1>11. Reads(e, f, X(e, g), X(f, h))
  BY <1>9, <1>10, ReadsSame
<1>12. Reads(c, d, X(e, g), X(f, h))
  BY <1>3, <1>11, ReadsOn
<1> QED BY <1>1, <1>8, <1>12 DEF g, h

(* -- a block of items ------------------------------------------------------*)
IsWalked(at, c, n) == at = [k \in 0..n |-> IF k = 0 THEN c ELSE NextSlot(at[k - 1])]

LEMMA SlotsWalked ==
    ASSUME NEW c, NEW n \in Nat
    PROVE  LET at == Walk(c, n, NextSlot)
           IN at[0] = c /\ DOMAIN at = 0..n /\ \A k \in 0..n - 1 : at[k + 1] = NextSlot(at[k])
<1> DEFINE T == {m \in 0..n : \E at : IsWalked(at, c, m)}
<1>1. 0 \in T
  <2>1. IsWalked([k \in 0..0 |-> c], c, 0)
    BY DEF IsWalked
  <2> QED BY <2>1
<1>2. ASSUME NEW j \in 0..n - 1, j \in T PROVE j + 1 \in T
  <2>1. PICK r : IsWalked(r, c, j)
    BY <1>2
  <2> DEFINE s == [i \in 0..j + 1 |-> IF i = j + 1 THEN NextSlot(r[j]) ELSE r[i]]
  <2>2. \A i \in 0..j + 1 : s[i] = IF i = 0 THEN c ELSE NextSlot(s[i - 1])
    <3> TAKE i \in 0..j + 1
    <3>1. CASE i = 0
      BY <2>1, <3>1 DEF IsWalked
    <3>2. CASE i # 0 /\ i # j + 1
      <4>1. i \in 0..j /\ i - 1 \in 0..j + 1 /\ i - 1 # j + 1
        BY <3>2
      <4>2. r[i] = NextSlot(r[i - 1])
        BY <2>1, <3>2, <4>1 DEF IsWalked
      <4> QED BY <3>2, <4>1, <4>2
    <3>3. CASE i = j + 1
      <4>1. i # 0 /\ i - 1 = j /\ j \in 0..j + 1 /\ j # j + 1
        BY <3>3
      <4> QED BY <3>3, <4>1
    <3> QED BY <3>1, <3>2, <3>3
  <2>3. s = [i \in 0..j + 1 |-> IF i = 0 THEN c ELSE NextSlot(s[i - 1])]
    <3>1. s = [i \in 0..j + 1 |-> s[i]]
      OBVIOUS
    <3> HIDE DEF s
    <3> QED BY <2>2, <3>1
  <2> HIDE DEF s
  <2>4. IsWalked(s, c, j + 1)
    BY <2>3 DEF IsWalked
  <2> QED BY <2>4
<1>3. n \in T
  <2> HIDE DEF T
  <2>1. \A m \in 0..n : m \in T
    BY <1>1, <1>2, UpTo
  <2> QED BY <2>1
<1> DEFINE at == Walk(c, n, NextSlot)
<1>4. IsWalked(at, c, n)
  <2>1. at = CHOOSE x : IsWalked(x, c, n)
    BY DEF Walk, IsWalked
  <2> HIDE DEF at
  <2> QED BY <1>3, <2>1
<1> HIDE DEF at
<1>5. at = [k \in 0..n |-> IF k = 0 THEN c ELSE NextSlot(at[k - 1])]
  BY <1>4 DEF IsWalked
<1>6. ASSUME NEW k \in 0..n - 1 PROVE at[k + 1] = NextSlot(at[k])
  <2>1. k + 1 \in 0..n /\ k + 1 # 0 /\ k + 1 - 1 = k
    OBVIOUS
  <2> QED BY <1>5, <2>1
<1>7. at[0] = c /\ DOMAIN at = 0..n
  BY <1>5
<1> QED BY <1>6, <1>7 DEF at

LEMMA SlotFollows ==
    ASSUME NEW c, NEW d
    PROVE  /\ Follows(c, d, NextSlot(c), NextSlot(d))
           /\ Alike(c, d) /\ ~Lost(NextSlot(c)) => c.pos + 1 <= NextSlot(c).pos
           /\ Lost(ParseItem(c).c) => Lost(NextSlot(c))
<1> DEFINE e == ParseItem(c).c
           f == ParseItem(d).c
<1>1. NextSlot(c) = Take(e, <<Get(1)>>) /\ NextSlot(d) = Take(f, <<Get(1)>>)
  BY DEF NextSlot
<1>2. Follows(c, d, e, f)
  BY ItemReads DEF Reads
<1> HIDE DEF e, f
<1>3. Layout(<<Get(1)>>)
  <2>1. Get(1) \in Fitting
    BY FieldsAre
  <2>2. <<Get(1)>> \in Seq(Fitting)
    BY <2>1
  <2> QED BY <2>2, LayoutIs
<1>4. Follows(e, f, NextSlot(c), NextSlot(d))
  BY <1>1, <1>3, TakeFollows
<1>5. Follows(c, d, NextSlot(c), NextSlot(d))
  BY <1>2, <1>4, FollowsOn
<1>6. ASSUME Alike(c, d), ~Lost(NextSlot(c)) PROVE c.pos + 1 <= NextSlot(c).pos
  <2>1. ~Lost(e)
    BY <1>4, <1>6 DEF Follows
  <2>2. Alike(e, f) /\ c.pos <= e.pos
    BY <1>2, <1>6, <2>1 DEF Follows
  <2>3. NextSlot(c).pos = e.pos + 1
    <3>1. 1 \in Nat
      OBVIOUS
    <3> QED BY <1>1, <1>6, <2>2, <3>1, TakeOne
  <2>4. c.pos \in Int /\ e.pos \in Int
    BY <1>6, <2>2, AlikeParts
  <2> QED BY <2>2, <2>3, <2>4
<1>7. Lost(e) => Lost(NextSlot(c))
  BY <1>4 DEF Follows
<1> QED BY <1>5, <1>6, <1>7 DEF e

(* The first of the slots that is none.                                     *)
LEMMA EndIs ==
    ASSUME NEW at, NEW n \in Nat, DOMAIN at = 0..n, NEW k \in 0..n, NoSlot(at[k]), \A j \in 0..k - 1 : ~NoSlot(at[j])
    PROVE  Turns(at, NoSlot) = k
<1> DEFINE P(m) == NoSlot(at[m]) /\ \A j \in 0..m - 1 : ~NoSlot(at[j])
<1>1. Turns(at, NoSlot) = CHOOSE m \in 0..n : P(m)
  BY DEF Turns
<1>2. \A m \in 0..n : P(m) => m = k
  <2> TAKE m \in 0..n
  <2>1. CASE m < k
    <3>1. m \in 0..k - 1
      BY <2>1
    <3> QED BY <3>1
  <2>2. CASE k < m
    <3>1. k \in 0..m - 1
      BY <2>2
    <3> QED BY <3>1
  <2> QED BY <2>1, <2>2
<1>3. P(k)
  OBVIOUS
<1> HIDE DEF P
<1> QED BY <1>1, <1>2, <1>3

Slots(c, n) == Walk(c, n, NextSlot)

(* Nobody can read slots for ever.                                          *)
LEMMA SlotsEnd ==
    ASSUME NEW c, NEW d, Alike(c, d), NEW n, n = Len(c.bytes) + 1, NEW m \in Nat, n <= m
    PROVE  \E k \in 0..n :
             /\ Turns(Slots(c, n), NoSlot) = k
             /\ Follows(c, d, Slots(c, n)[k], Slots(d, m)[k])
             /\ Lost(Slots(c, n)[k]) \/ Turns(Slots(d, m), NoSlot) = k
             /\ ~Lost(Slots(c, n)[k]) =>
                  \A j \in 0..k - 1 : /\ Alike(Slots(c, n)[j], Slots(d, m)[j]) /\ ~Lost(ParseItem(Slots(c, n)[j]).c)
<1> DEFINE f == Slots(c, n)
           g == Slots(d, m)
<1>1. n \in Nat /\ m \in Nat /\ n <= m /\ Len(c.bytes) \in Nat
  <2>1. Len(c.bytes) \in Nat
    BY AlikeParts
  <2> QED BY <2>1
<1>2. f[0] = c /\ DOMAIN f = 0..n /\ \A k \in 0..n - 1 : f[k + 1] = NextSlot(f[k])
  BY <1>1, SlotsWalked DEF Slots
<1>3. g[0] = d /\ DOMAIN g = 0..m /\ \A k \in 0..m - 1 : g[k + 1] = NextSlot(g[k])
  BY <1>1, SlotsWalked DEF Slots
<1> HIDE DEF f, g
<1>4. \A k \in 0..n - 1 : Follows(f[k], g[k], f[k + 1], g[k + 1])
  <2> TAKE k \in 0..n - 1
  <2>1. k \in 0..m - 1
    BY <1>1
  <2> QED BY <1>2, <1>3, <2>1, SlotFollows
<1>5. Lost(f[n])
  <2> DEFINE T == {k \in 0..n : ~Lost(f[k]) => Alike(f[k], g[k]) /\ k <= f[k].pos /\ f[k].bytes = c.bytes}
  <2>1. 0 \in T
    <3>1. c.pos \in 0..Len(c.bytes)
      BY AlikeParts
    <3>2. 0 <= c.pos
      BY <1>1, <3>1
    <3> QED BY <1>1, <1>2, <1>3, <3>2
  <2>2. ASSUME NEW j \in 0..n - 1, j \in T PROVE j + 1 \in T
    <3> SUFFICES ASSUME ~Lost(f[j + 1])
                 PROVE  Alike(f[j + 1], g[j + 1]) /\ j + 1 <= f[j + 1].pos /\ f[j + 1].bytes = c.bytes
      BY <1>1
    <3>1. Follows(f[j], g[j], f[j + 1], g[j + 1]) /\ f[j + 1] = NextSlot(f[j])
      BY <1>2, <1>4
    <3>2. ~Lost(f[j])
      BY <3>1 DEF Follows
    <3>3. Alike(f[j], g[j]) /\ j <= f[j].pos /\ f[j].bytes = c.bytes
      BY <2>2, <3>2
    <3>4. Alike(f[j + 1], g[j + 1]) /\ f[j + 1].bytes = c.bytes
      BY <3>1, <3>3 DEF Follows
    <3>5. f[j].pos + 1 <= f[j + 1].pos
      BY <3>1, <3>3, SlotFollows
    <3>6. f[j].pos \in Int /\ f[j + 1].pos \in Int
      BY <3>3, <3>4, AlikeParts
    <3>7. j + 1 <= f[j + 1].pos
      BY <3>3, <3>5, <3>6
    <3> QED BY <3>4, <3>7
  <2> HIDE DEF T
  <2>3. \A k \in 0..n : k \in T
    BY <1>1, <2>1, <2>2, UpTo
  <2>4. n \in 0..n
    BY <1>1
  <2>5. ~Lost(f[n]) => Alike(f[n], g[n]) /\ n <= f[n].pos /\ f[n].bytes = c.bytes
    BY <2>3, <2>4 DEF T
  <2>6. Alike(f[n], g[n]) /\ f[n].bytes = c.bytes => f[n].pos \in 0..Len(c.bytes)
    BY AlikeParts
  <2>7. \A x \in 0..Len(c.bytes) : ~(n <= x)
    BY <1>1
  <2> QED BY <2>5, <2>6, <2>7
<1>6. PICK k \in 0..n : NoSlot(f[k]) /\ \A j \in 0..k - 1 : ~NoSlot(f[j])
  <2> DEFINE E == {k \in 0..n : NoSlot(f[k])}
  <2>1. n \in E
    <3>1. NoSlot(f[n])
      BY <1>5 DEF NoSlot, Lost
    <3> QED BY <1>1, <3>1
  <2>2. E \in SUBSET Nat /\ E # {}
    BY <2>1
  <2>3. PICK k \in E : \A j \in E : k <= j
    BY <2>2, LeastOf
  <2>4. ASSUME NEW j \in 0..k - 1 PROVE ~NoSlot(f[j])
    <3>1. j \in 0..n /\ ~(k <= j)
      BY <1>1, <2>3
    <3> QED BY <2>3, <3>1
  <2> QED BY <2>3, <2>4
<1>7. Turns(f, NoSlot) = k
  BY <1>1, <1>2, <1>6, EndIs
<1>8. k \in Nat /\ \A j \in 0..k - 1 : Follows(f[j], g[j], f[j + 1], g[j + 1])
  BY <1>1, <1>4
<1>9. Follows(c, d, f[k], g[k])
  <2>1. k \in 0..k
    BY <1>8
  <2>2. Follows(f[0], g[0], f[k], g[k])
    BY <1>8, <2>1, Along
  <2> QED BY <1>2, <1>3, <2>2
<1>10. ASSUME ~Lost(f[k]) PROVE \A j \in 0..k : Alike(f[j], g[j])
  BY <1>2, <1>3, <1>8, <1>10, AllAlong
<1>11. ASSUME ~Lost(f[k]), NEW j \in 0..k - 1 PROVE Alike(f[j], g[j]) /\ ~Lost(ParseItem(f[j]).c)
  <2>1. Alike(f[j], g[j]) /\ Alike(f[j + 1], g[j + 1])
    BY <1>8, <1>10, <1>11
  <2>2. f[j + 1] = NextSlot(f[j])
    BY <1>1, <1>2
  <2>3. ~Lost(f[j + 1])
    BY <2>1 DEF Alike, Lost
  <2> QED BY <2>1, <2>2, <2>3, SlotFollows
<1>12. ASSUME ~Lost(f[k]) PROVE Turns(g, NoSlot) = k
  <2>1. \A j \in 0..k : NoSlot(f[j]) <=> NoSlot(g[j])
    BY <1>10, <1>12 DEF NoSlot, Alike
  <2>2. k \in 0..k /\ \A j \in 0..k - 1 : j \in 0..k
    BY <1>8
  <2>3. NoSlot(g[k]) /\ \A j \in 0..k - 1 : ~NoSlot(g[j])
    BY <1>6, <2>1, <2>2
  <2>4. k \in 0..m
    BY <1>1
  <2> QED BY <1>1, <1>3, <2>3, <2>4, EndIs
<1> QED BY <1>7, <1>9, <1>11, <1>12 DEF f, g

(* Two blocks.                                                              *)
Blocks(c, d, r, s) == Follows(c, d, r.c, s.c) /\ (Alike(c, d) /\ ~Lost(r.c) => r.items = s.items)

LEMMA StockedLost ==
    ASSUME NEW c, Lost(c), NEW n \in Nat, NEW slots, NEW items
    PROVE  Stocked(Slots(c, n), slots, items).c = c
<1> DEFINE f == Slots(c, n)
<1>1. f[0] = c /\ DOMAIN f = 0..n
  BY SlotsWalked DEF Slots
<1>2. Stocked(f, slots, items).c = f[Turns(f, NoSlot)]
  BY DEF Stocked
<1> HIDE DEF f
<1>3. NoSlot(f[0])
  BY <1>1 DEF NoSlot, Lost
<1>4. 0 \in 0..n /\ \A j \in 0..0 - 1 : ~NoSlot(f[j])
  OBVIOUS
<1>5. Turns(f, NoSlot) = 0
  BY <1>1, <1>3, <1>4, EndIs
<1> QED BY <1>1, <1>2, <1>5 DEF f

LEMMA StockedFollows ==
    ASSUME NEW c, NEW d, Alike(c, d), NEW n, n = Len(c.bytes) + 1, NEW m \in Nat, n <= m, NEW slots, NEW items
    PROVE  Blocks(c, d, Stocked(Slots(c, n), slots, items), Stocked(Slots(d, m), slots, items))
<1> DEFINE f == Slots(c, n)
           g == Slots(d, m)
           r == Stocked(f, slots, items)
           s == Stocked(g, slots, items)
           fn == Turns(f, NoSlot)
           gn == Turns(g, NoSlot)
           fi == [i \in 0..fn - 1 |-> ParseItem(f[i])]
           gi == [i \in 0..gn - 1 |-> ParseItem(g[i])]
           fr == {i \in 0..fn - 1 : fi[i].ok}
           gr == {i \in 0..gn - 1 : gi[i].ok}
           fm == Mapped([i \in fr |-> slots[Unsigned(f[i].got[1])]], [i \in fr |-> fi[i].v])
           gm == Mapped([i \in gr |-> slots[Unsigned(g[i].got[1])]], [i \in gr |-> gi[i].v])
<1>1. r.c = f[fn] /\ s.c = g[gn] /\ r.items = Merged(fm, items) /\ s.items = Merged(gm, items)
  BY DEF Stocked
<1>3. /\ Follows(c, d, f[fn], g[gn]) \/ Lost(f[fn])
      /\ ~Lost(f[fn]) => /\ fn = gn
                         /\ \A j \in 0..fn - 1 : Alike(f[j], g[j]) /\ ~Lost(ParseItem(f[j]).c)
  BY SlotsEnd
<1> HIDE DEF f, g, r, s, fn, gn
<1>4. ASSUME ~Lost(f[fn]) PROVE fm = gm
  <2>1. fn = gn /\ \A j \in 0..fn - 1 : Alike(f[j], g[j]) /\ ~Lost(ParseItem(f[j]).c)
    BY <1>3, <1>4
  <2>2. ASSUME NEW j \in 0..fn - 1
        PROVE  fi[j].ok = gi[j].ok /\ fi[j].v = gi[j].v /\ f[j].got = g[j].got
    <3>1. Alike(f[j], g[j]) /\ ~Lost(ParseItem(f[j]).c)
      BY <2>1
    <3>2. ParseItem(f[j]).ok = ParseItem(g[j]).ok /\ ParseItem(f[j]).v = ParseItem(g[j]).v
      BY <3>1, ItemReads DEF Reads
    <3>3. fi[j] = ParseItem(f[j]) /\ gi[j] = ParseItem(g[j])
      BY <2>1
    <3> QED BY <3>1, <3>2, <3>3 DEF Alike
  <2> HIDE DEF fi, gi
  <2>3. fr = gr
    BY <2>1, <2>2
  <2>4. \A i \in fr : i \in 0..fn - 1
    OBVIOUS
  <2> HIDE DEF fr, gr
  <2>5. [i \in fr |-> slots[Unsigned(f[i].got[1])]] = [i \in gr |-> slots[Unsigned(g[i].got[1])]]
    BY <2>2, <2>3, <2>4
  <2>6. [i \in fr |-> fi[i].v] = [i \in gr |-> gi[i].v]
    BY <2>2, <2>3, <2>4
  <2> QED BY <2>5, <2>6
<1> HIDE DEF fm, gm
<1>5. Follows(c, d, r.c, s.c)
  <2>1. ~Lost(c)
    BY DEF Alike, Lost
  <2> QED BY <1>1, <1>3, <2>1 DEF Follows
<1>6. Alike(c, d) /\ ~Lost(r.c) => r.items = s.items
  BY <1>1, <1>4
<1> QED BY <1>5, <1>6 DEF Blocks, r, s, f, g

LEMMA ByteLayout == Layout(<<Get(1)>>)
<1>1. Get(1) \in Fitting
  BY FieldsAre
<1>2. <<Get(1)>> \in Seq(Fitting)
  BY <1>1
<1> QED BY <1>2, LayoutIs

LEMMA BlockFollows ==
    ASSUME NEW c, NEW d, NEW slots, NEW items
    PROVE  Blocks(c, d, Block(c, slots, items), Block(d, slots, items))
<1> DEFINE e == Take(c, <<Get(1)>>)
           f == Take(d, <<Get(1)>>)
           n == Len(c.bytes) + 1
           m == Len(d.bytes) + 1
           r == Stocked(Slots(e, n), slots, items)
           s == Stocked(Slots(f, m), slots, items)
<1>1. Block(c, slots, items) = r /\ Block(d, slots, items) = s
  BY DEF Block, Slots
<1>2. Follows(c, d, e, f)
  BY ByteLayout, TakeFollows
<1> HIDE DEF e, f
<1>3. Lost(c) \/ Alike(c, d) => n \in Nat
  <2>1. Lost(c) \/ Alike(c, d) => Len(c.bytes) \in Nat
    BY AlikeParts DEF Lost
  <2> QED BY <2>1
<1>4. Lost(e) /\ n \in Nat => r.c = e
  BY StockedLost
<1>5. ASSUME Alike(c, d), ~Lost(e) PROVE Alike(e, f) /\ n = Len(e.bytes) + 1 /\ m \in Nat /\ n <= m
  <2>1. Alike(e, f) /\ e.bytes = c.bytes
    BY <1>2, <1>5 DEF Follows
  <2>2. Len(c.bytes) \in Nat /\ Len(d.bytes) \in Nat /\ Len(c.bytes) <= Len(d.bytes)
    BY <1>5, AlikeParts
  <2> QED BY <2>1, <2>2
<1>6. ASSUME Alike(c, d), ~Lost(e) PROVE Blocks(e, f, r, s)
  <2> HIDE DEF n, m
  <2> QED BY <1>5, <1>6, StockedFollows
<1> HIDE DEF n, m, r, s
<1>7. Lost(c) => Lost(r.c)
  BY <1>2, <1>3, <1>4 DEF Follows
<1>8. ASSUME Alike(c, d), Lost(e) PROVE Lost(r.c)
  BY <1>3, <1>4, <1>8
<1>9. ASSUME Alike(c, d), ~Lost(e) PROVE Follows(c, d, r.c, s.c) /\ (~Lost(r.c) => r.items = s.items)
  <2>1. Follows(e, f, r.c, s.c) /\ (Alike(e, f) /\ ~Lost(r.c) => r.items = s.items)
    BY <1>6, <1>9 DEF Blocks
  <2>2. Follows(c, d, r.c, s.c)
    BY <1>2, <2>1, FollowsOn
  <2> QED BY <1>5, <1>9, <2>1, <2>2
<1>10. Blocks(c, d, r, s)
  BY <1>7, <1>8, <1>9 DEF Blocks, Follows
<1> QED BY <1>1, <1>10

LEMMA BlockOn ==
    ASSUME NEW c, NEW d, NEW r, NEW s, Blocks(c, d, r, s), NEW slots
    PROVE  Blocks(c, d, Block(r.c, slots, r.items), Block(s.c, slots, s.items))
<1> DEFINE x == Block(r.c, slots, r.items)
           y == Block(s.c, slots, s.items)
           z == Block(s.c, slots, r.items)
<1>1. Blocks(r.c, s.c, x, z)
  BY BlockFollows
<1>2. Follows(c, d, r.c, s.c) /\ (Alike(c, d) /\ ~Lost(r.c) => y = z)
  BY DEF Blocks
<1> HIDE DEF x, y, z
<1>3. Follows(r.c, s.c, x.c, z.c) /\ (Alike(r.c, s.c) /\ ~Lost(x.c) => x.items = z.items)
  BY <1>1 DEF Blocks
<1>4. Follows(c, d, x.c, z.c)
  BY <1>2, <1>3, FollowsOn
<1>5. Lost(r.c) => Lost(x.c)
  BY <1>3 DEF Follows
<1>6. ASSUME Alike(c, d), ~Lost(x.c) PROVE y = z /\ Alike(r.c, s.c)
  BY <1>2, <1>5, <1>6 DEF Follows
<1>7. Follows(c, d, x.c, y.c)
  BY <1>4, <1>6 DEF Follows
<1>8. Alike(c, d) /\ ~Lost(x.c) => x.items = y.items
  BY <1>3, <1>6
<1> QED BY <1>7, <1>8 DEF Blocks, x, y

LEMMA EquippedFollows == ASSUME NEW c, NEW d PROVE Blocks(c, d, Equipped(c), Equipped(d))
<1> DEFINE r == Block(c, BodySlot, None)
           s == Block(d, BodySlot, None)
<1>1. Blocks(c, d, r, s)
  BY BlockFollows
<1>2. Equipped(c) = Block(r.c, CashSlot, r.items) /\ Equipped(d) = Block(s.c, CashSlot, s.items)
  BY DEF Equipped, CashAfter
<1> HIDE DEF r, s
<1> QED BY <1>1, <1>2, BlockOn

LEMMA TabFollows ==
    ASSUME NEW c, NEW d, NEW r, NEW s, Blocks(c, d, r, s), NEW tab
    PROVE  Blocks(c, d, Tab(r, tab), Tab(s, tab))
BY BlockOn DEF Tab

LEMMA StockedIs == ASSUME NEW at, NEW slots, NEW items PROVE \E z, i : Stocked(at, slots, items) = [c |-> z, items |-> i]
<1> DEFINE end == Turns(at, NoSlot)
           item == [i \in 0..end - 1 |-> ParseItem(at[i])]
           read == {i \in 0..end - 1 : item[i].ok}
           m == Merged(Mapped([i \in read |-> slots[Unsigned(at[i].got[1])]], [i \in read |-> item[i].v]), items)
<1>1. Stocked(at, slots, items) = [c |-> at[end], items |-> m]
  BY DEF Stocked
<1> HIDE DEF end, item, read, m
<1> QED BY <1>1

LEMMA BagFollows == ASSUME NEW c, NEW d PROVE Blocks(c, d, Bag(c), Bag(d))
<1> DEFINE c0 == [c |-> c, items |-> None]
           d0 == [c |-> d, items |-> None]
           c4 == Tab(Tab(Tab(Tab(c0, 1), 2), 3), 4)
           d4 == Tab(Tab(Tab(Tab(d0, 1), 2), 3), 4)
           x == Block(c4.c, BagSlot(5), None)
           y == Block(d4.c, BagSlot(5), None)
<1>1. Blocks(c, d, c0, d0)
  BY FollowsSelf DEF Blocks
<1> HIDE DEF c0, d0
<1>2. Blocks(c, d, Tab(c0, 1), Tab(d0, 1))
  BY <1>1, TabFollows
<1>3. Blocks(c, d, Tab(Tab(c0, 1), 2), Tab(Tab(d0, 1), 2))
  BY <1>2, TabFollows
<1>4. Blocks(c, d, Tab(Tab(Tab(c0, 1), 2), 3), Tab(Tab(Tab(d0, 1), 2), 3))
  BY <1>3, TabFollows
<1>5. Blocks(c, d, c4, d4)
  BY <1>4, TabFollows
<1>6. \A r : \E z, i : Tab(r, 4) = [c |-> z, items |-> i]
  <2> TAKE r
  <2> DEFINE at == Walk(Take(r.c, <<Get(1)>>), Len(r.c.bytes) + 1, NextSlot)
  <2>1. Tab(r, 4) = Stocked(at, BagSlot(4), r.items)
    BY DEF Tab, Block
  <2> HIDE DEF at
  <2> QED BY <2>1, StockedIs
<1>7. (\E z, i : c4 = [c |-> z, items |-> i]) /\ \E z, i : d4 = [c |-> z, items |-> i]
  BY <1>6
<1>8. Bag(c) = [c4 EXCEPT !.c = x.c] /\ Bag(d) = [d4 EXCEPT !.c = y.c]
  BY DEF Bag, Emptied, c0, d0
<1> HIDE DEF c4, d4
<1>9. Bag(c).c = x.c /\ Bag(c).items = c4.items /\ Bag(d).c = y.c /\ Bag(d).items = d4.items
  BY <1>7, <1>8
<1>10. Blocks(c4.c, d4.c, x, y)
  BY BlockFollows
<1> HIDE DEF x, y
<1>11. Follows(c, d, c4.c, d4.c) /\ Follows(c4.c, d4.c, x.c, y.c)
  BY <1>5, <1>10 DEF Blocks
<1>12. Follows(c, d, x.c, y.c)
  BY <1>11, FollowsOn
<1>13. Lost(c4.c) => Lost(x.c)
  BY <1>11 DEF Follows
<1> QED BY <1>5, <1>9, <1>12, <1>13 DEF Blocks

(* -- loops -----------------------------------------------------------------*)
(* The loops of the parsers but the one over slots, by name.                *)
OneTurn(t, x) ==
    CASE t = "skill" -> NextSkill(x) [] t = "sale" -> NextSale(x) [] t = "trained" -> NextTrained(x) [] t = "key" -> NextKey(x)
IsWalk(t, at, c, n) == at = [k \in 0..n |-> IF k = 0 THEN c ELSE OneTurn(t, at[k - 1])]

LEMMA Walks == ASSUME NEW t, NEW c, NEW n \in Nat PROVE \E at : IsWalk(t, at, c, n)
<1> DEFINE T == {m \in 0..n : \E at : IsWalk(t, at, c, m)}
<1>1. 0 \in T
  <2>1. IsWalk(t, [k \in 0..0 |-> c], c, 0)
    BY DEF IsWalk
  <2> QED BY <2>1
<1>2. ASSUME NEW j \in 0..n - 1, j \in T PROVE j + 1 \in T
  <2>1. PICK r : IsWalk(t, r, c, j)
    BY <1>2
  <2> DEFINE s == [i \in 0..j + 1 |-> IF i = j + 1 THEN OneTurn(t, r[j]) ELSE r[i]]
  <2>2. \A i \in 0..j + 1 : s[i] = IF i = 0 THEN c ELSE OneTurn(t, s[i - 1])
    <3> TAKE i \in 0..j + 1
    <3>1. CASE i = 0
      BY <2>1, <3>1 DEF IsWalk
    <3>2. CASE i # 0 /\ i # j + 1
      <4>1. i \in 0..j /\ i - 1 \in 0..j + 1 /\ i - 1 # j + 1
        BY <3>2
      <4>2. r[i] = OneTurn(t, r[i - 1])
        BY <2>1, <3>2, <4>1 DEF IsWalk
      <4> QED BY <3>2, <4>1, <4>2
    <3>3. CASE i = j + 1
      <4>1. i # 0 /\ i - 1 = j /\ j \in 0..j + 1 /\ j # j + 1
        BY <3>3
      <4> QED BY <3>3, <4>1
    <3> QED BY <3>1, <3>2, <3>3
  <2>3. s = [i \in 0..j + 1 |-> IF i = 0 THEN c ELSE OneTurn(t, s[i - 1])]
    <3>1. s = [i \in 0..j + 1 |-> s[i]]
      OBVIOUS
    <3> HIDE DEF s
    <3> QED BY <2>2, <3>1
  <2> HIDE DEF s
  <2>4. IsWalk(t, s, c, j + 1)
    BY <2>3 DEF IsWalk
  <2> QED BY <2>4
<1>3. n \in T
  <2> HIDE DEF T
  <2>1. \A m \in 0..n : m \in T
    BY <1>1, <1>2, UpTo
  <2> QED BY <2>1
<1> QED BY <1>3

(* What a loop has gone through.                                            *)
Went(t, at, c, n) ==
    /\ DOMAIN at = 0..n /\ at[0] = c
    /\ \A k \in 0..n - 1 : at[k + 1] = OneTurn(t, at[k])
LEMMA WalkGoes == ASSUME NEW t, NEW at, NEW c, NEW n \in Nat, IsWalk(t, at, c, n) PROVE Went(t, at, c, n)
<1>1. at = [k \in 0..n |-> IF k = 0 THEN c ELSE OneTurn(t, at[k - 1])]
  BY DEF IsWalk
<1>2. ASSUME NEW k \in 0..n - 1 PROVE at[k + 1] = OneTurn(t, at[k])
  <2>1. k + 1 \in 0..n /\ k + 1 # 0 /\ k + 1 - 1 = k
    OBVIOUS
  <2> QED BY <1>1, <2>1
<1>3. DOMAIN at = 0..n
  <2> DEFINE F(k) == IF k = 0 THEN c ELSE OneTurn(t, at[k - 1])
  <2>1. at = [k \in 0..n |-> F(k)]
    BY <1>1
  <2> HIDE DEF F
  <2> QED BY <2>1
<1>4. at[0] = c
  BY <1>1
<1> QED BY <1>2, <1>3, <1>4 DEF Went

LEMMA SkillsWalked == ASSUME NEW c, NEW n \in Nat PROVE Went("skill", Walk(c, n, NextSkill), c, n)
<1> DEFINE at == Walk(c, n, NextSkill)
<1>1. \A x : OneTurn("skill", x) = NextSkill(x)
  BY DEF OneTurn
<1>2. \E x : x = [k \in 0..n |-> IF k = 0 THEN c ELSE NextSkill(x[k - 1])]
  <2>1. PICK x : IsWalk("skill", x, c, n)
    BY Walks
  <2>2. x = [k \in 0..n |-> IF k = 0 THEN c ELSE NextSkill(x[k - 1])]
    <3> DEFINE F(k) == IF k = 0 THEN c ELSE OneTurn("skill", x[k - 1])
               G(k) == IF k = 0 THEN c ELSE NextSkill(x[k - 1])
    <3>1. \A k : F(k) = G(k)
      BY <1>1
    <3>2. x = [k \in 0..n |-> F(k)]
      BY <2>1 DEF IsWalk
    <3> HIDE DEF F, G
    <3>3. x = [k \in 0..n |-> G(k)]
      BY <3>1, <3>2
    <3> QED BY <3>3 DEF G
  <2> QED BY <2>2
<1>3. at = [k \in 0..n |-> IF k = 0 THEN c ELSE NextSkill(at[k - 1])]
  <2>1. at = CHOOSE x : x = [k \in 0..n |-> IF k = 0 THEN c ELSE NextSkill(x[k - 1])]
    BY DEF Walk
  <2> HIDE DEF at
  <2> QED BY <1>2, <2>1
<1> HIDE DEF at
<1>4. IsWalk("skill", at, c, n)
  BY <1>1, <1>3 DEF IsWalk
<1> QED BY <1>4, WalkGoes DEF at

(* -- skills and the character ----------------------------------------------*)
LEMMA CheckedDoubts == ASSUME NEW e, NEW v PROVE Doubts(Checked(e, v))
BY FollowsSelf, CheckedReads

LEMMA SkillFollows == ASSUME NEW c, NEW d PROVE Follows(c, d, NextSkill(c), NextSkill(d))
<1> DEFINE l == <<Get(4), Get(4)>>
           e == Take(c, l)
           f == Take(d, l)
           More(x) == IF FourthJob(Value(x, 1)) THEN <<Skip(4)>> ELSE <<>>
<1>1. NextSkill(c) = Fields(e, More(e)) /\ NextSkill(d) = Fields(f, More(f))
  BY DEF NextSkill
<1>2. Layout(l) /\ Layout(More(e))
  <2>1. Get(4) \in Fitting /\ Skip(4) \in Fitting
    BY FieldsAre
  <2>2. l \in Seq(Fitting) /\ More(e) \in Seq(Fitting)
    BY <2>1
  <2> QED BY <2>2, LayoutIs
<1>3. Follows(c, d, e, f)
  BY <1>2, TakeFollows
<1> HIDE DEF l, e, f
<1>4. Alike(e, f) => More(e) = More(f)
  BY DEF Alike, Value
<1> HIDE DEF More
<1>5. Follows(e, f, Fields(e, More(e)), Fields(f, More(e)))
  BY <1>2, FieldsFollow
<1>6. Alike(e, f) => Fields(f, More(f)) = Fields(f, More(e))
  BY <1>4
<1>7. Follows(e, f, Fields(e, More(e)), Fields(f, More(f)))
  BY <1>5, <1>6, FollowsSame
<1> QED BY <1>1, <1>3, <1>7, FollowsOn

LEMMA SkillsReadReads ==
    ASSUME NEW c, NEW d, Alike(c, d), NEW n \in Nat
    PROVE  Reads(c, d, SkillsRead(Walk(c, n, NextSkill), n), SkillsRead(Walk(d, n, NextSkill), n))
<1> DEFINE f == Walk(c, n, NextSkill)
           g == Walk(d, n, NextSkill)
<1>1. Went("skill", f, c, n) /\ Went("skill", g, d, n)
  BY SkillsWalked
<1> HIDE DEF f, g
<1>2. \A x : OneTurn("skill", x) = NextSkill(x)
  BY DEF OneTurn
<1>3. \A k \in 0..n - 1 : Follows(f[k], g[k], f[k + 1], g[k + 1])
  BY <1>1, <1>2, SkillFollows DEF Went
<1>4. f[0] = c /\ g[0] = d
  BY <1>1 DEF Went
<1>5. Follows(c, d, f[n], g[n])
  <2>1. n \in 0..n
    OBVIOUS
  <2>2. Follows(f[0], g[0], f[n], g[n])
    BY <1>3, <2>1, Along
  <2> QED BY <1>4, <2>2
<1> DEFINE Learnt(at) == {i \in 1..n : Value(at[i], 2) > 0}
           Map(at) == Mapped([i \in Learnt(at) |-> Value(at[i], 1)], [i \in Learnt(at) |-> Value(at[i], 2) % 256])
<1>6. ASSUME ~Lost(f[n]) PROVE Map(f) = Map(g)
  <2>1. \A k \in 0..n : Alike(f[k], g[k])
    BY <1>3, <1>4, <1>6, AllAlong
  <2>2. \A i \in 1..n : Value(f[i], 1) = Value(g[i], 1) /\ Value(f[i], 2) = Value(g[i], 2)
    <3> TAKE i \in 1..n
    <3>1. i \in 0..n
      OBVIOUS
    <3>2. f[i].got = g[i].got
      BY <2>1, <3>1 DEF Alike
    <3> QED BY <3>2 DEF Value
  <2>3. Learnt(f) = Learnt(g)
    BY <2>2
  <2> DEFINE L == Learnt(f)
  <2>4. \A i \in L : i \in 1..n
    OBVIOUS
  <2> HIDE DEF L
  <2>5. /\ [i \in L |-> Value(f[i], 1)] = [i \in L |-> Value(g[i], 1)]
        /\ [i \in L |-> Value(f[i], 2) % 256] = [i \in L |-> Value(g[i], 2) % 256]
    BY <2>2, <2>4
  <2>6. Map(f) = Mapped([i \in L |-> Value(f[i], 1)], [i \in L |-> Value(f[i], 2) % 256])
    BY DEF L
  <2>7. Map(g) = Mapped([i \in L |-> Value(g[i], 1)], [i \in L |-> Value(g[i], 2) % 256])
    BY <2>3 DEF L
  <2> HIDE DEF Map
  <2> QED BY <2>5, <2>6, <2>7
<1>7. SkillsRead(f, n) = Checked(f[n], Map(f)) /\ SkillsRead(g, n) = Checked(g[n], Map(g))
  BY DEF SkillsRead
<1> HIDE DEF Map
<1>8. Reads(c, d, Checked(f[n], Map(f)), Checked(g[n], Map(g)))
  BY <1>5, <1>6, CheckedReads
<1> QED BY <1>7, <1>8 DEF f, g

LEMMA WordLayout == Layout(<<Get(2)>>)
<1>1. Get(2) \in Fitting
  BY FieldsAre
<1>2. <<Get(2)>> \in Seq(Fitting)
  BY <1>1
<1> QED BY <1>2, LayoutIs

(* How often a loop goes round.                                             *)
LEMMA TimesIs == ASSUME NEW v \in Seq(Byte), Len(v) \in {1, 2, 4} PROVE Times(Signed(v)) \in Nat
<1>1. Signed(v) \in Int
  BY Values
<1>2. \A n \in Int : Times(n) \in Nat
  BY DEF Times
<1> QED BY <1>1, <1>2

LEMMA SkillsReads ==
    ASSUME NEW c, NEW d
    PROVE  Reads(c, d, ParseSkills(c), ParseSkills(d)) /\ Doubts(ParseSkills(c))
<1> DEFINE e == Take(c, <<Get(2)>>)
           f == Take(d, <<Get(2)>>)
           R(x) == SkillsRead(Walk(x, Times(Value(x, 1)), NextSkill), Times(Value(x, 1)))
           P(x) == IF x.failed THEN Nothing(x) ELSE R(x)
<1>1. ParseSkills(c) = P(e) /\ ParseSkills(d) = P(f)
  BY DEF ParseSkills, SkillsOf, AllSkills
<1>2. Follows(c, d, e, f)
  BY WordLayout, TakeFollows
<1>3. ASSUME Alike(c, d), ~Lost(e) PROVE Times(Value(e, 1)) \in Nat
  <2>1. e.got[1] \in Seq(Byte) /\ Len(e.got[1]) = 2
    <3>1. 2 \in Nat
      OBVIOUS
    <3> QED BY <1>3, <3>1, TakeOne
  <2> HIDE DEF e
  <2>2. Len(e.got[1]) \in {1, 2, 4}
    BY <2>1
  <2> QED BY <2>1, <2>2, TimesIs DEF Value
<1> HIDE DEF e, f
<1>4. Doubts(P(e))
  <2>1. Doubts(R(e))
    BY CheckedDoubts DEF SkillsRead
  <2>2. Doubts(Nothing(e))
    BY AnswerIs DEF Doubts
  <2> HIDE DEF R
  <2> QED BY <2>1, <2>2
<1>5. ASSUME Alike(c, d), ~Lost(e) PROVE Alike(e, f) /\ Reads(e, f, R(e), R(f)) /\ P(e) = R(e) /\ P(f) = R(f)
  <2>1. Alike(e, f)
    BY <1>2, <1>5 DEF Follows
  <2>2. Value(e, 1) = Value(f, 1) /\ e.failed = FALSE /\ f.failed = FALSE
    BY <2>1 DEF Alike, Value
  <2> DEFINE n == Times(Value(e, 1))
  <2>3. R(e) = SkillsRead(Walk(e, n, NextSkill), n) /\ R(f) = SkillsRead(Walk(f, n, NextSkill), n)
    BY <2>2
  <2>4. n \in Nat
    BY <1>3, <1>5
  <2>5. P(e) = R(e) /\ P(f) = R(f)
    BY <2>2
  <2> HIDE DEF n, R, P
  <2>6. Reads(e, f, R(e), R(f))
    BY <2>1, <2>3, <2>4, SkillsReadReads
  <2> QED BY <2>1, <2>5, <2>6
<1>6. Lost(e) => P(e).c = e
  BY AnswerIs DEF Lost
<1> HIDE DEF P, R
<1>7. Lost(c) => Lost(P(e).c)
  BY <1>2, <1>6 DEF Follows
<1>8. ASSUME Alike(c, d), ~Lost(e) PROVE Reads(c, d, P(e), P(f))
  BY <1>2, <1>5, <1>8, ReadsOn
<1>9. Reads(c, d, P(e), P(f))
  BY <1>6, <1>7, <1>8 DEF Reads, Follows
<1> QED BY <1>1, <1>4, <1>9

LEMMA GuardOn ==
    ASSUME NEW c, NEW d, NEW e, NEW f, NEW r, NEW s, Follows(c, d, e, f),
           Alike(c, d) /\ Alike(e, f) => Reads(e, f, r, s)
    PROVE  Reads(c, d, IF e.failed THEN Nothing(e) ELSE r, IF f.failed THEN Nothing(f) ELSE s)
<1> DEFINE x == IF e.failed THEN Nothing(e) ELSE r
           y == IF f.failed THEN Nothing(f) ELSE s
<1>1. Lost(e) => x.c = e
  BY AnswerIs DEF Lost
<1>2. ASSUME Alike(c, d), Alike(e, f) PROVE Reads(c, d, x, y)
  <2>1. x = r /\ y = s
    BY <1>2 DEF Alike
  <2> HIDE DEF x, y
  <2>2. Reads(c, d, r, s)
    BY <1>2, ReadsOn
  <2> QED BY <2>1, <2>2
<1> HIDE DEF x, y
<1>3. Reads(c, d, x, y)
  BY <1>1, <1>2 DEF Reads, Follows
<1> QED BY <1>3 DEF x, y

LEMMA ThenReads ==
    ASSUME NEW c, NEW d, NEW b, NEW e, NEW r, NEW s, NEW t, Reads(c, d, b, e), Reads(b.c, e.c, r, s),
           b.v = e.v => t = s
    PROVE  Reads(c, d, IF b.ok THEN r ELSE b, IF e.ok THEN t ELSE e)
<1> DEFINE x == IF b.ok THEN r ELSE b
           y == IF e.ok THEN t ELSE e
<1>1. Lost(b.c) => Lost(x.c)
  BY DEF Reads, Follows
<1>2. Follows(c, d, b.c, e.c)
  BY DEF Reads
<1>3. ASSUME Alike(c, d), ~Lost(b.c) PROVE b.ok = e.ok /\ t = s
  BY <1>3 DEF Reads
<1>4. Reads(c, d, r, s)
  BY <1>2, ReadsOn
<1>5. ASSUME Alike(c, d), ~Lost(b.c) PROVE (x = r /\ y = s) \/ (x = b /\ y = e)
  BY <1>3, <1>5
<1> HIDE DEF x, y
<1>6. Reads(c, d, x, y)
  BY <1>1, <1>2, <1>4, <1>5 DEF Reads, Follows
<1> QED BY <1>6 DEF x, y

LEMMA MesoFollows == ASSUME NEW c, NEW d PROVE Follows(c, d, Meso(c), Meso(d))
<1> DEFINE l == <<Skip(1), Get(1)>>
           e == Take(c, l)
           f == Take(d, l)
           More(x) == (IF Unsigned(x.got[1]) = 1 THEN <<SkipText>> ELSE <<>>) \o <<Get(4), Skip(25)>>
<1>1. Meso(c) = Take(e, More(e)) /\ Meso(d) = Take(f, More(f))
  BY DEF Meso
<1>2. Layout(l) /\ Layout(More(e))
  <2>1. Get(4) \in Fitting /\ Skip(1) \in Fitting /\ Get(1) \in Fitting /\ Skip(25) \in Fitting /\ SkipText \in Fitting
    BY FieldsAre
  <2>2. l \in Seq(Fitting) /\ More(e) \in Seq(Fitting)
    BY <2>1
  <2> QED BY <2>2, LayoutIs
<1>3. Follows(c, d, e, f)
  BY <1>2, TakeFollows
<1> HIDE DEF l, e, f
<1>4. Alike(e, f) => More(e) = More(f)
  BY DEF Alike
<1> HIDE DEF More
<1>5. Follows(e, f, Take(e, More(e)), Take(f, More(f)))
  BY <1>2, <1>4, TakeSame
<1> QED BY <1>1, <1>3, <1>5, FollowsOn

LEMMA StatsLaid == Layout(StatsLayout)
<1>1. Get(4) \in Fitting /\ Padded(13) \in Fitting /\ Skip(34) \in Fitting /\ Get(1) \in Fitting /\ Skip(19) \in Fitting
  BY FieldsAre
<1> DEFINE a == <<Get(4), Padded(13), Skip(34), Get(1)>>
           b == [i \in 1..11 |-> Get(2)]
           c == <<Get(4), Skip(19)>>
<1>2. a \in Seq(Fitting) /\ c \in Seq(Fitting)
  BY <1>1
<1>3. b \in Seq(Fitting)
  BY ManyAre
<1> HIDE DEF a, b, c
<1>4. a \o b \o c \in Seq(Fitting)
  BY <1>2, <1>3
<1>5. StatsLayout = a \o b \o c
  BY DEF StatsLayout, a, b, c
<1> QED BY <1>4, <1>5, LayoutIs

(* What comes after the meso: worn things, then the bag.                    *)
LEMMA WornReads ==
    ASSUME NEW c, NEW d, NEW stats
    PROVE  Reads(c, d, WornAfter(stats, c, Equipped(c)), WornAfter(stats, d, Equipped(d)))
<1> DEFINE e == Equipped(c)
           f == Equipped(d)
           g == Bag(e.c)
           h == Bag(f.c)
           V(m, w, b) ==
               [name |-> stats.got[2], level |-> Unsigned(stats.got[3]),
                str |-> Value(stats, 5), dex |-> Value(stats, 6), int |-> Value(stats, 7), luk |-> Value(stats, 8),
                hp |-> Value(stats, 9), maxhp |-> Value(stats, 10), mp |-> Value(stats, 11),
                maxmp |-> Value(stats, 12), ap |-> Value(stats, 13), sp |-> Value(stats, 14),
                exp |-> Value(stats, 15), meso |-> m, worn |-> w, bag |-> b]
           v == V(Value(c, 1), e.items, g.items)
           w == V(Value(d, 1), f.items, h.items)
<1>1. WornAfter(stats, c, e) = Answer(g.c, v) /\ WornAfter(stats, d, f) = Answer(h.c, w)
  BY DEF WornAfter, Whole
<1>2. Blocks(c, d, e, f)
  BY EquippedFollows
<1>3. Blocks(e.c, f.c, g, h)
  BY BagFollows
<1> HIDE DEF e, f, g, h
<1>4. Follows(c, d, e.c, f.c) /\ Follows(e.c, f.c, g.c, h.c)
  BY <1>2, <1>3 DEF Blocks
<1>5. Follows(c, d, g.c, h.c)
  BY <1>4, FollowsOn
<1>6. ASSUME Alike(c, d), ~Lost(g.c) PROVE v = w
  <2>1. ~Lost(e.c)
    BY <1>4, <1>6 DEF Follows
  <2>2. Alike(e.c, f.c)
    BY <1>4, <1>6, <2>1 DEF Follows
  <2>3. e.items = f.items /\ g.items = h.items
    BY <1>2, <1>3, <1>6, <2>1, <2>2 DEF Blocks
  <2>4. Value(c, 1) = Value(d, 1)
    BY <1>6 DEF Alike, Value
  <2> HIDE DEF V
  <2> QED BY <2>3, <2>4
<1> HIDE DEF v, w
<1>7. Reads(c, d, Answer(g.c, v), Answer(h.c, w))
  BY <1>5, <1>6, AnswerReads
<1> QED BY <1>1, <1>7 DEF e, f

LEMMA BodyReads == ASSUME NEW c, NEW d PROVE Reads(c, d, ParseBody(c), ParseBody(d))
<1> DEFINE e == Take(c, StatsLayout)
           f == Take(d, StatsLayout)
           g == Meso(e)
           h == Meso(f)
           R(s, m) == WornAfter(s, m, Equipped(m))
           M(s, m) == IF m.failed THEN Nothing(m) ELSE R(s, m)
           B(s, m) == IF s.failed THEN Nothing(s) ELSE M(s, m)
<1>1. ParseBody(c) = B(e, g) /\ ParseBody(d) = B(f, h)
  BY DEF ParseBody, BodyAfter, MesoAfter
<1>2. Follows(c, d, e, f)
  BY StatsLaid, TakeFollows
<1>3. Follows(e, f, g, h)
  BY MesoFollows
<1> HIDE DEF e, f, g, h
<1>4. Reads(g, h, R(e, g), R(e, h))
  BY WornReads
<1>5. Alike(e, f) => R(f, h) = R(e, h)
  BY DEF Alike, WornAfter, Whole, Value
<1> HIDE DEF R
<1>6. Reads(e, f, M(e, g), M(f, h))
  <2>1. Reads(e, f, M(e, g), M(e, h))
    BY <1>3, <1>4, GuardOn
  <2>2. Alike(e, f) => M(f, h) = M(e, h)
    BY <1>5
  <2> HIDE DEF M
  <2> QED BY <2>1, <2>2, ReadsSame
<1> HIDE DEF M
<1>7. Reads(c, d, B(e, g), B(f, h))
  BY <1>2, <1>6, GuardOn
<1> HIDE DEF B
<1> QED BY <1>1, <1>7

LEMMA CharInfoReads ==
    ASSUME NEW c, NEW d
    PROVE  Reads(c, d, ParseCharInfo(c), ParseCharInfo(d)) /\ Doubts(ParseCharInfo(c))
<1> DEFINE e == Take(c, <<Skip(24)>>)
           f == Take(d, <<Skip(24)>>)
           b == ParseBody(e)
           p == ParseBody(f)
           s == ParseSkills(b.c)
           t == ParseSkills(p.c)
           A(v, x) == SkillsAfter(v, x)
<1>1. /\ ParseCharInfo(c) = IF b.ok THEN A(b.v, s) ELSE b
      /\ ParseCharInfo(d) = IF p.ok THEN A(p.v, t) ELSE p
  BY DEF ParseCharInfo, WithSkills
<1>2. Follows(c, d, e, f)
  <2>1. Skip(24) \in Fitting
    BY FieldsAre
  <2>2. <<Skip(24)>> \in Seq(Fitting)
    BY <2>1
  <2>3. Layout(<<Skip(24)>>)
    BY <2>2, LayoutIs
  <2> QED BY <2>3, TakeFollows
<1>3. Reads(e, f, b, p)
  BY BodyReads
<1>4. Reads(b.c, p.c, s, t) /\ Doubts(s)
  BY SkillsReads
<1> HIDE DEF e, f, b, p, s, t
<1> DEFINE W(v, x) == Merged(v, [skills |-> x.v])
<1>5. \A x, v : A(v, x) = IF x.ok THEN Answer(x.c, W(v, x)) ELSE x
  BY DEF SkillsAfter
<1>6. s.v = t.v => W(b.v, s) = W(b.v, t)
  OBVIOUS
<1>7. b.v = p.v => A(p.v, t) = A(b.v, t)
  OBVIOUS
<1> HIDE DEF W, A
<1>8. A(b.v, s).c = s.c /\ A(b.v, t).c = t.c
  BY <1>5, AnswerIs
<1>9. ASSUME Alike(b.c, p.c), ~Lost(s.c) PROVE A(b.v, s).ok = A(b.v, t).ok /\ A(b.v, s).v = A(b.v, t).v
  <2>1. s.ok = t.ok /\ s.v = t.v
    BY <1>4, <1>9 DEF Reads
  <2>2. CASE s.ok
    <3>1. t.ok
      BY <2>1, <2>2
    <3>2. A(b.v, s) = Answer(s.c, W(b.v, s)) /\ A(b.v, t) = Answer(t.c, W(b.v, t))
      BY <1>5, <2>2, <3>1
    <3>3. W(b.v, s) = W(b.v, t)
      BY <1>6, <2>1
    <3>4. Answer(s.c, W(b.v, s)).ok = TRUE /\ Answer(s.c, W(b.v, s)).v = W(b.v, s)
      BY DEF Answer
    <3>5. Answer(t.c, W(b.v, t)).ok = TRUE /\ Answer(t.c, W(b.v, t)).v = W(b.v, t)
      BY DEF Answer
    <3> QED BY <3>2, <3>3, <3>4, <3>5
  <2>3. CASE ~s.ok
    <3>1. A(b.v, s) = s /\ A(b.v, t) = t
      BY <1>5, <2>1, <2>3
    <3> QED BY <2>1, <3>1
  <2> QED BY <2>2, <2>3
<1>10. Reads(b.c, p.c, A(b.v, s), A(b.v, t))
  BY <1>4, <1>8, <1>9 DEF Reads
<1>11. Reads(e, f, ParseCharInfo(c), ParseCharInfo(d))
  BY <1>1, <1>3, <1>7, <1>10, ThenReads
<1>12. Reads(c, d, ParseCharInfo(c), ParseCharInfo(d))
  BY <1>2, <1>11, ReadsOn
<1>13. ASSUME ParseCharInfo(c).ok PROVE ~Lost(ParseCharInfo(c).c)
  <2>1. CASE b.ok
    <3>1. CASE s.ok
      BY <1>1, <1>4, <1>8, <2>1, <3>1 DEF Doubts
    <3>2. CASE ~s.ok
      BY <1>1, <1>5, <1>13, <2>1, <3>2
    <3> QED BY <3>1, <3>2
  <2>2. CASE ~b.ok
    BY <1>1, <1>13, <2>2
  <2> QED BY <2>1, <2>2
<1> QED BY <1>12, <1>13 DEF Doubts

(* -- the cash shop ---------------------------------------------------------*)
LEMMA OneField == ASSUME NEW f, Fit(f) PROVE Layout(<<f>>)
<1> DEFINE l == <<f>>
<1>1. Len(l) = 1 /\ l[1] = f
  OBVIOUS
<1> HIDE DEF l
<1>2. \A i \in 1..1 : i = 1
  OBVIOUS
<1>3. Layout(l)
  BY <1>1, <1>2 DEF Layout
<1> QED BY <1>3 DEF l

LEMMA TwoFields == ASSUME NEW f, NEW g, Fit(f), Fit(g) PROVE Layout(<<f, g>>)
<1> DEFINE l == <<f, g>>
<1>1. Len(l) = 2 /\ l[1] = f /\ l[2] = g
  OBVIOUS
<1> HIDE DEF l
<1>2. \A i \in 1..2 : i = 1 \/ i = 2
  OBVIOUS
<1>3. Layout(l)
  BY <1>1, <1>2 DEF Layout
<1> QED BY <1>3 DEF l

LEMMA Fits == /\ \A n : Fit(Skip(n))
              /\ \A n \in Nat : Fit(Get(n)) /\ Fit(Padded(n))
              /\ Fit(Text) /\ Fit(SkipText)
<1>1. \A n : Fit(Skip(n))
  BY DEF Fit, Skip
<1>2. \A n \in Nat : Fit(Get(n)) /\ Fit(Padded(n))
  BY DEF Fit, Get, Padded
<1>3. Fit(Text) /\ Fit(SkipText)
  BY DEF Fit, Text, SkipText
<1> QED BY <1>1, <1>2, <1>3

LEMMA SkipThen == ASSUME NEW n PROVE Layout(<<Skip(n), Get(1)>>) /\ Layout(<<Skip(n), Get(2)>>) /\ Layout(<<Skip(n)>>)
<1>1. Fit(Skip(n)) /\ Fit(Get(1)) /\ Fit(Get(2))
  BY Fits
<1> QED BY <1>1, OneField, TwoFields

LEMMA TailFollows == ASSUME NEW c, NEW d PROVE Follows(c, d, ShopTail(c), ShopTail(d))
<1> DEFINE l == <<Skip(10), Get(2)>>
           a == Take(c, l)
           b == Take(d, l)
           L1(x) == <<Skip(33 * Times(Value(x, 1))), Get(2)>>
           a1 == Take(a, L1(a))
           b1 == Take(b, L1(b))
           L2(x) == <<Skip(37 * Times(Value(x, 1))), Get(2)>>
           a2 == Take(a1, L2(a1))
           b2 == Take(b1, L2(b1))
           L3(x) == <<Skip(IF Value(x, 1) # 0 THEN 25 ELSE 0), Skip(75)>>
           a3 == Take(a2, L3(a2))
           b3 == Take(b2, L3(b2))
<1>1. ShopTail(c) = a3 /\ ShopTail(d) = b3
  BY DEF ShopTail
<1>2. /\ \A x, y : Alike(x, y) => L1(x) = L1(y)
      /\ \A x, y : Alike(x, y) => L2(x) = L2(y)
      /\ \A x, y : Alike(x, y) => L3(x) = L3(y)
  BY DEF Alike, Value
<1>3. Layout(l) /\ Layout(L1(a)) /\ Layout(L2(a1))
  BY SkipThen
<1>4. Layout(L3(a2))
  BY Fits, TwoFields
<1>5. Follows(c, d, a, b)
  BY <1>3, TakeFollows
<1> HIDE DEF l, a, b, L1, L2, L3
<1>6. Follows(a, b, a1, b1)
  BY <1>2, <1>3, TakeSame
<1> HIDE DEF a1, b1
<1>7. Follows(a1, b1, a2, b2)
  BY <1>2, <1>3, TakeSame
<1> HIDE DEF a2, b2
<1>8. Follows(a2, b2, a3, b3)
  BY <1>2, <1>4, TakeSame
<1> HIDE DEF a3, b3
<1> QED BY <1>1, <1>5, <1>6, <1>7, <1>8, FollowsOn

LEMMA PresentIs == ASSUME NEW flags PROVE Layout(Present(SaleField, flags))
<1>1. Len(SaleField) = 16
  BY DEF SaleField
<1>2. \A i \in 1..16 : SaleField[i][2] \in Nat
  BY DEF SaleField
<1> DEFINE N(i) == IF Has(flags, SaleField[i]) THEN SaleField[i][2] ELSE 0
           l == [i \in 1..16 |-> Get(N(i))]
<1>3. Present(SaleField, flags) = l
  BY <1>1 DEF Present
<1>4. \A i \in 1..16 : N(i) \in Nat
  BY <1>2
<1> HIDE DEF N
<1>5. \A i \in 1..16 : Fit(l[i])
  BY <1>4, Fits
<1>6. Len(l) = 16
  OBVIOUS
<1> HIDE DEF l
<1>7. Layout(l)
  BY <1>5, <1>6 DEF Layout
<1> QED BY <1>3, <1>7

LEMMA PackageFollows == ASSUME NEW c, NEW d PROVE Follows(c, d, Package(c), Package(d))
<1> DEFINE L(x) == <<Skip(4 * Unsigned(x.got[1]))>>
<1>1. Package(c) = Take(c, L(c)) /\ Package(d) = Take(d, L(d))
  BY DEF Package
<1>2. Layout(L(c))
  BY SkipThen
<1>3. Alike(c, d) => L(c) = L(d)
  BY DEF Alike
<1> HIDE DEF L
<1> QED BY <1>1, <1>2, <1>3, TakeSame

LEMMA OfferReads ==
    ASSUME NEW c, NEW d, NEW sn, NEW flags
    PROVE  Reads(c, d, OnOffer(sn, flags, c), OnOffer(sn, flags, d)) /\ Doubts(OnOffer(sn, flags, c))
<1> DEFINE e == Take(c, <<Get(1)>>)
           f == Take(d, <<Get(1)>>)
           bit == (flags \div 65536) % 2 = 1
           x == IF bit THEN Package(e) ELSE c
           y == IF bit THEN Package(f) ELSE d
           Said(r, i) == IF Has(flags, SaleField[i]) THEN Value(r, i) ELSE 0
           V(r) == [sn |-> sn, id |-> Said(r, 1), price |-> Said(r, 3)]
<1>1. OnOffer(sn, flags, c) = Checked(x, V(c)) /\ OnOffer(sn, flags, d) = Checked(y, V(d))
  BY DEF OnOffer
<1>2. Follows(c, d, e, f)
  BY ByteLayout, TakeFollows
<1> HIDE DEF e, f, bit
<1>3. Follows(c, d, x, y)
  <2>1. Follows(e, f, Package(e), Package(f))
    BY PackageFollows
  <2>2. Follows(c, d, Package(e), Package(f))
    BY <1>2, <2>1, FollowsOn
  <2>3. Follows(c, d, c, d)
    BY FollowsSelf
  <2> QED BY <2>2, <2>3
<1> HIDE DEF x, y
<1>4. Alike(c, d) => V(c) = V(d)
  BY DEF Alike, Value
<1> HIDE DEF V
<1>5. Reads(c, d, Checked(x, V(c)), Checked(y, V(d))) /\ Doubts(Checked(x, V(c)))
  BY <1>3, <1>4, CheckedReads
<1> QED BY <1>1, <1>5

LEMMA SaleReads == ASSUME NEW c, NEW d PROVE Reads(c, d, ParseSale(c), ParseSale(d))
<1> DEFINE l == <<Get(4), Get(4)>>
           e == Take(c, l)
           f == Take(d, l)
           P(x) == Take(x, Present(SaleField, Unsigned(x.got[2])))
           R(x) == OnOffer(Value(x, 1), Unsigned(x.got[2]), P(x))
<1>1. ParseSale(c) = (IF e.failed THEN Nothing(e) ELSE R(e)) /\ ParseSale(d) = (IF f.failed THEN Nothing(f) ELSE R(f))
  BY DEF ParseSale, SaleHead, SaleOf
<1>2. Follows(c, d, e, f)
  <2>1. Layout(l)
    BY Fits, TwoFields
  <2> QED BY <2>1, TakeFollows
<1> HIDE DEF l, e, f
<1>3. ASSUME Alike(e, f) PROVE Reads(e, f, R(e), R(f))
  <2> DEFINE flags == Unsigned(e.got[2])
             g == Take(e, Present(SaleField, flags))
             h == Take(f, Present(SaleField, flags))
             sn == Value(e, 1)
  <2>1. Unsigned(f.got[2]) = flags /\ Value(f, 1) = sn
    BY <1>3 DEF Alike, Value
  <2>2. R(e) = OnOffer(sn, flags, g) /\ R(f) = OnOffer(sn, flags, h)
    BY <2>1
  <2>3. Follows(e, f, g, h)
    BY PresentIs, TakeFollows
  <2> HIDE DEF flags, g, h, sn, R
  <2>4. Reads(g, h, OnOffer(sn, flags, g), OnOffer(sn, flags, h))
    BY OfferReads
  <2> QED BY <2>2, <2>3, <2>4, ReadsOn
<1> HIDE DEF R
<1> QED BY <1>1, <1>2, <1>3, GuardOn

LEMMA SalesWalked == ASSUME NEW c, NEW n \in Nat PROVE Went("sale", Walk(c, n, NextSale), c, n)
<1> DEFINE at == Walk(c, n, NextSale)
<1>1. \A x : OneTurn("sale", x) = NextSale(x)
  BY DEF OneTurn
<1>2. \E x : x = [k \in 0..n |-> IF k = 0 THEN c ELSE NextSale(x[k - 1])]
  <2>1. PICK x : IsWalk("sale", x, c, n)
    BY Walks
  <2>2. x = [k \in 0..n |-> IF k = 0 THEN c ELSE NextSale(x[k - 1])]
    <3> DEFINE F(k) == IF k = 0 THEN c ELSE OneTurn("sale", x[k - 1])
               G(k) == IF k = 0 THEN c ELSE NextSale(x[k - 1])
    <3>1. \A k : F(k) = G(k)
      BY <1>1
    <3>2. x = [k \in 0..n |-> F(k)]
      BY <2>1 DEF IsWalk
    <3> HIDE DEF F, G
    <3>3. x = [k \in 0..n |-> G(k)]
      BY <3>1, <3>2
    <3> QED BY <3>3 DEF G
  <2> QED BY <2>2
<1>3. at = [k \in 0..n |-> IF k = 0 THEN c ELSE NextSale(at[k - 1])]
  <2>1. at = CHOOSE x : x = [k \in 0..n |-> IF k = 0 THEN c ELSE NextSale(x[k - 1])]
    BY DEF Walk
  <2> HIDE DEF at
  <2> QED BY <1>2, <2>1
<1> HIDE DEF at
<1>4. IsWalk("sale", at, c, n)
  BY <1>1, <1>3 DEF IsWalk
<1> QED BY <1>4, WalkGoes DEF at

LEMMA ListedReads ==
    ASSUME NEW c, NEW d, Alike(c, d), NEW n \in Nat
    PROVE  Reads(c, d, Listed(Walk(c, n, NextSale), n), Listed(Walk(d, n, NextSale), n))
<1> DEFINE f == Walk(c, n, NextSale)
           g == Walk(d, n, NextSale)
<1>1. Went("sale", f, c, n) /\ Went("sale", g, d, n)
  BY SalesWalked
<1> HIDE DEF f, g
<1>2. \A x : OneTurn("sale", x) = ParseSale(x).c
  BY DEF OneTurn, NextSale
<1>3. \A k \in 0..n - 1 : Follows(f[k], g[k], f[k + 1], g[k + 1])
  <2> TAKE k \in 0..n - 1
  <2>1. f[k + 1] = ParseSale(f[k]).c /\ g[k + 1] = ParseSale(g[k]).c
    BY <1>1, <1>2 DEF Went
  <2> QED BY <2>1, SaleReads DEF Reads
<1>4. f[0] = c /\ g[0] = d
  BY <1>1 DEF Went
<1>5. Follows(c, d, f[n], g[n])
  <2>1. n \in 0..n
    OBVIOUS
  <2>2. Follows(f[0], g[0], f[n], g[n])
    BY <1>3, <2>1, Along
  <2> QED BY <1>4, <2>2
<1> DEFINE Sold(at) == [i \in 1..n |-> ParseSale(at[i - 1]).v]
<1>6. ASSUME ~Lost(f[n]) PROVE Sold(f) = Sold(g)
  <2>1. \A k \in 0..n : Alike(f[k], g[k])
    BY <1>3, <1>4, <1>6, AllAlong
  <2>2. \A i \in 1..n : ParseSale(f[i - 1]).v = ParseSale(g[i - 1]).v
    <3> TAKE i \in 1..n
    <3> DEFINE k == i - 1
    <3>1. k \in 0..n - 1 /\ k \in 0..n /\ k + 1 \in 0..n
      OBVIOUS
    <3> HIDE DEF k
    <3>2. Alike(f[k], g[k]) /\ Alike(f[k + 1], g[k + 1]) /\ f[k + 1] = ParseSale(f[k]).c
      BY <1>1, <1>2, <2>1, <3>1 DEF Went
    <3>3. ~Lost(ParseSale(f[k]).c)
      BY <3>2 DEF Alike, Lost
    <3>4. ParseSale(f[k]).v = ParseSale(g[k]).v
      BY <3>2, <3>3, SaleReads DEF Reads
    <3> QED BY <3>4 DEF k
  <2> QED BY <2>2
<1>7. Listed(f, n) = Checked(f[n], Sold(f)) /\ Listed(g, n) = Checked(g[n], Sold(g))
  BY DEF Listed
<1> HIDE DEF Sold
<1>8. Reads(c, d, Checked(f[n], Sold(f)), Checked(g[n], Sold(g)))
  BY <1>5, <1>6, CheckedReads
<1> QED BY <1>7, <1>8 DEF f, g

LEMMA GoodsReads ==
    ASSUME NEW c, NEW d
    PROVE  Reads(c, d, GoodsAfter(c), GoodsAfter(d)) /\ Doubts(GoodsAfter(c))
<1> DEFINE l == <<SkipText, Get(4)>>
           a == Take(c, l)
           b == Take(d, l)
           L(x) == <<Skip(4 * Value(x, 1)), Get(2)>>
           e == Take(a, L(a))
           f == Take(b, L(b))
           R(x) == Listed(Walk(x, Times(Value(x, 1)), NextSale), Times(Value(x, 1)))
           P(x) == IF x.failed THEN Nothing(x) ELSE R(x)
<1>1. GoodsAfter(c) = P(e) /\ GoodsAfter(d) = P(f)
  BY DEF GoodsAfter, Fixed, GoodsOf, Goods
<1>2. Follows(c, d, a, b)
  <2>1. Layout(l)
    BY Fits, TwoFields
  <2> QED BY <2>1, TakeFollows
<1> HIDE DEF l, a, b
<1>3. Follows(a, b, e, f)
  <2>1. Layout(L(a))
    BY SkipThen
  <2>2. Alike(a, b) => L(a) = L(b)
    BY DEF Alike, Value
  <2> HIDE DEF L
  <2> QED BY <2>1, <2>2, TakeSame
<1>4. ASSUME Alike(a, b), ~Lost(e) PROVE Times(Value(e, 1)) \in Nat
  <2> DEFINE s == Skip(4 * Value(a, 1))
  <2>1. Fit(s) /\ s.kind = "skip"
    BY Fits DEF Skip
  <2>2. e = Take(a, <<s, Get(2)>>)
    OBVIOUS
  <2> HIDE DEF s
  <2>3. 2 \in Nat
    OBVIOUS
  <2> HIDE DEF e
  <2>4. e.got[1] \in Seq(Byte) /\ Len(e.got[1]) = 2
    BY <1>4, <2>1, <2>2, <2>3, TakeTwo
  <2>5. Len(e.got[1]) \in {1, 2, 4}
    BY <2>4
  <2> QED BY <2>4, <2>5, TimesIs DEF Value
<1> HIDE DEF e, f
<1>5. Doubts(P(e))
  <2>1. Doubts(R(e))
    BY CheckedDoubts DEF Listed
  <2>2. Doubts(Nothing(e))
    BY AnswerIs DEF Doubts
  <2> HIDE DEF R
  <2> QED BY <2>1, <2>2
<1>6. ASSUME Alike(a, b), Alike(e, f) PROVE Reads(e, f, R(e), R(f))
  <2>1. Value(e, 1) = Value(f, 1)
    BY <1>6 DEF Alike, Value
  <2>2. ~Lost(e)
    BY <1>6 DEF Alike, Lost
  <2> DEFINE n == Times(Value(e, 1))
  <2>3. R(e) = Listed(Walk(e, n, NextSale), n) /\ R(f) = Listed(Walk(f, n, NextSale), n)
    BY <2>1
  <2>4. n \in Nat
    BY <1>4, <1>6, <2>2
  <2> HIDE DEF n, R
  <2> QED BY <1>6, <2>3, <2>4, ListedReads
<1> HIDE DEF R
<1>7. Reads(a, b, P(e), P(f))
  BY <1>3, <1>6, GuardOn
<1> HIDE DEF P
<1>8. Reads(c, d, P(e), P(f))
  BY <1>2, <1>7, ReadsOn
<1> QED BY <1>1, <1>5, <1>8

LEMMA ShopReads ==
    ASSUME NEW c, NEW d
    PROVE  Reads(c, d, ParseCashShop(c), ParseCashShop(d)) /\ Doubts(ParseCashShop(c))
<1> DEFINE e == Take(c, <<Skip(9)>>)
           f == Take(d, <<Skip(9)>>)
           b == ParseBody(e)
           p == ParseBody(f)
           g == ShopTail(b.c)
           h == ShopTail(p.c)
           r == GoodsAfter(g)
           s == GoodsAfter(h)
<1>1. /\ ParseCashShop(c) = IF b.ok THEN r ELSE b
      /\ ParseCashShop(d) = IF p.ok THEN s ELSE p
  BY DEF ParseCashShop, SaleAfter
<1>2. Follows(c, d, e, f)
  BY SkipThen, TakeFollows
<1>3. Reads(e, f, b, p)
  BY BodyReads
<1>4. Follows(b.c, p.c, g, h)
  BY TailFollows
<1>5. Reads(g, h, r, s) /\ Doubts(r)
  BY GoodsReads
<1> HIDE DEF e, f, b, p, g, h, r, s
<1>6. Reads(b.c, p.c, r, s)
  BY <1>4, <1>5, ReadsOn
<1>7. Reads(e, f, ParseCashShop(c), ParseCashShop(d))
  BY <1>1, <1>3, <1>6, ThenReads
<1>8. Reads(c, d, ParseCashShop(c), ParseCashShop(d))
  BY <1>2, <1>7, ReadsOn
<1>9. Doubts(ParseCashShop(c))
  BY <1>1, <1>5 DEF Doubts
<1> QED BY <1>8, <1>9

(* -- chat and trade --------------------------------------------------------*)
LEMMA EitherReads ==
    ASSUME NEW c, NEW d, NEW e, NEW f, NEW p, NEW q, NEW r, NEW s, NEW x, NEW y,
           Follows(c, d, e, f), Reads(e, f, r, s), Reads(e, f, x, y), Alike(e, f) => (p <=> q)
    PROVE  Reads(c, d, IF p THEN r ELSE x, IF q THEN s ELSE y)
<1> DEFINE a == IF p THEN r ELSE x
           b == IF q THEN s ELSE y
<1>1. a = r \/ a = x
  OBVIOUS
<1>2. Alike(e, f) => (a = r /\ b = s) \/ (a = x /\ b = y)
  OBVIOUS
<1> HIDE DEF a, b
<1>3. Lost(e) => Lost(a.c)
  BY <1>1 DEF Reads, Follows
<1>4. Alike(e, f) => Reads(e, f, a, b)
  BY <1>2
<1>5. Alike(c, d) /\ ~Lost(e) => Alike(e, f) /\ Reads(c, d, a, b)
  BY <1>4, ReadsOn DEF Follows
<1>6. Reads(c, d, a, b)
  BY <1>3, <1>5 DEF Reads, Follows
<1> QED BY <1>6 DEF a, b

LEMMA PartyReads == ASSUME NEW c, NEW d PROVE Reads(c, d, ParseMultiChat(c), ParseMultiChat(d)) /\ Doubts(ParseMultiChat(c))
<1> DEFINE l == <<Get(1), Text, Text>>
           e == Take(c, l)
           f == Take(d, l)
           V(x) == <<x.got[2], x.got[3]>>
<1>1. ParseMultiChat(c) = Checked(e, V(e)) /\ ParseMultiChat(d) = Checked(f, V(f))
  BY DEF ParseMultiChat
<1>2. Layout(l)
  <2>1. Get(1) \in Fitting /\ Text \in Fitting
    BY FieldsAre
  <2>2. l \in Seq(Fitting)
    BY <2>1
  <2> QED BY <2>2, LayoutIs
<1>3. Follows(c, d, e, f)
  BY <1>2, TakeFollows
<1> HIDE DEF l, e, f
<1>4. Alike(c, d) /\ ~Lost(e) => V(e) = V(f)
  BY <1>3 DEF Follows, Alike
<1> HIDE DEF V
<1> QED BY <1>1, <1>3, <1>4, CheckedReads

LEMMA WhisperReads == ASSUME NEW c, NEW d PROVE Reads(c, d, ParseWhisper(c), ParseWhisper(d)) /\ Doubts(ParseWhisper(c))
<1> DEFINE l == <<Text, Get(2), Text>>
           e == Take(c, <<Get(1)>>)
           f == Take(d, <<Get(1)>>)
           g == Take(e, l)
           h == Take(f, l)
           V(x) == <<x.got[1], x.got[3]>>
           r == Checked(g, V(g))
           s == Checked(h, V(h))
           P(x) == Unsigned(x.got[1]) = 18
<1>1. /\ ParseWhisper(c) = IF P(e) THEN r ELSE Nothing(e)
      /\ ParseWhisper(d) = IF P(f) THEN s ELSE Nothing(f)
  BY DEF ParseWhisper
<1>2. Layout(l)
  <2>1. Get(2) \in Fitting /\ Text \in Fitting
    BY FieldsAre
  <2>2. l \in Seq(Fitting)
    BY <2>1
  <2> QED BY <2>2, LayoutIs
<1>3. Follows(c, d, e, f)
  BY ByteLayout, TakeFollows
<1>4. Follows(e, f, g, h)
  BY <1>2, TakeFollows
<1> HIDE DEF l, e, f, g, h
<1>5. Alike(e, f) /\ ~Lost(g) => V(g) = V(h)
  BY <1>4 DEF Follows, Alike
<1> HIDE DEF V
<1>6. Reads(e, f, r, s) /\ Doubts(r)
  BY <1>4, <1>5, CheckedReads
<1>7. Reads(e, f, Nothing(e), Nothing(f)) /\ Doubts(Nothing(e))
  BY FollowsSelf, NothingReads, AnswerIs DEF Doubts
<1>8. Alike(e, f) => (P(e) <=> P(f))
  BY DEF Alike
<1> HIDE DEF r, s, P
<1>9. Reads(c, d, ParseWhisper(c), ParseWhisper(d))
  BY <1>1, <1>3, <1>6, <1>7, <1>8, EitherReads
<1> QED BY <1>1, <1>6, <1>7, <1>9

LEMMA ChatReads ==
    ASSUME NEW c, NEW d, NEW names
    PROVE  Reads(c, d, ParseChatText(c, names), ParseChatText(d, names)) /\ Doubts(ParseChatText(c, names))
<1> DEFINE l == <<Get(4), Skip(1), Text, Skip(1)>>
           e == Take(c, l)
           f == Take(d, l)
           V(x) == <<IF Value(x, 1) \in DOMAIN names THEN names[Value(x, 1)] ELSE <<Value(x, 1)>>, x.got[2]>>
<1>1. ParseChatText(c, names) = Checked(e, V(e)) /\ ParseChatText(d, names) = Checked(f, V(f))
  BY DEF ParseChatText
<1>2. Layout(l)
  <2>1. Get(4) \in Fitting /\ Skip(1) \in Fitting /\ Text \in Fitting
    BY FieldsAre
  <2>2. l \in Seq(Fitting)
    BY <2>1
  <2> QED BY <2>2, LayoutIs
<1>3. Follows(c, d, e, f)
  BY <1>2, TakeFollows
<1> HIDE DEF l, e, f
<1>4. Alike(c, d) /\ ~Lost(e) => V(e) = V(f)
  <2>1. Alike(c, d) /\ ~Lost(e) => e.got = f.got
    BY <1>3 DEF Follows, Alike
  <2> QED BY <2>1 DEF Value
<1> HIDE DEF V
<1> QED BY <1>1, <1>3, <1>4, CheckedReads

LEMMA YellowReads == ASSUME NEW c, NEW d PROVE Reads(c, d, ParseYellow(c), ParseYellow(d)) /\ Doubts(ParseYellow(c))
<1> DEFINE e == Take(c, <<Get(1)>>)
           f == Take(d, <<Get(1)>>)
           g == Take(e, <<Text>>)
           h == Take(f, <<Text>>)
           V(x) == <<<<>>, x.got[1]>>
           r == Checked(g, V(g))
           s == Checked(h, V(h))
           P(x) == Value(x, 1) = -1
<1>1. /\ ParseYellow(c) = IF P(e) THEN r ELSE Nothing(e)
      /\ ParseYellow(d) = IF P(f) THEN s ELSE Nothing(f)
  BY DEF ParseYellow
<1>2. Layout(<<Text>>)
  BY Fits, OneField
<1>3. Follows(c, d, e, f)
  BY ByteLayout, TakeFollows
<1>4. Follows(e, f, g, h)
  BY <1>2, TakeFollows
<1> HIDE DEF e, f, g, h
<1>5. Alike(e, f) /\ ~Lost(g) => V(g) = V(h)
  BY <1>4 DEF Follows, Alike
<1> HIDE DEF V
<1>6. Reads(e, f, r, s) /\ Doubts(r)
  BY <1>4, <1>5, CheckedReads
<1>7. Reads(e, f, Nothing(e), Nothing(f)) /\ Doubts(Nothing(e))
  BY FollowsSelf, NothingReads, AnswerIs DEF Doubts
<1>8. Alike(e, f) => (P(e) <=> P(f))
  BY DEF Alike, Value
<1> HIDE DEF r, s, P
<1>9. Reads(c, d, ParseYellow(c), ParseYellow(d))
  BY <1>1, <1>3, <1>6, <1>7, <1>8, EitherReads
<1> QED BY <1>1, <1>6, <1>7, <1>9

(* The announcement that is none is answered without asking, and says       *)
(* nothing.                                                                 *)
LEMMA NoticeReads ==
    ASSUME NEW c, NEW d
    PROVE  /\ Reads(c, d, ParseServerMessage(c), ParseServerMessage(d))
           /\ ParseServerMessage(c).ok /\ ParseServerMessage(c).v[2] # <<>> => ~Lost(ParseServerMessage(c).c)
<1> DEFINE e == Take(c, <<Get(1)>>)
           f == Take(d, <<Get(1)>>)
           L(x) == IF Unsigned(x.got[1]) = 4 THEN <<Get(1)>> ELSE <<>>
           e1 == Take(e, L(e))
           f1 == Take(f, L(f))
           g == Take(e1, <<Text>>)
           h == Take(f1, <<Text>>)
           V(x) == <<<<>>, x.got[1]>>
           r == Checked(g, V(g))
           s == Checked(h, V(h))
           v == <<<<>>, <<>>>>
           x0 == Answer(e1, v)
           y0 == Answer(f1, v)
           P(x) == x.got = <<<<0>>>>
<1>1. /\ ParseServerMessage(c) = IF P(e1) THEN x0 ELSE r
      /\ ParseServerMessage(d) = IF P(f1) THEN y0 ELSE s
  BY DEF ParseServerMessage
<1>2. Layout(<<Text>>)
  BY Fits, OneField
<1>3. Follows(c, d, e, f)
  BY ByteLayout, TakeFollows
<1> HIDE DEF e, f
<1>4. Follows(e, f, e1, f1)
  <2>1. Layout(<<>>)
    <3>1. <<>> \in Seq(Fitting)
      OBVIOUS
    <3> QED BY <3>1, LayoutIs
  <2>2. Layout(L(e))
    BY <2>1, ByteLayout
  <2>3. Alike(e, f) => L(e) = L(f)
    BY DEF Alike
  <2> HIDE DEF L
  <2> QED BY <2>2, <2>3, TakeSame
<1> HIDE DEF e1, f1
<1>5. Follows(e1, f1, g, h)
  BY <1>2, TakeFollows
<1> HIDE DEF g, h
<1>6. Alike(e1, f1) /\ ~Lost(g) => V(g) = V(h)
  BY <1>5 DEF Follows, Alike
<1> HIDE DEF V
<1>7. Reads(e1, f1, r, s) /\ Doubts(r)
  BY <1>5, <1>6, CheckedReads
<1>8. v[2] = <<>>
  OBVIOUS
<1> HIDE DEF v
<1>9. Reads(e1, f1, x0, y0) /\ x0.v = v
  <2>1. x0.v = v
    BY DEF Answer
  <2>2. Follows(e1, f1, e1, f1)
    BY FollowsSelf
  <2> QED BY <2>1, <2>2, AnswerReads
<1>10. Alike(e1, f1) => (P(e1) <=> P(f1))
  BY DEF Alike
<1> HIDE DEF r, s, P, x0, y0
<1>11. Follows(c, d, e1, f1)
  BY <1>3, <1>4, FollowsOn
<1>12. Reads(c, d, ParseServerMessage(c), ParseServerMessage(d))
  BY <1>1, <1>7, <1>9, <1>10, <1>11, EitherReads
<1>13. ParseServerMessage(c) = x0 \/ ParseServerMessage(c) = r
  BY <1>1
<1> QED BY <1>7, <1>8, <1>9, <1>12, <1>13 DEF Doubts

LEMMA TradeReads == ASSUME NEW c, NEW d PROVE Reads(c, d, ParseTradeItem(c), ParseTradeItem(d)) /\ Doubts(ParseTradeItem(c))
<1> DEFINE l == <<Get(1), Skip(1)>>
           e == Take(c, l)
           f == Take(d, l)
           R(x) == IF ParseItem(x).ok THEN Answer(ParseItem(x).c, ParseItem(x).v) ELSE ParseItem(x)
           P(x) == IF x.failed THEN Nothing(x) ELSE R(x)
<1>1. ParseTradeItem(c) = P(e) /\ ParseTradeItem(d) = P(f)
  BY DEF ParseTradeItem
<1>2. Layout(l)
  BY Fits, TwoFields
<1>3. Follows(c, d, e, f)
  BY <1>2, TakeFollows
<1> HIDE DEF l, e, f
<1>4. \A x : R(x).c = ParseItem(x).c /\ R(x).v = ParseItem(x).v /\ (R(x).ok <=> ParseItem(x).ok)
  BY DEF Answer
<1>5. Reads(e, f, ParseItem(e), ParseItem(f)) /\ Doubts(ParseItem(e))
  BY ItemReads
<1>6. Doubts(R(e))
  BY <1>4, <1>5 DEF Doubts
<1>7. ParseItem(e).ok = ParseItem(f).ok => R(e).ok = R(f).ok
  BY DEF Answer
<1> HIDE DEF R
<1>8. Reads(e, f, R(e), R(f))
  BY <1>4, <1>5, <1>7 DEF Reads
<1>9. Doubts(P(e))
  BY <1>6, AnswerIs DEF Doubts
<1>10. Reads(c, d, P(e), P(f))
  BY <1>3, <1>8, GuardOn
<1> QED BY <1>1, <1>9, <1>10

(* -- what handlers believe --------------------------------------------------*)
LEMMA KeysWalked == ASSUME NEW c, NEW n \in Nat PROVE Went("key", Walk(c, n, NextKey), c, n)
<1> DEFINE at == Walk(c, n, NextKey)
<1>1. \A x : OneTurn("key", x) = NextKey(x)
  BY DEF OneTurn
<1>2. \E x : x = [k \in 0..n |-> IF k = 0 THEN c ELSE NextKey(x[k - 1])]
  <2>1. PICK x : IsWalk("key", x, c, n)
    BY Walks
  <2>2. x = [k \in 0..n |-> IF k = 0 THEN c ELSE NextKey(x[k - 1])]
    <3> DEFINE F(k) == IF k = 0 THEN c ELSE OneTurn("key", x[k - 1])
               G(k) == IF k = 0 THEN c ELSE NextKey(x[k - 1])
    <3>1. \A k : F(k) = G(k)
      BY <1>1
    <3>2. x = [k \in 0..n |-> F(k)]
      BY <2>1 DEF IsWalk
    <3> HIDE DEF F, G
    <3>3. x = [k \in 0..n |-> G(k)]
      BY <3>1, <3>2
    <3> QED BY <3>3 DEF G
  <2> QED BY <2>2
<1>3. at = [k \in 0..n |-> IF k = 0 THEN c ELSE NextKey(at[k - 1])]
  <2>1. at = CHOOSE x : x = [k \in 0..n |-> IF k = 0 THEN c ELSE NextKey(x[k - 1])]
    BY DEF Walk
  <2> HIDE DEF at
  <2> QED BY <1>2, <2>1
<1> HIDE DEF at
<1>4. IsWalk("key", at, c, n)
  BY <1>1, <1>3 DEF IsWalk
<1> QED BY <1>4, WalkGoes DEF at

LEMMA StillAlike == ASSUME NEW c, NEW d, NEW e, NEW f, Follows(c, d, e, f), Alike(c, d) PROVE Lost(e) \/ Alike(e, f)
BY DEF Follows

LEMMA ToldEither ==
    ASSUME NEW c, NEW d, NEW m, NEW w, NEW k, Alike(c, d), Reads(c, d, m, w), m.ok /\ m.v[2] # <<>> => ~Lost(m.c)
    PROVE  Told(m, k).known = k \/ Told(m, k).known = Told(w, k).known
<1> DEFINE K(v) == [k EXCEPT !.told = v[1] \o v[2]]
<1>1. \A x : Told(x, k).known = IF x.ok /\ x.v[2] # <<>> THEN K(x.v) ELSE k
  BY DEF Told, Now
<1> HIDE DEF K
<1>2. m.ok /\ m.v[2] # <<>> => w.ok /\ w.v = m.v
  BY DEF Reads
<1> QED BY <1>1, <1>2

LEMMA OfferedEither ==
    ASSUME NEW c, NEW d, NEW m, NEW w, NEW k, Alike(c, d), Reads(c, d, m, w), Doubts(m)
    PROVE  Offered(m, k).known = k \/ Offered(m, k).known = Offered(w, k).known
<1> DEFINE K(v) == [k EXCEPT !.offered = Append(@, v)]
<1>1. \A x : Offered(x, k).known = IF x.ok THEN K(x.v) ELSE k
  BY DEF Offered, Now
<1> HIDE DEF K
<1>2. m.ok => w.ok /\ w.v = m.v
  BY DEF Reads, Doubts
<1> QED BY <1>1, <1>2

(* The head of a SET_FIELD: a channel and two modes.                         *)
Preface == <<Get(4), Get(1), Get(1)>>

LEMMA HeadLaid == Layout(Preface)
<1>1. Get(1) \in Fitting /\ Get(4) \in Fitting
  BY FieldsAre
<1>2. Preface \in Seq(Fitting)
  BY <1>1 DEF Preface
<1> QED BY <1>2, LayoutIs

(* A number that is not there is zeros, and one that is there is read.       *)
LEMMA NumberNone ==
    ASSUME NEW c, NEW d, NEW n \in Nat, Lost(c) \/ Alike(c, d), Lost(Number(c, n))
    PROVE  Number(c, n).got = Append(c.got, Zeros(n))
<1>1. DOMAIN c = Parts
  BY DEF Lost, Alike
<1>2. CASE c.failed \/ n > Remaining(c)
  <2>1. Number(c, n) = Keep(Fail(c), Zeros(n))
    BY <1>2 DEF Number
  <2> QED BY <1>1, <2>1 DEF Keep, Fail, Parts
<1>3. CASE ~(c.failed \/ n > Remaining(c))
  <2> DEFINE v == SubSeq(c.bytes, c.pos + 1, c.pos + n)
  <2>1. Number(c, n) = Keep([c EXCEPT !.pos = @ + n], v)
    BY <1>3 DEF Number
  <2> HIDE DEF v
  <2>2. Number(c, n).failed = c.failed
    BY <1>1, <2>1 DEF Keep, Parts
  <2>3. c.failed # TRUE
    BY <1>3
  <2> QED BY <2>2, <2>3 DEF Lost
<1> QED BY <1>2, <1>3

LEMMA NumberThere == ASSUME NEW c, NEW d, NEW n \in Nat, Alike(c, d), n <= Remaining(c) PROVE ~Lost(Number(c, n))
<1>1. DOMAIN c = Parts /\ c.failed = FALSE
  BY DEF Alike
<1>2. ~(n > Remaining(c))
  BY Further
<1> DEFINE v == SubSeq(c.bytes, c.pos + 1, c.pos + n)
<1>3. Number(c, n) = Keep([c EXCEPT !.pos = @ + n], v)
  BY <1>1, <1>2 DEF Number
<1> HIDE DEF v
<1>4. Number(c, n).failed = FALSE
  BY <1>1, <1>3 DEF Keep, Parts
<1> QED BY <1>4 DEF Lost

LEMMA NumberGoes ==
    ASSUME NEW c, NEW n \in Nat, Alike(c, c), n <= Remaining(c)
    PROVE  /\ Alike(Number(c, n), Number(c, n)) /\ Number(c, n).pos = c.pos + n /\ Number(c, n).bytes = c.bytes
           /\ Len(Ahead(c, n)) = n /\ Number(c, n).got = Append(c.got, Ahead(c, n))
BY NumberThere, NumberIs

LEMMA NumberKeeps ==
    ASSUME NEW c, NEW n, DOMAIN c = Parts
    PROVE  DOMAIN Number(c, n) = Parts /\ \E w : Number(c, n).got = Append(c.got, w)
BY DEF Number, Keep, Fail, Parts

LEMMA HeadRead ==
    ASSUME NEW c, NEW d, Alike(c, d)
    PROVE  LET x == Holding(c, <<>>)
               y == Number(x, 4)
               z == Number(y, 1)
           IN Take(c, Preface) = Number(z, 1) /\ Take(c, <<Get(4)>>) = y
<1> DEFINE x == Holding(c, <<>>)
           y == Number(x, 4)
           z == Number(y, 1)
<1>1. Len(Preface) = 3 /\ Preface[1] = Get(4) /\ Preface[2] = Get(1) /\ Preface[3] = Get(1)
  BY DEF Preface
<1>2. Take(c, Preface) = Fields(x, Preface)
  BY DEF Take, Holding
<1>a. Take(c, <<Get(4)>>) = Fields(x, <<Get(4)>>)
  BY DEF Take, Holding
<1>3. ~(Remaining(x) < 0)
  <2>1. Alike(x, Holding(d, <<>>))
    BY HoldingAlike
  <2>2. Remaining(x) \in Nat
    BY <2>1, Left
  <2> QED BY <2>2
<1> HIDE DEF x
<1>4. PICK r : /\ r[0] = x /\ \A k \in 0..Len(Preface) - 1 : r[k + 1] = Field(r[k], Preface[k + 1])
               /\ Fields(x, Preface) = IF Remaining(x) < 0 THEN x ELSE r[Len(Preface)]
  <2>1. Len(Preface) \in Nat
    BY <1>1
  <2> QED BY <2>1, ReadIs
<1>5. r[1] = Field(r[0], Preface[1]) /\ r[2] = Field(r[1], Preface[2]) /\ r[3] = Field(r[2], Preface[3])
  <2>1. \A k \in 0..2 : r[k + 1] = Field(r[k], Preface[k + 1])
    BY <1>1, <1>4
  <2>2. r[0 + 1] = Field(r[0], Preface[0 + 1]) /\ r[1 + 1] = Field(r[1], Preface[1 + 1]) /\ r[2 + 1] = Field(r[2], Preface[2 + 1])
    BY <2>1
  <2> QED BY <2>2
<1>6. \A u, n : Field(u, Get(n)) = Number(u, n)
  BY DEF Field, Get
<1>7. Take(c, Preface) = Number(z, 1)
  BY <1>1, <1>2, <1>3, <1>4, <1>5, <1>6
<1> DEFINE l == <<Get(4)>>
<1>b. Len(l) = 1 /\ l[1] = Get(4)
  OBVIOUS
<1> HIDE DEF l
<1>8. PICK q : /\ q[0] = x /\ \A k \in 0..Len(l) - 1 : q[k + 1] = Field(q[k], l[k + 1])
               /\ Fields(x, l) = IF Remaining(x) < 0 THEN x ELSE q[Len(l)]
  <2>1. Len(l) \in Nat
    BY <1>b
  <2> QED BY <2>1, ReadIs
<1>9. q[1] = Field(q[0], l[1])
  <2>1. \A k \in 0..0 : q[k + 1] = Field(q[k], l[k + 1])
    BY <1>b, <1>8
  <2>2. q[0 + 1] = Field(q[0], l[0 + 1])
    BY <2>1
  <2> QED BY <2>2
<1>10. Take(c, l) = y
  BY <1>a, <1>b, <1>3, <1>6, <1>8, <1>9 DEF l
<1> QED BY <1>7, <1>10 DEF l, x

LEMMA ThirdOf == ASSUME NEW u, NEW v, NEW w PROVE LET s == Append(Append(Append(<<>>, u), v), w) IN s[1] = u /\ s[3] = w
OBVIOUS

LEMMA FirstOf == ASSUME NEW u PROVE Append(<<>>, u)[1] = u
OBVIOUS

(* Cut short in its head, the mode is zero and the channel is told or zero.  *)
LEMMA HeadEither ==
    ASSUME NEW c, NEW d, Alike(c, d)
    PROVE  LET e == Take(c, Preface)
               f == Take(d, Preface)
           IN /\ Alike(e, f) \/ (e.got[3] = Zeros(1) /\ e.got[1] \in {Zeros(4), f.got[1]})
              /\ f.got[1] = Take(d, <<Get(4)>>).got[1]
<1> DEFINE x == Holding(c, <<>>)
           y == Number(x, 4)
           z == Number(y, 1)
           p == Holding(d, <<>>)
           q == Number(p, 4)
           r == Number(q, 1)
           e == Number(z, 1)
           f == Number(r, 1)
<1>1. Take(c, Preface) = e
  BY HeadRead
<1>2. Take(d, Preface) = f /\ Take(d, <<Get(4)>>) = q
  <2>1. Alike(d, d)
    BY DEF Alike, StartOf
  <2> QED BY <2>1, HeadRead
<1>3. Alike(x, p) /\ x.got = <<>> /\ p.got = <<>>
  <2>1. DOMAIN d = Parts
    BY DEF Alike
  <2>2. p.got = <<>>
    BY <2>1 DEF Holding, Parts
  <2> QED BY <2>2, HoldingAlike
<1> HIDE DEF x, p
<1>4. PICK v1 : y.got = Append(<<>>, v1)
  BY <1>3, NumberKeeps DEF Alike
<1>5. PICK w1 : q.got = Append(<<>>, w1)
  BY <1>3, NumberKeeps DEF Alike
<1>6. DOMAIN y = Parts /\ DOMAIN q = Parts
  BY <1>3, NumberKeeps DEF Alike
<1>7. Alike(y, q) \/ (Lost(y) /\ y.got = Append(<<>>, Zeros(4)))
  <2>1. CASE Lost(y)
    <3>1. y.got = Append(x.got, Zeros(4))
      BY <1>3, <2>1, NumberNone
    <3> QED BY <1>3, <2>1, <3>1
  <2>2. CASE ~Lost(y)
    <3>1. 4 \in Nat
      OBVIOUS
    <3>2. Alike(y, q)
      BY <1>3, <2>2, <3>1, NumberIs, Zenon
    <3> QED BY <3>2
  <2> QED BY <2>1, <2>2
<1> HIDE DEF y, q
<1>8. (\E v2 : z.got = Append(y.got, v2)) /\ (\E w2 : r.got = Append(q.got, w2)) /\ DOMAIN z = Parts /\ DOMAIN r = Parts
  BY <1>6, NumberKeeps
<1>9. Alike(z, r) \/ Lost(z)
  BY <1>7, NumberIs, NumberLost
<1> HIDE DEF z, r
<1>10. (\E v3 : e.got = Append(z.got, v3)) /\ (\E w3 : f.got = Append(r.got, w3))
  BY <1>8, NumberKeeps
<1>11. Alike(e, f) \/ e.got = Append(z.got, Zeros(1))
  BY <1>9, NumberIs, NumberNone, NumberLost
<1> HIDE DEF e, f
<1>12. f.got[1] = w1 /\ e.got[1] = v1
  BY <1>4, <1>5, <1>8, <1>10, ThirdOf
<1>13. e.got = Append(z.got, Zeros(1)) => e.got[3] = Zeros(1)
  BY <1>4, <1>8, ThirdOf
<1>14. q.got[1] = w1 /\ y.got[1] = v1
  BY <1>4, <1>5, FirstOf
<1>15. Alike(y, q) \/ y.got[1] = Zeros(4)
  BY <1>7, FirstOf
<1>16. Alike(y, q) => y.got = q.got
  BY DEF Alike
<1>17. Alike(e, f) \/ (e.got[3] = Zeros(1) /\ e.got[1] \in {Zeros(4), f.got[1]})
  BY <1>11, <1>12, <1>13, <1>14, <1>15, <1>16
<1> QED BY <1>1, <1>2, <1>12, <1>14, <1>17

(* The third byte of the head is the sixth of the body.                      *)
LEMMA ModeIs ==
    ASSUME NEW b \in Seq(Byte), Len(b) >= 6, b[6] = 1
    PROVE  Value(Take(Reader(b), Preface), 3) = 1
<1> DEFINE d == Reader(b)
           p == Holding(d, <<>>)
           q == Number(p, 4)
           r == Number(q, 1)
           f == Number(r, 1)
           v == Ahead(r, 1)
<1>1. Alike(d, d) /\ d.bytes = b /\ d.pos = 0
  BY DEF Reader, Alike, StartOf, Parts
<1>2. Take(d, Preface) = f
  BY <1>1, HeadRead
<1> HIDE DEF d
<1>3. Alike(p, p) /\ p.bytes = b /\ p.pos = 0 /\ p.got = <<>>
  BY <1>1, HoldingAlike DEF Same
<1>4. Len(b) \in Nat
  OBVIOUS
<1> HIDE DEF p
<1>5. 4 <= Remaining(p)
  BY <1>3, <1>4 DEF Remaining
<1>6. Alike(q, q) /\ q.pos = 4 /\ q.bytes = b /\ \E w : q.got = Append(<<>>, w)
  <2>1. Alike(q, q) /\ q.pos = p.pos + 4 /\ q.bytes = p.bytes /\ q.got = Append(p.got, Ahead(p, 4))
    BY <1>3, <1>5, NumberGoes
  <2> QED BY <1>3, <2>1
<1> HIDE DEF q
<1>7. 1 <= Remaining(q)
  BY <1>4, <1>6 DEF Remaining
<1>a. 1 \in Nat
  OBVIOUS
<1>8. Alike(r, r) /\ r.pos = q.pos + 1 /\ r.bytes = q.bytes /\ r.got = Append(q.got, Ahead(q, 1))
  BY <1>6, <1>7, <1>a, NumberGoes, Zenon
<1> HIDE DEF r
<1>9. 1 <= Remaining(r) /\ r.pos = 5 /\ r.bytes = b
  BY <1>4, <1>6, <1>8 DEF Remaining
<1>10. f.got = Append(r.got, v) /\ Len(v) = 1
  BY <1>8, <1>9, <1>a, NumberGoes, Zenon
<1>11. v[1] = b[6]
  <2>1. v = SubSeq(b, 6, 6)
    BY <1>9 DEF Ahead
  <2> HIDE DEF v
  <2> QED BY <2>1
<1> HIDE DEF v, f
<1>12. f.got[3] = v
  BY <1>6, <1>8, <1>10, ThirdOf
<1>13. Signed(v) = 1
  BY <1>10, <1>11 DEF Signed, Unsigned
<1> QED BY <1>2, <1>12, <1>13 DEF Value, d

(* A character that cannot be read whole is not read at all, but the map is  *)
(* left, and the channel is the one the body begins with.                    *)
LEMMA LandedEither ==
    ASSUME NEW c, NEW d, NEW k, Alike(c, d), Value(Take(d, Preface), 3) = 1
    PROVE  LET on == [k EXCEPT !.channel = Value(Take(d, <<Get(4)>>), 1) + 1]
           IN Landed(c, k).known \in {[k EXCEPT !.channel = 1], on, Arrived(on), Landed(d, k).known}
<1> DEFINE e == Take(c, Preface)
           f == Take(d, Preface)
           On1(x) == [k EXCEPT !.channel = x + 1]
           here == On1(Value(f, 1))
           r == ParseCharInfo(e)
           s == ParseCharInfo(f)
<1>1. /\ Landed(c, k) = Landing(e, On1(Value(e, 1)))
      /\ Landed(d, k) = Landing(f, here)
  BY DEF Landed, LandedIn, OnChannel, Preface
<1>2. here = [k EXCEPT !.channel = Value(Take(d, <<Get(4)>>), 1) + 1]
  BY HeadEither DEF Value
<1>3. Follows(c, d, e, f)
  BY HeadLaid, TakeFollows
<1>4. Alike(e, f) \/ (e.got[3] = Zeros(1) /\ e.got[1] \in {Zeros(4), f.got[1]})
  BY HeadEither
<1>5. Reads(e, f, r, s) /\ Doubts(r)
  BY CharInfoReads
<1>6. /\ \A x : Value(e, 3) = 1 => Landing(e, x).known = Arrived(Become(r, x))
      /\ \A x : Value(f, 3) = 1 => Landing(f, x).known = Arrived(Become(s, x))
      /\ \A x : Value(e, 3) = 0 => Landing(e, x).known = x
  BY DEF Landing, Transferred, Now
<1> HIDE DEF e, f, r, s
<1>7. CASE Alike(e, f)
  <2>1. Value(e, 3) = 1 /\ Value(e, 1) = Value(f, 1)
    BY <1>7 DEF Alike, Value, f
  <2>2. Landed(c, k).known = Arrived(Become(r, here)) /\ Landed(d, k).known = Arrived(Become(s, here))
    BY <1>1, <1>6, <2>1 DEF f
  <2> HIDE DEF here
  <2>3. CASE ~r.ok
    <3>1. Become(r, here) = here
      BY <2>3 DEF Become
    <3> QED BY <1>2, <2>2, <3>1
  <2>4. CASE r.ok
    <3>1. ~Lost(r.c)
      BY <1>5, <2>4 DEF Doubts
    <3>2. r.ok = s.ok /\ r.v = s.v
      BY <1>5, <1>7, <3>1 DEF Reads
    <3>3. Become(r, here) = Become(s, here)
      BY <3>2, <2>4 DEF Become
    <3> QED BY <2>2, <3>3
  <2> QED BY <2>3, <2>4
<1>8. CASE e.got[3] = Zeros(1) /\ e.got[1] \in {Zeros(4), f.got[1]}
  <2>1. Signed(Zeros(1)) = 0 /\ Signed(Zeros(4)) = 0
    BY DEF Signed, Unsigned, Zeros
  <2>2. Value(e, 3) = 0 /\ Value(e, 1) \in {0, Value(f, 1)}
    BY <1>8, <2>1 DEF Value
  <2>3. Landed(c, k).known = On1(Value(e, 1))
    BY <1>1, <1>6, <2>2
  <2>4. On1(0) = [k EXCEPT !.channel = 1]
    OBVIOUS
  <2>5. On1(Value(e, 1)) \in {On1(0), here}
    BY <2>2
  <2> HIDE DEF On1, here
  <2> QED BY <1>2, <2>3, <2>4, <2>5
<1> QED BY <1>4, <1>7, <1>8

LEMMA GainedEither ==
    ASSUME NEW c, NEW d, NEW k, Alike(c, d)
    PROVE  Gained(c, k).known = k \/ Gained(c, k).known = Gained(d, k).known
<1> DEFINE l == <<Skip(1), Get(1), Get(1), Get(1), Get(2)>>
           e == Take(c, l)
           f == Take(d, l)
           r == ParseItem(e)
           s == ParseItem(f)
           No(h) == Unsigned(h.got[1]) = 0 \/ Unsigned(h.got[2]) # 0
           K(h, v) == IF Value(h, 4) < 0 THEN [k EXCEPT !.worn = Put(@, Value(h, 4), v)]
                      ELSE [k EXCEPT !.bag = Put(@, <<Unsigned(h.got[3]), Value(h, 4)>>, v)]
<1>1. Layout(l)
  <2>1. Get(1) \in Fitting /\ Get(2) \in Fitting /\ Skip(1) \in Fitting
    BY FieldsAre
  <2>2. l \in Seq(Fitting)
    BY <2>1
  <2> QED BY <2>2, LayoutIs
<1>2. /\ Gained(c, k).known = IF No(e) \/ ~r.ok THEN k ELSE K(e, r.v)
      /\ Gained(d, k).known = IF No(f) \/ ~s.ok THEN k ELSE K(f, s.v)
  BY DEF Gained, Now
<1>3. Follows(c, d, e, f)
  BY <1>1, TakeFollows
<1> HIDE DEF l, e, f
<1>4. Reads(e, f, r, s) /\ Doubts(r)
  BY ItemReads
<1> HIDE DEF r, s
<1>5. ASSUME r.ok PROVE Alike(e, f) /\ s.ok /\ r.v = s.v
  <2>1. ~Lost(r.c)
    BY <1>4, <1>5 DEF Doubts
  <2>2. ~Lost(e)
    BY <1>4, <2>1 DEF Reads, Follows
  <2>3. Alike(e, f)
    BY <1>3, <2>2, StillAlike
  <2> QED BY <1>4, <1>5, <2>1, <2>3 DEF Reads
<1>6. Alike(e, f) => (No(e) <=> No(f)) /\ \A v : K(e, v) = K(f, v)
  BY DEF Alike, Value
<1> HIDE DEF No, K
<1> QED BY <1>2, <1>5, <1>6

LEMMA ReactorEither ==
    ASSUME NEW c, NEW d, NEW k, Alike(c, d)
    PROVE  SpawnReactor(c, k).known = k \/ SpawnReactor(c, k).known = SpawnReactor(d, k).known
<1> DEFINE l == <<Get(4), Get(4), Get(1), Get(2), Get(2)>>
           e == Take(c, l)
           f == Take(d, l)
           K(r) == [k EXCEPT !.reactors = Put(@, Value(r, 1), [state |-> Unsigned(r.got[3]), x |-> Value(r, 4), y |-> Value(r, 5)])]
<1>1. Layout(l)
  <2>1. Get(1) \in Fitting /\ Get(2) \in Fitting /\ Get(4) \in Fitting
    BY FieldsAre
  <2>2. l \in Seq(Fitting)
    BY <2>1
  <2> QED BY <2>2, LayoutIs
<1>2. /\ SpawnReactor(c, k).known = IF e.failed THEN k ELSE K(e)
      /\ SpawnReactor(d, k).known = IF f.failed THEN k ELSE K(f)
  BY DEF SpawnReactor, Now
<1>3. Follows(c, d, e, f)
  BY <1>1, TakeFollows
<1> HIDE DEF l, e, f
<1>4. Alike(e, f) => K(e) = K(f) /\ e.failed = FALSE /\ f.failed = FALSE
  BY DEF Alike, Value
<1>5. Lost(e) => e.failed = TRUE
  BY DEF Lost
<1>6. Lost(e) \/ Alike(e, f)
  BY <1>3, StillAlike
<1> HIDE DEF K
<1> QED BY <1>2, <1>4, <1>5, <1>6

LEMMA GoneEither ==
    ASSUME NEW c, NEW d, NEW k, Alike(c, d)
    PROVE  ReactorGone(c, k).known = k \/ ReactorGone(c, k).known = ReactorGone(d, k).known
<1> DEFINE l == <<Get(4)>>
           e == Take(c, l)
           f == Take(d, l)
           K(r) == [k EXCEPT !.reactors = Without(@, Value(r, 1))]
<1>1. Layout(l)
  BY Fits, OneField
<1>2. /\ ReactorGone(c, k).known = IF e.failed THEN k ELSE K(e)
      /\ ReactorGone(d, k).known = IF f.failed THEN k ELSE K(f)
  BY DEF ReactorGone, Now
<1>3. Follows(c, d, e, f)
  BY <1>1, TakeFollows
<1> HIDE DEF l, e, f
<1>4. Alike(e, f) => K(e) = K(f) /\ e.failed = FALSE /\ f.failed = FALSE
  BY DEF Alike, Value
<1>5. Lost(e) => e.failed = TRUE
  BY DEF Lost
<1>6. Lost(e) \/ Alike(e, f)
  BY <1>3, StillAlike
<1> HIDE DEF K
<1> QED BY <1>2, <1>4, <1>5, <1>6

LEMMA KeymapEither ==
    ASSUME NEW c, NEW d, NEW k, Alike(c, d)
    PROVE  Keymap(c, k).known = k \/ Keymap(c, k).known = Keymap(d, k).known
<1> DEFINE e == Take(c, <<Skip(1)>>)
           h == Take(d, <<Skip(1)>>)
           f == Walk(e, Keys, NextKey)
           g == Walk(h, Keys, NextKey)
           K(at) == [k EXCEPT !.keymap = [i \in 1..Keys |-> <<Unsigned(at[i].got[1]), Value(at[i], 2)>>]]
<1>0. Keys \in Nat
  BY ParsersAssumption
<1>1. /\ Keymap(c, k).known = IF f[Keys].failed THEN k ELSE K(f)
      /\ Keymap(d, k).known = IF g[Keys].failed THEN k ELSE K(g)
  BY DEF Keymap, Bound, Now
<1>2. Follows(c, d, e, h)
  BY SkipThen, TakeFollows
<1> HIDE DEF e, h
<1>3. Went("key", f, e, Keys) /\ Went("key", g, h, Keys)
  BY <1>0, KeysWalked
<1> HIDE DEF f, g
<1>4. \A x : OneTurn("key", x) = NextKey(x)
  BY DEF OneTurn
<1>5. \A i \in 0..Keys - 1 : Follows(f[i], g[i], f[i + 1], g[i + 1])
  <2> TAKE i \in 0..Keys - 1
  <2>1. f[i + 1] = NextKey(f[i]) /\ g[i + 1] = NextKey(g[i])
    BY <1>3, <1>4 DEF Went
  <2>2. Layout(<<Get(1), Get(4)>>)
    BY Fits, TwoFields
  <2> QED BY <2>1, <2>2, TakeFollows DEF NextKey
<1>6. f[0] = e /\ g[0] = h
  BY <1>3 DEF Went
<1>7. Keys \in 0..Keys
  BY <1>0
<1>8. Follows(c, d, f[Keys], g[Keys])
  <2>1. Follows(f[0], g[0], f[Keys], g[Keys])
    BY <1>0, <1>5, <1>7, Along
  <2> QED BY <1>2, <1>6, <2>1, FollowsOn
<1>9. ASSUME ~Lost(f[Keys]) PROVE K(f) = K(g) /\ f[Keys].failed = FALSE /\ g[Keys].failed = FALSE
  <2>1. ~Lost(e)
    <3>1. Follows(f[0], g[0], f[Keys], g[Keys])
      BY <1>0, <1>5, <1>7, Along
    <3> QED BY <1>6, <1>9, <3>1 DEF Follows
  <2>2. Alike(f[0], g[0])
    BY <1>2, <1>6, <2>1, StillAlike
  <2>3. \A i \in 0..Keys : Alike(f[i], g[i])
    BY <1>0, <1>5, <1>9, <2>2, AllAlong
  <2>4. \A i \in 1..Keys : f[i].got = g[i].got
    <3> TAKE i \in 1..Keys
    <3>1. i \in 0..Keys
      BY <1>0
    <3> QED BY <2>3, <3>1 DEF Alike
  <2>5. [i \in 1..Keys |-> <<Unsigned(f[i].got[1]), Value(f[i], 2)>>] = [i \in 1..Keys |-> <<Unsigned(g[i].got[1]), Value(g[i], 2)>>]
    BY <2>4 DEF Value
  <2>6. K(f) = K(g)
    BY <2>5
  <2>7. f[Keys].failed = FALSE /\ g[Keys].failed = FALSE
    BY <1>7, <2>3 DEF Alike
  <2> QED BY <2>6, <2>7
<1>10. Lost(f[Keys]) => f[Keys].failed = TRUE
  BY DEF Lost
<1> HIDE DEF K
<1> QED BY <1>1, <1>9, <1>10

LEMMA ShopEither ==
    ASSUME NEW c, NEW d, NEW k, Alike(c, d)
    PROVE  EnterShop(c, k).known = [k EXCEPT !.sale = <<>>] \/ EnterShop(c, k).known = EnterShop(d, k).known
<1> DEFINE K(v) == [k EXCEPT !.sale = v]
           r == ParseCashShop(c)
           s == ParseCashShop(d)
<1>1. \A x : OnSale(x, k).known = K(IF x.ok THEN x.v ELSE <<>>)
  BY DEF OnSale, Now
<1>2. EnterShop(c, k) = OnSale(r, k) /\ EnterShop(d, k) = OnSale(s, k)
  BY DEF EnterShop
<1>3. Reads(c, d, r, s) /\ Doubts(r)
  BY ShopReads
<1> HIDE DEF r, s
<1>4. r.ok => s.ok /\ r.v = s.v
  BY <1>3 DEF Reads, Doubts
<1>5. EnterShop(c, k).known = K(<<>>) \/ EnterShop(c, k).known = EnterShop(d, k).known
  <2>1. CASE r.ok
    <3>1. (IF r.ok THEN r.v ELSE <<>>) = (IF s.ok THEN s.v ELSE <<>>)
      BY <1>4, <2>1
    <3> HIDE DEF K
    <3> QED BY <1>1, <1>2, <3>1
  <2>2. CASE ~r.ok
    <3>1. (IF r.ok THEN r.v ELSE <<>>) = <<>>
      BY <2>2
    <3> HIDE DEF K
    <3> QED BY <1>1, <1>2, <3>1
  <2> QED BY <2>1, <2>2
<1> QED BY <1>5

LEMMA TrainedWalked == ASSUME NEW c, NEW n \in Nat PROVE Went("trained", Walk(c, n, NextTrained), c, n)
<1> DEFINE at == Walk(c, n, NextTrained)
<1>1. \A x : OneTurn("trained", x) = NextTrained(x)
  BY DEF OneTurn
<1>2. \E x : x = [k \in 0..n |-> IF k = 0 THEN c ELSE NextTrained(x[k - 1])]
  <2>1. PICK x : IsWalk("trained", x, c, n)
    BY Walks
  <2>2. x = [k \in 0..n |-> IF k = 0 THEN c ELSE NextTrained(x[k - 1])]
    <3> DEFINE F(k) == IF k = 0 THEN c ELSE OneTurn("trained", x[k - 1])
               G(k) == IF k = 0 THEN c ELSE NextTrained(x[k - 1])
    <3>1. \A k : F(k) = G(k)
      BY <1>1
    <3>2. x = [k \in 0..n |-> F(k)]
      BY <2>1 DEF IsWalk
    <3> HIDE DEF F, G
    <3>3. x = [k \in 0..n |-> G(k)]
      BY <3>1, <3>2
    <3> QED BY <3>3 DEF G
  <2> QED BY <2>2
<1>3. at = [k \in 0..n |-> IF k = 0 THEN c ELSE NextTrained(at[k - 1])]
  <2>1. at = CHOOSE x : x = [k \in 0..n |-> IF k = 0 THEN c ELSE NextTrained(x[k - 1])]
    BY DEF Walk
  <2> HIDE DEF at
  <2> QED BY <1>2, <2>1
<1> HIDE DEF at
<1>4. IsWalk("trained", at, c, n)
  BY <1>1, <1>3 DEF IsWalk
<1> QED BY <1>4, WalkGoes DEF at

(* A loop that goes round at most once, and a bot that knows skills.         *)
Settled(k) ==
    /\ \E S : \E v : k = [x \in S |-> v[x]]
    /\ "skills" \in DOMAIN k /\ \E S : \E v : k.skills = [x \in S |-> v[x]]

LEMMA NoneLearned ==
    ASSUME NEW k, Settled(k), NEW A, NEW B, DOMAIN A = {}
    PROVE  [k EXCEPT !.skills = Merged(Mapped(A, B), @)] = k
<1> DEFINE s == k.skills
           m == Mapped(A, B)
<1>1. DOMAIN m = {}
  BY DEF Mapped
<1> HIDE DEF m
<1>2. Merged(m, s) = s
  <2>1. PICK S, v : s = [x \in S |-> v[x]]
    BY DEF Settled
  <2> HIDE DEF s
  <2>2. Merged(m, s) = [x \in DOMAIN m \cup DOMAIN s |-> IF x \in DOMAIN m THEN m[x] ELSE s[x]]
    BY DEF Merged
  <2>3. DOMAIN m \cup DOMAIN s = DOMAIN s /\ \A x \in DOMAIN s : x \notin DOMAIN m
    BY <1>1
  <2>4. Merged(m, s) = [x \in DOMAIN s |-> s[x]]
    BY <2>2, <2>3
  <2> QED BY <2>1, <2>4
<1>3. [k EXCEPT !.skills = s] = k
  BY DEF Settled
<1> HIDE DEF s
<1>4. [k EXCEPT !.skills = Merged(m, s)] = k
  BY <1>2, <1>3
<1> QED BY <1>4 DEF s, m

LEMMA SkillsEither ==
    ASSUME NEW c, NEW d, NEW k, Settled(k), Alike(c, d), Times(Value(Take(d, <<Get(1), Get(2)>>), 2)) \in 0..1
    PROVE  UpdateSkills(c, k).known = k \/ UpdateSkills(c, k).known = UpdateSkills(d, k).known
<1> DEFINE l == <<Get(1), Get(2)>>
           e == Take(c, l)
           h == Take(d, l)
           n == Times(Value(h, 2))
           Came(at) == {i \in 1..n : ~at[i].failed}
           A(at) == [i \in Came(at) |-> Value(at[i], 1)]
           B(at) == [i \in Came(at) |-> Value(at[i], 2) % 256]
           K(at) == [k EXCEPT !.skills = Merged(Mapped(A(at), B(at)), @)]
           f == Walk(e, n, NextTrained)
           g == Walk(h, n, NextTrained)
           U(x) == Unsigned(x.got[1]) # 1
<1>1. Layout(l)
  BY Fits, TwoFields
<1>2. Follows(c, d, e, h)
  BY <1>1, TakeFollows
<1>3. /\ e.failed => UpdateSkills(c, k).known = k
      /\ U(e) => UpdateSkills(c, k).known = k
      /\ U(h) => UpdateSkills(d, k).known = k
  BY DEF UpdateSkills, Now
<1>4. n \in 0..1
  OBVIOUS
<1>5. ASSUME Alike(e, h), ~U(e) PROVE UpdateSkills(c, k).known = K(f) /\ UpdateSkills(d, k).known = K(g)
  <2>1. e.failed = FALSE /\ h.failed = FALSE /\ U(h) = U(e) /\ Value(e, 2) = Value(h, 2)
    BY <1>5 DEF Alike, Value
  <2>2. UpdateSkills(c, k) = Training(e, n, k) /\ UpdateSkills(d, k) = Training(h, n, k)
    BY <1>5, <2>1 DEF UpdateSkills
  <2> HIDE DEF e, h, n
  <2>3. \A x : Training(x, n, k).known = K(Walk(x, n, NextTrained))
    BY DEF Training, Trained, Now
  <2> HIDE DEF K
  <2> QED BY <2>2, <2>3 DEF f, g
<1> HIDE DEF l, e, h, n, U
<1>6. n \in Nat
  BY <1>4
<1>7. Went("trained", f, e, n) /\ Went("trained", g, h, n)
  BY <1>6, TrainedWalked
<1> HIDE DEF f, g
<1>8. n = 1 => f[1] = NextTrained(e) /\ g[1] = NextTrained(h)
  <2>1. \A x : OneTurn("trained", x) = NextTrained(x)
    BY DEF OneTurn
  <2>2. n = 1 => 0 \in 0..n - 1 /\ 0 + 1 = 1
    OBVIOUS
  <2> QED BY <1>7, <2>1, <2>2 DEF Went
<1>9. Follows(e, h, NextTrained(e), NextTrained(h))
  <2>1. Layout(<<Get(4), Get(4), Get(4), Skip(9)>>)
    <3>1. Get(4) \in Fitting /\ Skip(9) \in Fitting
      BY FieldsAre
    <3>2. <<Get(4), Get(4), Get(4), Skip(9)>> \in Seq(Fitting)
      BY <3>1
    <3> QED BY <3>2, LayoutIs
  <2> QED BY <2>1, TakeFollows DEF NextTrained
<1>10. \A at : Came(at) = {} => K(at) = k
  <2> TAKE at
  <2>1. Came(at) = {} => DOMAIN A(at) = {}
    OBVIOUS
  <2> HIDE DEF Came, A, B
  <2> QED BY <2>1, NoneLearned
<1>11. ASSUME Alike(e, h), Came(f) # {} PROVE K(f) = K(g)
  <2>1. PICK i \in 1..n : ~f[i].failed
    BY <1>11
  <2>2. n = 1 /\ i = 1
    BY <1>4
  <2>3. ~Lost(f[1])
    BY <2>1, <2>2 DEF Lost
  <2>4. Alike(f[1], g[1])
    BY <1>8, <1>9, <1>11, <2>2, <2>3, StillAlike
  <2>5. \A j \in 1..n : f[j].failed = g[j].failed /\ f[j].got = g[j].got
    <3>1. \A j \in 1..n : j = 1
      BY <2>2
    <3> QED BY <2>4, <3>1 DEF Alike
  <2>6. Came(f) = Came(g)
    BY <2>5
  <2> DEFINE C == Came(f)
  <2>7. \A j \in C : j \in 1..n
    OBVIOUS
  <2>8. /\ A(f) = [j \in C |-> Value(f[j], 1)] /\ A(g) = [j \in C |-> Value(g[j], 1)]
        /\ B(f) = [j \in C |-> Value(f[j], 2) % 256] /\ B(g) = [j \in C |-> Value(g[j], 2) % 256]
    BY <2>6
  <2> HIDE DEF C, A, B, Came
  <2>9. A(f) = A(g) /\ B(f) = B(g)
    BY <2>5, <2>7, <2>8 DEF Value
  <2> QED BY <2>9
<1>12. Lost(e) => e.failed
  BY DEF Lost
<1>13. Lost(e) \/ Alike(e, h)
  BY <1>2, StillAlike
<1> HIDE DEF K, Came
<1> QED BY <1>3, <1>5, <1>10, <1>11, <1>12, <1>13

(* -- the dispatcher --------------------------------------------------------*)
Named(k) == [p \in {e \in DOMAIN k.around : k.around[e].mob = 0} |-> k.around[p].name]

LEMMA Dispatched ==
    ASSUME NEW b, NEW k
    PROVE
      /\ Handled("SET_FIELD", b, k) = Landed(Reader(b), k)
      /\ Handled("MODIFY_INVENTORY_ITEM", b, k) = Gained(Reader(b), k)
      /\ Handled("UPDATE_SKILLS", b, k) = UpdateSkills(Reader(b), k)
      /\ Handled("KEYMAP", b, k) = Keymap(Reader(b), k)
      /\ Handled("REACTOR_SPAWN", b, k) = SpawnReactor(Reader(b), k)
      /\ Handled("REACTOR_DESTROY", b, k) = ReactorGone(Reader(b), k)
      /\ Handled("SET_CASH_SHOP", b, k) = EnterShop(Reader(b), k)
      /\ Handled("MULTICHAT", b, k) = Told(ParseMultiChat(Reader(b)), k)
      /\ Handled("WHISPER", b, k) = Told(ParseWhisper(Reader(b)), k)
      /\ Handled("CHATTEXT", b, k) = Told(ParseChatText(Reader(b), Named(k)), k)
      /\ Handled("SET_WEEK_EVENT_MESSAGE", b, k) = Told(ParseYellow(Reader(b)), k)
      /\ Handled("SERVERMESSAGE", b, k) = Told(ParseServerMessage(Reader(b)), k)
      /\ Handled("TRADE_ITEM_ADD", b, k) = Offered(ParseTradeItem(Reader(b)), k)
<1>1. Handled("SET_FIELD", b, k) = Landed(Reader(b), k)
  BY DEF Handled
<1>2. Handled("MODIFY_INVENTORY_ITEM", b, k) = Gained(Reader(b), k)
  BY DEF Handled
<1>3. Handled("UPDATE_SKILLS", b, k) = UpdateSkills(Reader(b), k)
  BY DEF Handled
<1>4. Handled("KEYMAP", b, k) = Keymap(Reader(b), k)
  BY DEF Handled
<1>5. Handled("REACTOR_SPAWN", b, k) = SpawnReactor(Reader(b), k)
  BY DEF Handled
<1>6. Handled("REACTOR_DESTROY", b, k) = ReactorGone(Reader(b), k)
  BY DEF Handled
<1>7. Handled("SET_CASH_SHOP", b, k) = EnterShop(Reader(b), k)
  BY DEF Handled
<1>8. Handled("MULTICHAT", b, k) = Told(ParseMultiChat(Reader(b)), k)
  BY DEF Handled
<1>9. Handled("WHISPER", b, k) = Told(ParseWhisper(Reader(b)), k)
  BY DEF Handled
<1>10. Handled("CHATTEXT", b, k) = Told(ParseChatText(Reader(b), Named(k)), k)
  BY DEF Handled, Named
<1>11. Handled("SET_WEEK_EVENT_MESSAGE", b, k) = Told(ParseYellow(Reader(b)), k)
  BY DEF Handled
<1>12. Handled("SERVERMESSAGE", b, k) = Told(ParseServerMessage(Reader(b)), k)
  BY DEF Handled
<1>13. Handled("TRADE_ITEM_ADD", b, k) = Offered(ParseTradeItem(Reader(b)), k)
  BY DEF Handled
<1> QED BY <1>1, <1>2, <1>3, <1>4, <1>5, <1>6, <1>7, <1>8, <1>9, <1>10, <1>11, <1>12, <1>13

LEMMA ReadersAlike ==
    ASSUME NEW b \in Seq(Byte), NEW n \in 0..Len(b) PROVE Alike(Reader(SubSeq(b, 1, n)), Reader(b))
<1> DEFINE a == SubSeq(b, 1, n)
<1>1. a \in Seq(Byte) /\ Len(a) = n /\ \A i \in 1..n : a[i] = b[i]
  OBVIOUS
<1>2. n <= Len(b) /\ Len(b) \in Nat /\ n \in Nat
  OBVIOUS
<1> HIDE DEF a
<1>3. StartOf(a, b)
  BY <1>1, <1>2 DEF StartOf
<1>4. \A x : /\ DOMAIN Reader(x) = Parts /\ Reader(x).bytes = x /\ Reader(x).failed = FALSE
             /\ Reader(x).got = <<>> /\ Reader(x).pos = 0
  BY DEF Reader, Parts
<1>5. 0 \in 0..Len(a)
  BY <1>1, <1>2
<1> QED BY <1>3, <1>4, <1>5 DEF Alike, a

(* Of a body of any of these, whatever is in it, and wherever it ends.       *)
Doubted == {"MODIFY_INVENTORY_ITEM", "KEYMAP", "REACTOR_SPAWN", "REACTOR_DESTROY",
            "MULTICHAT", "WHISPER", "CHATTEXT", "SET_WEEK_EVENT_MESSAGE", "SERVERMESSAGE", "TRADE_ITEM_ADD"}

LEMMA CutIsDoubted ==
    ASSUME NEW b \in Seq(Byte), NEW n \in 0..Len(b), NEW k, NEW op \in Doubted
    PROVE  \/ Handled(op, SubSeq(b, 1, n), k).known = k
           \/ Handled(op, SubSeq(b, 1, n), k).known = Handled(op, b, k).known
<1> DEFINE a == SubSeq(b, 1, n)
           c == Reader(a)
           d == Reader(b)
<1>1. Alike(c, d)
  BY ReadersAlike
<1> HIDE DEF a
<1>3. CASE op = "MODIFY_INVENTORY_ITEM"
  <2>1. Handled(op, a, k) = Gained(c, k) /\ Handled(op, b, k) = Gained(d, k)
    BY <1>3, Dispatched
  <2> HIDE DEF c, d
  <2> QED BY <1>1, <2>1, GainedEither DEF a
<1>4. CASE op = "KEYMAP"
  <2>1. Handled(op, a, k) = Keymap(c, k) /\ Handled(op, b, k) = Keymap(d, k)
    BY <1>4, Dispatched
  <2> HIDE DEF c, d
  <2> QED BY <1>1, <2>1, KeymapEither DEF a
<1>5. CASE op = "REACTOR_SPAWN"
  <2>1. Handled(op, a, k) = SpawnReactor(c, k) /\ Handled(op, b, k) = SpawnReactor(d, k)
    BY <1>5, Dispatched
  <2> HIDE DEF c, d
  <2> QED BY <1>1, <2>1, ReactorEither DEF a
<1>6. CASE op = "REACTOR_DESTROY"
  <2>1. Handled(op, a, k) = ReactorGone(c, k) /\ Handled(op, b, k) = ReactorGone(d, k)
    BY <1>6, Dispatched
  <2> HIDE DEF c, d
  <2> QED BY <1>1, <2>1, GoneEither DEF a
<1>7. CASE op = "MULTICHAT"
  <2>1. Handled(op, a, k) = Told(ParseMultiChat(c), k) /\ Handled(op, b, k) = Told(ParseMultiChat(d), k)
    BY <1>7, Dispatched
  <2> HIDE DEF c, d
  <2> DEFINE m == ParseMultiChat(c)
             w == ParseMultiChat(d)
  <2>2. Reads(c, d, m, w) /\ (m.ok /\ m.v[2] # <<>> => ~Lost(m.c))
    BY PartyReads DEF Doubts
  <2> HIDE DEF m, w
  <2> QED BY <1>1, <2>1, <2>2, ToldEither DEF m, w, a
<1>8. CASE op = "WHISPER"
  <2>1. Handled(op, a, k) = Told(ParseWhisper(c), k) /\ Handled(op, b, k) = Told(ParseWhisper(d), k)
    BY <1>8, Dispatched
  <2> HIDE DEF c, d
  <2> DEFINE m == ParseWhisper(c)
             w == ParseWhisper(d)
  <2>2. Reads(c, d, m, w) /\ (m.ok /\ m.v[2] # <<>> => ~Lost(m.c))
    BY WhisperReads DEF Doubts
  <2> HIDE DEF m, w
  <2> QED BY <1>1, <2>1, <2>2, ToldEither DEF m, w, a
<1>9. CASE op = "CHATTEXT"
  <2>1. Handled(op, a, k) = Told(ParseChatText(c, Named(k)), k) /\ Handled(op, b, k) = Told(ParseChatText(d, Named(k)), k)
    BY <1>9, Dispatched
  <2> HIDE DEF c, d
  <2> DEFINE m == ParseChatText(c, Named(k))
             w == ParseChatText(d, Named(k))
  <2>2. Reads(c, d, m, w) /\ (m.ok /\ m.v[2] # <<>> => ~Lost(m.c))
    BY ChatReads DEF Doubts
  <2> HIDE DEF m, w
  <2> QED BY <1>1, <2>1, <2>2, ToldEither DEF m, w, a
<1>10. CASE op = "SET_WEEK_EVENT_MESSAGE"
  <2>1. Handled(op, a, k) = Told(ParseYellow(c), k) /\ Handled(op, b, k) = Told(ParseYellow(d), k)
    BY <1>10, Dispatched
  <2> HIDE DEF c, d
  <2> DEFINE m == ParseYellow(c)
             w == ParseYellow(d)
  <2>2. Reads(c, d, m, w) /\ (m.ok /\ m.v[2] # <<>> => ~Lost(m.c))
    BY YellowReads DEF Doubts
  <2> HIDE DEF m, w
  <2> QED BY <1>1, <2>1, <2>2, ToldEither DEF m, w, a
<1>11. CASE op = "SERVERMESSAGE"
  <2>1. Handled(op, a, k) = Told(ParseServerMessage(c), k) /\ Handled(op, b, k) = Told(ParseServerMessage(d), k)
    BY <1>11, Dispatched
  <2> HIDE DEF c, d
  <2> DEFINE m == ParseServerMessage(c)
             w == ParseServerMessage(d)
  <2>2. Reads(c, d, m, w) /\ (m.ok /\ m.v[2] # <<>> => ~Lost(m.c))
    BY NoticeReads
  <2> HIDE DEF m, w
  <2> QED BY <1>1, <2>1, <2>2, ToldEither DEF m, w, a
<1>12. CASE op = "TRADE_ITEM_ADD"
  <2>1. Handled(op, a, k) = Offered(ParseTradeItem(c), k) /\ Handled(op, b, k) = Offered(ParseTradeItem(d), k)
    BY <1>12, Dispatched
  <2> HIDE DEF c, d
  <2> DEFINE m == ParseTradeItem(c)
             w == ParseTradeItem(d)
  <2>2. Reads(c, d, m, w) /\ (Doubts(m))
    BY TradeReads
  <2> HIDE DEF m, w
  <2> QED BY <1>1, <2>1, <2>2, OfferedEither DEF m, w, a
<1> QED BY <1>3, <1>4, <1>5, <1>6, <1>7, <1>8, <1>9, <1>10, <1>11, <1>12 DEF Doubted, a

LEMMA CutShop ==
    ASSUME NEW b \in Seq(Byte), NEW n \in 0..Len(b), NEW k
    PROVE  \/ Handled("SET_CASH_SHOP", SubSeq(b, 1, n), k).known = [k EXCEPT !.sale = <<>>]
           \/ Handled("SET_CASH_SHOP", SubSeq(b, 1, n), k).known = Handled("SET_CASH_SHOP", b, k).known
<1>1. Alike(Reader(SubSeq(b, 1, n)), Reader(b))
  BY ReadersAlike
<1> QED BY <1>1, Dispatched, ShopEither

LEMMA CutLanding ==
    ASSUME NEW b \in Seq(Byte), NEW n \in 0..Len(b), NEW k, Value(Take(Reader(b), Preface), 3) = 1
    PROVE  LET on == [k EXCEPT !.channel = Value(Take(Reader(b), <<Get(4)>>), 1) + 1]
           IN Handled("SET_FIELD", SubSeq(b, 1, n), k).known
                \in {[k EXCEPT !.channel = 1], on, Arrived(on), Handled("SET_FIELD", b, k).known}
<1>1. Alike(Reader(SubSeq(b, 1, n)), Reader(b))
  BY ReadersAlike
<1> QED BY <1>1, Dispatched, LandedEither

LEMMA CutSkills ==
    ASSUME NEW b \in Seq(Byte), NEW n \in 0..Len(b), NEW k, Settled(k),
           Times(Value(Take(Reader(b), <<Get(1), Get(2)>>), 2)) \in 0..1
    PROVE  \/ Handled("UPDATE_SKILLS", SubSeq(b, 1, n), k).known = k
           \/ Handled("UPDATE_SKILLS", SubSeq(b, 1, n), k).known = Handled("UPDATE_SKILLS", b, k).known
<1>1. Alike(Reader(SubSeq(b, 1, n)), Reader(b))
  BY ReadersAlike
<1> QED BY <1>1, Dispatched, SkillsEither

(* -- the bodies a server sends ----------------------------------------------*)
LEMMA Octal == ASSUME NEW v \in Int PROVE /\ v % 256 \in Byte /\ (v \div 256) % 256 \in Byte
                                          /\ (v \div 65536) % 256 \in Byte /\ (v \div 16777216) % 256 \in Byte
<1>1. \A x \in Int : x % 256 \in Byte
  BY DEF Byte
<1>2. v \div 256 \in Int /\ v \div 65536 \in Int /\ v \div 16777216 \in Int
  OBVIOUS
<1> QED BY <1>1, <1>2

LEMMA WordsAre == ASSUME NEW v \in Int PROVE U8(v) \in Seq(Byte) /\ I16(v) \in Seq(Byte) /\ I32(v) \in Seq(Byte)
<1> DEFINE a == v % 256
           b == (v \div 256) % 256
           c == (v \div 65536) % 256
           d == (v \div 16777216) % 256
<1>1. a \in Byte /\ b \in Byte /\ c \in Byte /\ d \in Byte
  BY Octal
<1>2. U8(v) = <<a>> /\ I16(v) = <<a, b>> /\ I32(v) = <<a, b, c, d>>
  BY DEF U8, I16, I32
<1> HIDE DEF a, b, c, d
<1> QED BY <1>1, <1>2

LEMMA RowIs == ASSUME NEW n \in Nat, NEW f \in [1..n -> Byte] PROVE f \in Seq(Byte)
OBVIOUS

LEMMA ZerosAre == ASSUME NEW n \in Nat PROVE Zeros(n) \in Seq(Byte)
<1>1. Zeros(n) \in [1..n -> Byte]
  BY DEF Zeros, Byte
<1> QED BY <1>1, RowIs

LEMMA JoinAre == ASSUME NEW a \in Seq(Byte), NEW b \in Seq(Byte) PROVE a \o b \in Seq(Byte)
OBVIOUS

LEMMA Join3 ==
    ASSUME NEW a \in Seq(Byte), NEW b \in Seq(Byte), NEW c \in Seq(Byte) PROVE a \o b \o c \in Seq(Byte)
OBVIOUS
LEMMA Join4 ==
    ASSUME NEW a \in Seq(Byte), NEW b \in Seq(Byte), NEW c \in Seq(Byte), NEW d \in Seq(Byte)
    PROVE  a \o b \o c \o d \in Seq(Byte)
OBVIOUS
LEMMA Join5 ==
    ASSUME NEW a \in Seq(Byte), NEW b \in Seq(Byte), NEW c \in Seq(Byte), NEW d \in Seq(Byte), NEW e \in Seq(Byte)
    PROVE  a \o b \o c \o d \o e \in Seq(Byte)
<1>1. a \o b \o c \o d \in Seq(Byte)
  BY Join4
<1> QED BY <1>1, JoinAre, Zenon

LEMMA StrIs == ASSUME NEW t \in Seq(Byte) PROVE Str(t) \in Seq(Byte)
<1>1. I16(Len(t)) \in Seq(Byte)
  <2>1. Len(t) \in Int
    OBVIOUS
  <2> QED BY <2>1, WordsAre
<1> QED BY <1>1, JoinAre DEF Str

LEMMA PointIs == ASSUME NEW x \in Int, NEW y \in Int PROVE Point(x, y) \in Seq(Byte)
BY WordsAre, JoinAre DEF Point

LEMMA LettersAre == /\ \A b \in Byte : <<b>> \in Seq(Byte) /\ Str(<<b>>) \in Seq(Byte)
                    /\ \A b, c \in Byte : <<b, c>> \in Seq(Byte) /\ Str(<<b, c>>) \in Seq(Byte)
                    /\ <<>> \in Seq(Byte) /\ Str(<<>>) \in Seq(Byte)
<1>1. \A b \in Byte : <<b>> \in Seq(Byte)
  OBVIOUS
<1>2. \A b, c \in Byte : <<b, c>> \in Seq(Byte)
  OBVIOUS
<1>3. <<>> \in Seq(Byte)
  OBVIOUS
<1> QED BY <1>1, <1>2, <1>3, StrIs

LEMMA UidIs == Uid \in Seq(Byte)
<1>1. Uid \in [1..8 -> Byte]
  BY DEF Uid, Byte
<1>2. 8 \in Nat
  OBVIOUS
<1> QED BY <1>1, <1>2, RowIs

LEMMA IdsAre == ASSUME NEW id \in Int, NEW up \in Int PROVE U8(1) \in Seq(Byte) /\ I32(id) \in Seq(Byte) /\ U8(up) \in Seq(Byte)
BY WordsAre

LEMMA OwnIs == ASSUME NEW uid \in Seq(Byte) PROVE UidBytes(uid) \in Seq(Byte)
<1>1. U8(0) \in Seq(Byte) /\ U8(1) \in Seq(Byte)
  BY WordsAre
<1>2. U8(1) \o uid \in Seq(Byte)
  BY <1>1, JoinAre
<1> QED BY <1>1, <1>2 DEF UidBytes

LEMMA NoneIs == ASSUME NEW uid PROVE SerialBytes(uid) \in Seq(Byte)
<1>1. Zeros(8) \in Seq(Byte) /\ <<>> \in Seq(Byte)
  BY ZerosAre, LettersAre
<1> QED BY <1>1 DEF SerialBytes

LEMMA EquipIs == ASSUME NEW id \in Int, NEW uid \in Seq(Byte), NEW up \in Int PROVE EquipBytes(id, uid, up) \in Seq(Byte)
<1> DEFINE x1 == U8(1)
           x2 == I32(id)
           x3 == UidBytes(uid)
           x4 == Zeros(8)
           x5 == U8(up)
           x6 == Zeros(31)
           x7 == Str(<<65>>)
           x8 == Zeros(12)
           x9 == SerialBytes(uid)
           y1 == x1 \o x2 \o x3 \o x4
           y2 == y1 \o x5 \o x6 \o x7
           y3 == y2 \o x8 \o x9 \o x8
<1>1. x1 \in Seq(Byte) /\ x2 \in Seq(Byte) /\ x5 \in Seq(Byte)
  BY IdsAre, Zenon
<1>2. x3 \in Seq(Byte)
  BY OwnIs
<1>3. x4 \in Seq(Byte) /\ x6 \in Seq(Byte) /\ x8 \in Seq(Byte)
  BY ZerosAre
<1>4. x7 \in Seq(Byte)
  <2>1. 65 \in Byte
    BY DEF Byte
  <2> QED BY <2>1, LettersAre
<1>5. x9 \in Seq(Byte)
  BY NoneIs
<1>6. EquipBytes(id, uid, up) = y3
  BY DEF EquipBytes
<1> HIDE DEF x1, x2, x3, x4, x5, x6, x7, x8, x9, y1, y2, y3
<1>7. y1 \in Seq(Byte)
  BY <1>1, <1>2, <1>3, <1>4, <1>5, Join4 DEF y1
<1>8. y2 \in Seq(Byte)
  BY <1>1, <1>2, <1>3, <1>4, <1>5, <1>7, Join4 DEF y2
<1>9. y3 \in Seq(Byte)
  BY <1>1, <1>2, <1>3, <1>4, <1>5, <1>8, Join4 DEF y3
<1> QED BY <1>6, <1>9

LEMMA RechargeIs ==
    ASSUME NEW id PROVE ChargeBytes(id) \in Seq(Byte)
<1>1. [i \in 1..8 |-> 9] \in [1..8 -> Byte] /\ 8 \in Nat
  BY DEF Byte
<1>2. [i \in 1..8 |-> 9] \in Seq(Byte)
  BY <1>1, RowIs
<1>3. <<>> \in Seq(Byte)
  BY LettersAre
<1> QED BY <1>2, <1>3 DEF ChargeBytes

LEMMA StackIs == ASSUME NEW id \in Int, NEW qty \in Int PROVE StackBytes(id, qty) \in Seq(Byte)
<1> DEFINE x1 == U8(2)
           x2 == I32(id)
           x3 == U8(0)
           x4 == Zeros(8)
           x5 == I16(qty)
           x6 == Str(<<>>)
           x7 == Zeros(2)
           x8 == ChargeBytes(id)
           y1 == x1 \o x2 \o x3 \o x4
           y2 == y1 \o x5 \o x6 \o x7
           y3 == y2 \o x8
<1>1. x1 \in Seq(Byte) /\ x2 \in Seq(Byte) /\ x3 \in Seq(Byte) /\ x5 \in Seq(Byte)
  BY WordsAre
<1>2. x4 \in Seq(Byte) /\ x7 \in Seq(Byte)
  BY ZerosAre
<1>3. x6 \in Seq(Byte)
  BY LettersAre
<1>4. x8 \in Seq(Byte)
  BY RechargeIs
<1>5. StackBytes(id, qty) = y3
  BY DEF StackBytes
<1> HIDE DEF x1, x2, x3, x4, x5, x6, x7, x8, y1, y2, y3
<1>6. y1 \in Seq(Byte)
  BY <1>1, <1>2, <1>3, <1>4, Join4 DEF y1
<1>7. y2 \in Seq(Byte)
  BY <1>1, <1>2, <1>3, <1>4, <1>6, Join4 DEF y2
<1>8. y3 \in Seq(Byte)
  BY <1>1, <1>2, <1>3, <1>4, <1>7, JoinAre DEF y3
<1> QED BY <1>5, <1>8

LEMMA ThreesAre == [i \in 1..35 |-> 3] \in Seq(Byte)
<1>1. [i \in 1..35 |-> 3] \in [1..35 -> Byte] /\ 35 \in Nat
  BY DEF Byte
<1> QED BY <1>1, RowIs

LEMMA PetIs == ASSUME NEW id \in Int PROVE PetBytes(id) \in Seq(Byte)
<1> DEFINE x1 == U8(3)
           x2 == I32(id)
           x3 == U8(1)
           x4 == Zeros(8)
           x5 == [i \in 1..35 |-> 3]
           y1 == x1 \o x2 \o x3 \o Uid
           y2 == y1 \o x4 \o x5
<1>1. x1 \in Seq(Byte) /\ x2 \in Seq(Byte) /\ x3 \in Seq(Byte)
  BY WordsAre
<1>2. x4 \in Seq(Byte)
  BY ZerosAre
<1>3. x5 \in Seq(Byte)
  BY ThreesAre
<1>4. PetBytes(id) = y2
  BY DEF PetBytes
<1> HIDE DEF x1, x2, x3, x4, x5, y1, y2
<1>5. y1 \in Seq(Byte)
  BY <1>1, <1>2, <1>3, UidIs, Join4 DEF y1
<1>6. y2 \in Seq(Byte)
  BY <1>1, <1>2, <1>3, UidIs, <1>5, Join3 DEF y2
<1> QED BY <1>4, <1>6

LEMMA GearIs == SwordBytes \in Seq(Byte) /\ CloakBytes \in Seq(Byte)
<1>1. SwordBytes \in Seq(Byte)
  <2>1. Zeros(8) \in Seq(Byte)
    BY ZerosAre
  <2> QED BY <2>1, EquipIs DEF SwordBytes
<1>2. CloakBytes \in Seq(Byte)
  BY UidIs, EquipIs DEF CloakBytes
<1> QED BY <1>1, <1>2

LEMMA PaddedIs == NamePadded \in Seq(Byte)
<1> DEFINE a == <<66, 67>>
           b == Zeros(11)
<1>1. a \in Seq(Byte)
  <2>1. 66 \in Byte /\ 67 \in Byte
    BY DEF Byte
  <2> QED BY <2>1, LettersAre
<1>2. b \in Seq(Byte)
  BY ZerosAre
<1>3. NamePadded = a \o b
  BY DEF NamePadded, Name
<1> HIDE DEF a, b
<1> QED BY <1>1, <1>2, <1>3, JoinAre

LEMMA SkillsAre == SkillBytes \in Seq(Byte)
<1> DEFINE x1 == I16(3)
           x2 == I32(1001005)
           x3 == I32(5)
           x4 == I32(1121000)
           x5 == I32(2)
           x6 == I32(30)
           x7 == I32(1300000)
           x8 == I32(0)
           y1 == x1 \o x2 \o x3 \o x4
           y2 == y1 \o x5 \o x6 \o x7
           y3 == y2 \o x8
<1>1. x1 \in Seq(Byte) /\ x2 \in Seq(Byte) /\ x3 \in Seq(Byte) /\ x4 \in Seq(Byte) /\ x5 \in Seq(Byte) /\ x6 \in Seq(Byte)
  BY WordsAre
<1>2. x7 \in Seq(Byte) /\ x8 \in Seq(Byte)
  BY WordsAre
<1>3. SkillBytes = y3
  BY DEF SkillBytes
<1> HIDE DEF x1, x2, x3, x4, x5, x6, x7, x8, y1, y2, y3
<1>4. y1 \in Seq(Byte)
  BY <1>1, <1>2, Join4 DEF y1
<1>5. y2 \in Seq(Byte)
  BY <1>1, <1>2, <1>4, Join4 DEF y2
<1>6. y3 \in Seq(Byte)
  BY <1>1, <1>2, <1>5, JoinAre DEF y3
<1> QED BY <1>3, <1>6

LEMMA BlessIs == Blessed \in Seq(Byte) /\ Unblessed \in Seq(Byte)
<1>1. U8(0) \in Seq(Byte) /\ U8(1) \in Seq(Byte)
  BY WordsAre
<1>2. Str(<<88>>) \in Seq(Byte)
  <2>1. 88 \in Byte
    BY DEF Byte
  <2> QED BY <2>1, LettersAre
<1> QED BY <1>1, <1>2, JoinAre DEF Blessed, Unblessed

LEMMA LevelIs == U8(20) \in Seq(Byte) /\ I32(123456) \in Seq(Byte)
BY WordsAre

LEMMA MeIs == I32(Me) \in Seq(Byte)
BY HandlersAssumption, WordsAre

LEMMA BagsAre == /\ StackBytes(2070000, 500) \in Seq(Byte) /\ StackBytes(2000003, 30) \in Seq(Byte)
                 /\ PetBytes(5000001) \in Seq(Byte)
<1>1. StackBytes(2070000, 500) \in Seq(Byte)
  BY StackIs, SMT
<1>2. StackBytes(2000003, 30) \in Seq(Byte)
  BY StackIs, SMT
<1>3. PetBytes(5000001) \in Seq(Byte)
  BY PetIs, SMT
<1> QED BY <1>1, <1>2, <1>3, SMT

LEMMA AbilitiesAre == AbilityBytes \in Seq(Byte)
<1>1. I16(11) \in Seq(Byte) /\ I16(12) \in Seq(Byte) /\ I16(13) \in Seq(Byte) /\ I16(14) \in Seq(Byte)
  BY WordsAre
<1> QED BY <1>1, Join4 DEF AbilityBytes

LEMMA StatsAre == ASSUME NEW hp \in Int PROVE StatBytes(hp) \in Seq(Byte)
<1> DEFINE x1 == U8(30)
           x2 == I16(112)
           x3 == AbilityBytes
           x4 == I16(hp)
           x5 == I16(400)
           x6 == I16(55)
           x7 == I16(66)
           x8 == I16(2)
           x9 == I16(3)
           x10 == I32(70000)
           x11 == Zeros(19)
           y1 == x1 \o x2 \o x3 \o x4
           y2 == y1 \o x5 \o x6 \o x7
           y3 == y2 \o x8 \o x9 \o x10
           y4 == y3 \o x11
<1>1. x1 \in Seq(Byte) /\ x2 \in Seq(Byte) /\ x4 \in Seq(Byte) /\ x5 \in Seq(Byte)
  BY WordsAre
<1>2. x6 \in Seq(Byte) /\ x7 \in Seq(Byte) /\ x8 \in Seq(Byte) /\ x9 \in Seq(Byte) /\ x10 \in Seq(Byte)
  BY WordsAre
<1>3. x3 \in Seq(Byte) /\ x11 \in Seq(Byte)
  BY AbilitiesAre, ZerosAre
<1>4. StatBytes(hp) = y4
  BY DEF StatBytes
<1> HIDE DEF x1, x2, x3, x4, x5, x6, x7, x8, x9, x10, x11, y1, y2, y3, y4
<1>5. y1 \in Seq(Byte)
  BY <1>1, <1>3, Join4 DEF y1
<1>6. y2 \in Seq(Byte)
  BY <1>1, <1>2, <1>5, Join4 DEF y2
<1>7. y3 \in Seq(Byte)
  BY <1>2, <1>6, Join4 DEF y3
<1>8. y4 \in Seq(Byte)
  BY <1>3, <1>7, JoinAre DEF y4
<1> QED BY <1>4, <1>8

LEMMA WornAre == WornBytes \in Seq(Byte)
<1> DEFINE x1 == U8(11)
           x2 == U8(0)
           x3 == U8(1)
           x4 == U8(100)
           y1 == x1 \o SwordBytes \o x2 \o x3
           y2 == y1 \o CloakBytes \o x4 \o CloakBytes
           y3 == y2 \o x2
<1>1. x1 \in Seq(Byte) /\ x2 \in Seq(Byte) /\ x3 \in Seq(Byte) /\ x4 \in Seq(Byte)
  BY WordsAre
<1>2. WornBytes = y3
  BY DEF WornBytes
<1> HIDE DEF x1, x2, x3, x4, y1, y2, y3
<1>3. y1 \in Seq(Byte)
  BY <1>1, GearIs, Join4 DEF y1
<1>4. y2 \in Seq(Byte)
  BY <1>1, GearIs, <1>3, Join4 DEF y2
<1>5. y3 \in Seq(Byte)
  BY <1>1, GearIs, <1>4, JoinAre DEF y3
<1> QED BY <1>2, <1>5

LEMMA TabsAre == BagBytes \in Seq(Byte)
<1> DEFINE x1 == U8(4)
           x2 == U8(0)
           x3 == U8(1)
           x4 == StackBytes(2070000, 500)
           x5 == U8(2)
           x6 == StackBytes(2000003, 30)
           x7 == Zeros(2)
           x8 == PetBytes(5000001)
           y1 == x1 \o SwordBytes \o x2 \o x3
           y2 == y1 \o x4 \o x5 \o x6
           y3 == y2 \o x2 \o x7 \o x3
           y4 == y3 \o x8 \o x2
<1>1. x1 \in Seq(Byte) /\ x2 \in Seq(Byte) /\ x3 \in Seq(Byte) /\ x5 \in Seq(Byte)
  BY WordsAre
<1>2. x4 \in Seq(Byte) /\ x6 \in Seq(Byte) /\ x8 \in Seq(Byte)
  BY BagsAre
<1>3. x7 \in Seq(Byte)
  BY ZerosAre
<1>4. BagBytes = y4
  BY DEF BagBytes
<1> HIDE DEF x1, x2, x3, x4, x5, x6, x7, x8, y1, y2, y3, y4
<1>5. y1 \in Seq(Byte)
  BY <1>1, <1>2, <1>3, GearIs, Join4 DEF y1
<1>6. y2 \in Seq(Byte)
  BY <1>1, <1>2, <1>3, GearIs, <1>5, Join4 DEF y2
<1>7. y3 \in Seq(Byte)
  BY <1>1, <1>2, <1>3, GearIs, <1>6, Join4 DEF y3
<1>8. y4 \in Seq(Byte)
  BY <1>1, <1>2, <1>3, GearIs, <1>7, Join3 DEF y4
<1> QED BY <1>4, <1>8

LEMMA CharacterIs == ASSUME NEW hp \in Int, NEW bless \in Seq(Byte) PROVE BodyBytes(hp, bless) \in Seq(Byte)
<1> DEFINE x1 == I32(Me)
           x2 == Zeros(34)
           x3 == StatBytes(hp)
           x4 == U8(20)
           x5 == I32(123456)
           x6 == Zeros(25)
           y1 == x1 \o NamePadded \o x2 \o x3
           y2 == y1 \o x4 \o bless \o x5
           y3 == y2 \o x6 \o WornBytes \o BagBytes
<1>1. x1 \in Seq(Byte)
  BY MeIs
<1>2. x2 \in Seq(Byte) /\ x6 \in Seq(Byte)
  BY ZerosAre
<1>3. x3 \in Seq(Byte)
  BY StatsAre
<1>4. x4 \in Seq(Byte) /\ x5 \in Seq(Byte)
  BY LevelIs
<1>5. BodyBytes(hp, bless) = y3
  BY DEF BodyBytes
<1> HIDE DEF x1, x2, x3, x4, x5, x6, y1, y2, y3
<1>6. y1 \in Seq(Byte)
  BY <1>1, <1>2, <1>3, <1>4, PaddedIs, TabsAre, WornAre, Join4 DEF y1
<1>7. y2 \in Seq(Byte)
  BY <1>1, <1>2, <1>3, <1>4, PaddedIs, TabsAre, WornAre, <1>6, Join4 DEF y2
<1>8. y3 \in Seq(Byte)
  BY <1>1, <1>2, <1>3, <1>4, PaddedIs, TabsAre, WornAre, <1>7, Join4 DEF y3
<1> QED BY <1>5, <1>8

LEMMA RingsAre == RingBytes \in Seq(Byte)
<1> DEFINE x1 == I16(1)
           x2 == Zeros(33)
           x3 == Zeros(37)
           x4 == Zeros(25)
           x5 == Zeros(75)
           y1 == x1 \o x2 \o x1 \o x3
           y2 == y1 \o x1 \o x4 \o x5
<1>1. x1 \in Seq(Byte)
  BY WordsAre
<1>2. x2 \in Seq(Byte) /\ x3 \in Seq(Byte) /\ x4 \in Seq(Byte) /\ x5 \in Seq(Byte)
  BY ZerosAre
<1>3. RingBytes = y2
  BY DEF RingBytes
<1> HIDE DEF x1, x2, x3, x4, x5, y1, y2
<1>4. y1 \in Seq(Byte)
  BY <1>1, <1>2, Join4 DEF y1
<1>5. y2 \in Seq(Byte)
  BY <1>1, <1>2, <1>4, Join4 DEF y2
<1> QED BY <1>3, <1>5

LEMMA SalesAre == SaleBytes \in Seq(Byte)
<1> DEFINE x1 == I16(2)
           x2 == I32(801)
           x3 == I32(1 + 4 + 16 + 1024)
           x4 == I32(5010)
           x5 == I32(900)
           x6 == U8(1)
           x7 == I32(802)
           x8 == I32(1 + 2 + 65536)
           x9 == I32(5011)
           x10 == I16(3)
           x11 == U8(2)
           y1 == x1 \o x2 \o x3 \o x4
           y2 == y1 \o x5 \o x6 \o x6
           y3 == y2 \o x7 \o x8 \o x9
           y4 == y3 \o x10 \o x11
<1>1. x1 \in Seq(Byte) /\ x2 \in Seq(Byte) /\ x3 \in Seq(Byte) /\ x4 \in Seq(Byte) /\ x5 \in Seq(Byte) /\ x6 \in Seq(Byte)
  BY WordsAre
<1>2. x7 \in Seq(Byte) /\ x8 \in Seq(Byte) /\ x9 \in Seq(Byte) /\ x10 \in Seq(Byte) /\ x11 \in Seq(Byte)
  BY WordsAre
<1>3. SaleBytes = y4
  BY DEF SaleBytes
<1> HIDE DEF x1, x2, x3, x4, x5, x6, x7, x8, x9, x10, x11, y1, y2, y3, y4
<1>4. y1 \in Seq(Byte)
  BY <1>1, <1>2, Join4 DEF y1
<1>5. y2 \in Seq(Byte)
  BY <1>1, <1>2, <1>4, Join4 DEF y2
<1>6. y3 \in Seq(Byte)
  BY <1>1, <1>2, <1>5, Join4 DEF y3
<1>7. y4 \in Seq(Byte)
  BY <1>1, <1>2, <1>6, Join3 DEF y4
<1> QED BY <1>3, <1>7

(* -- how many skills a body says it tells of --------------------------------*)
LEMMA SkillCount ==
    ASSUME NEW b, NEW m \in Nat, Len(b) = m, m >= 3, b[2] = 1, b[3] = 0
    PROVE  Times(Value(Take(Reader(b), <<Get(1), Get(2)>>), 2)) \in 0..1
<1> DEFINE c0 == Reader(b)
           c == [c0 EXCEPT !.got = <<>>]
           l == <<Get(1), Get(2)>>
           one == SubSeq(b, 1, 1)
           two == SubSeq(b, 2, 3)
           g == Append(<<>>, one)
           h == Append(g, two)
           d == [c EXCEPT !.pos = 1, !.got = g]
           e == [c EXCEPT !.pos = 3, !.got = h]
<1>1. /\ c.bytes = b /\ c.pos = 0 /\ c.failed = FALSE /\ c.got = <<>> /\ DOMAIN c = Parts
  BY DEF Reader, Parts
<1>2. Len(l) = 2 /\ l[1] = Get(1) /\ l[2] = Get(2) /\ 2 \in Nat
  OBVIOUS
<1>4. two[1] = 1 /\ two[2] = 0 /\ Len(two) = 2
  BY DEF two
<1> HIDE DEF c, c0, l, one, two
<1>3. h[2] = two
  <2>1. <<>> \in Seq({one, two})
    OBVIOUS
  <2>2. g \in Seq({one, two}) /\ Len(g) = 1
    BY <2>1
  <2> HIDE DEF g
  <2>3. two \in {one, two}
    OBVIOUS
  <2>4. Append(g, two)[Len(g) + 1] = two
    BY <2>2, <2>3, AppendProperties
  <2> QED BY <2>2, <2>4 DEF h
<1> HIDE DEF g, h
<1>5. PICK r : /\ r[0] = c /\ \A k \in 0..Len(l) - 1 : r[k + 1] = Field(r[k], l[k + 1])
               /\ Fields(c, l) = IF Remaining(c) < 0 THEN c ELSE r[Len(l)]
  <2>1. Len(l) \in Nat
    BY <1>2
  <2> QED BY <2>1, ReadIs
<1>6. Remaining(c) = m /\ ~(Remaining(c) < 0)
  BY <1>1 DEF Remaining
<1>7. r[1] = Field(c, Get(1)) /\ r[2] = Field(r[1], Get(2))
  <2>1. r[0 + 1] = Field(r[0], l[0 + 1]) /\ r[1 + 1] = Field(r[1], l[1 + 1])
    BY <1>2, <1>5
  <2> QED BY <1>2, <1>5, <2>1
<1>8. Field(c, Get(1)) = Number(c, 1) /\ Field(r[1], Get(2)) = Number(r[1], 2)
  BY DEF Field, Get
<1>9. Number(c, 1) = d
  <2>1. Number(c, 1) = Keep([c EXCEPT !.pos = @ + 1], SubSeq(b, 1, 1))
    BY <1>1, <1>6 DEF Number
  <2> DEFINE f == [c EXCEPT !.pos = @ + 1]
  <2>3. f = [c EXCEPT !.pos = 1] /\ f.got = <<>> /\ DOMAIN f = Parts
    BY <1>1 DEF Parts
  <2>2. Number(c, 1) = [c EXCEPT !.pos = 1, !.got = g]
    BY <2>1, <2>3 DEF Keep, Parts, one, g
  <2> QED BY <2>2
<1>10. Number(d, 2) = e
  <2>1. d.bytes = b /\ d.pos = 1 /\ d.failed = FALSE /\ d.got = g /\ DOMAIN d = Parts
    BY <1>1 DEF Parts
  <2>2. Remaining(d) = m - 1 /\ ~(2 > Remaining(d))
    BY <2>1 DEF Remaining
  <2>3. Number(d, 2) = Keep([d EXCEPT !.pos = @ + 2], SubSeq(b, 2, 3))
    BY <2>1, <2>2 DEF Number
  <2>4. Number(d, 2) = [d EXCEPT !.pos = 3, !.got = h]
    BY <2>1, <2>3 DEF Keep, Parts, two, h
  <2> QED BY <2>4
<1>11. Take(c0, l) = e
  <2>1. Take(c0, l) = Fields(c, l)
    BY DEF Take, c
  <2> HIDE DEF e, d
  <2> QED BY <2>1, <1>2, <1>5, <1>6, <1>7, <1>8, <1>9, <1>10
<1>12. Value(Take(c0, l), 2) = Signed(two)
  <2>2. e.got[2] = two
    BY <1>1, <1>3 DEF Parts
  <2> HIDE DEF e
  <2> QED BY <1>11, <2>2 DEF Value
<1>13. Signed(two) = 1
  BY <1>4 DEF Signed, Unsigned
<1> QED BY <1>12, <1>13 DEF Times, c0, l

(* -- the packets a handler doubts, and what they are made of ----------------*)
LEMMA KeysAre == Zeros(5 * (Keys - 2)) \in Seq(Byte)
<1> DEFINE n == 5 * (Keys - 2)
<1>1. n \in Int
  BY ParsersAssumption
<1> HIDE DEF n
<1>2. CASE n \in Nat
  <2>1. Zeros(n) \in Seq(Byte)
    BY <1>2, ZerosAre
  <2> QED BY <2>1 DEF n
<1>3. CASE n < 0
  <2>1. 1..n = 1..0
    BY <1>1, <1>3
  <2>2. Zeros(n) = Zeros(0)
    BY <2>1 DEF Zeros
  <2>3. Zeros(0) \in Seq(Byte)
    BY ZerosAre
  <2> QED BY <2>2, <2>3 DEF n
<1> QED BY <1>1, <1>2, <1>3 DEF n

LEMMA SixthStays ==
    ASSUME NEW s \in Seq(Byte), Len(s) >= 6, s[6] = 1, NEW t \in Seq(Byte)
    PROVE  s \o t \in Seq(Byte) /\ Len(s \o t) >= 6 /\ (s \o t)[6] = 1
<1>1. Len(s \o t) = Len(s) + Len(t) /\ Len(t) \in Nat /\ Len(s) \in Nat
  OBVIOUS
<1>2. 6 \in 1..Len(s)
  BY <1>1
<1>3. (s \o t)[6] = s[6]
  BY <1>2
<1>4. s \o t \in Seq(Byte)
  OBVIOUS
<1> QED BY <1>1, <1>3, <1>4

LEMMA SixBytes ==
    ASSUME NEW a, NEW b, NEW c, NEW d, NEW e, NEW f
    PROVE  LET s == (<<a, b, c, d>> \o <<e>>) \o <<f>> IN Len(s) = 6 /\ s[6] = f
OBVIOUS

LEMMA LandedBytesAre == ASSUME NEW k PROVE /\ Packets(k).landed.bytes \in Seq(Byte)
                                           /\ Len(Packets(k).landed.bytes) >= 6 /\ Packets(k).landed.bytes[6] = 1
<1> DEFINE x1 == I32(4)
           x2 == U8(1)
           x3 == Zeros(24)
           x4 == BodyBytes(90, Blessed)
           y1 == x1 \o x2 \o x2 \o x3
           y2 == y1 \o x4 \o SkillBytes
<1>1. x1 \in Seq(Byte) /\ x2 \in Seq(Byte)
  BY WordsAre
<1>2. x3 \in Seq(Byte)
  BY ZerosAre
<1>3. x4 \in Seq(Byte)
  BY CharacterIs, BlessIs
<1>4. Packets(k).landed.bytes = y2
  BY SMTT(60) DEF Packets, Says
<1> DEFINE h0 == x1 \o x2
           h1 == h0 \o x2
           h2 == h1 \o x3
           h3 == h2 \o x4
<1>5. h1 \in Seq(Byte) /\ Len(h1) >= 6 /\ h1[6] = 1
  <2>1. PICK f : x2 = <<f>> /\ f = 1
    BY DEF U8
  <2>2. PICK a, b, c, d : x1 = <<a, b, c, d>>
    BY DEF I32
  <2>3. h0 \in Seq(Byte)
    BY <1>1, JoinAre
  <2>4. h1 \in Seq(Byte)
    BY <1>1, <2>3, JoinAre
  <2>5. h1 = (<<a, b, c, d>> \o <<f>>) \o <<f>>
    <3> HIDE DEF x1, x2
    <3> QED BY <2>1, <2>2
  <2> HIDE DEF h0, h1, x1, x2
  <2>6. Len(h1) = 6 /\ h1[6] = f
    <3>1. LET s == (<<a, b, c, d>> \o <<f>>) \o <<f>> IN Len(s) = 6 /\ s[6] = f
      BY SixBytes
    <3> QED BY <2>5, <3>1
  <2>7. Len(h1) >= 6
    BY <2>6
  <2> QED BY <2>1, <2>4, <2>6, <2>7
<1>6. y1 = h2 /\ y2 = h3 \o SkillBytes
  OBVIOUS
<1> HIDE DEF x1, x2, x3, x4, y1, y2, h0, h1, h2, h3
<1>7. h2 \in Seq(Byte) /\ Len(h2) >= 6 /\ h2[6] = 1
  BY <1>2, <1>5, SixthStays DEF h2
<1>8. h3 \in Seq(Byte) /\ Len(h3) >= 6 /\ h3[6] = 1
  BY <1>3, <1>7, SixthStays DEF h3
<1>9. y2 \in Seq(Byte) /\ Len(y2) >= 6 /\ y2[6] = 1
  BY <1>6, <1>8, SkillsAre, SixthStays
<1> QED BY <1>4, <1>9

LEMMA LandedIs == ASSUME NEW k PROVE Packets(k).landed.op = "SET_FIELD"
BY SMTT(60) DEF Packets, Says

LEMMA GainedBytesAre == ASSUME NEW k PROVE Packets(k).gained.bytes \in Seq(Byte)
<1> DEFINE x1 == U8(0)
           x2 == U8(1)
           x3 == U8(2)
           x4 == I16(9)
           x5 == StackBytes(2070000, 500)
           y1 == x1 \o x2 \o x1 \o x3
           y2 == y1 \o x4 \o x5
<1>1. x1 \in Seq(Byte) /\ x2 \in Seq(Byte) /\ x3 \in Seq(Byte) /\ x4 \in Seq(Byte)
  BY WordsAre
<1>2. x5 \in Seq(Byte)
  BY BagsAre
<1>3. Packets(k).gained.bytes = y2
  BY SMTT(60) DEF Packets, Says
<1> HIDE DEF x1, x2, x3, x4, x5, y1, y2
<1>4. y1 \in Seq(Byte)
  BY <1>1, <1>2, Join4 DEF y1
<1>5. y2 \in Seq(Byte)
  BY <1>1, <1>2, <1>4, Join3 DEF y2
<1> QED BY <1>3, <1>5

LEMMA GainedIs == ASSUME NEW k PROVE Packets(k).gained.op = "MODIFY_INVENTORY_ITEM"
BY SMTT(60) DEF Packets, Says

LEMMA DonnedBytesAre == ASSUME NEW k PROVE Packets(k).donned.bytes \in Seq(Byte)
<1> DEFINE x1 == U8(0)
           x2 == U8(1)
           x3 == I16(-5)
           y1 == x1 \o x2 \o x1 \o x2
           y2 == y1 \o x3 \o CloakBytes
<1>1. x1 \in Seq(Byte) /\ x2 \in Seq(Byte) /\ x3 \in Seq(Byte)
  BY WordsAre
<1>2. Packets(k).donned.bytes = y2
  BY SMTT(60) DEF Packets, Says
<1> HIDE DEF x1, x2, x3, y1, y2
<1>3. y1 \in Seq(Byte)
  BY <1>1, GearIs, Join4 DEF y1
<1>4. y2 \in Seq(Byte)
  BY <1>1, GearIs, <1>3, Join3 DEF y2
<1> QED BY <1>2, <1>4

LEMMA DonnedIs == ASSUME NEW k PROVE Packets(k).donned.op = "MODIFY_INVENTORY_ITEM"
BY SMTT(60) DEF Packets, Says

LEMMA ShopBytesAre == ASSUME NEW k PROVE Packets(k).shop.bytes \in Seq(Byte)
<1> DEFINE x1 == Zeros(9)
           x2 == BodyBytes(90, Unblessed)
           x3 == Zeros(10)
           x4 == Str(<<65>>)
           x5 == I32(2)
           x6 == Zeros(8)
           y1 == x1 \o x2 \o x3 \o RingBytes
           y2 == y1 \o x4 \o x5 \o x6
           y3 == y2 \o SaleBytes \o x6
<1>1. x1 \in Seq(Byte) /\ x3 \in Seq(Byte) /\ x6 \in Seq(Byte)
  BY ZerosAre
<1>2. x2 \in Seq(Byte)
  BY CharacterIs, BlessIs
<1>3. x4 \in Seq(Byte)
  <2>1. 65 \in Byte
    BY DEF Byte
  <2> QED BY <2>1, LettersAre
<1>4. x5 \in Seq(Byte)
  BY WordsAre
<1>5. Packets(k).shop.bytes = y3
  BY SMTT(60) DEF Packets, Says
<1> HIDE DEF x1, x2, x3, x4, x5, x6, y1, y2, y3
<1>6. y1 \in Seq(Byte)
  BY <1>1, <1>2, <1>3, <1>4, RingsAre, SalesAre, Join4 DEF y1
<1>7. y2 \in Seq(Byte)
  BY <1>1, <1>2, <1>3, <1>4, RingsAre, SalesAre, <1>6, Join4 DEF y2
<1>8. y3 \in Seq(Byte)
  BY <1>1, <1>2, <1>3, <1>4, RingsAre, SalesAre, <1>7, Join3 DEF y3
<1> QED BY <1>5, <1>8

LEMMA ShopIs == ASSUME NEW k PROVE Packets(k).shop.op = "SET_CASH_SHOP"
BY SMTT(60) DEF Packets, Says

LEMMA SkillsBytesAre == ASSUME NEW k PROVE Packets(k).skills.bytes \in Seq(Byte)
<1> DEFINE x1 == U8(1)
           x2 == I16(1)
           x3 == I32(1001005)
           x4 == I32(6)
           x5 == I32(0)
           x6 == Zeros(9)
           y1 == x1 \o x2 \o x3 \o x4
           y2 == y1 \o x5 \o x6
<1>1. x1 \in Seq(Byte) /\ x2 \in Seq(Byte) /\ x3 \in Seq(Byte) /\ x4 \in Seq(Byte) /\ x5 \in Seq(Byte)
  BY WordsAre
<1>2. x6 \in Seq(Byte)
  BY ZerosAre
<1>3. Packets(k).skills.bytes = y2
  BY SMTT(60) DEF Packets, Says
<1> HIDE DEF x1, x2, x3, x4, x5, x6, y1, y2
<1>4. y1 \in Seq(Byte)
  BY <1>1, <1>2, Join4 DEF y1
<1>5. y2 \in Seq(Byte)
  BY <1>1, <1>2, <1>4, Join3 DEF y2
<1> QED BY <1>3, <1>5

LEMMA SkillsIs == ASSUME NEW k PROVE Packets(k).skills.op = "UPDATE_SKILLS"
BY SMTT(60) DEF Packets, Says

LEMMA KeymapBytesAre == ASSUME NEW k PROVE Packets(k).keymap.bytes \in Seq(Byte)
<1> DEFINE x1 == Zeros(1)
           x2 == U8(4)
           x3 == I32(10)
           x4 == Zeros(5 * (Keys - 2))
           x5 == U8(5)
           x6 == I32(54)
           y1 == x1 \o x2 \o x3 \o x4
           y2 == y1 \o x5 \o x6
<1>1. x1 \in Seq(Byte)
  BY ZerosAre
<1>2. x2 \in Seq(Byte) /\ x3 \in Seq(Byte) /\ x5 \in Seq(Byte) /\ x6 \in Seq(Byte)
  BY WordsAre
<1>3. x4 \in Seq(Byte)
  BY KeysAre
<1>4. Packets(k).keymap.bytes = y2
  BY SMTT(60) DEF Packets, Says
<1> HIDE DEF x1, x2, x3, x4, x5, x6, y1, y2
<1>5. y1 \in Seq(Byte)
  BY <1>1, <1>2, <1>3, Join4 DEF y1
<1>6. y2 \in Seq(Byte)
  BY <1>1, <1>2, <1>3, <1>5, Join3 DEF y2
<1> QED BY <1>4, <1>6

LEMMA KeymapIs == ASSUME NEW k PROVE Packets(k).keymap.op = "KEYMAP"
BY SMTT(60) DEF Packets, Says

LEMMA ReactorBytesAre == ASSUME NEW k PROVE Packets(k).reactor.bytes \in Seq(Byte)
<1> DEFINE x1 == I32(71)
           x2 == I32(2000)
           x3 == U8(0)
           x4 == Point(3, 4)
           x5 == Str(<<82>>)
           y1 == x1 \o x2 \o x3 \o x4
           y2 == y1 \o x3 \o x5
<1>1. x1 \in Seq(Byte) /\ x2 \in Seq(Byte) /\ x3 \in Seq(Byte)
  BY WordsAre
<1>2. x4 \in Seq(Byte)
  BY PointIs
<1>3. x5 \in Seq(Byte)
  <2>1. 82 \in Byte
    BY DEF Byte
  <2> QED BY <2>1, LettersAre
<1>4. Packets(k).reactor.bytes = y2
  BY SMTT(60) DEF Packets, Says
<1> HIDE DEF x1, x2, x3, x4, x5, y1, y2
<1>5. y1 \in Seq(Byte)
  BY <1>1, <1>2, <1>3, Join4 DEF y1
<1>6. y2 \in Seq(Byte)
  BY <1>1, <1>2, <1>3, <1>5, Join3 DEF y2
<1> QED BY <1>4, <1>6

LEMMA ReactorIs == ASSUME NEW k PROVE Packets(k).reactor.op = "REACTOR_SPAWN"
BY SMTT(60) DEF Packets, Says

LEMMA BrokenBytesAre == ASSUME NEW k PROVE Packets(k).broken.bytes \in Seq(Byte)
<1> DEFINE x1 == I32(7)
           x2 == U8(3)
           x3 == Point(5, 6)
           y1 == x1 \o x2 \o x3
<1>1. x1 \in Seq(Byte) /\ x2 \in Seq(Byte)
  BY WordsAre
<1>2. x3 \in Seq(Byte)
  BY PointIs
<1>3. Packets(k).broken.bytes = y1
  BY SMTT(60) DEF Packets, Says
<1> HIDE DEF x1, x2, x3, y1
<1>4. y1 \in Seq(Byte)
  BY <1>1, <1>2, Join3 DEF y1
<1> QED BY <1>3, <1>4

LEMMA BrokenIs == ASSUME NEW k PROVE Packets(k).broken.op = "REACTOR_DESTROY"
BY SMTT(60) DEF Packets, Says

LEMMA PartyBytesAre == ASSUME NEW k PROVE Packets(k).party.bytes \in Seq(Byte)
<1> DEFINE x1 == U8(1)
           x2 == Str(<<80>>)
           x3 == Str(<<72, 73>>)
           y1 == x1 \o x2 \o x3
<1>1. x1 \in Seq(Byte)
  BY WordsAre
<1>2. x2 \in Seq(Byte) /\ x3 \in Seq(Byte)
  <2>1. 72 \in Byte /\ 73 \in Byte /\ 80 \in Byte
    BY DEF Byte
  <2> QED BY <2>1, LettersAre
<1>3. Packets(k).party.bytes = y1
  BY SMTT(60) DEF Packets, Says
<1> HIDE DEF x1, x2, x3, y1
<1>4. y1 \in Seq(Byte)
  BY <1>1, <1>2, Join3 DEF y1
<1> QED BY <1>3, <1>4

LEMMA PartyIs == ASSUME NEW k PROVE Packets(k).party.op = "MULTICHAT"
BY SMTT(60) DEF Packets, Says

LEMMA WhisperBytesAre == ASSUME NEW k PROVE Packets(k).whisper.bytes \in Seq(Byte)
<1> DEFINE x1 == U8(18)
           x2 == Str(<<80>>)
           x3 == I16(0)
           x4 == Str(<<72>>)
           y1 == x1 \o x2 \o x3 \o x4
<1>1. x1 \in Seq(Byte) /\ x3 \in Seq(Byte)
  BY WordsAre
<1>2. x2 \in Seq(Byte) /\ x4 \in Seq(Byte)
  <2>1. 72 \in Byte /\ 80 \in Byte
    BY DEF Byte
  <2> QED BY <2>1, LettersAre
<1>3. Packets(k).whisper.bytes = y1
  BY SMTT(60) DEF Packets, Says
<1> HIDE DEF x1, x2, x3, x4, y1
<1>4. y1 \in Seq(Byte)
  BY <1>1, <1>2, Join4 DEF y1
<1> QED BY <1>3, <1>4

LEMMA WhisperIs == ASSUME NEW k PROVE Packets(k).whisper.op = "WHISPER"
BY SMTT(60) DEF Packets, Says

LEMMA ChatBytesAre == ASSUME NEW k PROVE Packets(k).chat.bytes \in Seq(Byte)
<1> DEFINE x1 == I32(Me)
           x2 == U8(0)
           x3 == Str(<<72>>)
           y1 == x1 \o x2 \o x3 \o x2
<1>1. x1 \in Seq(Byte)
  BY MeIs
<1>2. x2 \in Seq(Byte)
  BY WordsAre
<1>3. x3 \in Seq(Byte)
  <2>1. 72 \in Byte
    BY DEF Byte
  <2> QED BY <2>1, LettersAre
<1>4. Packets(k).chat.bytes = y1
  BY SMTT(60) DEF Packets, Says
<1> HIDE DEF x1, x2, x3, y1
<1>5. y1 \in Seq(Byte)
  BY <1>1, <1>2, <1>3, Join4 DEF y1
<1> QED BY <1>4, <1>5

LEMMA ChatIs == ASSUME NEW k PROVE Packets(k).chat.op = "CHATTEXT"
BY SMTT(60) DEF Packets, Says

LEMMA YellowBytesAre == ASSUME NEW k PROVE Packets(k).yellow.bytes \in Seq(Byte)
<1> DEFINE x1 == U8(255)
           x2 == Str(<<72>>)
           y1 == x1 \o x2
<1>1. x1 \in Seq(Byte)
  BY WordsAre
<1>2. x2 \in Seq(Byte)
  <2>1. 72 \in Byte
    BY DEF Byte
  <2> QED BY <2>1, LettersAre
<1>3. Packets(k).yellow.bytes = y1
  BY SMTT(60) DEF Packets, Says
<1> HIDE DEF x1, x2, y1
<1>4. y1 \in Seq(Byte)
  BY <1>1, <1>2, JoinAre DEF y1
<1> QED BY <1>3, <1>4

LEMMA YellowIs == ASSUME NEW k PROVE Packets(k).yellow.op = "SET_WEEK_EVENT_MESSAGE"
BY SMTT(60) DEF Packets, Says

LEMMA NoticeBytesAre == ASSUME NEW k PROVE Packets(k).notice.bytes \in Seq(Byte)
<1> DEFINE x1 == U8(4)
           x2 == U8(1)
           x3 == Str(<<72>>)
           x4 == Zeros(4)
           y1 == x1 \o x2 \o x3 \o x4
<1>1. x1 \in Seq(Byte) /\ x2 \in Seq(Byte)
  BY WordsAre
<1>2. x3 \in Seq(Byte)
  <2>1. 72 \in Byte
    BY DEF Byte
  <2> QED BY <2>1, LettersAre
<1>3. x4 \in Seq(Byte)
  BY ZerosAre
<1>4. Packets(k).notice.bytes = y1
  BY SMTT(60) DEF Packets, Says
<1> HIDE DEF x1, x2, x3, x4, y1
<1>5. y1 \in Seq(Byte)
  BY <1>1, <1>2, <1>3, Join4 DEF y1
<1> QED BY <1>4, <1>5

LEMMA NoticeIs == ASSUME NEW k PROVE Packets(k).notice.op = "SERVERMESSAGE"
BY SMTT(60) DEF Packets, Says

LEMMA OfferBytesAre == ASSUME NEW k PROVE Packets(k).offer.bytes \in Seq(Byte)
<1> DEFINE x1 == U8(1)
           x2 == U8(3)
           y1 == x1 \o x2 \o SwordBytes
<1>1. x1 \in Seq(Byte) /\ x2 \in Seq(Byte)
  BY WordsAre
<1>2. Packets(k).offer.bytes = y1
  BY SMTT(60) DEF Packets, Says
<1> HIDE DEF x1, x2, y1
<1>3. y1 \in Seq(Byte)
  BY <1>1, GearIs, Join3 DEF y1
<1> QED BY <1>2, <1>3

LEMMA OfferIs == ASSUME NEW k PROVE Packets(k).offer.op = "TRADE_ITEM_ADD"
BY SMTT(60) DEF Packets, Says

(* What the careful packets are: their operation, and bytes.                 *)
LEMMA LandedKnown == Says0["landed"].op = "SET_FIELD" /\ Says0["landed"].bytes \in Seq(Byte)
BY LandedIs, LandedBytesAre DEF Says0
LEMMA LandedMode == Value(Take(Reader(Says0["landed"].bytes), Preface), 3) = 1
<1> DEFINE b == Says0["landed"].bytes
<1>1. b \in Seq(Byte) /\ Len(b) >= 6 /\ b[6] = 1
  BY LandedBytesAre DEF Says0
<1> HIDE DEF b
<1> QED BY <1>1, ModeIs DEF b
LEMMA GainedKnown == Says0["gained"].op = "MODIFY_INVENTORY_ITEM" /\ Says0["gained"].bytes \in Seq(Byte)
BY GainedIs, GainedBytesAre DEF Says0
LEMMA DonnedKnown == Says0["donned"].op = "MODIFY_INVENTORY_ITEM" /\ Says0["donned"].bytes \in Seq(Byte)
BY DonnedIs, DonnedBytesAre DEF Says0
LEMMA ShopKnown == Says0["shop"].op = "SET_CASH_SHOP" /\ Says0["shop"].bytes \in Seq(Byte)
BY ShopIs, ShopBytesAre DEF Says0
LEMMA SkillsKnown == Says0["skills"].op = "UPDATE_SKILLS" /\ Says0["skills"].bytes \in Seq(Byte)
BY SkillsIs, SkillsBytesAre DEF Says0
LEMMA KeymapKnown == Says0["keymap"].op = "KEYMAP" /\ Says0["keymap"].bytes \in Seq(Byte)
BY KeymapIs, KeymapBytesAre DEF Says0
LEMMA ReactorKnown == Says0["reactor"].op = "REACTOR_SPAWN" /\ Says0["reactor"].bytes \in Seq(Byte)
BY ReactorIs, ReactorBytesAre DEF Says0
LEMMA BrokenKnown == Says0["broken"].op = "REACTOR_DESTROY" /\ Says0["broken"].bytes \in Seq(Byte)
BY BrokenIs, BrokenBytesAre DEF Says0
LEMMA PartyKnown == Says0["party"].op = "MULTICHAT" /\ Says0["party"].bytes \in Seq(Byte)
BY PartyIs, PartyBytesAre DEF Says0
LEMMA WhisperKnown == Says0["whisper"].op = "WHISPER" /\ Says0["whisper"].bytes \in Seq(Byte)
BY WhisperIs, WhisperBytesAre DEF Says0
LEMMA ChatKnown == Says0["chat"].op = "CHATTEXT" /\ Says0["chat"].bytes \in Seq(Byte)
BY ChatIs, ChatBytesAre DEF Says0
LEMMA YellowKnown == Says0["yellow"].op = "SET_WEEK_EVENT_MESSAGE" /\ Says0["yellow"].bytes \in Seq(Byte)
BY YellowIs, YellowBytesAre DEF Says0
LEMMA NoticeKnown == Says0["notice"].op = "SERVERMESSAGE" /\ Says0["notice"].bytes \in Seq(Byte)
BY NoticeIs, NoticeBytesAre DEF Says0
LEMMA OfferKnown == Says0["offer"].op = "TRADE_ITEM_ADD" /\ Says0["offer"].bytes \in Seq(Byte)
BY OfferIs, OfferBytesAre DEF Says0

LEMMA StartsStay ==
    ASSUME NEW s \in Seq(Byte), Len(s) >= 3, s[2] = 1, s[3] = 0, NEW t \in Seq(Byte)
    PROVE  s \o t \in Seq(Byte) /\ Len(s \o t) >= 3 /\ (s \o t)[2] = 1 /\ (s \o t)[3] = 0
OBVIOUS

LEMMA SecondThird ==
    ASSUME NEW u, NEW s, NEW t, NEW m, NEW n, m = 1, n = 2,
           \A i \in 1..m + n : u[i] = IF i <= m THEN s[i] ELSE t[i - m]
    PROVE  u[2] = t[1] /\ u[3] = t[2]
<1>1. 2 \in 1..m + n /\ 3 \in 1..m + n /\ ~(2 <= m) /\ ~(3 <= m) /\ 2 - m = 1 /\ 3 - m = 2
  OBVIOUS
<1> QED BY <1>1

LEMMA ThreeStart ==
    ASSUME NEW s \in Seq(Byte), NEW t \in Seq(Byte), Len(s) = 1, Len(t) = 2, t[1] = 1, t[2] = 0
    PROVE  Len(s \o t) >= 3 /\ (s \o t)[2] = 1 /\ (s \o t)[3] = 0
<1>1. Len(s \o t) = Len(s) + Len(t)
  BY ConcatProperties
<1>2. \A i \in 1..Len(s) + Len(t) : (s \o t)[i] = IF i <= Len(s) THEN s[i] ELSE t[i - Len(s)]
  BY ConcatProperties
<1>3. (s \o t)[2] = t[1] /\ (s \o t)[3] = t[2]
  <2> DEFINE u == s \o t
             m == Len(s)
             n == Len(t)
  <2>1. m = 1 /\ n = 2 /\ \A i \in 1..m + n : u[i] = IF i <= m THEN s[i] ELSE t[i - m]
    BY <1>2
  <2> HIDE DEF u, m, n
  <2>2. u[2] = t[1] /\ u[3] = t[2]
    BY <2>1, SecondThird
  <2> QED BY <2>2 DEF u
<1> QED BY <1>1, <1>3

LEMMA OneSkillTold == Times(Value(Take(Reader(Says0["skills"].bytes), <<Get(1), Get(2)>>), 2)) \in 0..1
<1> DEFINE b == Packets(Before).skills.bytes
           x == I32(1001005)
           y == I32(6)
           z == I32(0)
           o == Zeros(9)
           s == U8(1) \o I16(1)
<1>1. x \in Seq(Byte) /\ y \in Seq(Byte) /\ z \in Seq(Byte)
  BY WordsAre
<1>2. o \in Seq(Byte)
  BY ZerosAre
<1>3. b = s \o x \o y \o z \o o
  BY SMTT(60) DEF Packets, Says
<1>4. s \in Seq(Byte) /\ Len(s) >= 3 /\ s[2] = 1 /\ s[3] = 0
  <2>1. U8(1) = <<1>> /\ I16(1) = <<1, 0>>
    BY DEF U8, I16
  <2>2. U8(1) \in Seq(Byte) /\ I16(1) \in Seq(Byte)
    BY WordsAre
  <2>3. s \in Seq(Byte)
    BY <2>2, JoinAre
  <2>4. Len(I16(1)) = 2 /\ I16(1)[1] = 1 /\ I16(1)[2] = 0 /\ Len(U8(1)) = 1
    BY <2>1
  <2> QED BY <2>2, <2>3, <2>4, ThreeStart
<1> HIDE DEF b, x, y, z, o, s
<1> DEFINE s1 == s \o x
           s2 == s1 \o y
           s3 == s2 \o z
           s4 == s3 \o o
<1>5. s1 \in Seq(Byte) /\ Len(s1) >= 3 /\ s1[2] = 1 /\ s1[3] = 0
  BY <1>1, <1>4, StartsStay
<1>6. b = s4
  BY <1>3
<1> HIDE DEF s1, s2, s3, s4
<1>7. s2 \in Seq(Byte) /\ Len(s2) >= 3 /\ s2[2] = 1 /\ s2[3] = 0
  BY <1>1, <1>5, StartsStay DEF s2
<1>8. s3 \in Seq(Byte) /\ Len(s3) >= 3 /\ s3[2] = 1 /\ s3[3] = 0
  BY <1>1, <1>7, StartsStay DEF s3
<1>9. s4 \in Seq(Byte) /\ Len(s4) >= 3 /\ s4[2] = 1 /\ s4[3] = 0
  BY <1>2, <1>8, StartsStay DEF s4
<1>10. Len(b) \in Nat /\ Len(b) >= 3 /\ b[2] = 1 /\ b[3] = 0
  BY <1>6, <1>9
<1> QED BY <1>10, SkillCount DEF Says0, b

LEMMA Settles == Settled(Before)
BY TrafficAssumption DEF Settled

(* What a careful handler makes of a body cut anywhere.                      *)
LEMMA CutIsRefused ==
    ASSUME NEW p \in Careful, NEW n \in 0..Len(Says0[p].bytes)
    PROVE  Handled(Says0[p].op, SubSeq(Says0[p].bytes, 1, n), Before).known \in Refused(p) \cup {Heard(p)}
<1> DEFINE b == Says0[p].bytes
           op == Says0[p].op
           known0 == Handled(op, SubSeq(b, 1, n), Before).known
<1> SUFFICES known0 \in Refused(p) \cup {Heard(p)}
  OBVIOUS
<1>0. /\ n \in 0..Len(b) /\ known0 = Handled(op, SubSeq(b, 1, n), Before).known
      /\ p \notin {"shop", "landed"} => Refused(p) = {Before}
      /\ p = "shop" => Refused(p) = {[Before EXCEPT !.sale = <<>>]}
      /\ Heard(p) = Handled(op, b, Before).known
  BY DEF Refused, Heard
<1>a. /\ p = "shop" => b \in Seq(Byte) /\ op = "SET_CASH_SHOP"
      /\ p = "skills" => b \in Seq(Byte) /\ op = "UPDATE_SKILLS"
      /\ p = "landed" => b \in Seq(Byte) /\ op = "SET_FIELD" /\ Value(Take(Reader(b), Preface), 3) = 1
  BY ShopKnown, SkillsKnown, LandedKnown, LandedMode
<1>c. p = "landed" => LET on == [Before EXCEPT !.channel = Value(Take(Reader(b), <<Get(4)>>), 1) + 1]
                      IN Refused(p) = {[Before EXCEPT !.channel = 1], on, Arrived(on)}
  BY DEF Refused, On, ToldChannel
<1>b. p = "skills" => Times(Value(Take(Reader(b), <<Get(1), Get(2)>>), 2)) \in 0..1
  BY OneSkillTold
<1> HIDE DEF b, op, known0
<1>1. ASSUME b \in Seq(Byte), op \in Doubted, p \notin {"shop", "landed"} PROVE known0 \in Refused(p) \cup {Heard(p)}
  <2>1. known0 = Before \/ known0 = Handled(op, b, Before).known
    BY <1>0, <1>1, CutIsDoubted
  <2> QED BY <1>0, <1>1, <2>1
<1>2. CASE p = "shop"
  <2>1. known0 = [Before EXCEPT !.sale = <<>>] \/ known0 = Handled(op, b, Before).known
    BY <1>0, <1>a, <1>2, CutShop
  <2> QED BY <1>0, <1>2, <2>1
<1>3. CASE p = "skills"
  <2>1. known0 = Before \/ known0 = Handled(op, b, Before).known
    BY <1>0, <1>a, <1>b, <1>3, Settles, CutSkills
  <2>2. p \notin {"shop", "landed"}
    BY <1>3
  <2> QED BY <1>0, <2>1, <2>2
<1>4. CASE p = "landed"
  <2>1. b \in Seq(Byte) /\ op = "SET_FIELD" /\ Value(Take(Reader(b), Preface), 3) = 1
    BY <1>a, <1>4
  <2> DEFINE on == [Before EXCEPT !.channel = Value(Take(Reader(b), <<Get(4)>>), 1) + 1]
  <2>2. known0 \in {[Before EXCEPT !.channel = 1], on, Arrived(on), Heard(p)}
    BY <1>0, <2>1, CutLanding
  <2>3. Refused(p) = {[Before EXCEPT !.channel = 1], on, Arrived(on)}
    BY <1>c, <1>4
  <2> HIDE DEF on
  <2> QED BY <2>2, <2>3
<1>5. CASE p = "gained"
  <2>1. b \in Seq(Byte) /\ op = "MODIFY_INVENTORY_ITEM" /\ p \notin {"shop", "landed"}
    BY <1>5, GainedKnown DEF b, op
  <2> QED BY <2>1, <1>1 DEF Doubted
<1>6. CASE p = "donned"
  <2>1. b \in Seq(Byte) /\ op = "MODIFY_INVENTORY_ITEM" /\ p \notin {"shop", "landed"}
    BY <1>6, DonnedKnown DEF b, op
  <2> QED BY <2>1, <1>1 DEF Doubted
<1>7. CASE p = "keymap"
  <2>1. b \in Seq(Byte) /\ op = "KEYMAP" /\ p \notin {"shop", "landed"}
    BY <1>7, KeymapKnown DEF b, op
  <2> QED BY <2>1, <1>1 DEF Doubted
<1>8. CASE p = "reactor"
  <2>1. b \in Seq(Byte) /\ op = "REACTOR_SPAWN" /\ p \notin {"shop", "landed"}
    BY <1>8, ReactorKnown DEF b, op
  <2> QED BY <2>1, <1>1 DEF Doubted
<1>9. CASE p = "broken"
  <2>1. b \in Seq(Byte) /\ op = "REACTOR_DESTROY" /\ p \notin {"shop", "landed"}
    BY <1>9, BrokenKnown DEF b, op
  <2> QED BY <2>1, <1>1 DEF Doubted
<1>10. CASE p = "party"
  <2>1. b \in Seq(Byte) /\ op = "MULTICHAT" /\ p \notin {"shop", "landed"}
    BY <1>10, PartyKnown DEF b, op
  <2> QED BY <2>1, <1>1 DEF Doubted
<1>11. CASE p = "whisper"
  <2>1. b \in Seq(Byte) /\ op = "WHISPER" /\ p \notin {"shop", "landed"}
    BY <1>11, WhisperKnown DEF b, op
  <2> QED BY <2>1, <1>1 DEF Doubted
<1>12. CASE p = "chat"
  <2>1. b \in Seq(Byte) /\ op = "CHATTEXT" /\ p \notin {"shop", "landed"}
    BY <1>12, ChatKnown DEF b, op
  <2> QED BY <2>1, <1>1 DEF Doubted
<1>13. CASE p = "yellow"
  <2>1. b \in Seq(Byte) /\ op = "SET_WEEK_EVENT_MESSAGE" /\ p \notin {"shop", "landed"}
    BY <1>13, YellowKnown DEF b, op
  <2> QED BY <2>1, <1>1 DEF Doubted
<1>14. CASE p = "notice"
  <2>1. b \in Seq(Byte) /\ op = "SERVERMESSAGE" /\ p \notin {"shop", "landed"}
    BY <1>14, NoticeKnown DEF b, op
  <2> QED BY <2>1, <1>1 DEF Doubted
<1>15. CASE p = "offer"
  <2>1. b \in Seq(Byte) /\ op = "TRADE_ITEM_ADD" /\ p \notin {"shop", "landed"}
    BY <1>15, OfferKnown DEF b, op
  <2> QED BY <2>1, <1>1 DEF Doubted
<1> QED BY <1>2, <1>3, <1>4, <1>5, <1>6, <1>7, <1>8, <1>9, <1>10, <1>11, <1>12, <1>13, <1>14, <1>15 DEF Careful

(* What there is to know of a body under way, and of one just read.          *)
TalkInv ==
    /\ turn \in {"waiting", "delivered"} => known = Before
    /\ turn \in {"delivered", "bot"} => cut \in 0..Len(Says0[name].bytes)
    /\ turn = "bot" => known = Handled(Says0[name].op, SubSeq(Says0[name].bytes, 1, cut), Before).known

LEMMA TalkStarts == Init => TalkInv
BY DEF Init, TrafficInit, TalkInv

LEMMA TalkGoesOn == TalkInv /\ [Next]_vars => TalkInv'
<1> SUFFICES ASSUME TalkInv, [Next]_vars PROVE TalkInv'
  OBVIOUS
<1>1. CASE UNCHANGED traffic
  BY <1>1 DEF traffic, TalkInv
<1>2. CASE TrafficNext
  <2>1. CASE turn = "waiting" /\ \E p \in DOMAIN Says0 : \E n \in 0..Len(Says0[p].bytes) : Deliver(p, n)
    <3>1. PICK p \in DOMAIN Says0 : \E n \in 0..Len(Says0[p].bytes) : Deliver(p, n)
      BY <2>1
    <3>2. PICK n \in 0..Len(Says0[p].bytes) : Deliver(p, n)
      BY <3>1
    <3> QED BY <2>1, <3>2 DEF Deliver, TalkInv
  <2>2. CASE \E r \in Requests : Ask(r)
    BY <2>2 DEF Ask, TalkInv
  <2>3. CASE \E n \in 0..MaxTargetsTried, h \in 0..MaxHitsTried : Attack(n, h)
    BY <2>3 DEF Attack, TalkInv
  <2>4. CASE Handle
    <3>1. turn = "delivered" /\ turn' = "bot" /\ name' = name /\ cut' = cut
      BY <2>4 DEF Handle
    <3>2. known' = Handled(Says0[name].op, SubSeq(Says0[name].bytes, 1, cut), known).known
      BY <2>4 DEF Handle, Learn
    <3> QED BY <3>1, <3>2 DEF TalkInv, Says0
  <2> QED BY <1>2, <2>1, <2>2, <2>3, <2>4 DEF TrafficNext
<1> QED BY <1>1, <1>2 DEF Next, Streaming, Sealing, Talking, vars

LEMMA TalkIsRefused == TalkInv => HalvesAreRefused
BY CutIsRefused DEF TalkInv, HalvesAreRefused

(* A packet of the careful kind that ends early, wherever it ends, leaves    *)
(* what the bot knows as it was, or as the whole packet would (packet.rs).   *)
THEOREM HalvesRefused == Spec => []HalvesAreRefused
BY TalkStarts, TalkGoesOn, TalkIsRefused, PTL DEF Spec
=============================================================================
