------------------------------- MODULE Cursor -------------------------------
(***************************************************************************)
(* Reading and building packets byte by byte, little-endian (packet.rs).   *)
(* A cursor never reads beyond its bytes: the first read that would marks  *)
(* it failed, and a failed cursor reads nothing but zeros.  A layout is a  *)
(* sequence of fields, read one after the other into `got`.                *)
(***************************************************************************)
EXTENDS Integers, Sequences

Byte == 0..255

Cursor(bytes) == [bytes |-> bytes, pos |-> 0, failed |-> FALSE, got |-> <<>>]
Remaining(c) == Len(c.bytes) - c.pos
Available(c) == ~c.failed /\ Remaining(c) > 0
Fail(c) == [c EXCEPT !.failed = TRUE, !.pos = Len(c.bytes)]

(* -- the fields ---------------------------------------------------------- *)
Skip(n)   == [kind |-> "skip", n |-> n]
Get(n)    == [kind |-> "get", n |-> n]     \* a number of n bytes
Padded(n) == [kind |-> "padded", n |-> n]  \* a text of n bytes, zeros dropped
Text      == [kind |-> "text", n |-> 0]    \* a length of two bytes, a text
SkipText  == [kind |-> "over", n |-> 0]

Zeros(n) == [i \in 1..n |-> 0]
Keep(c, value) == [c EXCEPT !.got = Append(@, value)]
(* A count below zero is, as a usize, more than there is. *)
Over(c, n) ==
    IF c.failed THEN c
    ELSE IF n \in 0..Remaining(c) THEN [c EXCEPT !.pos = @ + n]
    ELSE Fail(c)
Number(c, n) ==
    IF c.failed \/ n > Remaining(c) THEN Keep(Fail(c), Zeros(n))
    ELSE Keep([c EXCEPT !.pos = @ + n], SubSeq(c.bytes, c.pos + 1, c.pos + n))
(* A text keeps what there was of it. *)
Dropped(bytes) == SelectSeq(bytes, LAMBDA b : b # 0)
Letters(c, n) ==
    LET end == IF n > Remaining(c) THEN Len(c.bytes) ELSE c.pos + n
    IN IF c.failed THEN Keep(c, <<>>)
       ELSE Keep([c EXCEPT !.pos = end, !.failed = n > Remaining(c)], Dropped(SubSeq(c.bytes, c.pos + 1, end)))

(* The value of little-endian bytes: unsigned, and two's complement. *)
Unsigned(bs) ==
    CASE Len(bs) = 1 -> bs[1]
      [] Len(bs) = 2 -> bs[1] + 256 * bs[2]
      [] OTHER -> bs[1] + 256 * bs[2] + 65536 * bs[3] + 16777216 * bs[4]
Signed(bs) ==
    LET high == bs[Len(bs)] IN
    IF high < 128 THEN Unsigned(bs)
    ELSE CASE Len(bs) = 1 -> high - 256
           [] Len(bs) = 2 -> bs[1] + 256 * (high - 256)
           [] OTHER -> bs[1] + 256 * bs[2] + 65536 * bs[3] + 16777216 * (high - 256)

(* A length of two bytes, and as many bytes kept or passed over. *)
Counted(c, count, kept) ==
    LET after == [count EXCEPT !.got = c.got]
        n == Unsigned(count.got[1])
    IN IF kept THEN Letters(after, n) ELSE Over(after, n)
Field(c, f) ==
    CASE f.kind = "skip" -> Over(c, f.n)
      [] f.kind = "get" -> Number(c, f.n)
      [] f.kind = "padded" -> Letters(c, f.n)
      [] OTHER -> Counted(c, Number([c EXCEPT !.got = <<>>], 2), f.kind = "text")

(* The fields of a layout, read one after the other: their values are added *)
(* to `got`; Take starts with none.                                         *)
Fields(c, layout) ==
    LET read[i \in 0..Len(layout)] == IF i = 0 THEN c ELSE Field(read[i - 1], layout[i])
    IN  IF Remaining(c) < 0 THEN c ELSE read[Len(layout)]   \* never less than nothing is left
Take(c, layout) == Fields([c EXCEPT !.got = <<>>], layout)

(* A loop: the cursor before it and after each of n turns; and how many of  *)
(* them it takes until it meets its end.                                    *)
Walk(c, n, Turn(_)) ==
    LET at[k \in 0..n] == IF k = 0 THEN c ELSE Turn(at[k - 1])
    IN  at
Turns(at, End(_)) == CHOOSE k \in DOMAIN at : End(at[k]) /\ \A j \in 0..k - 1 : ~End(at[j])
Times(n) == IF n > 0 THEN n ELSE 0

(* -- building ------------------------------------------------------------ *)
U8(v)  == <<v % 256>>
I16(v) == <<v % 256, (v \div 256) % 256>>
I32(v) == <<v % 256, (v \div 256) % 256, (v \div 65536) % 256, (v \div 16777216) % 256>>
Str(text) == I16(Len(text)) \o text
Point(x, y) == I16(x) \o I16(y)
=============================================================================
