------------------------------- MODULE Cipher -------------------------------
(***************************************************************************)
(* What is done to a body between two ends (crypto.rs): six passes that    *)
(* mix every byte with its neighbour and with the length that is left, a   *)
(* key stream over blocks of unequal size, and a header in which position, *)
(* version and length are folded together.  The cipher behind the stream   *)
(* and the step from one position to the next are stood for by arithmetic: *)
(* both ends run the same code.                                            *)
(***************************************************************************)
EXTENDS Integers, Sequences

CONSTANTS
    Version,      \* of the protocol, folded into the header
    First, Later, \* sizes of the first block of the stream and of the others
    Ring,         \* the bytes of one application of the block cipher, 16
    BodyLengths,      \* bound: lengths of the bodies tried
    MaxSealed     \* bound: bodies one after the other

Words == {n \in Nat : n < 65536}   \* 16 bits

ASSUME CipherAssumption ==
    /\ First \in Nat \ {0} /\ Later \in Nat \ {0} /\ Ring \in Nat \ {0}
    /\ Version \in Words /\ BodyLengths \subseteq Words /\ MaxSealed \in Nat

VARIABLES
    sendiv, recviv,  \* the position of either end, four bytes
    plain,           \* the body that was sealed last
    wire,            \* what came of it: [header, body], or nothing
    opened,          \* what the other end made of it
    sealed           \* bodies so far

cipherVars == <<sendiv, recviv, plain, wire, opened, sealed>>
Idle == [header |-> <<>>, body |-> <<>>]

Low(n) == n % 256

(* Exclusive or of 1, 2, 4, 8 and 16 bits: that of either half.            *)
Xor1(a, b) == (a + b) % 2
Xor2(a, b) == 2 * Xor1(a \div 2, b \div 2) + Xor1(a % 2, b % 2)
Xor4(a, b) == 4 * Xor2(a \div 4, b \div 4) + Xor2(a % 4, b % 4)
Xor8(a, b) == 16 * Xor4(a \div 16, b \div 16) + Xor4(a % 16, b % 16)
Xor16(a, b) == 256 * Xor8(a \div 256, b \div 256) + Xor8(a % 256, b % 256)

(* -- the passes ---------------------------------------------------------- *)
(* What is shifted out on one side comes in on the other.                  *)
Powers == <<1, 2, 4, 8, 16, 32, 64, 128, 256>>
Rolled(b, k) == Low(b * k) + (b * k) \div 256
rollleft(b, count) == Rolled(b, Powers[1 + (count % 8)])
rollright(b, count) == Rolled(b, Powers[9 - (count % 8)])
Flipped(b) == 255 - b

(* What is left of the length at the i-th byte a pass takes, and the mix of *)
(* the byte before it.                                                     *)
datalen(length, i) == Low(length + 1 - i)
remember(mixes, i) == IF i = 1 THEN 0 ELSE mixes[i - 1]

Mixed(count, b, left, before) == Xor8(Low(rollleft(b, count) + left), before)
(* Slip: the length is taken off without wrapping. *)
UnmixedSlip(count, mixed, left, before) ==
    LET m == Xor8(mixed, before) IN rollright(IF m < left THEN 0 ELSE m - left, count)
Unmixed(count, mixed, left, before) == rollright(Low(Xor8(mixed, before) - left), count)

(* Byte after byte, as the loop goes: n bytes are one half of them and then  *)
(* the other.                                                              *)
Mixes(count, bytes) ==
    LET length == Len(bytes)
        NextMixed(mixes) ==
            LET k == Len(mixes) + 1
            IN  Append(mixes, Mixed(count, bytes[k], datalen(length, k), remember(mixes, k)))
        more[n \in 0..length] ==
            [mixes \in Seq(0..255) |->
               IF n = 0 THEN mixes
               ELSE IF n = 1 THEN NextMixed(mixes)
               ELSE more[n - (n \div 2)][more[n \div 2][mixes]]]
    IN  more[length][<<>>]
Unmixes(count, length, mixes) ==
    [i \in 1..length |-> Unmixed(count, mixes[i], datalen(length, i), remember(mixes, i))]

(* Each pass goes through the bytes in the order it takes them; every       *)
(* second one takes them from the end.                                     *)
Turned(bytes) == LET length == Len(bytes) IN [i \in 1..length |-> bytes[length + 1 - i]]
EncryptForth(mixed, left) == Low(Flipped(rollright(mixed, left)) + 72)
DecryptForth(b, left) == rollleft(Flipped(Low(b - 72)), left)
EncryptBack(mixed) == rollright(Xor8(mixed, 19), 3)
DecryptBack(b) == Xor8(rollleft(b, 3), 19)

Forth(bytes) ==
    LET length == Len(bytes)
        mixes == Mixes(3, bytes)
    IN  [i \in DOMAIN mixes |-> EncryptForth(mixes[i], datalen(length, i))]
Back(bytes) ==
    LET mixes == Mixes(4, bytes) IN [i \in DOMAIN mixes |-> EncryptBack(mixes[i])]
Unforth(bytes) ==
    LET length == Len(bytes)
    IN  Unmixes(3, length, [i \in 1..length |-> DecryptForth(bytes[i], datalen(length, i))])
Unback(bytes) ==
    LET length == Len(bytes) IN Unmixes(4, length, [i \in 1..length |-> DecryptBack(bytes[i])])

EncryptRound(bytes) == Turned(Back(Turned(Forth(bytes))))
DecryptRound(bytes) == Unforth(Turned(Unback(Turned(bytes))))
mapleencrypt(bytes) == EncryptRound(EncryptRound(EncryptRound(bytes)))
mapledecrypt(bytes) == DecryptRound(DecryptRound(DecryptRound(bytes)))

(* -- the stream ---------------------------------------------------------- *)
(* A stand-in for the block cipher applied n times to the repeated position. *)
Scrambled(iv, n, place) == Low(iv[1 + (place % 4)] * (2 * n + 1) + 31 * n + 7 * place)
updateiv(iv) == [i \in 1..4 |-> Low(5 * iv[i] + 3 * iv[1 + (i % 4)] + 11 * i)]
(* The block a byte is in starts the stream anew. *)
InBlock(x) == IF x < First THEN x ELSE (x - First) % Later
aesofb(bytes, iv) ==
    [i \in 1..Len(bytes) |->
       Xor8(bytes[i], Scrambled(iv, 1 + (InBlock(i - 1) \div Ring), InBlock(i - 1) % Ring))]

encrypt(bytes, iv) == aesofb(mapleencrypt(bytes), iv)
decrypt(bytes, iv) == mapledecrypt(aesofb(bytes, iv))
(* -- the header ---------------------------------------------------------- *)
create_header(length, iv) ==
    LET a == Xor16(256 * iv[4] + iv[3], Version)
        b == Xor16(a, length)
    IN <<Low(a), a \div 256, Low(b), Low(b \div 256)>>
check_length(h) == Xor16(h[1] + 256 * h[2], h[3] + 256 * h[4])

CipherTypeOK ==
    /\ sendiv \in [1..4 -> 0..255] /\ recviv \in [1..4 -> 0..255]
    /\ \A s \in {plain, wire.header, wire.body, opened} : s \in Seq(0..255)
    /\ sealed \in 0..MaxSealed
CipherInit ==
    /\ sendiv = <<82, 48, 120, 200>> /\ recviv = sendiv
    /\ plain = <<>> /\ wire = Idle /\ opened = <<>> /\ sealed = 0

Seal(bytes) ==
    /\ sealed' = sealed + 1
    /\ plain' = bytes
    /\ wire' = [header |-> create_header(Len(bytes), sendiv), body |-> encrypt(bytes, sendiv)]
    /\ sendiv' = updateiv(sendiv)
    /\ UNCHANGED <<recviv, opened>>
Unseal ==
    /\ wire # Idle /\ wire' = Idle
    /\ opened' = decrypt(SubSeq(wire.body, 1, check_length(wire.header)), recviv)
    /\ recviv' = updateiv(recviv)
    /\ UNCHANGED <<sendiv, plain, sealed>>

(* Bodies of every byte, and of every length tried; the next is one of three bytes. *)
Again == <<7, 0, 255>>
Sealable == {<<b>> : b \in 0..255} \cup {[i \in 1..n |-> Low(37 * i)] : n \in BodyLengths}
CipherNext ==
    \/ Unseal
    \/ wire = Idle /\ sealed < MaxSealed /\ \E b \in IF sealed = 0 THEN Sealable ELSE {Again} : Seal(b)

(* One connection by itself.                                               *)
CipherSpec == CipherInit /\ [][CipherNext]_cipherVars

(* The other end opens what was sealed, of whatever length (one byte of the *)
(* length goes into every pass, and it wraps), and is then at the position   *)
(* the next body is sealed at (crypto.rs, encrypt and decrypt).             *)
OpensWhatWasSealed ==
    /\ wire = Idle => opened = plain /\ sendiv = recviv
    /\ wire # Idle => check_length(wire.header) = Len(wire.body) /\ Len(wire.body) = Len(plain)
=============================================================================
