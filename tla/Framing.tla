------------------------------ MODULE Framing ------------------------------
(***************************************************************************)
(* A session (session.rs): one TCP stream, a cipher whose two positions    *)
(* advance with every packet, and the inbox in which packets are put       *)
(* together from whatever a read returns.  A byte is known by the packet   *)
(* it belongs to and its place in it: what matters is whether four bytes   *)
(* are the four of one header and whether a body meets the position it was *)
(* encrypted at, never its value (Cipher has the arithmetic).              *)
(***************************************************************************)
EXTENDS Naturals, Sequences

CONSTANTS
    Bodies,     \* packets of either side
    Size,       \* the length of a body, in bytes
    Redirects,  \* the ones on which the bot moves to another server
    Noise,      \* what decrypting at the wrong position leaves
    HeaderLen,  \* bytes of a header
    MaxSaid,    \* bound: packets of one side and connection
    MaxDials    \* bound: connections and attempts to make one

ASSUME FramingAssumption ==
    /\ Size \in [Bodies -> Nat \ {0}] /\ Redirects \subseteq Bodies /\ Noise \notin Bodies
    /\ HeaderLen \in Nat \ {0} /\ MaxSaid \in Nat /\ MaxDials \in Nat

VARIABLES
    step,       \* what the bot's loop is at: see Steps
    cipher,     \* [keyed, send, recv]: the key table and the positions in use
    inbox,      \* bytes read, not yet a packet
    said, sent, \* packets of the server on this connection; bytes of them under way
    heard,      \* packets the loop was handed on this connection
    asked,      \* packets given to `send` on this connection
    written,    \* bytes of them under way
    answered,   \* what the server made of those
    serverIv,   \* how many packets the server has decrypted
    open,       \* the stream is connected
    torn,       \* a reconnect failed and took half a packet with it
    dials

framing == <<step, cipher, inbox, said, sent, heard, asked, written, answered, serverIv, open, torn, dials>>

Steps == {"receiving", "sending", "moving", "closed"}

(* A packet on the stream: the iv it is encrypted at, and its bytes. *)
Bytes(iv, b) == [i \in 1..(HeaderLen + Size[b]) |-> [iv |-> iv, at |-> i, body |-> b]]
Header(iv, b) == SubSeq(Bytes(iv, b), 1, HeaderLen)
Payload(iv, b) == SubSeq(Bytes(iv, b), HeaderLen + 1, HeaderLen + Size[b])

(* The bytes start with a header that is one. *)
Aligned(bytes) ==
    /\ Len(bytes) >= HeaderLen
    /\ \A i \in 1..HeaderLen : bytes[i].at = i /\ bytes[i].iv = bytes[1].iv
(* The lengths a header may be read as: any, if it is not one. *)
HeaderLengths(bytes) ==
    IF Aligned(bytes) THEN {Size[bytes[1].body]}
    ELSE {n \in 0..Len(bytes) : Len(bytes) >= HeaderLen}
Complete(bytes) == {n \in HeaderLengths(bytes) : Len(bytes) >= HeaderLen + n}
Rest(bytes, n) == SubSeq(bytes, HeaderLen + n + 1, Len(bytes))
(* A body is read if key and position are the ones it was encrypted with. *)
Decrypted(bytes, keyed, iv) ==
    IF Aligned(bytes) /\ keyed /\ bytes[1].iv = iv THEN bytes[1].body ELSE Noise

Fresh == [keyed |-> TRUE, send |-> 0, recv |-> 0]
(* Slip: the new connection goes on with the standard key table. *)
HandshakeSlip == [Fresh EXCEPT !.keyed = FALSE]
(* The key table is applied again: the cipher of a handshake has the standard one. *)
Handshake == Fresh

FramingTypeOK ==
    /\ step \in Steps /\ cipher \in [keyed : BOOLEAN, send : 0..MaxSaid, recv : Nat]
    /\ \A q \in {said, asked} : q \in Seq(Bodies) /\ Len(q) <= MaxSaid
    /\ \A q \in {heard, answered} : q \in Seq(Bodies \cup {Noise})
    /\ serverIv \in 0..MaxSaid /\ open \in BOOLEAN /\ torn \in BOOLEAN /\ dials \in 0..MaxDials

FramingInit ==
    /\ step = "receiving" /\ cipher = Fresh /\ inbox = <<>>
    /\ said = <<>> /\ sent = <<>> /\ heard = <<>> /\ asked = <<>> /\ written = <<>> /\ answered = <<>>
    /\ serverIv = 0 /\ open = TRUE /\ torn = FALSE /\ dials = 0

(* -- the server ---------------------------------------------------------- *)
ServerSpeaks(b) ==
    /\ open /\ Len(said) < MaxSaid
    /\ said' = Append(said, b) /\ sent' = sent \o Bytes(Len(said), b)
    /\ UNCHANGED <<step, cipher, inbox, heard, asked, written, answered, serverIv, open, torn, dials>>
ServerReads ==
    /\ \E n \in Complete(written) :
         /\ answered' = Append(answered, Decrypted(written, TRUE, serverIv))
         /\ written' = Rest(written, n)
    /\ serverIv' = serverIv + 1
    /\ UNCHANGED <<step, cipher, inbox, said, sent, heard, asked, open, torn, dials>>
ServerCloses ==
    /\ open /\ open' = FALSE
    /\ UNCHANGED <<step, cipher, inbox, said, sent, heard, asked, written, answered, serverIv, torn, dials>>

(* -- recv_packet --------------------------------------------------------- *)
(* One read: any number of the bytes that have come.  The loop's select may *)
(* drop the call at this point for a command or a tick; the inbox stays.    *)
Read(n) ==
    /\ step = "receiving"
    /\ Complete(inbox) = {} \/ ~Aligned(inbox)
    /\ n \in 1..Len(sent)
    /\ inbox' = inbox \o SubSeq(sent, 1, n)
    /\ sent' = SubSeq(sent, n + 1, Len(sent))
    /\ UNCHANGED <<step, cipher, said, heard, asked, written, answered, serverIv, open, torn, dials>>
(* A packet is whole: it is cut out of the inbox, decrypted and handed over. *)
Receive ==
    /\ step = "receiving"
    /\ \E n \in Complete(inbox) :
         LET body == Decrypted(inbox, cipher.keyed, cipher.recv)
         IN /\ heard' = Append(heard, body)
            /\ step' = IF body \in Redirects THEN "moving" ELSE step
            /\ inbox' = Rest(inbox, n)
    /\ cipher' = [cipher EXCEPT !.recv = @ + 1]
    /\ UNCHANGED <<said, sent, asked, written, answered, serverIv, open, torn, dials>>
(* Nothing more comes from a stream that is closed. *)
EndOfStream ==
    /\ step = "receiving" /\ ~open /\ sent = <<>> /\ (Complete(inbox) = {} \/ ~Aligned(inbox))
    /\ step' = "closed"
    /\ UNCHANGED <<cipher, inbox, said, sent, heard, asked, written, answered, serverIv, open, torn, dials>>

(* -- send: the cipher advances, then two writes -------------------------- *)
SendHeader(b) ==
    /\ step = "receiving" /\ Len(asked) < MaxSaid
    /\ asked' = Append(asked, b)
    /\ cipher' = [cipher EXCEPT !.send = @ + 1]
    /\ IF open
       THEN /\ step' = "sending" /\ written' = written \o Header(cipher.send, b)
       ELSE UNCHANGED <<step, written>>
    /\ UNCHANGED <<inbox, said, sent, heard, answered, serverIv, open, torn, dials>>
SendBody ==
    /\ step = "sending"
    /\ step' = "receiving"
    /\ written' = IF open THEN written \o Payload(cipher.send - 1, asked[Len(asked)]) ELSE written
    /\ UNCHANGED <<cipher, inbox, said, sent, heard, asked, answered, serverIv, open, torn, dials>>

(* -- connect and reconnect ----------------------------------------------- *)
Connected ==
    /\ cipher' = Handshake /\ inbox' = <<>> /\ open' = TRUE /\ torn' = FALSE /\ step' = "receiving"
    /\ said' = <<>> /\ sent' = <<>> /\ heard' = <<>> /\ asked' = <<>> /\ written' = <<>>
    /\ answered' = <<>> /\ serverIv' = 0
Dial == dials < MaxDials /\ dials' = dials + 1
(* The run has ended and the next one makes a session of its own. *)
Connect == step = "closed" /\ Dial /\ Connected
Reconnect == step = "moving" /\ Dial /\ Connected
(* No connection, or one that closes before its handshake is read: the loop *)
(* logs the error and goes on with the old stream and the old cipher; the   *)
(* inbox is gone.                                                           *)
ReconnectFails ==
    /\ step = "moving" /\ Dial
    /\ inbox' = <<>> /\ step' = "receiving"
    /\ torn' = (torn \/ inbox # <<>>)
    /\ UNCHANGED <<cipher, said, sent, heard, asked, written, answered, serverIv, open>>

FramingNext ==
    \/ \E b \in Bodies : ServerSpeaks(b) \/ SendHeader(b)
    \/ ServerReads \/ ServerCloses
    \/ \E n \in 1..Len(sent) : Read(n)
    \/ Receive \/ EndOfStream \/ SendBody
    \/ Connect \/ Reconnect \/ ReconnectFails

(* What the bot and the server hear of each other is what the other said,   *)
(* in order, whatever pieces the reads return and whichever calls the loop  *)
(* drops (session.rs, send and recv_packet); only a reconnect that failed   *)
(* with bytes in the inbox breaks that, until the next connection.          *)
Channel == INSTANCE Pipe
ImplementsPipe == Channel!Spec
=============================================================================
