-------------------------------- MODULE Wire --------------------------------
(***************************************************************************)
(* The bot and its server on one connection, at three depths: bytes on the *)
(* stream (Framing), what is done to one body (Cipher), and what is in it  *)
(* (Traffic).  A behaviour is about one of them: `focus`.                  *)
(***************************************************************************)
EXTENDS Framing, Cipher, Traffic

VARIABLE focus

vars == <<framing, cipherVars, traffic, focus>>

TypeOK == FramingTypeOK /\ CipherTypeOK /\ TrafficTypeOK

Init == FramingInit /\ CipherInit /\ TrafficInit /\ focus \in {"stream", "body", "packet"}

Streaming == focus = "stream" /\ FramingNext /\ UNCHANGED <<cipherVars, traffic, focus>>
Sealing == focus = "body" /\ CipherNext /\ UNCHANGED <<framing, traffic, focus>>
Talking == focus = "packet" /\ TrafficNext /\ UNCHANGED <<framing, cipherVars, focus>>

Next == Streaming \/ Sealing \/ Talking

Spec == Init /\ [][Next]_vars

-----------------------------------------------------------------------------
(* What travels has its type and is understood by whoever reads it          *)
(* (parsers/*.rs, packets/*.rs).                                            *)
SaysWhatItMeans == TypeOK /\ Meant
=============================================================================
