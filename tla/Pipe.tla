-------------------------------- MODULE Pipe --------------------------------
(***************************************************************************)
(* What a connection promises its two ends: each hears what the other      *)
(* said, in order, nothing twice, nothing made up.  A new connection       *)
(* starts empty.  A pipe that is torn promises nothing more to the bot     *)
(* until the next connection.                                              *)
(***************************************************************************)
EXTENDS Sequences, Naturals

CONSTANTS Bodies, Noise

VARIABLES
    said, heard,       \* by the server, by the bot: packets of this connection
    asked, answered,   \* by the bot, read by the server
    torn

pipe == <<said, heard, asked, answered, torn>>

Init == said = <<>> /\ heard = <<>> /\ asked = <<>> /\ answered = <<>> /\ torn = FALSE

Speak(b) == said' = Append(said, b) /\ UNCHANGED <<heard, asked, answered, torn>>
Hear ==
    /\ Len(heard) < Len(said) \/ torn
    /\ \E b \in Bodies \cup {Noise} :
         /\ torn \/ b = said[Len(heard) + 1]
         /\ heard' = Append(heard, b)
    /\ UNCHANGED <<said, asked, answered, torn>>
Ask(b) == asked' = Append(asked, b) /\ UNCHANGED <<said, heard, answered, torn>>
Answer ==
    /\ Len(answered) < Len(asked)
    /\ answered' = Append(answered, asked[Len(answered) + 1])
    /\ UNCHANGED <<said, heard, asked, torn>>
Tear == torn' = TRUE /\ UNCHANGED <<said, heard, asked, answered>>
Renew == said' = <<>> /\ heard' = <<>> /\ asked' = <<>> /\ answered' = <<>> /\ torn' = FALSE

Next ==
    \/ \E b \in Bodies : Speak(b) \/ Ask(b)
    \/ Hear \/ Answer \/ Tear \/ Renew

Spec == Init /\ [][Next]_pipe
=============================================================================
