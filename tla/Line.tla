------------------------------- MODULE Line -------------------------------
(***************************************************************************)
(* A bot in game and its server, seen from what they say to each other.    *)
(* A command leaves packets (session.rs, send_packet); the server reads    *)
(* them later, in order; its answers wait in the bot's socket until the    *)
(* loop hands them to their handler (handlers/mod.rs, handle).  Both       *)
(* directions are first in, first out, and a lost connection loses what is *)
(* under way.  The bot is one task: a command and a handler are one step   *)
(* each, and their order is free.                                          *)
(***************************************************************************)
EXTENDS Naturals, Sequences

CONSTANT MaxQueue   \* bound: packets under way in one direction

ASSUME LineAssumption == MaxQueue \in Nat \ {0}

VARIABLES
    inbox,    \* sent by the server, not handled yet
    outbox,   \* sent by the bot, not read by the server yet
    online    \* the connection is up and the character in game

line == <<inbox, outbox, online>>

LineInit == inbox = <<>> /\ outbox = <<>> /\ online = TRUE

(* Nothing is under way: both sides have seen all of each other. *)
Quiet == online /\ inbox = <<>> /\ outbox = <<>>

(* The packet in front, if there is one. *)
First(queue) == {queue[i] : i \in (1..Len(queue)) \cap {1}}

SendPackets(packets) ==
    /\ online
    /\ Len(outbox) + Len(packets) <= MaxQueue
    /\ outbox' = outbox \o packets
    /\ UNCHANGED <<inbox, online>>

Handle(packet) ==
    /\ online /\ packet \in First(inbox)
    /\ inbox' = Tail(inbox)
    /\ UNCHANGED <<outbox, online>>

(* The server on its own, and on a packet of the bot. *)
Tell(packets) ==
    /\ online
    /\ Len(inbox) + Len(packets) <= MaxQueue
    /\ inbox' = inbox \o packets
    /\ UNCHANGED <<outbox, online>>
Answer(request, packets) ==
    /\ online /\ request \in First(outbox)
    /\ Len(inbox) + Len(packets) <= MaxQueue
    /\ outbox' = Tail(outbox) /\ inbox' = inbox \o packets
    /\ UNCHANGED online

Break == online /\ online' = FALSE /\ inbox' = <<>> /\ outbox' = <<>>
(* Back in game; `packets` is what the server pushes on entering. *)
Return(packets) ==
    /\ ~online /\ online' = TRUE
    /\ inbox' = packets /\ UNCHANGED outbox
=============================================================================
