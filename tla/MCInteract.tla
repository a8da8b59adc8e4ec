---------------------------- MODULE MCInteract ----------------------------
(* One run of a bot, and, apart from it, what a bot keeps about the people *)
(* and the things around it: the two share nothing, so that a behaviour is *)
(* about one of them and the other rests.                                  *)
EXTENDS Interact, BotRun

(* The two body slots of the gear of the run, as the program numbers them. *)
BodySlots == {-12, -13}

-----------------------------------------------------------------------------
InteractRests ==
    /\ LineInit /\ TradeInit /\ PartyInit /\ DialogInit /\ BagInit
    /\ party = Alone /\ focus = "run"
RunRests ==
    /\ pc = "Quit" /\ bot = NewBot /\ wire = [link |-> "none", asked |-> {}]
    /\ lists = {} /\ attempts = 0 /\ quitSent = FALSE
    /\ seen = [waited |-> 0, entered |-> FALSE, rushed |-> FALSE, early |-> FALSE,
               wanted |-> FALSE, touched |-> FALSE]

(* The one place where the system may stop.                                *)
RunIsOver == focus = "run" /\ pc \in Returned /\ UNCHANGED <<vars, runVars>>

MCInit == \/ Init /\ RunRests
          \/ InteractRests /\ RunInit
MCNext == \/ Next /\ UNCHANGED runVars
          \/ RunNext /\ UNCHANGED vars
          \/ RunIsOver
MCSpec == MCInit /\ [][MCNext]_<<vars, runVars>> /\ Fairness /\ RunFairness
=============================================================================
