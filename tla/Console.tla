----------------------------- MODULE Console -----------------------------
(***************************************************************************)
(* The keys of the console and its input line.  The two share no state     *)
(* that the other reads, so that a behaviour is about one: `focus`.        *)
(***************************************************************************)
EXTENDS Keys, Prompt

VARIABLE focus   \* which of the two the behaviour is about

vars == <<keysVars, promptVars, focus>>

TypeOK == KeysTypeOK /\ PromptTypeOK

Init == /\ KeysInit /\ PromptInit /\ focus \in {"keys", "prompt"}
        /\ focus # "keys" => ~interactive

Pressing == focus = "keys" /\ KeysNext /\ UNCHANGED <<promptVars, focus>>
Typing   == focus = "prompt" /\ PromptNext /\ UNCHANGED <<keysVars, focus>>

Next == Pressing \/ Typing

Spec == Init /\ [][Next]_vars

-----------------------------------------------------------------------------
(* The copies of the console have their types, what a key sends goes to the *)
(* account the user was looking at, and Esc leads out of every pile of      *)
(* layers (app.rs, on_key, poll_events and sync_from_selected).             *)
KeysSound == TypeOK /\ SentToItsOwner /\ EscGetsOut
=============================================================================
