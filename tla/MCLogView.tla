----------------------------- MODULE MCLogView -----------------------------
(* Accounts are interchangeable; once logs are mixed up the properties say  *)
(* nothing, and the passing run stops there.                                *)
EXTENDS LogView, TLC, FiniteSetsExt

CONSTANTS
    MaxTotal,  \* bound: lines of attached sessions' bots and of the console
    MaxSilent  \* bound: the same, while no page was chosen and no note written

Interchangeable == Permutations(Profiles)
Lines == MapThenSumSet(LAMBDA p : emitted[p], Profiles) + notes
Silent == /\ notes = 0 /\ con.app.filter = Initial
          /\ \A p \in Profiles : chosen[p] = Initial
Kept == ~strayed /\ (Lines <= MaxTotal \/ (Silent /\ Lines <= MaxSilent))
=============================================================================
