---------------------------- MODULE AccountSlot -----------------------------
(***************************************************************************)
(* What the console promises about each account: it is logged in at most   *)
(* once at a time; once the user stops it, only the user logs it in again; *)
(* and between two interventions of the user it is logged in again by      *)
(* itself at most Budget times.                                            *)
(***************************************************************************)
EXTENDS Naturals

CONSTANTS Accounts, Budget

VARIABLES
    occupied,  \* accounts with a bot
    barred,    \* accounts the user has stopped
    spent      \* automatic restarts since the user intervened

slotVars == <<occupied, barred, spent>>

SlotInit == occupied = {} /\ barred = {} /\ spent = [a \in Accounts |-> 0]

(* An intervention may forgive the restarts spent.                          *)
Forgive(a) == spent' \in {spent, [spent EXCEPT ![a] = 0]}

(* The user logs the account in; a plain restart leaves the bar in place.   *)
Occupy(a) ==
    /\ a \notin occupied
    /\ occupied' = occupied \cup {a}
    /\ barred' \in {barred, barred \ {a}}
    /\ Forgive(a)

(* The console logs accounts in by itself.                                  *)
Reoccupy(A) ==
    /\ A \cap (occupied \cup barred) = {}
    /\ \A a \in A : spent[a] < Budget
    /\ occupied' = occupied \cup A
    /\ spent' = [a \in Accounts |-> IF a \in A THEN spent[a] + 1 ELSE spent[a]]
    /\ UNCHANGED barred

Release(a) == occupied' = occupied \ {a} /\ UNCHANGED <<barred, spent>>

Bar(a) == barred' = barred \cup {a} /\ Forgive(a) /\ UNCHANGED occupied

(* A restart key while nothing is to be restarted.                          *)
Pardon(a) == Forgive(a) /\ UNCHANGED <<occupied, barred>>

(* A profile that was removed is attached again.                            *)
Reattach(a) ==
    /\ a \notin occupied
    /\ barred' = barred \ {a}
    /\ spent' = [spent EXCEPT ![a] = 0]
    /\ UNCHANGED occupied

SlotNext == \/ \E a \in Accounts : Occupy(a) \/ Release(a) \/ Bar(a) \/ Pardon(a)
                                   \/ Reattach(a)
            \/ \E A \in SUBSET Accounts : Reoccupy(A)

SlotSpec == SlotInit /\ [][SlotNext]_slotVars
=============================================================================
