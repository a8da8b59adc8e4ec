------------------------------- MODULE Picker -------------------------------
(***************************************************************************)
(* The list of profiles at start-up (profile.rs): move, tick, create, copy, *)
(* delete, and Enter.  Ticks and the armed deletion are positions in a list *)
(* that gets shorter under them.  Positions start at 0 as in the code.     *)
(***************************************************************************)
EXTENDS Integers, Sequences, FiniteSets, SequencesExt

CONSTANT Files   \* profiles in profiles/; bound
ASSUME PickerAssumption == Files \in Nat \ {0}

Legacy == Files + 1   \* ./config.json, always the last of the list
New == Files + 2      \* a name that is not in the list
Names == 1..New

VARIABLE picker
(* ticked is history: the names with a tick, as the user sees them.        *)
Closed == [entries |-> <<>>, cursor |-> 0, marked |-> {}, input |-> "none", arm |-> -1,
           ticked |-> {}, picked |-> <<>>, open |-> FALSE]
Menus == [entries : UNION {[1..n -> 1..Legacy] : n \in 0..Legacy}, cursor : 0..Legacy, marked : SUBSET (0..Legacy),
          input : {"none", "new", "copy"}, arm : -1..Legacy, ticked : SUBSET (1..Legacy),
          picked : UNION {[1..n -> Names] : n \in 0..Legacy}, open : BOOLEAN]

InList(p) == p.cursor \in 0..Len(p.entries) - 1 \/ p.cursor = 0

(* The one list of the numbers of a finite set in ascending order.         *)
InOrder(S) == {f \in [1..Cardinality(S) -> S] : \A i, j \in DOMAIN f : i < j => f[i] < f[j]}

(* scan: the files by name, config.json behind them if there is one.       *)
Scans(have, legacy) ==
    {[Closed EXCEPT !.open = TRUE, !.entries = f \o (IF legacy THEN <<Legacy>> ELSE <<>>)] : f \in InOrder(have)}

Length == Len(picker.entries)
At(i) == picker.entries[i + 1]
Browsing == picker.open /\ picker.input = "none"

-----------------------------------------------------------------------------
Move ==
    /\ Browsing
    /\ \E d \in {1, Length - 1} :
           picker' = [picker EXCEPT !.arm = -1, !.cursor = IF Length = 0 THEN @ ELSE (@ + d) % Length]

(* Space on one entry; A on all of them, or on none if all are ticked.     *)
ToggleMark ==
    /\ Browsing /\ Length > 0
    /\ LET c == picker.cursor
           Toggle(S, x) == IF x \in S THEN S \ {x} ELSE S \cup {x}
       IN  picker' = [picker EXCEPT !.arm = -1, !.marked = Toggle(@, c), !.ticked = Toggle(@, At(c))]
ToggleMarkAll ==
    /\ Browsing
    /\ LET all == Cardinality(picker.marked) = Length
       IN  picker' = [picker EXCEPT !.arm = -1, !.marked = IF all THEN {} ELSE 0..Length - 1,
                                    !.ticked = IF all THEN {} ELSE ToSet(picker.entries)]

(* D, and D again on the same entry; the file may refuse to go.  The ticks  *)
(* behind the entry move up with it, the cursor stays in the list.         *)
(* Slip: the ticks stay where they are. *)
MarksWithoutSlip(c) == picker.marked \ {c}
MarksWithout(c) == {IF i > c THEN i - 1 ELSE i : i \in picker.marked \ {c}}
CursorWithout(c) == IF c < Length - 1 \/ c = 0 THEN c ELSE c - 1
Delete ==
    /\ Browsing /\ picker.cursor < Length /\ At(picker.cursor) # Legacy
    /\ LET c == picker.cursor
       IN  \/ picker.arm # c /\ picker' = [picker EXCEPT !.arm = c]
           \/ picker.arm = c /\ picker' = [picker EXCEPT !.arm = -1]
           \/ /\ picker.arm = c
              /\ picker' = [picker EXCEPT !.entries = RemoveAt(@, c + 1), !.arm = -1, !.ticked = @ \ {At(c)},
                                          !.marked = MarksWithout(c), !.cursor = CursorWithout(c)]

(* N and C ask for a name.  Esc leaves the question; Enter leaves it too,   *)
(* whether the name is bad, the disk refuses, or the new profile is taken.  *)
AskName ==
    /\ Browsing
    /\ \/ picker' = [picker EXCEPT !.arm = -1, !.input = "new"]
       \/ /\ picker.cursor < Length /\ picker' = [picker EXCEPT !.arm = -1, !.input = "copy"]
NameInput ==
    /\ picker.open /\ picker.input # "none"
    /\ \/ picker' = [picker EXCEPT !.input = "none"]
       \/ \E n \in Names \ {Legacy} :
              picker' = [picker EXCEPT !.input = "none", !.open = FALSE, !.picked = <<n>>,
                                       !.ticked = {}, !.marked = {}]

(* Enter: the ticked ones in the order of the list, else the one under the  *)
(* cursor.                                                                 *)
MarkedPaths == {[k \in DOMAIN f |-> At(f[k])] : f \in InOrder({i \in picker.marked : i < Length})}
Take ==
    /\ Browsing /\ picker.cursor < Length
    /\ \E paths \in IF picker.marked = {} THEN {<<At(picker.cursor)>>} ELSE MarkedPaths :
           picker' = IF paths = <<>> THEN [picker EXCEPT !.arm = -1]
                     ELSE [picker EXCEPT !.arm = -1, !.picked = paths, !.open = FALSE]
(* Esc, Ctrl+C: the program ends.                                          *)
Cancel == picker.open /\ picker' = Closed

PickerNext == Move \/ ToggleMark \/ ToggleMarkAll \/ Delete \/ AskName \/ NameInput \/ Take \/ Cancel

(* profile.rs:151: positions are kept right while the list changes: what is *)
(* taken in with Enter is what was ticked.                                 *)
TickedIsTaken ==
    ~picker.open /\ picker.ticked # {} =>
        ToSet(picker.picked) = picker.ticked /\ Len(picker.picked) = Cardinality(picker.ticked)
=============================================================================
