------------------------------ MODULE Prompt ------------------------------
(***************************************************************************)
(* The input line of the console (on_input_key of app.rs): editing, the    *)
(* completion list, and the history one can walk through without losing    *)
(* what was being typed.                                                   *)
(***************************************************************************)
EXTENDS Naturals, Sequences, SequencesExt

CONSTANTS
    Lines,      \* what can stand on the line
    Refused,    \* those `npmenu` and `shop menu` do not understand
    Empty,      \* the empty line
    MaxHistory  \* lines that are remembered, 200 in the program
ASSUME PromptAssumption == Empty \notin Lines /\ Refused \subseteq Lines /\ MaxHistory \in Nat \ {0}

VARIABLES
    input,
    comp,      \* completions are offered
    history,   \* the last one is the latest
    hist,      \* how far back the line on the screen is; 0: it is not from there
    draft,     \* what was typed when the walk began
    typed      \* ghost: the line that was left for the history

promptVars == <<input, comp, history, hist, draft, typed>>

PromptTypeOK ==
    /\ input \in Lines \cup {Empty} /\ comp \in BOOLEAN
    /\ history \in BoundedSeq(Lines, MaxHistory) /\ hist \in 0..MaxHistory
    /\ draft \in Lines \cup {Empty} /\ typed \in Lines \cup {Empty}

PromptInit == input = Empty /\ comp = FALSE /\ history = <<>> /\ hist = 0 /\ draft = Empty /\ typed = Empty

-----------------------------------------------------------------------------
(* Which lines have completions is left open. *)
RefreshCompletion(line) == comp' \in IF line = Empty THEN {FALSE} ELSE BOOLEAN

(* A character, Backspace or Delete. *)
Edit ==
    /\ \E l \in Lines \cup {Empty} : input' = l /\ RefreshCompletion(l)
    /\ hist' = 0 /\ UNCHANGED <<history, draft, typed>>

(* Up, Down, Tab and BackTab while completions are offered, and the Tab     *)
(* that asks for them.                                                      *)
ApplyCompletion ==
    /\ comp \/ input # Empty
    /\ comp' = TRUE /\ input' \in Lines
    /\ UNCHANGED <<history, hist, draft, typed>>

Back(n) == history[Len(history) + 1 - n]
(* Slip: the draft is taken anew at each step. *)
HistoryUpSlip ==
    ~comp /\ history # <<>> /\
    LET n == IF hist = 0 THEN 1 ELSE IF hist < Len(history) THEN hist + 1 ELSE hist
    IN  /\ draft' = input /\ typed' = (IF hist = 0 THEN input ELSE typed)
        /\ hist' = n /\ input' = Back(n) /\ comp' = FALSE /\ UNCHANGED history
HistoryUp ==
    /\ ~comp /\ history # <<>>
    /\ IF hist = 0 THEN draft' = input /\ typed' = input /\ hist' = 1
       ELSE /\ hist' = IF hist < Len(history) THEN hist + 1 ELSE hist
            /\ UNCHANGED <<draft, typed>>
    /\ input' = Back(hist') /\ comp' = FALSE /\ UNCHANGED history
HistoryDown ==
    /\ ~comp /\ hist > 0 /\ hist' = hist - 1
    /\ IF hist = 1 THEN input' = draft /\ draft' = Empty ELSE input' = Back(hist') /\ UNCHANGED draft
    /\ UNCHANGED <<comp, history, typed>>

EscLine ==
    /\ IF comp THEN comp' = FALSE /\ UNCHANGED input ELSE input' = Empty /\ UNCHANGED comp
    /\ UNCHANGED <<history, hist, draft, typed>>

(* A line that repeats the last one is not kept twice. *)
PushHistory ==
    history' = IF history # <<>> /\ Last(history) = input THEN history
               ELSE LET h == Append(history, input) IN IF Len(h) > MaxHistory THEN Tail(h) ELSE h
ClearInput == input' = Empty /\ hist' = 0 /\ comp' = FALSE
(* Enter.  A switch that is not understood leaves the walk where it is.     *)
Enter ==
    /\ IF input = Empty THEN ClearInput /\ UNCHANGED history
       ELSE /\ PushHistory
            /\ IF input \in Refused THEN input' = Empty /\ UNCHANGED <<hist, comp>> ELSE ClearInput
    /\ UNCHANGED <<draft, typed>>

PromptNext == Edit \/ ApplyCompletion \/ HistoryUp \/ HistoryDown \/ EscLine \/ Enter

-----------------------------------------------------------------------------
(* A walk through the history never leaves it, and keeps the line it began  *)
(* with until it comes back to it, whatever is submitted, completed or      *)
(* cleared on the way.                                                      *)
DraftIsKept == hist <= Len(history) /\ (hist > 0 => draft = typed)
=============================================================================
