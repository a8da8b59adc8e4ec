------------------------------ MODULE LogView ------------------------------
(***************************************************************************)
(* The logs of the accounts and the one on screen                          *)
(* (crates/console/src/{app,sessions,session}.rs, console-lib's logbuf and *)
(* eventq).                                                                *)
(*                                                                         *)
(* Every session has a queue its bot emits into, and a log; the log of the *)
(* selected session is swapped to the screen, and `synced` remembers, by   *)
(* index, whose it is.  The render thread does everything but emit, so     *)
(* each key and each frame is one action.                                  *)
(***************************************************************************)
EXTENDS Naturals, Sequences, FiniteSets

CONSTANTS
    Profiles,
    Filters,      \* log pages
    LogCap,       \* MAX_LINES
    QueueCap,     \* EVENT_QUEUE_CAP
    MaxEmitted,   \* bound: lines a bot emits in the life of its session
    MaxNotes      \* bound: lines the console writes about sessions

Nobody == "nobody"   \* no account, or no state

ASSUME LogAssumption == /\ Nobody \notin Profiles /\ Filters # {}
                        /\ LogCap \in Nat \ {0} /\ QueueCap \in Nat \ {0}
                        /\ MaxEmitted \in Nat /\ MaxNotes \in Nat

Initial == CHOOSE f \in Filters : TRUE   \* Filter::All

VARIABLES
    con,       \* the console: App and its SessionSet, see Console
    running,   \* profiles whose bot runs
    emitted,   \* lines each bot has emitted since its session was added
    notes,     \* lines the console has written about sessions
    chosen,    \* history: the page the user last chose for each account
    strayed    \* history: logs are mixed up, see Shows and Displaces

vars == <<con, running, emitted, notes, chosen, strayed>>

-----------------------------------------------------------------------------
Line == [of : Profiles \cup {Nobody}, kind : {"bot", "note"}, n : Nat]

BotSession == [log : Seq(Line), queue : Seq(Line), lost : Nat, dropped : Nat, filter : Filters]
NewSession == [log |-> <<>>, queue |-> <<>>, lost |-> 0, dropped |-> 0, filter |-> Initial]

(* owner: whose queue, state and command channel the App has cloned; snap:  *)
(* whose state the panel shows.                                             *)
App == [log : Seq(Line), filter : Filters, dropped : Nat,
        owner : Profiles \cup {Nobody}, snap : Profiles \cup {Nobody}]

Console == [order : Seq(Profiles), selected : Nat, synced : Nat, pending : Seq(Line),
            ses : [Profiles -> BotSession], app : App]

Nth(c, i) == IF i \in DOMAIN c.order THEN {c.order[i]} ELSE {}
Selected(c) == c.order[c.selected]
Attached(c) == {c.order[i] : i \in DOMAIN c.order}

Push(buf, lines) ==
    LET all == buf \o lines
    IN  SubSeq(all, IF Len(all) > LogCap THEN Len(all) - LogCap + 1 ELSE 1, Len(all))

-----------------------------------------------------------------------------
Emits(s, line) ==
    IF Len(s.queue) >= QueueCap
    THEN [s EXCEPT !.queue = Append(Tail(@), line), !.lost = @ + 1]
    ELSE [s EXCEPT !.queue = Append(@, line)]

(* Slip: what the selected session emitted goes to the log in its session. *)
DrainAllSlip(c) ==
    [c EXCEPT !.ses = [p \in Profiles |->
                          IF p \notin Attached(c) THEN c.ses[p]
                          ELSE [c.ses[p] EXCEPT !.log = Push(@, c.ses[p].queue), !.queue = <<>>,
                                                !.dropped = c.ses[p].lost]],
              !.app.log = Push(@, c.pending), !.pending = <<>>]

(* drain_all and the flush of render_pending into the log on screen.        *)
DrainAll(c) ==
    [c EXCEPT !.ses = [p \in Profiles |->
                          IF p \notin Attached(c) THEN c.ses[p]
                          ELSE [c.ses[p] EXCEPT
                                  !.log = IF p = Selected(c) THEN @ ELSE Push(@, c.ses[p].queue),
                                  !.queue = <<>>, !.dropped = c.ses[p].lost]],
              !.app.log = Push(@, c.pending \o (IF c.order = <<>> THEN <<>>
                                                ELSE c.ses[Selected(c)].queue)),
              !.pending = <<>>]

NoteAt(c, p, line) ==
    IF p = Selected(c) THEN [c EXCEPT !.pending = Append(@, line)]
    ELSE [c EXCEPT !.ses[p].log = Push(@, <<line>>)]

(* What the console answers on the screen.                                  *)
Say(c) == [c EXCEPT !.app.log = Push(@, <<[of |-> Nobody, kind |-> "note", n |-> 0]>>)]

(* LogBuf::swap between the screen and the session at this index, if any.   *)
Swap(c, i) ==
    [c EXCEPT !.ses = [p \in Profiles |->
                          IF p \in Nth(c, i) THEN [c.ses[p] EXCEPT !.log = c.app.log] ELSE c.ses[p]],
              !.app.log = IF i \in DOMAIN c.order THEN c.ses[c.order[i]].log ELSE @]

WriteBack(c) ==
    [c EXCEPT !.ses = [p \in Profiles |->
                          IF p \in Nth(c, c.synced) THEN [c.ses[p] EXCEPT !.filter = c.app.filter]
                          ELSE c.ses[p]]]

(* Slip: one swap, with the session that comes. *)
RotateSlip(c) == IF c.synced = c.selected THEN c ELSE Swap(c, c.selected)

Rotate(c) == IF c.synced = c.selected THEN c ELSE Swap(Swap(c, c.synced), c.selected)

(* The clones and copies of the session now on screen; the panel shows its  *)
(* state, or nothing if the session is new and its state is locked.         *)
View(c, free) ==
    LET p == Selected(c)
    IN  [c EXCEPT !.synced = c.selected,
                  !.app.owner = p, !.app.filter = c.ses[p].filter, !.app.dropped = c.ses[p].dropped,
                  !.app.snap = IF c.synced = c.selected THEN @ ELSE IF free THEN p ELSE Nobody]

SyncFromSelected(c, free) ==
    LET d == Rotate(WriteBack(c))
    IN  IF c.order = <<>> THEN d ELSE View(d, free)

(* sessions.remove clamps the selection; then the log on screen is given    *)
(* back by the index it had before.                                         *)
Remove(c, i) ==
    LET left == [j \in 1..Len(c.order) - 1 |-> c.order[IF j < i THEN j ELSE j + 1]]
        d == [c EXCEPT !.order = left, !.ses[c.order[i]] = NewSession,
                       !.selected = IF @ > Len(left) /\ left # <<>> THEN Len(left) ELSE @]
    IN  Say([Swap(d, c.synced) EXCEPT !.synced = 0])

-----------------------------------------------------------------------------
Shows(d) ==
    /\ con' = d
    /\ strayed' = (strayed \/ (con.pending # <<>> /\ Selected(d) # Selected(con)))

(* Removing the i-th session puts logs where they do not belong: it stands  *)
(* at or before the one on screen and is not the last; or it is the one on  *)
(* screen, and a note about it waits for the next frame; or a page chosen   *)
(* since the last frame has not been written back.                          *)
Displaces(i) ==
    \/ i <= con.synced /\ i < Len(con.order)
    \/ i = con.selected /\ con.pending # <<>>
    \/ con.app.filter # con.ses[Selected(con)].filter

Init ==
    /\ \E p \in Profiles :
          con = SyncFromSelected(
                    [order |-> <<p>>, selected |-> 1, synced |-> 0, pending |-> <<>>,
                     ses |-> [q \in Profiles |-> NewSession],
                     app |-> [log |-> <<>>, filter |-> Initial, dropped |-> 0,
                              owner |-> p, snap |-> Nobody]], TRUE)
    /\ running = {} /\ notes = 0 /\ strayed = FALSE
    /\ emitted = [p \in Profiles |-> 0]
    /\ chosen = [p \in Profiles |-> Initial]

(* A bot emits; it ends by itself.                                          *)
Emit(p) ==
    /\ p \in running /\ emitted[p] < MaxEmitted
    /\ emitted' = [emitted EXCEPT ![p] = @ + 1]
    /\ con' = [con EXCEPT !.ses[p] = Emits(@, [of |-> p, kind |-> "bot", n |-> emitted'[p]])]
    /\ UNCHANGED <<running, notes, chosen, strayed>>

BotEnds(p) ==
    /\ p \in running /\ running' = running \ {p}
    /\ UNCHANGED <<con, emitted, notes, chosen, strayed>>

NewNote(p) == [of |-> p, kind |-> "note", n |-> notes + 1]

(* poll_events: drain, the notes of drive_restarts about at most one        *)
(* session, which it may have started again, sync, refresh of the panel.    *)
Poll(c, free, again) ==
    LET d == SyncFromSelected(c, free)
    IN  IF again THEN [d EXCEPT !.app.snap = d.app.owner] ELSE d

Frame(free, again) ==
    /\ con' = Poll(DrainAll(con), free, again)
    /\ UNCHANGED <<running, emitted, notes, chosen, strayed>>

FrameNotes(p, respawned, free, again) ==
    /\ p \in Attached(con) \ running /\ notes < MaxNotes
    /\ con' = Poll(NoteAt(DrainAll(con), p, NewNote(p)), free, again)
    /\ notes' = notes + 1
    /\ running' = IF respawned THEN running \cup {p} ELSE running
    /\ UNCHANGED <<emitted, chosen, strayed>>

(* F3, or the wizard: a note about the selected session.                    *)
NoteKey ==
    /\ con.order # <<>> /\ notes < MaxNotes
    /\ con' = NoteAt(con, Selected(con), NewNote(Selected(con)))
    /\ notes' = notes + 1
    /\ UNCHANGED <<running, emitted, chosen, strayed>>

(* start or stop of the selected session.                                   *)
Builtin(free) ==
    /\ con.order # <<>>
    /\ con' = Say(SyncFromSelected(con, free))
    /\ running' = IF Selected(con) \in running THEN running \ {Selected(con)}
                  ELSE running \cup {Selected(con)}
    /\ UNCHANGED <<emitted, notes, chosen, strayed>>

(* Alt+Up, Alt+Down.                                                        *)
SelectMove(d, free) ==
    /\ Len(con.order) > 1
    /\ LET n == Len(con.order)
       IN  Shows(SyncFromSelected([con EXCEPT !.selected = ((@ - 1 + d) % n) + 1], free))
    /\ UNCHANGED <<running, emitted, notes, chosen>>

(* Tab: the next page.                                                      *)
SetFilter(f) ==
    /\ con.order # <<>> /\ f # con.app.filter
    /\ con' = [con EXCEPT !.app.filter = f]
    /\ chosen' = IF con.synced = 0 THEN chosen ELSE [chosen EXCEPT ![Selected(con)] = f]
    /\ UNCHANGED <<running, emitted, notes, strayed>>

Clear ==
    /\ con' = Say([con EXCEPT !.app.log = <<>>])
    /\ UNCHANGED <<running, emitted, notes, chosen, strayed>>

AddProfile(p) ==
    /\ p \notin Attached(con)
    /\ con' = Say([con EXCEPT !.order = Append(@, p), !.ses[p] = NewSession])
    /\ emitted' = [emitted EXCEPT ![p] = 0] /\ chosen' = [chosen EXCEPT ![p] = Initial]
    /\ UNCHANGED <<running, notes, strayed>>

(* Only a session that has settled.                                         *)
RemoveProfile(i, free) ==
    /\ i \in DOMAIN con.order /\ con.order[i] \notin running
    /\ con' = SyncFromSelected(Remove(con, i), free)
    /\ strayed' = (strayed \/ Displaces(i))
    /\ emitted' = [emitted EXCEPT ![con.order[i]] = 0]
    /\ UNCHANGED <<running, notes, chosen>>

Next ==
    \/ \E p \in Profiles : Emit(p) \/ BotEnds(p) \/ AddProfile(p)
    \/ \E f \in Filters : SetFilter(f)
    \/ NoteKey \/ Clear
    \/ \E free \in BOOLEAN :
          \/ \E again \in BOOLEAN :
                \/ Frame(free, again)
                \/ \E p \in Profiles, respawned \in BOOLEAN : FrameNotes(p, respawned, free, again)
          \/ Builtin(free)
          \/ SelectMove(1, free) \/ SelectMove(Len(con.order) - 1, free)
          \/ \E i \in 1..Cardinality(Profiles) : RemoveProfile(i, free)

Spec == Init /\ [][Next]_vars
-----------------------------------------------------------------------------
(* Properties.                                                              *)

LogOf(c, p) == IF p \in Nth(c, c.synced) THEN c.app.log ELSE c.ses[p].log

(* The fields of the console, its buffers within their bounds, and an       *)
(* account attached once.                                                   *)
TypeOK ==
    /\ con \in Console /\ running \subseteq Attached(con)
    /\ emitted \in [Profiles -> 0..MaxEmitted] /\ notes \in 0..MaxNotes
    /\ chosen \in [Profiles -> Filters] /\ strayed \in BOOLEAN
    /\ Cardinality(Attached(con)) = Len(con.order)
    /\ \A p \in Profiles : Len(con.ses[p].log) <= LogCap /\ Len(con.ses[p].queue) <= QueueCap

(* Whatever is switched, noted and added, an account's log holds no line of *)
(* another (the two swaps of sync_from_selected, render_pending).  So it is *)
(* after a removal, but for those of Displaces: there the log on screen is  *)
(* given back by an index that has already moved (app.rs:1934), and two     *)
(* logs are mixed up, against the comment at app.rs:1927-1933.  The same    *)
(* holds after a switch in front of a pending note (Shows).                 *)
OwnLines ==
    ~strayed => \A p \in Attached(con), q \in Profiles :
                    \A i \in DOMAIN LogOf(con, p) : LogOf(con, p)[i].of = q => q = p

(* What p's bot said among some lines, its numbers, and the holes between   *)
(* them up to the last number e.                                            *)
Said(p, lines) == {i \in DOMAIN lines : lines[i].of = p /\ lines[i].kind = "bot"}
Numbers(p, lines) == {lines[i].n : i \in Said(p, lines)}
Rising(p, lines) == \A i, j \in Said(p, lines) : i < j => lines[i].n < lines[j].n
Holes(N, e) == {n \in 1..e : n \notin N /\ \E m \in N : m < n}

(* Nothing a bot says goes missing unnoticed: what its log and queue hold   *)
(* is in the order of emission, the last line included, and the holes in    *)
(* it are no more than the session has counted as lost.                     *)
HolesAreCounted ==
    ~strayed => \A p \in Attached(con) :
        LET lines == LogOf(con, p) \o con.ses[p].queue
            N == Numbers(p, lines)
        IN  /\ Rising(p, lines) /\ N \subseteq 1..emitted[p] /\ (N # {} => emitted[p] \in N)
            /\ Cardinality(Holes(N, emitted[p])) <= con.ses[p].lost

(* The panel shows the selected account or nothing, a typed command goes to *)
(* the selected account, and its log is on the page last chosen for it.     *)
ScreenIsSelected ==
    con.order # <<>> /\ con.synced # 0 =>
        /\ con.app.owner = Selected(con) /\ con.app.snap \in {Selected(con), Nobody}
        /\ ~strayed => con.app.filter = chosen[Selected(con)]

(* All of it together: an account's log, its queue and the screen belong to *)
(* it and to no other, through every switch, note and addition, and every   *)
(* removal that is none of Displaces.                                       *)
LogsAreKept == TypeOK /\ OwnLines /\ HolesAreCounted /\ ScreenIsSelected

(* Switching accounts changes no account's log.                             *)
SwitchKeepsLogs ==
    [][con'.order = con.order /\ con'.selected # con.selected
          => \A p \in Attached(con) : LogOf(con', p) = LogOf(con, p)]_vars
=============================================================================
