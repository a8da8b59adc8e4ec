------------------------------- MODULE Party ------------------------------
(***************************************************************************)
(* The party (handlers/party.rs, the party commands of command/run.rs).    *)
(* The bot cannot accept an invitation, so it leads the parties it creates *)
(* and is a member of one only if it was before it connected.  `group` is  *)
(* the server's party; it is external.                                     *)
(***************************************************************************)
EXTENDS Line

CONSTANTS
    Me,            \* my_cid
    Others,        \* other characters
    MaxParties     \* bound: parties one after the other

ASSUME PartyAssumption == Me \notin Others /\ MaxParties \in Nat \ {0}

VARIABLES
    party,    \* the bot's Option<Party>
    group,    \* the server's party of the bot
    invited   \* those the server has shown an invitation

partyVars == <<party, group, invited>>

Alone == [id |-> 0]
People == Others \cup {Me}
Parties == [id : 1..MaxParties, members : SUBSET People, leader : People \cup {Alone}]

PartyTypeOK ==
    /\ party \in Parties \cup {Alone} /\ invited \subseteq Others
    /\ group.party \in Parties \cup {Alone} /\ group.count \in 0..MaxParties

(* Nobody is in a party, or the bot is a member of one, which op 7 told it. *)
PartyInit ==
    /\ invited = {}
    /\ \E p \in {Alone} \cup {[id |-> 1, members |-> {Me, l}, leader |-> l] : l \in Others} :
           party = p /\ group = [party |-> p, count |-> p.id]

-----------------------------------------------------------------------------
Synced(m) == [id |-> m.id, members |-> m.members, leader |-> m.leader]

(* Slip: the notice about ourselves is taken for one about a member. *)
HandlePartyOperationSlip(p, m) ==
    CASE m.op \in {"sync", "status"} -> Synced(m)
      [] m.op = "created"            -> IF p = Alone
                                        THEN [id |-> m.id, members |-> {}, leader |-> Alone]
                                        ELSE [p EXCEPT !.id = m.id]
      [] m.op = "change"             -> IF p = Alone THEN p
                                        ELSE [p EXCEPT !.members = @ \ {m.who}]
      [] m.op = "left"               -> Alone
      [] OTHER                       -> p

(* 8 created, 7 and 15 full, 12 change, 2 left; 4 and 16 are only logged.   *)
HandlePartyOperation(p, m) ==
    CASE m.op \in {"sync", "status"}       -> Synced(m)
      [] m.op = "created"                  -> IF p = Alone
                                              THEN [id |-> m.id, members |-> {}, leader |-> Alone]
                                              ELSE [p EXCEPT !.id = m.id]
      [] m.op = "change" /\ m.who = Me     -> Alone
      [] m.op = "change" /\ m.who # Me     -> IF p = Alone THEN p
                                              ELSE [p EXCEPT !.members = @ \ {m.who}]
      [] m.op = "left"                     -> Alone
      [] OTHER                             -> p

PartyMessage ==
    \E m \in First(inbox) :
        Handle(m) /\ party' = HandlePartyOperation(party, m) /\ UNCHANGED <<group, invited>>

-----------------------------------------------------------------------------
(* The party commands: none looks at the party but `kick`. *)
Asks(request) == SendPackets(<<request>>) /\ UNCHANGED <<group, invited>>

Create == Asks([op |-> "create"]) /\ UNCHANGED party
InvitePlayer(p) == Asks([op |-> "invite", who |-> p]) /\ UNCHANGED party

Leave == Asks([op |-> "leave"]) /\ party' = Alone

(* By name among the members, else among the players on the map. *)
Kick(p) == Asks([op |-> "expel", who |-> p]) /\ UNCHANGED party

-----------------------------------------------------------------------------
(* The server and the other players. *)
Leads == group.party # Alone /\ group.party.leader = Me
Now(p) == group' = [group EXCEPT !.party = p]
Whole(op, p) == [op |-> op, id |-> p.id, members |-> p.members, leader |-> p.leader]
Without(p, who) == [p EXCEPT !.members = @ \ {who}]

Granted(r) ==
    CASE r.op = "create" -> group.party = Alone /\ group.count < MaxParties
      [] r.op = "invite" -> Leads
      [] r.op = "leave"  -> group.party # Alone
      [] r.op = "expel"  -> Leads /\ r.who \in group.party.members

ServerServes ==
    \E r \in First(outbox) :
        /\ UNCHANGED party
        /\ \/ ~Granted(r) /\ Answer(r, <<>>) /\ UNCHANGED <<group, invited>>
           \/ /\ Granted(r)
              /\ \/ /\ r.op = "create"
                    /\ group' = [party |-> [id |-> group.count + 1, members |-> {Me}, leader |-> Me],
                                 count |-> group.count + 1]
                    /\ invited' = {} /\ Answer(r, <<[op |-> "created", id |-> group.count + 1]>>)
                 \/ /\ r.op = "invite" /\ r.who \notin group.party.members
                    /\ invited' = invited \cup {r.who}
                    /\ Answer(r, <<>>) /\ UNCHANGED group
                 \/ /\ r.op = "invite" /\ r.who \in group.party.members
                    /\ Answer(r, <<[op |-> "invite failed"]>>) /\ UNCHANGED <<group, invited>>
                 \/ /\ r.op = "leave" /\ Now(Alone) /\ invited' = {}
                    /\ \E m \in {[op |-> "left"], [op |-> "change", who |-> Me]} : Answer(r, <<m>>)
                 \/ /\ r.op = "expel" /\ Now(Without(group.party, r.who)) /\ UNCHANGED invited
                    /\ Answer(r, <<[op |-> "change", who |-> r.who]>>)

OthersAct ==
    /\ UNCHANGED party
    /\ \/ \E p \in invited, q \in {group.party} :     \* accepts the invitation
             LET more == [q EXCEPT !.members = @ \cup {p}] IN
             /\ q # Alone /\ Now(more) /\ invited' = invited \ {p}
             /\ Tell(<<Whole("sync", more)>>)
       \/ \E p \in Others, q \in {group.party} :      \* a member leaves
             /\ q # Alone /\ p \in q.members /\ p # q.leader
             /\ Now(Without(q, p)) /\ UNCHANGED invited
             /\ Tell(<<[op |-> "change", who |-> p]>>)
       \/ /\ group.party # Alone /\ ~Leads            \* the leader expels us or disbands
          /\ Now(Alone) /\ UNCHANGED invited
          /\ Tell(<<[op |-> "change", who |-> Me]>>)
       \/ /\ group.party # Alone                      \* pushed on entering a map
          /\ Tell(<<Whole("status", group.party)>>) /\ UNCHANGED <<group, invited>>
       \/ Tell(<<[op |-> "invitation"]>>) /\ UNCHANGED <<group, invited>>

(* The party outlives the connection; what the bot knows of it does not     *)
(* (runtime.rs, reset_session), and the server tells it again on entering.  *)
PartyBreaks == Break /\ party' = Alone /\ UNCHANGED <<group, invited>>
OthersActWhileAway ==
    /\ ~online /\ UNCHANGED <<line, party, invited>>
    /\ \/ group.party # Alone /\ ~Leads /\ Now(Alone)
       \/ \E p \in Others, q \in {group.party} :
             q # Alone /\ p \in q.members /\ p # q.leader /\ Now(Without(q, p))
PartyReturns ==
    /\ Return(IF group.party = Alone THEN <<>> ELSE <<Whole("status", group.party)>>)
    /\ UNCHANGED partyVars

PartyNext ==
    \/ PartyMessage \/ ServerServes \/ OthersAct \/ PartyBreaks \/ PartyReturns
    \/ OthersActWhileAway \/ Create \/ Leave
    \/ \E p \in Others : InvitePlayer(p) \/ Kick(p)

-----------------------------------------------------------------------------
(* Once everything is said, the bot is in the party the server has it in,   *)
(* with the same companions: leaving is assumed before it is confirmed,     *)
(* while changes to the party are still coming (run.rs:943, party.rs:80).   *)
PartiesAgree ==
    Quiet => /\ party.id = group.party.id
             /\ party # Alone => party.members \ {Me} = group.party.members \ {Me}
=============================================================================
