------------------------------ MODULE Traffic ------------------------------
(***************************************************************************)
(* One body of either direction at a time, read by its receiver: whole, or *)
(* cut short somewhere, as a server of another version would send it.      *)
(***************************************************************************)
EXTENDS BotPackets

CONSTANTS
    Before,       \* what the bot knows when a packet comes
    MaxTargetsTried, MaxHitsTried   \* bounds: sizes of an attack
(* What is known is a record, and the skills in it are a map.                *)
ASSUME TrafficAssumption ==
    /\ "skills" \in DOMAIN Before /\ Before = [f \in DOMAIN Before |-> Before[f]]
    /\ Before.skills = [s \in DOMAIN Before.skills |-> Before.skills[s]]

VARIABLES
    turn,     \* "waiting", or "delivered", or whose body has been read: "bot", "server", "attack"
    name,     \* which one
    cut,      \* how many of its bytes came
    known,    \* what the bot knows
    stuck     \* its handler never came back

traffic == <<turn, name, cut, known, stuck>>

TrafficTypeOK ==
    /\ turn \in {"waiting", "delivered", "bot", "server", "attack"} /\ stuck \in BOOLEAN /\ cut \in Nat
    /\ DOMAIN known = DOMAIN Before /\ DOMAIN known.self = DOMAIN Before.self

Says0 == Packets(Before)
TrafficInit ==
    /\ turn = "waiting" /\ name = "" /\ cut = 0 /\ known = Before /\ stuck = FALSE

(* Of a body of the server the first n bytes come. *)
Deliver(p, n) ==
    /\ turn' = "delivered" /\ name' = p /\ cut' = n
    /\ UNCHANGED <<known, stuck>>
Learn(done) == known' = done.known /\ stuck' = done.c.stuck
Handle ==
    /\ turn = "delivered" /\ turn' = "bot"
    /\ Learn(Handled(Says0[name].op, SubSeq(Says0[name].bytes, 1, cut), known))
    /\ UNCHANGED <<name, cut>>
(* The server reads a request, or an attack on so many targets. *)
Ask(r) ==
    /\ turn' = "server" /\ name' = r /\ cut' = Len(r.bytes)
    /\ UNCHANGED <<known, stuck>>
Targets(n, h) == [i \in 1..n |-> [oid |-> 100 + i, hits |-> [j \in 1..h |-> 1000 * i + j]]]
Attack(n, h) ==
    /\ turn' = "attack" /\ name' = <<n, h>>
    /\ cut' = Len(skill_attack(1001005, h, Targets(n, h), 5, 6, 0))
    /\ UNCHANGED <<known, stuck>>

TrafficNext ==
    \/ /\ turn = "waiting"
       /\ \/ \E p \in DOMAIN Says0 : \E n \in 0..Len(Says0[p].bytes) : Deliver(p, n)
          \/ \E r \in Requests : Ask(r)
          \/ \E n \in 0..MaxTargetsTried, h \in 0..MaxHitsTried : Attack(n, h)
    \/ Handle

(* A body that came whole leaves the bot knowing what the server meant, in   *)
(* every shape a parser can meet (parsers/*.rs), and a body the bot sends is *)
(* used up by its reader and means what was asked: also an attack on more    *)
(* targets or hits than its nibbles hold (packets/*.rs).                     *)
Meant ==
    /\ turn = "bot" /\ cut = Len(Says0[name].bytes) => ~stuck /\ known = Says0[name].means
    /\ turn = "server" => Understood(name)
    /\ turn = "attack" =>
         LET read == AttackUnderstood(skill_attack(1001005, name[2], Targets(name[1], name[2]), 5, 6, 0))
             aimed == [i \in 1..Within(name[1], 0, MaxTargets) |-> Targets(name[1], Within(name[2], 0, 15))[i]]
         IN read.whole /\ (name[2] > 0 => read.targets = aimed)

(* The packets whose handlers look at `failed` before they believe what is   *)
(* in them.                                                                  *)
Careful == {"landed", "gained", "donned", "shop", "skills", "keymap", "reactor", "broken",
            "party", "whisper", "chat", "yellow", "notice", "offer"}
(* What the bot knows after the whole body, and after one it refuses: a list *)
(* of the cash shop that cannot be read is an empty one, and a SET_FIELD     *)
(* whose character cannot be read has changed the channel (to 1, if not even *)
(* that came) and, once it is known to name a character, left the map.       *)
Heard(p) == Handled(Says0[p].op, Says0[p].bytes, Before).known
ToldChannel(p) == Value(Take(Reader(Says0[p].bytes), <<Get(4)>>), 1) + 1
On(channel) == [Before EXCEPT !.channel = channel]
Refused(p) ==
    CASE p = "shop" -> {[Before EXCEPT !.sale = <<>>]}
      [] p = "landed" -> {On(1), On(ToldChannel(p)), Arrived(On(ToldChannel(p)))}
      [] OTHER -> {Before}

(* A body that ends early is refused or means what the whole one does: no    *)
(* half of a character, an item, a key table or a sentence is believed,      *)
(* wherever it ends and however many reads later the handler asks            *)
(* (packet.rs, `failed`).                                                    *)
HalvesAreRefused ==
    turn = "bot" /\ name \in Careful => known \in Refused(name) \cup {Heard(name)}
=============================================================================
