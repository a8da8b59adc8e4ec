------------------------------ MODULE MCSetup ------------------------------
EXTENDS Setup
AnyChain == {<<1>>, <<1, 2>>}
Says(keys) == [k \in keys |-> "more"]
Holds(inc, rules, hunt) == [state |-> "ok", include |-> inc, rules |-> rules, hunt |-> hunt]
Heal(says) == [id |-> "heal", says |-> says]
Flee(says) == [id |-> "flee", says |-> says]
On == [k \in {"enabled"} |-> "default"]
AnyContents ==
  <<{Holds(<<2>>, <<>>, Says({"enabled"})), Holds(<<3, 2>>, <<Heal(Says({"enabled"}))>>, Unsaid)},
    {Holds(<<3>>, <<Flee(On), Heal(Says({"at"})), Flee(Says({"at"}))>>, Unsaid), Holds(<<>>, <<>>, Says({"at"}))},
    {Holds(<<1>>, <<Heal(On)>>, Unsaid), Holds(<<>>, <<Heal([k \in {"enabled"} |-> "wrong"])>>, Unsaid)}>>
=============================================================================
