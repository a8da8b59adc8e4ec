SPECIFICATION Spec
CONSTANTS
    Mobs = {1}
    Drops = {1}
    Reactors = {r}
    Far = 2
    High = {0, 1}
    SpawnPortals = {0, 2}
    Landing = 1
    AttackRange = 0
    PickupRange = 0
    GatherStep = 1
    MaxTargets = 1
    TeleportDelay = 2
    AttackCooldown = 1
    StandDelay = 1
    RetryCooldown = 1
    GatherInterval = 0
    ReactorCooldown = 0
    WakeDelay = 0
    MaxDropTries = 3
    Settings = {{"hunt", "pickup", "mine", "skill"}, {"gather", "stand", "farm", "pickup"}}
    Switches = {"task"}
    MaxEvents = 2
INVARIANTS CombatInv
PROPERTIES ServerKnowsWhere WorkGoesOn
