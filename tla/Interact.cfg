\* A queue of two, one peer, a character with two places; two maps, a user who
\* interferes, and a server that answers late, never, or drops.
SPECIFICATION MCSpec
CONSTANTS
    MaxQueue = 2
    Traders = {p}
    Nobody = nobody
    MaxGoods = 1
    MaxWindows = 3
    Me = me
    Others = {p}
    MaxParties = 2
    MaxPages = 2
    Gear = {g, h}
    Wares = {w}
    Body <- BodySlots
    Slots = 2
    MaxStack = 2
    MaxLoot = 1
    MaxOrders = 3
    Maps = {m1, m2}
    Interactive = TRUE
    Reconnect = TRUE
    ReconnectMax = 3
    HasDuration = TRUE
    MapTimeout = 1
    ShopTimeout = 2
INVARIANTS PeersAgree DialogSound BagSound RunTypeOK HuntSurvivesTrip NoTripWithoutMap
PROPERTIES TradeConcludes GivesUpInTime QuitEndsRun TripsMoveOn
