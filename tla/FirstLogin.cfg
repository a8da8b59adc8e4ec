\* The same: two profiles and the old config.json; files 1 and 2 are the chain, 3 a library.
SPECIFICATION SetupSpec
CONSTANTS
    Files = 2
    MaxRuns = 2
    MaxResults = 2
    ConfigFiles = {1, 2, 3}
    Chains <- AnyChain
    RuleIds = {"heal", "flee"}
    Params = {"enabled", "at"}
    Settings = {"default", "more", "wrong"}
    Contents <- AnyContents
INVARIANT FirstLoginAsAsked
\* The program ends.
CHECK_DEADLOCK FALSE
