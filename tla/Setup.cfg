\* Two profiles and the old config.json; files 1 and 2 are the chain, 3 a library.
SPECIFICATION SetupSpec
CONSTANTS
    Files = 2
    MaxRuns = 2
    MaxResults = 2
    ConfigFiles = {1, 2, 3}
    Chains <- AnyChain
    RuleIds = {"heal", "flee"}
    Params = {"enabled", "at"}
    Settings = {"default", "more", "wrong"}
    Contents <- AnyContents
INVARIANTS ChoiceIsKept OwnLogin FilesAreHeeded
PROPERTIES RunIsFollowedUp
\* The program ends.
CHECK_DEADLOCK FALSE
