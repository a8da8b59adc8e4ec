\* Two accounts, one of them attached and removed while the console runs.
SPECIFICATION Spec
CONSTANTS
    Sessions = {a, b}
    Attached = {a}
    Autostart = {a}
    Keyed = {a, b}
    AutoRestart = TRUE
    BotOutcomes = {"Quit"}
    FrameGaps <- Steady
    MaxGen = 1
    Cap = 1
    MaxAttempts = 1
    BackoffSteps <- ShortBackoff
    StaleAfter = 4
INVARIANTS RemovedHasNoBot
PROPERTIES DoneMeansIdle ImplementsAccountSlot
CONSTRAINT NoRace
