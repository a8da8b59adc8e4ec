\* One account, started by the program, with every key the user has; the clock
\* of the backoff advances with every frame.
SPECIFICATION FairSpec
CONSTANTS
    Sessions = {a}
    Attached = {a}
    Autostart = {a}
    Keyed = {}
    AutoRestart = TRUE
    BotOutcomes <- Returned
    FrameGaps <- Uneven
    MaxGen = 3
    Cap = 1
    MaxAttempts = 2
    BackoffSteps <- SlowBackoff
    StaleAfter = 4
INVARIANTS ConsoleInv AtMostOneBot OutcomeReadable RestartBudget
PROPERTIES NoRestartAfterStop RestartsAreDue CrashIsRestarted QuitEndsBot QuietEndsProgram
CONSTRAINT NoRace
