\* A start key before the main thread has launched the session.
SPECIFICATION Spec
CONSTANTS
    Sessions = {a}
    Attached = {a}
    Autostart = {a}
    Keyed = {a}
    AutoRestart = TRUE
    BotOutcomes <- Returned
    FrameGaps <- Steady
    MaxGen = 2
    Cap = 1
    MaxAttempts = 2
    BackoffSteps <- ShortBackoff
    StaleAfter = 4
INVARIANT TwoLoginsNever
