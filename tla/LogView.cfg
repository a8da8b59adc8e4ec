\* Two accounts that come and go, logs of two lines, queues of one: a bot
\* that emits three lines can lose the one between two that are kept.
SPECIFICATION Spec
CONSTANTS
    Profiles = {a, b}
    Filters = {all, chat}
    LogCap = 2
    QueueCap = 1
    MaxEmitted = 3
    MaxNotes = 1
    MaxTotal = 2
    MaxSilent = 3
INVARIANTS LogsAreKept
PROPERTIES SwitchKeepsLogs
CONSTRAINT Kept
SYMMETRY Interchangeable
