CONSTANTS
    Ids = {a, b}
    Pids = {p}
    Chunks <- MCChunks
    QUEUE_MAX = 2
    LEASE = 1
    UI_LIMIT = 1
    RESPONSE_MAX = 2
    Daemons = {d1, d2}
    REQ_WINDOWS = 1
    CHILD_TICKS = 1
    MaxSubs = 2
    MaxHellos = 2
    MaxCrashes = 1
    MaxResets = 0
    MaxCopyFailures = 1
SPECIFICATION SystemSpec
SYMMETRY DaemonSymmetry
INVARIANTS AtMostOnce AnswerIsWhole
CHECK_DEADLOCK FALSE
