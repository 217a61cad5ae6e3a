CONSTANTS
    Ids = {a, b}
    Pids = {p}
    Chunks <- MCChunks
    QUEUE_MAX = 2
    LEASE = 1
    UI_LIMIT = 1
    RESPONSE_MAX = 1
    Daemons = {d1}
    REQ_WINDOWS = 2
    CHILD_TICKS = 1
    MaxSubs = 2
    MaxHellos = 2
    MaxCrashes = 0
    MaxResets = 1
    MaxCopyFailures = 0
SPECIFICATION SystemSpec

INVARIANTS AtMostOnce AnswerIsWhole NoTornRequest
CHECK_DEADLOCK FALSE
