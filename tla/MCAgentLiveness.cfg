CONSTANTS
    Ids = {a, b}
    Pids = {p}
    Chunks <- MCChunks
    QUEUE_MAX = 2
    LEASE = 1
    UI_LIMIT = 1
    RESPONSE_MAX = 1
    Daemons = {d1}
    REQ_WINDOWS = 1
    CHILD_TICKS = 2
    MaxSubs = 2
    MaxHellos = 6
    MaxCrashes = 1
    MaxResets = 0
    MaxCopyFailures = 1
SPECIFICATION FairSpec

PROPERTY EveryRequestEnds
CHECK_DEADLOCK FALSE
