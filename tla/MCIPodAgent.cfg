CONSTANTS
    Ids = {a, b}
    Pids = {p}
    Chunks = {x}
    QUEUE_MAX = 2
    LEASE = 1
    UI_LIMIT = 1
    RESPONSE_MAX = 1
    MaxSubs = 3
    MaxHellos = 2
    MaxCookies = 2
SPECIFICATION MCSpec
INVARIANTS TypeOK HeldIsHead AnsweredInOrder QueuesSound 
PROPERTIES NeverReplayed ImplementsRpc
CHECK_DEADLOCK FALSE
