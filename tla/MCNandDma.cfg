CONSTANTS
    PAGE = 3
    BUF = 4
    META_BUF = 2
    QUEUE = 1
    PENDING = 1
    CES = 2
    DataChains <- MCData
    MetaChains <- MCMeta
    Pages = 3
    MaxOps = 3
    Jobs = {{"write", "read"}, {"write", "read", "snapshot"}, {"read", "reset"}}
SPECIFICATION NandSpec
INVARIANTS PagesWhole  NothingWaits
CHECK_DEADLOCK FALSE
