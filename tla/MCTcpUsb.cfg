CONSTANTS
    HDR = 2
    MAX_LEN = 2
    CAP = 3
    MaxRequests = 3
    MaxConnects = 3
SPECIFICATION FairSpec
INVARIANTS FramingHolds OwnedWhileServed
PROPERTY ExchangeEnds
CHECK_DEADLOCK FALSE
