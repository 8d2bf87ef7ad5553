SPECIFICATION FairSpec
CONSTANTS
    r1 = r1
    r2 = r2
    d1 = d1
    d2 = d2
    Requests = {r1, r2}
    Readers <- MCReaders
    SendNum <- MCSendNum
    RemoteRank = {r1}
    ABORT_REQUEST_TIMEOUT = 1
    MaxMetas = 2
    MaxTime = 3
CHECK_DEADLOCK FALSE
INVARIANTS
    Inductive
    ReportedAtMostOnce
    BlocksHeldWhileRead
PROPERTIES
    NoExpiredLeft
    EveryRequestFreed
