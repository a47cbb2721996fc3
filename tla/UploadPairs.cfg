SPECIFICATION PairSpec
CONSTANTS
    a = a
    b = b
    c = c
    d = d
    Transfer = {a, b, c, d}
    Path <- Files
    PathOf <- FileOf
    Size <- FileSize
    Replace = {d}
    Related <- FileRelated
    LockSpace <- Locks
    WriteLock <- WriteLocks
    Existing = {}
    Requests <- FileRequests
    MaxData = 1
    MaxControl = 2
    MinFrame = 1
    MaxFrame = 1
    Batch = 1
    MaxFrames = 1
    MaxGap = 1
    Polite = {a, c, d}
INVARIANTS
    SlotsRespected
    QuietMeansQuiet
PROPERTIES
    NothingLost
CHECK_DEADLOCK FALSE
