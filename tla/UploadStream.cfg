SPECIFICATION FairSpec
CONSTANTS
    a = a
    b = b
    Transfer = {a}
    Path <- Photo
    PathOf <- PhotoOf
    Size <- Five
    Replace = {a}
    Related <- PhotoRelated
    LockSpace = {}
    WriteLock = {}
    Existing <- Photo
    Requests <- PhotoAndRemoval
    MaxData = 1
    MaxControl = 1
    MinFrame = 1
    MaxFrame = 2
    Batch = 3
    MaxFrames = 4
    MaxGap = 0
    Polite = {a}
INVARIANTS
    BytesAccounted
    FinishIsBarrier
    TimerOnlyWhenIdle
PROPERTIES
    UploadsEnd
    QuiescenceReached
CHECK_DEADLOCK FALSE
