SPECIFICATION Spec
CONSTANTS
    a = a
    b = b
    Transfer = {a}
    Path <- Manifest
    PathOf <- ManifestOf
    Size <- One
    Replace = {}
    Related <- ManifestRelated
    LockSpace <- Root
    WriteLock = {}
    Existing <- Root
    Requests <- ManifestRequests
    MaxData = 1
    MaxControl = 1
    MinFrame = 1
    MaxFrame = 1
    Batch = 1
    MaxFrames = 1
    MaxGap = 0
    Polite = {a}
INVARIANTS
    PathsReserved
CHECK_DEADLOCK FALSE
