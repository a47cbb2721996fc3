SPECIFICATION FairSpec
CONSTANTS
    a = a
    b = b
    c = c
    Transfer = {a, b}
    LockFile = {}
    Size <- TurnSize
    Requests <- TurnRequests
    Rude = FALSE
    MaxData = 1
    MaxControl = 1
    WindowTotal = 4
    WindowData = 3
    WindowControl = 1
    BufferTotal = 3
    BufferData = 2
    Header = 0
    Chunk = 2
    MinFrame = 2
    Answer = 1
INVARIANTS
    NativeReadsBounded
    QuietMeansQuiet
PROPERTIES
    WorkEnds
    QuiescenceReached
CHECK_DEADLOCK FALSE
