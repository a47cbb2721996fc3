SPECIFICATION Spec
CONSTANTS
    a = a
    b = b
    c = c
    Transfer = {a, b, c}
    LockFile = {c}
    Size <- FlowSize
    Requests <- FlowRequests
    Rude = TRUE
    MaxData = 2
    MaxControl = 1
    WindowTotal = 4
    WindowData = 3
    WindowControl = 1
    BufferTotal = 3
    BufferData = 2
    Header = 0
    Chunk = 2
    MinFrame = 2
    Answer = 1
INVARIANTS
    WindowsKept
    SendBudgetKept
    ParkedForAReason
CHECK_DEADLOCK FALSE
