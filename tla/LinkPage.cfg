SPECIFICATION FairSpec
CONSTANTS
    Tab = {left, right}
    left = left
    right = right
    None = None
    Attempts <- Twice
    MaxReceipts = 2
INVARIANTS
    NothingLeftBehind
PROPERTIES
    KeepsPromise
    StaleAttemptsAreInert
    CanLinkAgain
CHECK_DEADLOCK FALSE
