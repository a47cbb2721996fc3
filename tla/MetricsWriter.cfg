SPECIFICATION FairSpec
CONSTANTS
    Missing = Missing
    Partial = Partial
    MaxRecords = 3
    MaxStarts = 3
INVARIANTS
    FileWhole
    NothingForgotten
    CloseDrains
PROPERTIES
    WrittenInOrder
    WriterEnds
CHECK_DEADLOCK FALSE
