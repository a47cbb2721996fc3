SPECIFICATION Spec
CONSTANTS
    Kind = {generatedLinks, successfulConnections}
    Network = {n1, n2}
    HoursPerDay = 2
    RetentionDays = 2
    MaxDays = 2
    MaxHashes = 1
    NoFile = NoFile
    FirstHour = 4
    LastHour = 8
    MaxEvents = 3
INVARIANTS
    DaysAddUp
    OldHashesDiscarded
    SnapshotsLoad
    UniquesExact
SYMMETRY NetworkSymmetry
CHECK_DEADLOCK FALSE
