SPECIFICATION MCSpec
CONSTANTS
    Network = {n1, n2}
    Session = {s1, s2}
    s1 = s1
    s2 = s2
    n1 = n1
    n2 = n2
    None = None
    Limit <- SmallLimits
    MaxKeys <- SmallTables
    Window = 2
    Inspect = 1
    MaximumConcurrent = 1
    TicketTTL = 3
    MaxNow = 4
INVARIANTS
    SharedAllowanceKept
    NewKeysAdmitted
PROPERTIES
    VerifierRecovers
CHECK_DEADLOCK FALSE
