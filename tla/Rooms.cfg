SPECIFICATION Spec
CONSTANTS
    s1 = s1
    s2 = s2
    s3 = s3
    n1 = n1
    n2 = n2
    NoRoom = NoRoom
    Session = {s1, s2}
    Network = {n1, n2}
    Conn <- TwoSessions
    MaxRooms = 2
    MaxConnectionsPerNetwork = 3
    MaxUnpairedRoomsPerNetwork = 2
    ReservedRooms = 0
    RoomTTL = 2
    TicketExpiry <- ExpiryMixed
    MaxTime = 2
INVARIANTS
    AccountingExact
    RoomsOccupied
    PairedMeansSpent
    SecondPeerAdmissible
PROPERTIES
    StaleEventsAreInert
    KeepsPromise
CHECK_DEADLOCK FALSE
