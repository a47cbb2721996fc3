SPECIFICATION FairSpec
CONSTANTS
    s1 = s1
    s2 = s2
    s3 = s3
    n1 = n1
    n2 = n2
    NoRoom = NoRoom
    Session = {s1, s2, s3}
    Network = {n1, n2}
    Conn <- ThreeSessions
    MaxRooms = 2
    MaxConnectionsPerNetwork = 3
    MaxUnpairedRoomsPerNetwork = 2
    ReservedRooms = 1
    RoomTTL = 1
    TicketExpiry <- ExpiryMixed
    MaxTime = 2
INVARIANTS
    ReservedSliceKept
PROPERTIES
    RoomsEnd
CHECK_DEADLOCK FALSE
