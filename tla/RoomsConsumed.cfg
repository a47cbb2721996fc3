SPECIFICATION Spec
CONSTANTS
    s1 = s1
    s2 = s2
    s3 = s3
    n1 = n1
    n2 = n2
    NoRoom = NoRoom
    Session = {s1, s2, s3, t4, t5, t6}
    Network = {n1, n2}
    Conn <- Loners
    MaxRooms = 1
    MaxConnectionsPerNetwork = 3
    MaxUnpairedRoomsPerNetwork = 1
    ReservedRooms = 0
    RoomTTL = 2
    TicketExpiry <- Expiry1
    MaxTime = 1
INVARIANTS
    ConsumedBounded
SYMMETRY LonerSymmetry
CHECK_DEADLOCK FALSE
