------------------------- MODULE RoomRegistryProofs -------------------------
EXTENDS RoomRegistry, FiniteSetTheorems, TLAPS

LEMMA MinusType ==
    ASSUME NEW a \in Nat, NEW b \in Nat
    PROVE  Minus(a, b) \in Nat /\ (b <= a => Minus(a, b) = a - b)
BY DEF Minus

LEMMA SubsetsFinite ==
    ASSUME NEW C \in SUBSET Conn
    PROVE  /\ IsFiniteSet(C) /\ Cardinality(C) \in Nat
           /\ \A n : IsFiniteSet(OnNetwork(C, n)) /\ Cardinality(OnNetwork(C, n)) \in Nat
<1>1. \A D \in SUBSET Conn : IsFiniteSet(D) /\ Cardinality(D) \in Nat
  BY PopulationAssumption, FS_Subset, FS_CardinalityType
<1>2. \A n : OnNetwork(C, n) \in SUBSET Conn
  BY DEF OnNetwork
<1> QED BY <1>1, <1>2

(* What each private method does to the record, field by field. *)
PeersReleased(g, h, C) ==
    /\ h \in RegistryType
    /\ h.attached = g.attached \ C
    /\ h.active = Minus(g.active, Cardinality(C \cap g.attached))
    /\ \A n \in Network : h.connectionsBy[n] =
           Minus(g.connectionsBy[n], Cardinality(OnNetwork(C \cap g.attached, n)))
    /\ h.rooms = g.rooms /\ h.roomOf = g.roomOf /\ h.paired = g.paired
    /\ h.expiry = g.expiry /\ h.consumed = g.consumed /\ h.sock = g.sock
    /\ h.unpairedHeld = g.unpairedHeld /\ h.creationHeld = g.creationHeld
    /\ h.unpairedBy = g.unpairedBy /\ h.createdBy = g.createdBy

UnpairedReleased(g, h, R) ==
    /\ h \in RegistryType
    /\ h.unpairedHeld = g.unpairedHeld \ R
    /\ \A n \in Network : h.unpairedBy[n] =
           Minus(g.unpairedBy[n], Cardinality(OnNetwork(R \cap g.unpairedHeld, n)))
    /\ h.rooms = g.rooms /\ h.roomOf = g.roomOf /\ h.paired = g.paired
    /\ h.expiry = g.expiry /\ h.consumed = g.consumed /\ h.sock = g.sock
    /\ h.attached = g.attached /\ h.creationHeld = g.creationHeld
    /\ h.connectionsBy = g.connectionsBy /\ h.createdBy = g.createdBy
    /\ h.active = g.active

CreationReleased(g, h, R) ==
    /\ h \in RegistryType
    /\ h.creationHeld = g.creationHeld \ R
    /\ \A n \in Network : h.createdBy[n] =
           Minus(g.createdBy[n], Cardinality(OnNetwork(R \cap g.creationHeld, n)))
    /\ h.rooms = g.rooms /\ h.roomOf = g.roomOf /\ h.paired = g.paired
    /\ h.expiry = g.expiry /\ h.consumed = g.consumed /\ h.sock = g.sock
    /\ h.attached = g.attached /\ h.unpairedHeld = g.unpairedHeld
    /\ h.connectionsBy = g.connectionsBy /\ h.unpairedBy = g.unpairedBy
    /\ h.active = g.active

(* Every field but the registered rooms and the spent tickets. *)
SameSeats(g, h) ==
    /\ h \in RegistryType
    /\ h.attached = g.attached /\ h.roomOf = g.roomOf /\ h.paired = g.paired
    /\ h.expiry = g.expiry
    /\ h.unpairedHeld = g.unpairedHeld /\ h.creationHeld = g.creationHeld
    /\ h.active = g.active /\ h.connectionsBy = g.connectionsBy
    /\ h.unpairedBy = g.unpairedBy /\ h.createdBy = g.createdBy

SocketsShut(g, h) ==
    /\ SameSeats(g, h) /\ h.rooms = g.rooms /\ h.consumed = g.consumed
    /\ \A c \in Conn : (h.sock[c] = "new") <=> (g.sock[c] = "new")

LEMMA ReleasePeersFields ==
    ASSUME NEW g \in RegistryType, NEW C
    PROVE  PeersReleased(g, ReleasePeers(g, C), C)
<1> DEFINE gone == C \cap g.attached
           by == [n \in Network |-> Minus(g.connectionsBy[n], Cardinality(OnNetwork(gone, n)))]
<1>1. gone \in SUBSET Conn /\ g.attached \ gone = g.attached \ C
  BY DEF RegistryType
<1>2. Cardinality(gone) \in Nat /\ \A n : Cardinality(OnNetwork(gone, n)) \in Nat
  BY <1>1, SubsetsFinite
<1>3. by \in [Network -> Nat]
      /\ \A n \in Network : by[n] = Minus(g.connectionsBy[n], Cardinality(OnNetwork(gone, n)))
  BY <1>2, MinusType DEF RegistryType
<1>4. Minus(g.active, Cardinality(gone)) \in Nat
  BY <1>2, MinusType DEF RegistryType
<1>5. ReleasePeers(g, C) = [g EXCEPT !.attached = g.attached \ gone,
                                     !.active = Minus(g.active, Cardinality(gone)),
                                     !.connectionsBy = by]
  BY DEF ReleasePeers
<1> HIDE DEF by
<1> QED BY <1>1, <1>3, <1>4, <1>5 DEF PeersReleased, RegistryType

LEMMA ReleaseUnpairedFields ==
    ASSUME NEW g \in RegistryType, NEW C
    PROVE  UnpairedReleased(g, ReleaseUnpaired(g, C), C)
<1> DEFINE gone == C \cap g.unpairedHeld
           by == [n \in Network |-> Minus(g.unpairedBy[n], Cardinality(OnNetwork(gone, n)))]
<1>1. gone \in SUBSET Conn /\ g.unpairedHeld \ gone = g.unpairedHeld \ C
  BY DEF RegistryType
<1>2. Cardinality(gone) \in Nat /\ \A n : Cardinality(OnNetwork(gone, n)) \in Nat
  BY <1>1, SubsetsFinite
<1>3. by \in [Network -> Nat]
      /\ \A n \in Network : by[n] = Minus(g.unpairedBy[n], Cardinality(OnNetwork(gone, n)))
  BY <1>2, MinusType DEF RegistryType
<1>4. ReleaseUnpaired(g, C) = [g EXCEPT !.unpairedHeld = g.unpairedHeld \ gone, !.unpairedBy = by]
  BY DEF ReleaseUnpaired
<1> HIDE DEF by
<1> QED BY <1>1, <1>3, <1>4 DEF UnpairedReleased, RegistryType

LEMMA ReleaseCreationFields ==
    ASSUME NEW g \in RegistryType, NEW C
    PROVE  CreationReleased(g, ReleaseCreation(g, C), C)
<1> DEFINE gone == C \cap g.creationHeld
           by == [n \in Network |-> Minus(g.createdBy[n], Cardinality(OnNetwork(gone, n)))]
<1>1. gone \in SUBSET Conn /\ g.creationHeld \ gone = g.creationHeld \ C
  BY DEF RegistryType
<1>2. Cardinality(gone) \in Nat /\ \A n : Cardinality(OnNetwork(gone, n)) \in Nat
  BY <1>1, SubsetsFinite
<1>3. by \in [Network -> Nat]
      /\ \A n \in Network : by[n] = Minus(g.createdBy[n], Cardinality(OnNetwork(gone, n)))
  BY <1>2, MinusType DEF RegistryType
<1>4. ReleaseCreation(g, C) = [g EXCEPT !.creationHeld = g.creationHeld \ gone, !.createdBy = by]
  BY DEF ReleaseCreation
<1> HIDE DEF by
<1> QED BY <1>1, <1>3, <1>4 DEF CreationReleased, RegistryType

LEMMA SessionsType ==
    ASSUME NEW R \in SUBSET Conn
    PROVE  SessionsOf(R) \in SUBSET Session
BY PopulationAssumption DEF SessionsOf

LEMMA UnregisterFields ==
    ASSUME NEW g \in RegistryType, NEW R
    PROVE  LET h == Unregister(g, R)
           IN  SameSeats(g, h) /\ h.rooms = g.rooms \ R /\ h.consumed = g.consumed /\ h.sock = g.sock
BY DEF Unregister, RegistryType, SameSeats

LEMMA ConsumeFields ==
    ASSUME NEW g \in RegistryType, NEW S \in SUBSET Session
    PROVE  LET h == Consume(g, S)
           IN  SameSeats(g, h) /\ h.rooms = g.rooms /\ h.consumed = g.consumed \cup S /\ h.sock = g.sock
BY DEF Consume, RegistryType, SameSeats

LEMMA ShutSocketsFields ==
    ASSUME NEW g \in RegistryType, NEW C
    PROVE  SocketsShut(g, ShutSockets(g, C))
<1> DEFINE socks == [c \in Conn |-> IF c \in C /\ g.sock[c] = "open" THEN "closing" ELSE g.sock[c]]
<1>1. socks \in [Conn -> SocketState]
  BY DEF RegistryType, SocketState
<1>2. ShutSockets(g, C) = [g EXCEPT !.sock = socks]
  BY DEF ShutSockets
<1>3. \A c \in Conn : (socks[c] = "new") <=> (g.sock[c] = "new")
  OBVIOUS
<1> HIDE DEF socks
<1> QED BY <1>1, <1>2, <1>3 DEF RegistryType, SocketsShut, SameSeats

-----------------------------------------------------------------------------
Seated(g) ==
    \A c \in g.attached : g.roomOf[c] \in g.rooms /\ g.roomOf[c].session = c.session

OneRoomPerSession(g) == \A r, q \in g.rooms : r.session = q.session => r = q

OneSeatPerRole(g) ==
    \A c, d \in g.attached : g.roomOf[c] = g.roomOf[d] /\ c.role = d.role => c = d

Held(g) == g.creationHeld = g.rooms /\ g.unpairedHeld = g.rooms \ g.paired

Counted(g) ==
    /\ g.active = Cardinality(g.attached)
    /\ \A n \in Network :
         /\ g.connectionsBy[n] = Cardinality(OnNetwork(g.attached, n))
         /\ g.unpairedBy[n] = Cardinality(OnNetwork(g.unpairedHeld, n))
         /\ g.createdBy[n] = Cardinality(OnNetwork(g.creationHeld, n))

Core(g) ==
    /\ g \in RegistryType
    /\ Seated(g)
    /\ OneRoomPerSession(g)
    /\ OneSeatPerRole(g)
    /\ Held(g)
    /\ Counted(g)

(* What holds of a room between two handlers: it is occupied, paired       *)
(* exactly when two peers are in it, and nobody has left it.               *)
Settled(g, R) ==
    \A r \in R :
        /\ \E c \in g.attached : g.roomOf[c] = r
        /\ r \in g.paired <=> \E p, q \in g.attached : p # q /\ g.roomOf[p] = r /\ g.roomOf[q] = r
        /\ \A c \in Conn : g.roomOf[c] = r => c \in g.attached

(* A socket that never attached has left no trace but, within a handler,   *)
(* the rooms R.                                                            *)
Unused(g, R) ==
    \A c \in Conn : g.sock[c] = "new" =>
        /\ c \notin g.attached /\ c \notin g.rooms \ R /\ c \notin g.paired
        /\ g.roomOf[c] = NoRoom
        /\ \A d \in Conn : g.roomOf[d] # c

Sound(g) == Core(g) /\ Settled(g, g.rooms) /\ Unused(g, {})

LEMMA CardinalityDifference ==
    ASSUME NEW X \in SUBSET Conn, NEW Y \in SUBSET X
    PROVE  Minus(Cardinality(X), Cardinality(Y)) = Cardinality(X \ Y)
<1>1. IsFiniteSet(X) /\ Cardinality(X) \in Nat /\ Cardinality(Y) \in Nat
  BY SubsetsFinite
<1>2. X \cap Y = Y
  OBVIOUS
<1>3. Cardinality(X \ Y) = Cardinality(X) - Cardinality(Y)
  BY <1>1, <1>2, FS_Difference
<1>4. Cardinality(Y) <= Cardinality(X)
  BY <1>1, FS_Subset
<1> QED BY <1>1, <1>3, <1>4, MinusType

LEMMA CardinalityWithout ==
    ASSUME NEW S \in SUBSET Conn, NEW T \in SUBSET S
    PROVE  /\ Minus(Cardinality(S), Cardinality(T)) = Cardinality(S \ T)
           /\ \A n : Minus(Cardinality(OnNetwork(S, n)), Cardinality(OnNetwork(T, n)))
                     = Cardinality(OnNetwork(S \ T, n))
<1>1. Minus(Cardinality(S), Cardinality(T)) = Cardinality(S \ T)
  BY CardinalityDifference
<1>2. ASSUME NEW n
      PROVE  Minus(Cardinality(OnNetwork(S, n)), Cardinality(OnNetwork(T, n)))
               = Cardinality(OnNetwork(S \ T, n))
  <2> DEFINE X == OnNetwork(S, n)
             Y == OnNetwork(T, n)
  <2>1. X \in SUBSET Conn /\ Y \in SUBSET X /\ OnNetwork(S \ T, n) = X \ Y
    BY DEF OnNetwork
  <2> HIDE DEF X, Y
  <2>2. Minus(Cardinality(X), Cardinality(Y)) = Cardinality(X \ Y)
    BY <2>1, CardinalityDifference
  <2> QED BY <2>1, <2>2 DEF X, Y
<1> QED BY <1>1, <1>2

RoomsClosed(g, h, R, b) ==
    LET inhit == {c \in g.attached : g.roomOf[c] \in R}
    IN  /\ h \in RegistryType
        /\ h.rooms = g.rooms \ R
        /\ h.attached = g.attached \ inhit
        /\ h.active = Minus(g.active, Cardinality(inhit))
        /\ \A n \in Network :
             /\ h.connectionsBy[n] = Minus(g.connectionsBy[n], Cardinality(OnNetwork(inhit, n)))
             /\ h.unpairedBy[n] = Minus(g.unpairedBy[n], Cardinality(OnNetwork(R \cap g.unpairedHeld, n)))
             /\ h.createdBy[n] = Minus(g.createdBy[n], Cardinality(OnNetwork(R \cap g.creationHeld, n)))
        /\ h.unpairedHeld = g.unpairedHeld \ R
        /\ h.creationHeld = g.creationHeld \ R
        /\ h.roomOf = g.roomOf /\ h.paired = g.paired /\ h.expiry = g.expiry
        /\ h.consumed = IF b THEN g.consumed \cup SessionsOf(R \cap g.rooms) ELSE g.consumed
        /\ \A c \in Conn : (h.sock[c] = "new") <=> (g.sock[c] = "new")

LEMMA CloseRoomsFields ==
    ASSUME NEW g, Core(g), NEW R, NEW b \in BOOLEAN
    PROVE  RoomsClosed(g, CloseRooms(g, R, b), R, b)
<1> DEFINE hit == R \cap g.rooms
           inhit == {c \in g.attached : g.roomOf[c] \in hit}
           g1 == Unregister(g, hit)
           g2 == ReleaseUnpaired(g1, hit)
           g3 == ReleaseCreation(g2, hit)
           g4 == IF b THEN Consume(g3, SessionsOf(hit)) ELSE g3
           g5 == ReleasePeers(g4, inhit)
           h == ShutSockets(g5, inhit)
<1>1. g \in RegistryType /\ Seated(g) /\ Held(g)
  BY DEF Core
<1>2. /\ hit = {r \in R : r \in g.rooms \/ Peers(g, r) # {}}
      /\ inhit = {c \in g.attached : g.roomOf[c] \in R}
      /\ inhit \cap g.attached = inhit
      /\ hit \cap g.unpairedHeld = R \cap g.unpairedHeld
      /\ hit \cap g.creationHeld = R \cap g.creationHeld
      /\ g.rooms \ hit = g.rooms \ R
  BY <1>1 DEF Seated, Peers, Held
<1>3. CloseRooms(g, R, b) = h
  BY <1>2 DEF CloseRooms
<1>4. SessionsOf(hit) \in SUBSET Session /\ hit = R \cap g.rooms
  BY <1>1, SessionsType DEF RegistryType
<1> HIDE DEF hit, inhit
<1>5. SameSeats(g, g1) /\ g1.rooms = g.rooms \ hit /\ g1.consumed = g.consumed /\ g1.sock = g.sock
  BY <1>1, UnregisterFields
<1> HIDE DEF g1
<1>6. UnpairedReleased(g1, g2, hit)
  BY <1>5, ReleaseUnpairedFields DEF SameSeats
<1> HIDE DEF g2
<1>7. CreationReleased(g2, g3, hit)
  BY <1>6, ReleaseCreationFields DEF UnpairedReleased
<1> HIDE DEF g3
<1>8. /\ SameSeats(g3, g4) /\ g4.rooms = g3.rooms /\ g4.sock = g3.sock
      /\ g4.consumed = IF b THEN g3.consumed \cup SessionsOf(hit) ELSE g3.consumed
  <2>1. g3 \in RegistryType
    BY <1>7 DEF CreationReleased
  <2>2. CASE b
    BY <2>1, <2>2, <1>4, ConsumeFields
  <2>3. CASE ~b
    BY <2>1, <2>3 DEF SameSeats
  <2> QED BY <2>2, <2>3
<1> HIDE DEF g4
<1>9. PeersReleased(g4, g5, inhit)
  BY <1>8, ReleasePeersFields DEF SameSeats
<1> HIDE DEF g5
<1>10. SocketsShut(g5, h)
  BY <1>9, ShutSocketsFields DEF PeersReleased
<1> HIDE DEF h
<1>11. h \in RegistryType
  BY <1>10 DEF SocketsShut, SameSeats
<1>12. /\ g4.attached = g.attached /\ g4.active = g.active /\ g4.connectionsBy = g.connectionsBy
       /\ g4.rooms = g.rooms \ hit /\ g4.roomOf = g.roomOf /\ g4.paired = g.paired
       /\ g4.expiry = g.expiry /\ g4.sock = g.sock
       /\ g4.unpairedHeld = g.unpairedHeld \ hit /\ g4.creationHeld = g.creationHeld \ hit
       /\ g4.consumed = IF b THEN g.consumed \cup SessionsOf(hit) ELSE g.consumed
       /\ \A n \in Network :
            /\ g4.unpairedBy[n] = Minus(g.unpairedBy[n], Cardinality(OnNetwork(hit \cap g.unpairedHeld, n)))
            /\ g4.createdBy[n] = Minus(g.createdBy[n], Cardinality(OnNetwork(hit \cap g.creationHeld, n)))
  <2>1. /\ g2.attached = g.attached /\ g2.active = g.active /\ g2.connectionsBy = g.connectionsBy
        /\ g2.rooms = g.rooms \ hit /\ g2.roomOf = g.roomOf /\ g2.paired = g.paired
        /\ g2.expiry = g.expiry /\ g2.sock = g.sock /\ g2.consumed = g.consumed
        /\ g2.unpairedHeld = g.unpairedHeld \ hit /\ g2.creationHeld = g.creationHeld
        /\ g2.createdBy = g.createdBy
        /\ \A n \in Network : g2.unpairedBy[n] =
             Minus(g.unpairedBy[n], Cardinality(OnNetwork(hit \cap g.unpairedHeld, n)))
    BY <1>5, <1>6 DEF SameSeats, UnpairedReleased
  <2>2. /\ g3.attached = g.attached /\ g3.active = g.active /\ g3.connectionsBy = g.connectionsBy
        /\ g3.rooms = g.rooms \ hit /\ g3.roomOf = g.roomOf /\ g3.paired = g.paired
        /\ g3.expiry = g.expiry /\ g3.sock = g.sock /\ g3.consumed = g.consumed
        /\ g3.unpairedHeld = g.unpairedHeld \ hit /\ g3.creationHeld = g.creationHeld \ hit
        /\ g3.unpairedBy = g2.unpairedBy
        /\ \A n \in Network : g3.createdBy[n] =
             Minus(g.createdBy[n], Cardinality(OnNetwork(hit \cap g.creationHeld, n)))
    BY <2>1, <1>7 DEF CreationReleased
  <2> QED BY <2>1, <2>2, <1>8 DEF SameSeats
<1>13. /\ h.attached = g4.attached \ inhit
       /\ h.active = Minus(g4.active, Cardinality(inhit \cap g4.attached))
       /\ \A n \in Network : h.connectionsBy[n] =
            Minus(g4.connectionsBy[n], Cardinality(OnNetwork(inhit \cap g4.attached, n)))
       /\ h.rooms = g4.rooms /\ h.roomOf = g4.roomOf /\ h.paired = g4.paired
       /\ h.expiry = g4.expiry /\ h.consumed = g4.consumed
       /\ h.unpairedHeld = g4.unpairedHeld /\ h.creationHeld = g4.creationHeld
       /\ h.unpairedBy = g4.unpairedBy /\ h.createdBy = g4.createdBy
       /\ \A c \in Conn : (h.sock[c] = "new") <=> (g4.sock[c] = "new")
  BY <1>9, <1>10 DEF PeersReleased, SocketsShut, SameSeats
<1>14. /\ g.unpairedHeld \ hit = g.unpairedHeld \ R
       /\ g.creationHeld \ hit = g.creationHeld \ R
  BY <1>2
<1>15. /\ h.rooms = g.rooms \ R /\ h.attached = g.attached \ inhit
       /\ h.active = Minus(g.active, Cardinality(inhit))
       /\ h.unpairedHeld = g.unpairedHeld \ R /\ h.creationHeld = g.creationHeld \ R
       /\ h.roomOf = g.roomOf /\ h.paired = g.paired /\ h.expiry = g.expiry
       /\ h.consumed = IF b THEN g.consumed \cup SessionsOf(R \cap g.rooms) ELSE g.consumed
       /\ \A c \in Conn : (h.sock[c] = "new") <=> (g.sock[c] = "new")
  BY <1>2, <1>4, <1>12, <1>13, <1>14
<1>16. \A n \in Network :
         /\ h.connectionsBy[n] = Minus(g.connectionsBy[n], Cardinality(OnNetwork(inhit, n)))
         /\ h.unpairedBy[n] = Minus(g.unpairedBy[n], Cardinality(OnNetwork(R \cap g.unpairedHeld, n)))
         /\ h.createdBy[n] = Minus(g.createdBy[n], Cardinality(OnNetwork(R \cap g.creationHeld, n)))
  <2>1. /\ inhit \cap g4.attached = inhit
        /\ hit \cap g.unpairedHeld = R \cap g.unpairedHeld
        /\ hit \cap g.creationHeld = R \cap g.creationHeld
    BY <1>2, <1>12
  <2> QED BY <2>1, <1>12, <1>13
<1>17. RoomsClosed(g, h, R, b)
  BY <1>2, <1>11, <1>15, <1>16 DEF RoomsClosed
<1> QED BY <1>3, <1>17

(* closeRoom keeps the books straight and leaves every other room alone.   *)
LEMMA CloseRoomsCore ==
    ASSUME NEW g, Core(g), NEW R, NEW b \in BOOLEAN, Settled(g, g.rooms \ R), Unused(g, R)
    PROVE  Sound(CloseRooms(g, R, b))
<1> DEFINE h == CloseRooms(g, R, b)
           inhit == {c \in g.attached : g.roomOf[c] \in R}
<1>0. /\ g \in RegistryType /\ Seated(g) /\ Held(g) /\ Counted(g)
      /\ OneSeatPerRole(g) /\ OneRoomPerSession(g)
  BY DEF Core
<1>1. RoomsClosed(g, h, R, b)
  BY CloseRoomsFields
<1> HIDE DEF h
<1>2. Seated(h)
  BY <1>0, <1>1 DEF Seated, RoomsClosed
<1>3. OneRoomPerSession(h) /\ OneSeatPerRole(h)
  BY <1>0, <1>1 DEF OneRoomPerSession, OneSeatPerRole, RoomsClosed
<1>4. Held(h)
  BY <1>0, <1>1 DEF Held, RoomsClosed
<1>5. Counted(h)
  <2> DEFINE lostU == R \cap g.unpairedHeld
             lostC == R \cap g.creationHeld
  <2>1. /\ g.attached \in SUBSET Conn /\ inhit \in SUBSET g.attached
        /\ g.unpairedHeld \in SUBSET Conn /\ lostU \in SUBSET g.unpairedHeld
        /\ g.creationHeld \in SUBSET Conn /\ lostC \in SUBSET g.creationHeld
    BY <1>0 DEF RegistryType
  <2>2. /\ h.attached = g.attached \ inhit
        /\ h.unpairedHeld = g.unpairedHeld \ lostU
        /\ h.creationHeld = g.creationHeld \ lostC
        /\ h.active = Minus(g.active, Cardinality(inhit))
        /\ \A n \in Network :
             /\ h.connectionsBy[n] = Minus(g.connectionsBy[n], Cardinality(OnNetwork(inhit, n)))
             /\ h.unpairedBy[n] = Minus(g.unpairedBy[n], Cardinality(OnNetwork(lostU, n)))
             /\ h.createdBy[n] = Minus(g.createdBy[n], Cardinality(OnNetwork(lostC, n)))
    BY <1>1 DEF RoomsClosed
  <2> HIDE DEF inhit, lostU, lostC
  <2>3. /\ Minus(Cardinality(g.attached), Cardinality(inhit)) = Cardinality(h.attached)
        /\ \A n : Minus(Cardinality(OnNetwork(g.attached, n)), Cardinality(OnNetwork(inhit, n)))
                     = Cardinality(OnNetwork(h.attached, n))
    BY <2>1, <2>2, CardinalityWithout
  <2>4. \A n : Minus(Cardinality(OnNetwork(g.unpairedHeld, n)), Cardinality(OnNetwork(lostU, n)))
                     = Cardinality(OnNetwork(h.unpairedHeld, n))
    BY <2>1, <2>2, CardinalityWithout
  <2>5. \A n : Minus(Cardinality(OnNetwork(g.creationHeld, n)), Cardinality(OnNetwork(lostC, n)))
                     = Cardinality(OnNetwork(h.creationHeld, n))
    BY <2>1, <2>2, CardinalityWithout
  <2> QED BY <1>0, <2>2, <2>3, <2>4, <2>5 DEF Counted
<1>6. Unused(h, {})
  BY <1>0, <1>1 DEF Unused, RoomsClosed
<1>7. Settled(h, h.rooms)
  BY <1>1 DEF Settled, RoomsClosed
<1>8. h \in RegistryType
  BY <1>1 DEF RoomsClosed
<1> QED BY <1>2, <1>3, <1>4, <1>5, <1>6, <1>7, <1>8 DEF Core, Sound, h

-----------------------------------------------------------------------------
LEMMA CardinalityWith ==
    ASSUME NEW S \in SUBSET Conn, NEW c \in Conn, c \notin S
    PROVE  /\ Cardinality(S \cup {c}) = Cardinality(S) + 1
           /\ \A n : Cardinality(OnNetwork(S \cup {c}, n)) =
                IF c.network = n THEN Cardinality(OnNetwork(S, n)) + 1
                                 ELSE Cardinality(OnNetwork(S, n))
<1>1. IsFiniteSet(S) /\ \A n : IsFiniteSet(OnNetwork(S, n))
  BY SubsetsFinite
<1>2. ASSUME NEW n
      PROVE  /\ c \notin OnNetwork(S, n)
             /\ OnNetwork(S \cup {c}, n) =
                  IF c.network = n THEN OnNetwork(S, n) \cup {c} ELSE OnNetwork(S, n)
  BY DEF OnNetwork
<1> QED BY <1>1, <1>2, FS_AddElement

LEMMA RegisterFields ==
    ASSUME NEW g \in RegistryType, NEW c \in Conn, NEW t \in Nat
    PROVE  LET h == Register(g, c, t)
           IN  /\ h \in RegistryType
               /\ h.rooms = g.rooms \cup {c}
               /\ h.unpairedHeld = g.unpairedHeld \cup {c}
               /\ h.creationHeld = g.creationHeld \cup {c}
               /\ \A n \in Network :
                    /\ h.unpairedBy[n] = IF c.network = n THEN g.unpairedBy[n] + 1 ELSE g.unpairedBy[n]
                    /\ h.createdBy[n] = IF c.network = n THEN g.createdBy[n] + 1 ELSE g.createdBy[n]
               /\ h.attached = g.attached /\ h.roomOf = g.roomOf /\ h.paired = g.paired
               /\ h.consumed = g.consumed /\ h.active = g.active
               /\ h.connectionsBy = g.connectionsBy /\ h.sock = g.sock
<1>1. c.network \in Network /\ c.session \in Session
  BY PopulationAssumption
<1>2. MinOf(TicketExpiry[c.session], t + RoomTTL) \in Nat
  BY <1>1, TimeAssumption DEF MinOf
<1> DEFINE ends == Put(g.expiry, c, MinOf(TicketExpiry[c.session], t + RoomTTL))
           unp == Bump(g.unpairedBy, c.network)
           cre == Bump(g.createdBy, c.network)
<1>3. /\ ends \in [Conn -> Nat] /\ unp \in [Network -> Nat] /\ cre \in [Network -> Nat]
      /\ \A n \in Network :
           /\ unp[n] = IF c.network = n THEN g.unpairedBy[n] + 1 ELSE g.unpairedBy[n]
           /\ cre[n] = IF c.network = n THEN g.createdBy[n] + 1 ELSE g.createdBy[n]
  BY <1>1, <1>2 DEF RegistryType, Put, Bump
<1>4. /\ Register(g, c, t).rooms = g.rooms \cup {c}
      /\ Register(g, c, t).expiry = ends
      /\ Register(g, c, t).unpairedHeld = g.unpairedHeld \cup {c}
      /\ Register(g, c, t).creationHeld = g.creationHeld \cup {c}
      /\ Register(g, c, t).unpairedBy = unp
      /\ Register(g, c, t).createdBy = cre
  BY DEF Register, RegistryType
<1>5. LET h == Register(g, c, t)
      IN  /\ h.attached = g.attached /\ h.roomOf = g.roomOf /\ h.paired = g.paired
          /\ h.consumed = g.consumed /\ h.active = g.active
          /\ h.connectionsBy = g.connectionsBy /\ h.sock = g.sock
  BY DEF Register, RegistryType
<1>6. Register(g, c, t) \in RegistryType
  BY <1>3 DEF Register, RegistryType
<1> HIDE DEF ends, unp, cre
<1> QED BY <1>3, <1>4, <1>5, <1>6

LEMMA AddPeerFields ==
    ASSUME NEW g \in RegistryType, NEW c \in Conn, NEW r \in Conn
    PROVE  LET h == AddPeer(g, c, r)
           IN  /\ h \in RegistryType
               /\ h.attached = g.attached \cup {c}
               /\ h.roomOf[c] = r
               /\ \A d \in Conn : d # c => h.roomOf[d] = g.roomOf[d]
               /\ h.active = g.active + 1
               /\ \A n \in Network : h.connectionsBy[n] =
                     IF c.network = n THEN g.connectionsBy[n] + 1 ELSE g.connectionsBy[n]
               /\ h.sock[c] = "open"
               /\ \A d \in Conn : d # c => h.sock[d] = g.sock[d]
               /\ h.rooms = g.rooms /\ h.paired = g.paired /\ h.consumed = g.consumed
               /\ h.unpairedHeld = g.unpairedHeld /\ h.creationHeld = g.creationHeld
               /\ h.unpairedBy = g.unpairedBy /\ h.createdBy = g.createdBy
<1>1. c.network \in Network
  BY PopulationAssumption
<1>2. /\ Put(g.roomOf, c, r) \in [Conn -> Conn \cup {NoRoom}]
      /\ Bump(g.connectionsBy, c.network) \in [Network -> Nat]
      /\ Put(g.sock, c, "open") \in [Conn -> SocketState]
      /\ g.active + 1 \in Nat
  BY <1>1 DEF RegistryType, SocketState, Put, Bump
<1>3. AddPeer(g, c, r) \in RegistryType
  BY <1>2 DEF AddPeer, RegistryType
<1>5. /\ AddPeer(g, c, r).roomOf = Put(g.roomOf, c, r)
      /\ AddPeer(g, c, r).connectionsBy = Bump(g.connectionsBy, c.network)
      /\ AddPeer(g, c, r).sock = Put(g.sock, c, "open")
  BY DEF AddPeer, RegistryType
<1>4. /\ AddPeer(g, c, r).attached = g.attached \cup {c}
      /\ AddPeer(g, c, r).active = g.active + 1
      /\ AddPeer(g, c, r).rooms = g.rooms /\ AddPeer(g, c, r).paired = g.paired
      /\ AddPeer(g, c, r).consumed = g.consumed
      /\ AddPeer(g, c, r).unpairedHeld = g.unpairedHeld
      /\ AddPeer(g, c, r).creationHeld = g.creationHeld
      /\ AddPeer(g, c, r).unpairedBy = g.unpairedBy
      /\ AddPeer(g, c, r).createdBy = g.createdBy
  BY DEF AddPeer, RegistryType
<1> QED BY <1>1, <1>3, <1>4, <1>5 DEF RegistryType, Put, Bump

-----------------------------------------------------------------------------
(* Changing the sockets or the spent tickets does not touch the books.     *)
LEMMA SameBooks ==
    ASSUME NEW g, NEW h, Core(g), SameSeats(g, h), h.rooms = g.rooms, NEW R
    PROVE  Core(h) /\ (Settled(g, R) => Settled(h, R))
<1>1. Seated(h) /\ OneRoomPerSession(h) /\ OneSeatPerRole(h) /\ Held(h)
  BY DEF Core, SameSeats, Seated, OneRoomPerSession, OneSeatPerRole, Held
<1>2. Counted(h)
  BY DEF Core, SameSeats, Counted
<1>3. Settled(g, R) => Settled(h, R)
  BY DEF SameSeats, Settled
<1> QED BY <1>1, <1>2, <1>3 DEF Core, SameSeats

(* A new room of a session without one is only missing its first peer.     *)
LEMMA RegisterCore ==
    ASSUME NEW g, Sound(g), NEW c \in Conn, NEW t \in Nat,
           g.sock[c] = "new", RoomsOf(g, c.session) = {}
    PROVE  LET h == Register(g, c, t)
           IN  /\ Core(h) /\ Settled(h, h.rooms \ {c}) /\ Unused(h, {c})
               /\ c \in h.rooms /\ c \notin h.paired /\ Peers(h, c) = {}
               /\ \A d \in Conn : h.roomOf[d] # c
<1> DEFINE h == Register(g, c, t)
<1>0. /\ g \in RegistryType /\ Seated(g) /\ Held(g) /\ Counted(g)
      /\ OneSeatPerRole(g) /\ OneRoomPerSession(g) /\ Settled(g, g.rooms) /\ Unused(g, {})
  BY DEF Sound, Core
<1>1. /\ h \in RegistryType
      /\ h.rooms = g.rooms \cup {c}
      /\ h.unpairedHeld = g.unpairedHeld \cup {c}
      /\ h.creationHeld = g.creationHeld \cup {c}
      /\ \A n \in Network :
           /\ h.unpairedBy[n] = IF c.network = n THEN g.unpairedBy[n] + 1 ELSE g.unpairedBy[n]
           /\ h.createdBy[n] = IF c.network = n THEN g.createdBy[n] + 1 ELSE g.createdBy[n]
      /\ h.attached = g.attached /\ h.roomOf = g.roomOf /\ h.paired = g.paired
      /\ h.consumed = g.consumed /\ h.active = g.active
      /\ h.connectionsBy = g.connectionsBy /\ h.sock = g.sock
  BY <1>0, RegisterFields
<1> HIDE DEF h
<1>2. /\ c \notin g.rooms /\ c \notin g.paired /\ c \notin g.attached
      /\ \A d \in Conn : g.roomOf[d] # c
  BY <1>0 DEF Unused
<1>3. Seated(h) /\ OneSeatPerRole(h) /\ Held(h)
  BY <1>0, <1>1, <1>2 DEF Seated, OneSeatPerRole, Held
<1>4. OneRoomPerSession(h)
  BY <1>0, <1>1 DEF OneRoomPerSession, RoomsOf
<1>5. Counted(h)
  <2>1. /\ g.unpairedHeld \in SUBSET Conn /\ g.creationHeld \in SUBSET Conn
        /\ c \notin g.unpairedHeld /\ c \notin g.creationHeld
    BY <1>0, <1>2 DEF RegistryType, Held
  <2> DEFINE U == g.unpairedHeld
             V == g.creationHeld
  <2>2. /\ h.unpairedHeld = U \cup {c} /\ h.creationHeld = V \cup {c}
        /\ U \in SUBSET Conn /\ c \notin U /\ V \in SUBSET Conn /\ c \notin V
        /\ h.attached = g.attached /\ h.active = g.active /\ h.connectionsBy = g.connectionsBy
        /\ g.active = Cardinality(g.attached)
        /\ \A n \in Network :
             /\ g.connectionsBy[n] = Cardinality(OnNetwork(g.attached, n))
             /\ g.unpairedBy[n] = Cardinality(OnNetwork(U, n))
             /\ g.createdBy[n] = Cardinality(OnNetwork(V, n))
    BY <1>0, <1>1, <2>1 DEF Counted
  <2> HIDE DEF U, V
  <2>3. \A n : Cardinality(OnNetwork(U \cup {c}, n)) =
           IF c.network = n THEN Cardinality(OnNetwork(U, n)) + 1 ELSE Cardinality(OnNetwork(U, n))
    BY <2>2, CardinalityWith
  <2>4. \A n : Cardinality(OnNetwork(V \cup {c}, n)) =
           IF c.network = n THEN Cardinality(OnNetwork(V, n)) + 1 ELSE Cardinality(OnNetwork(V, n))
    BY <2>2, CardinalityWith
  <2>5. ASSUME NEW n \in Network
        PROVE  /\ h.unpairedBy[n] = Cardinality(OnNetwork(h.unpairedHeld, n))
               /\ h.createdBy[n] = Cardinality(OnNetwork(h.creationHeld, n))
    <3>1. /\ h.unpairedBy[n] = IF c.network = n THEN g.unpairedBy[n] + 1 ELSE g.unpairedBy[n]
          /\ h.createdBy[n] = IF c.network = n THEN g.createdBy[n] + 1 ELSE g.createdBy[n]
      BY <1>1
    <3>2. /\ g.unpairedBy[n] = Cardinality(OnNetwork(U, n))
          /\ g.createdBy[n] = Cardinality(OnNetwork(V, n))
      BY <2>2
    <3>3. /\ Cardinality(OnNetwork(U \cup {c}, n)) =
               IF c.network = n THEN Cardinality(OnNetwork(U, n)) + 1 ELSE Cardinality(OnNetwork(U, n))
          /\ Cardinality(OnNetwork(V \cup {c}, n)) =
               IF c.network = n THEN Cardinality(OnNetwork(V, n)) + 1 ELSE Cardinality(OnNetwork(V, n))
      BY <2>3, <2>4
    <3>4. h.unpairedHeld = U \cup {c} /\ h.creationHeld = V \cup {c}
      BY <2>2
    <3> QED BY <3>1, <3>2, <3>3, <3>4
  <2> QED BY <2>2, <2>5 DEF Counted
<1>6. Settled(h, h.rooms \ {c}) /\ Unused(h, {c})
  BY <1>0, <1>1 DEF Settled, Unused
<1>7. /\ c \in h.rooms /\ c \notin h.paired /\ Peers(h, c) = {}
      /\ \A d \in Conn : h.roomOf[d] # c
  BY <1>0, <1>1, <1>2 DEF Peers, RegistryType
<1> QED BY <1>1, <1>3, <1>4, <1>5, <1>6, <1>7 DEF Core, h

(* Two distinct peers are two roles, and there are only two roles.         *)
LEMMA TwoPeers ==
    ASSUME NEW g, Core(g), NEW r
    PROVE  Cardinality(Peers(g, r)) = 2
             <=> \E p, q \in g.attached : p # q /\ g.roomOf[p] = r /\ g.roomOf[q] = r
<1>1. Peers(g, r) \in SUBSET Conn /\ IsFiniteSet(Peers(g, r))
  <2>1. Peers(g, r) \in SUBSET Conn
    BY DEF Core, RegistryType, Peers
  <2> QED BY <2>1, SubsetsFinite
<1>2. ASSUME NEW p \in Peers(g, r), NEW q \in Peers(g, r), p # q
      PROVE  Cardinality(Peers(g, r)) = 2
  <2>1. p \in g.attached /\ q \in g.attached /\ g.roomOf[p] = r /\ g.roomOf[q] = r
    BY DEF Peers
  <2>2. p.role # q.role /\ p.role \in Role /\ q.role \in Role
    BY <1>1, <1>2, <2>1, PopulationAssumption DEF Core, OneSeatPerRole
  <2>3. \A d \in Peers(g, r) : d.role \in Role /\ (d.role = p.role => d = p) /\ (d.role = q.role => d = q)
    BY <1>1, <2>1, PopulationAssumption DEF Core, OneSeatPerRole, Peers
  <2>4. Peers(g, r) = {p} \cup {q}
    BY <2>2, <2>3 DEF Role
  <2>5. IsFiniteSet({p}) /\ Cardinality({p}) = 1 /\ q \notin {p}
    BY <1>2, FS_Singleton
  <2>6. Cardinality({p} \cup {q}) = 2
    BY <2>5, FS_AddElement
  <2> QED BY <2>4, <2>6
<1>3. ASSUME Cardinality(Peers(g, r)) = 2
      PROVE  \E p, q \in Peers(g, r) : p # q
  <2>1. PICK p \in Peers(g, r) : TRUE
    BY <1>1, <1>3, FS_EmptySet
  <2>2. Peers(g, r) # {p}
    BY <1>3, FS_Singleton
  <2> QED BY <2>1, <2>2
<1> QED BY <1>2, <1>3 DEF Peers

(* Within attach, once admission has let c into the room object r.         *)
Admitted(g, c, r) ==
    /\ Core(g)
    /\ c \in Conn /\ r \in g.rooms /\ r \notin g.paired /\ r.session = c.session
    /\ ~HasRole(g, r, c.role)
    /\ g.sock[c] = "new"
    /\ Unused(g, {c})
    /\ Settled(g, g.rooms \ {r})
    /\ \A d \in Conn : g.roomOf[d] = r => d \in g.attached
    /\ \A p, q \in g.attached : g.roomOf[p] = r /\ g.roomOf[q] = r => p = q

LEMMA AddPeerCore ==
    ASSUME NEW g, NEW c, NEW r, Admitted(g, c, r)
    PROVE  LET h == AddPeer(g, c, r)
           IN  /\ Core(h) /\ Settled(h, h.rooms \ {r}) /\ Unused(h, {})
               /\ c \in h.attached /\ h.roomOf[c] = r /\ r \in h.rooms /\ r \notin h.paired
               /\ \A d \in Conn : h.roomOf[d] = r => d \in h.attached
<1> DEFINE h == AddPeer(g, c, r)
<1>0. /\ g \in RegistryType /\ Seated(g) /\ Held(g) /\ Counted(g)
      /\ OneSeatPerRole(g) /\ OneRoomPerSession(g) /\ c \in Conn /\ r \in Conn
      /\ r \in g.rooms /\ r \notin g.paired /\ r.session = c.session
      /\ c \notin g.attached /\ g.roomOf[c] = NoRoom
  BY DEF Admitted, Core, RegistryType, Unused
<1>1. /\ h \in RegistryType
      /\ h.attached = g.attached \cup {c}
      /\ h.roomOf[c] = r
      /\ \A d \in Conn : d # c => h.roomOf[d] = g.roomOf[d]
      /\ h.active = g.active + 1
      /\ \A n \in Network : h.connectionsBy[n] =
            IF c.network = n THEN g.connectionsBy[n] + 1 ELSE g.connectionsBy[n]
      /\ h.sock[c] = "open"
      /\ \A d \in Conn : d # c => h.sock[d] = g.sock[d]
      /\ h.rooms = g.rooms /\ h.paired = g.paired /\ h.consumed = g.consumed
      /\ h.unpairedHeld = g.unpairedHeld /\ h.creationHeld = g.creationHeld
      /\ h.unpairedBy = g.unpairedBy /\ h.createdBy = g.createdBy
  BY <1>0, AddPeerFields
<1> HIDE DEF h
<1>2. g.attached \in SUBSET Conn
  BY <1>0 DEF RegistryType
<1>3. Seated(h) /\ OneRoomPerSession(h) /\ Held(h)
  BY <1>0, <1>1, <1>2 DEF Seated, OneRoomPerSession, Held
<1>4. OneSeatPerRole(h)
  <2>1. \A p \in g.attached : g.roomOf[p] = r => p.role # c.role
    BY DEF Admitted, HasRole, Peers
  <2> QED BY <1>0, <1>1, <1>2, <2>1 DEF OneSeatPerRole
<1>5. Counted(h)
  <2> DEFINE S == g.attached
  <2>1. /\ S \in SUBSET Conn /\ c \notin S /\ c \in Conn /\ h.attached = S \cup {c}
        /\ g.active = Cardinality(S)
        /\ \A n \in Network : g.connectionsBy[n] = Cardinality(OnNetwork(S, n))
    BY <1>0, <1>1, <1>2 DEF Counted
  <2> HIDE DEF S
  <2>2. /\ Cardinality(S \cup {c}) = Cardinality(S) + 1
        /\ \A n : Cardinality(OnNetwork(S \cup {c}, n)) =
             IF c.network = n THEN Cardinality(OnNetwork(S, n)) + 1 ELSE Cardinality(OnNetwork(S, n))
    BY <2>1, CardinalityWith
  <2>3. h.active = Cardinality(h.attached)
    BY <1>1, <2>1, <2>2
  <2>4. ASSUME NEW n \in Network
        PROVE  /\ h.connectionsBy[n] = Cardinality(OnNetwork(h.attached, n))
               /\ h.unpairedBy[n] = Cardinality(OnNetwork(h.unpairedHeld, n))
               /\ h.createdBy[n] = Cardinality(OnNetwork(h.creationHeld, n))
    <3>1. h.connectionsBy[n] = IF c.network = n THEN g.connectionsBy[n] + 1 ELSE g.connectionsBy[n]
      BY <1>1
    <3>2. g.connectionsBy[n] = Cardinality(OnNetwork(S, n))
      BY <2>1
    <3>3. Cardinality(OnNetwork(S \cup {c}, n)) =
             IF c.network = n THEN Cardinality(OnNetwork(S, n)) + 1 ELSE Cardinality(OnNetwork(S, n))
      BY <2>2
    <3>4. h.connectionsBy[n] = Cardinality(OnNetwork(h.attached, n))
      BY <2>1, <3>1, <3>2, <3>3
    <3>5. /\ g.unpairedBy[n] = Cardinality(OnNetwork(g.unpairedHeld, n))
          /\ g.createdBy[n] = Cardinality(OnNetwork(g.creationHeld, n))
      BY <1>0 DEF Counted
    <3>6. /\ h.unpairedBy[n] = g.unpairedBy[n] /\ h.createdBy[n] = g.createdBy[n]
          /\ h.unpairedHeld = g.unpairedHeld /\ h.creationHeld = g.creationHeld
      BY <1>1
    <3> QED BY <3>4, <3>5, <3>6
  <2> QED BY <2>3, <2>4 DEF Counted
<1>6. Unused(h, {})
  <2>1. Unused(g, {c})
    BY DEF Admitted
  <2> QED BY <1>0, <1>1, <1>2, <2>1 DEF Unused
<1>7. Settled(h, h.rooms \ {r})
  <2>1. Settled(g, g.rooms \ {r})
    BY DEF Admitted
  <2>2. ASSUME NEW q \in g.rooms \ {r}
        PROVE  \A d \in Conn : h.roomOf[d] = q <=> d # c /\ g.roomOf[d] = q
    BY <1>0, <1>1
  <2> QED BY <1>0, <1>1, <1>2, <2>1, <2>2 DEF Settled
<1>8. \A d \in Conn : h.roomOf[d] = r => d \in h.attached
  BY <1>1 DEF Admitted
<1> QED BY <1>0, <1>1, <1>3, <1>4, <1>5, <1>6, <1>7, <1>8 DEF Core, h

(* Seating a peer settles the room again.                                  *)
LEMMA PairIfFullCore ==
    ASSUME NEW h, Core(h), NEW r, Settled(h, h.rooms \ {r}), Unused(h, {}),
           r \in h.rooms, r \notin h.paired,
           NEW c \in h.attached, h.roomOf[c] = r,
           \A d \in Conn : h.roomOf[d] = r => d \in h.attached
    PROVE  Sound(PairIfFull(h, r))
<1>0. /\ h \in RegistryType /\ Seated(h) /\ Held(h) /\ Counted(h)
      /\ OneSeatPerRole(h) /\ OneRoomPerSession(h) /\ r \in Conn /\ r.session \in Session
  BY PopulationAssumption DEF Core, RegistryType
<1>1. ASSUME Cardinality(Peers(h, r)) # 2
      PROVE  Sound(h)
  <2>1. ~ \E p, q \in h.attached : p # q /\ h.roomOf[p] = r /\ h.roomOf[q] = r
    BY <1>1, TwoPeers
  <2> QED BY <2>1 DEF Sound, Settled
<1>2. ASSUME Cardinality(Peers(h, r)) = 2
      PROVE  Sound(Consume(ReleaseUnpaired([h EXCEPT !.paired = @ \cup {r}], {r}), {r.session}))
  <2> DEFINE k1 == [h EXCEPT !.paired = @ \cup {r}]
             k2 == ReleaseUnpaired(k1, {r})
             k == Consume(k2, {r.session})
  <2>0. \E p, q \in h.attached : p # q /\ h.roomOf[p] = r /\ h.roomOf[q] = r
    BY <1>2, TwoPeers
  <2>1. /\ k1 \in RegistryType /\ k1.paired = h.paired \cup {r}
        /\ k1.rooms = h.rooms /\ k1.attached = h.attached /\ k1.roomOf = h.roomOf
        /\ k1.unpairedHeld = h.unpairedHeld /\ k1.creationHeld = h.creationHeld
        /\ k1.active = h.active /\ k1.connectionsBy = h.connectionsBy
        /\ k1.unpairedBy = h.unpairedBy /\ k1.createdBy = h.createdBy /\ k1.sock = h.sock
    BY <1>0 DEF RegistryType
  <2> HIDE DEF k1
  <2>2. UnpairedReleased(k1, k2, {r})
    BY <2>1, ReleaseUnpairedFields
  <2> HIDE DEF k2
  <2>3. {r.session} \in SUBSET Session /\ k2 \in RegistryType
    BY <1>0, <2>2 DEF UnpairedReleased
  <2>4. SameSeats(k2, k) /\ k.rooms = k2.rooms /\ k.sock = k2.sock
    BY <2>3, ConsumeFields
  <2> HIDE DEF k
  <2>5. /\ k \in RegistryType /\ k.paired = h.paired \cup {r}
        /\ k.rooms = h.rooms /\ k.attached = h.attached /\ k.roomOf = h.roomOf
        /\ k.unpairedHeld = h.unpairedHeld \ {r} /\ k.creationHeld = h.creationHeld
        /\ k.active = h.active /\ k.connectionsBy = h.connectionsBy
        /\ k.createdBy = h.createdBy /\ k.sock = h.sock
        /\ \A n \in Network : k.unpairedBy[n] =
             Minus(h.unpairedBy[n], Cardinality(OnNetwork({r} \cap h.unpairedHeld, n)))
    BY <2>1, <2>2, <2>4 DEF UnpairedReleased, SameSeats
  <2>6. Seated(k) /\ OneRoomPerSession(k) /\ OneSeatPerRole(k) /\ Held(k)
    BY <1>0, <2>5 DEF Seated, OneRoomPerSession, OneSeatPerRole, Held
  <2>7. Counted(k)
    <3> DEFINE S == h.unpairedHeld
               T == {r} \cap h.unpairedHeld
    <3>1. /\ S \in SUBSET Conn /\ T \in SUBSET S /\ k.unpairedHeld = S \ T
          /\ \A n \in Network : k.unpairedBy[n] = Minus(h.unpairedBy[n], Cardinality(OnNetwork(T, n)))
          /\ \A n \in Network : h.unpairedBy[n] = Cardinality(OnNetwork(S, n))
      BY <1>0, <2>5 DEF RegistryType, Counted
    <3> HIDE DEF S, T
    <3>2. \A n : Minus(Cardinality(OnNetwork(S, n)), Cardinality(OnNetwork(T, n)))
                   = Cardinality(OnNetwork(S \ T, n))
      BY <3>1, CardinalityWithout
    <3>3. \A n \in Network : k.unpairedBy[n] = Cardinality(OnNetwork(k.unpairedHeld, n))
      BY <3>1, <3>2
    <3> QED BY <1>0, <2>5, <3>3 DEF Counted
  <2>8. Unused(k, {})
    BY <2>5 DEF Unused
  <2>9. Settled(k, k.rooms)
    BY <2>0, <2>5 DEF Settled
  <2> QED BY <2>5, <2>6, <2>7, <2>8, <2>9 DEF Core, Sound, k, k2, k1
<1> QED BY <1>1, <1>2 DEF PairIfFull

LEMMA SeatCore ==
    ASSUME NEW g, NEW c, NEW r, Admitted(g, c, r)
    PROVE  Sound(PairIfFull(AddPeer(g, c, r), r))
<1> DEFINE h == AddPeer(g, c, r)
<1>1. /\ Core(h) /\ Settled(h, h.rooms \ {r}) /\ Unused(h, {})
      /\ c \in h.attached /\ h.roomOf[c] = r /\ r \in h.rooms /\ r \notin h.paired
      /\ \A d \in Conn : h.roomOf[d] = r => d \in h.attached
  BY AddPeerCore
<1> HIDE DEF h
<1>2. Sound(PairIfFull(h, r))
  BY <1>1, PairIfFullCore
<1> QED BY <1>2 DEF h

(* detach *)
LEMMA DetachSound ==
    ASSUME NEW g, Sound(g), NEW c \in Conn
    PROVE  /\ Sound(Detach(g, c))
           /\ \A d \in Conn : (Detach(g, c).sock[d] = "new") <=> (g.sock[d] = "new")
           /\ LET left == ReleasePeers(g, {c})
              IN  /\ PeersReleased(g, left, {c}) /\ Core(left)
                  /\ \/ Detach(g, c) = left
                     \/ \E b \in BOOLEAN : Detach(g, c) = CloseRooms(left, {g.roomOf[c]}, b)
<1> DEFINE left == ReleasePeers(g, {c})
           r == g.roomOf[c]
<1>0. /\ Core(g) /\ g \in RegistryType /\ Seated(g) /\ Held(g) /\ Counted(g)
      /\ OneSeatPerRole(g) /\ OneRoomPerSession(g) /\ Settled(g, g.rooms) /\ Unused(g, {})
  BY DEF Core, Sound
<1>1. PeersReleased(g, left, {c})
  BY <1>0, ReleasePeersFields
<1> HIDE DEF left
<1>2. /\ left \in RegistryType
      /\ left.attached = g.attached \ {c}
      /\ left.active = Minus(g.active, Cardinality({c} \cap g.attached))
      /\ \A n \in Network : left.connectionsBy[n] =
             Minus(g.connectionsBy[n], Cardinality(OnNetwork({c} \cap g.attached, n)))
      /\ left.rooms = g.rooms /\ left.roomOf = g.roomOf /\ left.paired = g.paired
      /\ left.expiry = g.expiry /\ left.consumed = g.consumed /\ left.sock = g.sock
      /\ left.unpairedHeld = g.unpairedHeld /\ left.creationHeld = g.creationHeld
      /\ left.unpairedBy = g.unpairedBy /\ left.createdBy = g.createdBy
  BY <1>1 DEF PeersReleased
<1>3. Seated(left) /\ OneRoomPerSession(left) /\ OneSeatPerRole(left) /\ Held(left)
  BY <1>0, <1>2 DEF Seated, OneRoomPerSession, OneSeatPerRole, Held
<1>4. Counted(left)
  <2> DEFINE S == g.attached
             T == {c} \cap g.attached
  <2>1. /\ S \in SUBSET Conn /\ T \in SUBSET S /\ left.attached = S \ T
        /\ left.active = Minus(g.active, Cardinality(T)) /\ g.active = Cardinality(S)
        /\ \A n \in Network : left.connectionsBy[n] = Minus(g.connectionsBy[n], Cardinality(OnNetwork(T, n)))
        /\ \A n \in Network : g.connectionsBy[n] = Cardinality(OnNetwork(S, n))
    BY <1>0, <1>2 DEF RegistryType, Counted
  <2> HIDE DEF S, T
  <2>2. /\ Minus(Cardinality(S), Cardinality(T)) = Cardinality(S \ T)
        /\ \A n : Minus(Cardinality(OnNetwork(S, n)), Cardinality(OnNetwork(T, n)))
                   = Cardinality(OnNetwork(S \ T, n))
    BY <2>1, CardinalityWithout
  <2>3. left.active = Cardinality(left.attached)
    BY <2>1, <2>2
  <2>4. \A n \in Network : left.connectionsBy[n] = Cardinality(OnNetwork(left.attached, n))
    BY <2>1, <2>2
  <2> QED BY <1>0, <1>2, <2>3, <2>4 DEF Counted
<1>5. Core(left) /\ Unused(left, {r}) /\ Unused(left, {})
  <2>1. Unused(left, {r}) /\ Unused(left, {})
    BY <1>0, <1>2 DEF Unused
  <2> QED BY <1>2, <1>3, <1>4, <2>1 DEF Core
<1>6. Settled(left, left.rooms \ {r})
  BY <1>0, <1>2 DEF Settled
<1>7. ASSUME c \notin g.attached \/ r \notin g.rooms
      PROVE  Sound(left)
  <2>1. r \notin g.rooms
    BY <1>0, <1>7 DEF Settled
  <2> QED BY <1>2, <1>5, <1>6, <2>1 DEF Sound
<1>8. ASSUME NEW b \in BOOLEAN
      PROVE  /\ Sound(CloseRooms(left, {r}, b))
             /\ \A d \in Conn : (CloseRooms(left, {r}, b).sock[d] = "new") <=> (g.sock[d] = "new")
  <2> DEFINE R == {r}
  <2>1. Core(left) /\ Unused(left, R) /\ Settled(left, left.rooms \ R)
    BY <1>5, <1>6
  <2> HIDE DEF R
  <2>2. Sound(CloseRooms(left, R, b)) /\ RoomsClosed(left, CloseRooms(left, R, b), R, b)
    BY <2>1, CloseRoomsCore, CloseRoomsFields
  <2>3. \A d \in Conn : (CloseRooms(left, R, b).sock[d] = "new") <=> (left.sock[d] = "new")
    BY <2>2 DEF RoomsClosed
  <2> QED BY <1>2, <2>2, <2>3 DEF R
<1>9. ASSUME c \in g.attached, r \in g.rooms, r \notin g.paired
      PROVE  /\ Peers(left, r) = {}
             /\ ReleaseCreation(ReleaseUnpaired(Unregister(left, {r}), {r}), {r})
                  = CloseRooms(left, {r}, FALSE)
  <2> DEFINE X == ReleaseCreation(ReleaseUnpaired(Unregister(left, {r}), {r}), {r})
  <2>1. Peers(left, r) = {}
    BY <1>0, <1>2, <1>9 DEF Settled, Peers
  <2>2. X \in RegistryType
    <3> DEFINE x1 == Unregister(left, {r})
               x2 == ReleaseUnpaired(x1, {r})
    <3>1. x1 \in RegistryType
      BY <1>2, UnregisterFields DEF SameSeats
    <3> HIDE DEF x1
    <3>2. x2 \in RegistryType
      BY <3>1, ReleaseUnpairedFields DEF UnpairedReleased
    <3> HIDE DEF x2
    <3>3. ReleaseCreation(x2, {r}) \in RegistryType
      BY <3>2, ReleaseCreationFields DEF CreationReleased
    <3> QED BY <3>3 DEF x1, x2
  <2>3. {q \in {r} : q \in left.rooms \/ Peers(left, q) # {}} = {r}
        /\ {d \in left.attached : left.roomOf[d] \in {r}} = {}
    BY <1>2, <1>9, <2>1 DEF Peers
  <2>4. CloseRooms(left, {r}, FALSE) = ShutSockets(ReleasePeers(X, {}), {})
    BY <2>3 DEF CloseRooms
  <2> HIDE DEF X
  <2>5. ReleasePeers(X, {}) = X
    <3>1. {} \cap X.attached = {} /\ \A n : OnNetwork({}, n) = {}
      BY DEF OnNetwork
    <3>2. /\ X.attached \ {} = X.attached
          /\ Minus(X.active, 0) = X.active
          /\ [n \in Network |-> Minus(X.connectionsBy[n], 0)] = X.connectionsBy
      BY <2>2 DEF RegistryType, Minus
    <3>3. ReleasePeers(X, {}) = [X EXCEPT !.attached = X.attached, !.active = X.active,
                                          !.connectionsBy = X.connectionsBy]
      BY <3>1, <3>2, FS_EmptySet DEF ReleasePeers
    <3> QED BY <2>2, <3>3 DEF RegistryType
  <2>6. ShutSockets(X, {}) = X
    <3>1. [d \in Conn |-> IF d \in {} /\ X.sock[d] = "open" THEN "closing" ELSE X.sock[d]] = X.sock
      BY <2>2 DEF RegistryType
    <3>2. ShutSockets(X, {}) = [X EXCEPT !.sock = X.sock]
      BY <3>1 DEF ShutSockets
    <3> QED BY <2>2, <3>2 DEF RegistryType
  <2> QED BY <2>1, <2>4, <2>5, <2>6 DEF X
<1>10. CASE c \notin g.attached \/ r \notin g.rooms
  <2>1. Detach(g, c) = left
    BY <1>10 DEF Detach, left
  <2> QED BY <1>1, <1>2, <1>5, <1>7, <1>10, <2>1 DEF left
<1>11. CASE c \in g.attached /\ r \in g.rooms /\ r \in g.paired
  <2>1. Detach(g, c) = CloseRooms(left, {r}, TRUE)
    BY <1>11 DEF Detach, left
  <2> QED BY <1>1, <1>5, <1>8, <2>1 DEF left
<1>12. CASE c \in g.attached /\ r \in g.rooms /\ r \notin g.paired
  <2>1. Detach(g, c) = CloseRooms(left, {r}, FALSE)
    BY <1>9, <1>12 DEF Detach, left
  <2> QED BY <1>1, <1>5, <1>8, <2>1 DEF left
<1> QED BY <1>10, <1>11, <1>12

(* Sockets may change, tickets be spent or forgotten: what was used stays  *)
(* used.                                                                   *)
LEMMA SameBooksSound ==
    ASSUME NEW g, NEW h, Sound(g), SameSeats(g, h), h.rooms = g.rooms,
           \A c \in Conn : h.sock[c] = "new" => g.sock[c] = "new"
    PROVE  Sound(h)
<1>1. Core(h) /\ Settled(h, h.rooms)
  BY SameBooks DEF Sound
<1>2. Unused(h, {})
  BY DEF Sound, Unused, SameSeats
<1> QED BY <1>1, <1>2 DEF Sound

-----------------------------------------------------------------------------
(* The inductive invariant: at rest, between two handlers, the registry is *)
(* sound.  The properties do not suffice by themselves: that the books     *)
(* are straight after closeRoom needs that reservations are held exactly   *)
(* by the registered rooms, and that an empty or half empty room is never  *)
(* left behind needs that nobody has left a registered room.               *)
Inv ==
    /\ now \in Nat
    /\ shut \in BOOLEAN
    /\ completions \in [Session -> Nat]
    /\ Sound(reg)

LEMMA ForgetSound ==
    ASSUME NEW g, Sound(g), NEW s, NEW t
    PROVE  Sound(Forget(g, s, t)) /\ Forget(g, s, t).sock = g.sock
<1> DEFINE spent == IF TicketExpiry[s] <= t THEN g.consumed \ {s} ELSE g.consumed
           h == Forget(g, s, t)
<1>1. g \in RegistryType /\ spent \in SUBSET Session
  BY DEF Sound, Core, RegistryType
<1>2. h = [g EXCEPT !.consumed = spent]
  BY DEF Forget
<1> HIDE DEF spent
<1>3. SameSeats(g, h) /\ h.rooms = g.rooms /\ h.sock = g.sock
  BY <1>1, <1>2 DEF SameSeats, RegistryType
<1> QED BY <1>3, SameBooksSound

(* The room attach goes on with, and what admission established of it.     *)
LEMMA OpenedAdmits ==
    ASSUME NEW g, Sound(g), NEW c \in Conn, now \in Nat, g.sock[c] = "new",
           NEW r \in Target(g, c)
    PROVE  LET h == Opened(g, c)
           IN  /\ Core(h) /\ Settled(h, h.rooms \ {r}) /\ Unused(h, {r})
               /\ ~SeatRefused(h, c, r) => Admitted(h, c, r)
<1>1. CASE RoomsOf(g, c.session) = {}
  <2> DEFINE h == Register(g, c, now)
  <2>1. r = c /\ Opened(g, c) = h
    BY <1>1 DEF Target, Opened
  <2>2. /\ Core(h) /\ Settled(h, h.rooms \ {c}) /\ Unused(h, {c})
        /\ c \in h.rooms /\ c \notin h.paired /\ Peers(h, c) = {}
        /\ \A d \in Conn : h.roomOf[d] # c
    BY <1>1, RegisterCore
  <2>3. h.sock[c] = "new"
    BY RegisterFields DEF Sound, Core
  <2> HIDE DEF h
  <2>4. h.attached \in SUBSET Conn
    BY <2>2 DEF Core, RegistryType
  <2>5. Admitted(h, c, c)
    BY <2>2, <2>3, <2>4 DEF Admitted, HasRole
  <2> QED BY <2>1, <2>2, <2>5
<1>2. CASE RoomsOf(g, c.session) # {}
  <2>1. Opened(g, c) = g /\ r \in g.rooms /\ r.session = c.session
    BY <1>2 DEF Target, Opened, RoomsOf
  <2>2. Core(g) /\ Settled(g, g.rooms) /\ Unused(g, {})
    BY DEF Sound
  <2>3. Settled(g, g.rooms \ {r}) /\ Unused(g, {r}) /\ Unused(g, {c})
    BY <2>2 DEF Settled, Unused
  <2>4. ASSUME ~SeatRefused(g, c, r)
        PROVE  Admitted(g, c, r)
    <3>1. r \notin g.paired /\ ~HasRole(g, r, c.role)
      BY <2>4 DEF SeatRefused
    <3>2. /\ \A d \in Conn : g.roomOf[d] = r => d \in g.attached
          /\ \A p, q \in g.attached : g.roomOf[p] = r /\ g.roomOf[q] = r => p = q
      BY <2>1, <2>2, <3>1 DEF Settled
    <3> QED BY <2>1, <2>2, <2>3, <3>1, <3>2 DEF Admitted
  <2> QED BY <2>1, <2>2, <2>3, <2>4
<1> QED BY <1>1, <1>2

(* closeRoom at rest. *)
LEMMA CloseRoomsSound ==
    ASSUME NEW g, Sound(g), NEW R, NEW b \in BOOLEAN
    PROVE  Sound(CloseRooms(g, R, b))
<1>1. Core(g) /\ Settled(g, g.rooms \ R) /\ Unused(g, R)
  BY DEF Sound, Settled, Unused
<1> QED BY <1>1, CloseRoomsCore

(* A socket that is not new gets another state that is not new. *)
LEMMA PutSockSound ==
    ASSUME NEW g, Sound(g), NEW c \in Conn, g.sock[c] # "new",
           NEW s \in {"open", "closing", "closed"}
    PROVE  Sound([g EXCEPT !.sock = Put(@, c, s)])
<1> DEFINE socks == Put(g.sock, c, s)
           h == [g EXCEPT !.sock = socks]
<1>1. g \in RegistryType
  BY DEF Sound, Core
<1>2. socks \in [Conn -> SocketState] /\ \A d \in Conn : socks[d] = "new" => g.sock[d] = "new"
  BY <1>1 DEF RegistryType, SocketState, Put
<1> HIDE DEF socks
<1>3. SameSeats(g, h) /\ h.rooms = g.rooms /\ h.sock = socks
  BY <1>1, <1>2 DEF SameSeats, RegistryType
<1> HIDE DEF h
<1>4. Sound(h)
  BY <1>2, <1>3, SameBooksSound
<1> QED BY <1>4 DEF h, socks

LEMMA InitInv == Init => Inv
<1> SUFFICES ASSUME Init PROVE Inv
  OBVIOUS
<1>1. reg \in RegistryType
  BY DEF Init, RegistryType, SocketState
<1>2. Cardinality({}) = 0 /\ \A n : OnNetwork({}, n) = {}
  BY FS_EmptySet DEF OnNetwork
<1>3. Counted(reg)
  BY <1>2 DEF Init, Counted
<1>4. Seated(reg) /\ OneRoomPerSession(reg) /\ OneSeatPerRole(reg) /\ Held(reg)
  BY DEF Init, Seated, OneRoomPerSession, OneSeatPerRole, Held
<1>5. Settled(reg, reg.rooms) /\ Unused(reg, {})
  BY PopulationAssumption DEF Init, Settled, Unused
<1>6. now \in Nat /\ shut \in BOOLEAN /\ completions \in [Session -> Nat]
  BY DEF Init
<1> QED BY <1>1, <1>3, <1>4, <1>5, <1>6 DEF Inv, Sound, Core

LEMMA NextInv == Inv /\ [Next]_vars => Inv'
<1> SUFFICES ASSUME Inv, [Next]_vars PROVE Inv'
  OBVIOUS
<1>0. /\ now \in Nat /\ shut \in BOOLEAN /\ completions \in [Session -> Nat]
      /\ Sound(reg) /\ reg \in RegistryType
  BY DEF Inv, Sound, Core
<1>1. ASSUME NEW c \in Conn, AttachRefused(c)
      PROVE  Inv'
  <2>1. reg' = Forget(reg, c.session, now) /\ UNCHANGED <<now, shut, completions>>
    BY <1>1 DEF AttachRefused
  <2> QED BY <1>0, <2>1, ForgetSound DEF Inv
<1>2. ASSUME NEW c \in Conn, AttachExpired(c)
      PROVE  Inv'
  <2> DEFINE g == Forget(reg, c.session, now)
  <2>1. Sound(g) /\ g.sock[c] = "new"
    BY <1>0, <1>2, ForgetSound DEF AttachExpired, Presents
  <2>2. UNCHANGED <<now, shut, completions>>
    BY <1>2 DEF AttachExpired
  <2>3. PICK r \in Target(g, c) : reg' = CloseRooms(Opened(g, c), {r}, TRUE)
    BY <1>2 DEF AttachExpired
  <2> HIDE DEF g
  <2> DEFINE h == Opened(g, c)
  <2>4. Core(h) /\ Settled(h, h.rooms \ {r}) /\ Unused(h, {r})
    BY <1>0, <2>1, OpenedAdmits
  <2> HIDE DEF h
  <2>5. Sound(CloseRooms(h, {r}, TRUE))
    BY <2>4, CloseRoomsCore
  <2> QED BY <1>0, <2>2, <2>3, <2>5 DEF Inv, h
<1>3. ASSUME NEW c \in Conn, AttachSeated(c)
      PROVE  Inv'
  <2> DEFINE g == Forget(reg, c.session, now)
             h == Opened(g, c)
  <2>1. Sound(g) /\ g.sock[c] = "new"
    BY <1>0, <1>3, ForgetSound DEF AttachSeated, Presents
  <2>2. UNCHANGED <<now, shut, completions>>
    BY <1>3 DEF AttachSeated
  <2>3. PICK r \in Target(g, c) :
          /\ ~SeatRefused(h, c, r)
          /\ LET seated == PairIfFull(AddPeer(h, c, r), r)
             IN  reg' = seated \/ reg' = CloseRooms(seated, {r}, TRUE)
    BY <1>3 DEF AttachSeated
  <2> HIDE DEF g
  <2>4. Admitted(h, c, r)
    BY <1>0, <2>1, <2>3, OpenedAdmits
  <2> HIDE DEF h
  <2> DEFINE seated == PairIfFull(AddPeer(h, c, r), r)
  <2>5. Sound(seated)
    BY <2>4, SeatCore
  <2>6. reg' = seated \/ reg' = CloseRooms(seated, {r}, TRUE)
    BY <2>3
  <2> HIDE DEF seated
  <2>7. Sound(reg')
    BY <2>5, <2>6, CloseRoomsSound
  <2> QED BY <1>0, <2>2, <2>7 DEF Inv
<1>4. ASSUME NEW c \in Conn, PeerCloses(c)
      PROVE  Inv'
  <2>1. /\ reg' = [reg EXCEPT !.sock = Put(@, c, "closing")] /\ reg.sock[c] # "new"
        /\ UNCHANGED <<now, shut, completions>>
    BY <1>4 DEF PeerCloses
  <2>2. Sound([reg EXCEPT !.sock = Put(@, c, "closing")])
    BY <1>0, <2>1, PutSockSound
  <2> QED BY <1>0, <2>1, <2>2 DEF Inv
<1>5. ASSUME NEW c \in Conn,
             Relay(c) \/ CloseByMessage(c) \/ CloseByControlFrame(c) \/ SendCallbackFails(c)
      PROVE  Inv'
  <2>1. UNCHANGED <<now, shut, completions>>
    BY <1>5 DEF Relay, CloseByMessage, CloseByControlFrame, SendCallbackFails
  <2>2. reg' = reg \/ reg' = CloseRooms(reg, {reg.roomOf[c]}, TRUE)
    BY <1>5 DEF Relay, CloseByMessage, CloseByControlFrame, SendCallbackFails
  <2>3. Sound(CloseRooms(reg, {reg.roomOf[c]}, TRUE))
    BY <1>0, CloseRoomsSound
  <2> QED BY <1>0, <2>1, <2>2, <2>3 DEF Inv
<1>6. ASSUME NEW c \in Conn, Complete(c)
      PROVE  Inv'
  <2>1. /\ UNCHANGED <<now, shut>> /\ reg' = CloseRooms(reg, {reg.roomOf[c]}, TRUE)
        /\ \/ completions' = completions
           \/ completions' = [completions EXCEPT ![c.session] = @ + 1]
    BY <1>6 DEF Complete
  <2>2. completions' \in [Session -> Nat]
    BY <1>0, <2>1
  <2>3. Sound(CloseRooms(reg, {reg.roomOf[c]}, TRUE))
    BY <1>0, CloseRoomsSound
  <2> QED BY <1>0, <2>1, <2>2, <2>3 DEF Inv
<1>7. ASSUME NEW c \in Conn, SocketClosed(c)
      PROVE  Inv'
  <2> DEFINE g == Detach(reg, c)
  <2>1. /\ reg' = [g EXCEPT !.sock = Put(@, c, "closed")] /\ reg.sock[c] # "new"
        /\ UNCHANGED <<now, shut, completions>>
    BY <1>7 DEF SocketClosed, Listening
  <2>2. Sound(g) /\ g.sock[c] # "new"
    BY <1>0, <2>1, DetachSound
  <2> HIDE DEF g
  <2>3. Sound([g EXCEPT !.sock = Put(@, c, "closed")])
    BY <2>2, PutSockSound
  <2> QED BY <1>0, <2>1, <2>3 DEF Inv
<1>8. ASSUME NEW c \in Conn, SocketError(c)
      PROVE  Inv'
  <2> DEFINE g == Detach(reg, c)
             h == ShutSockets(g, {c})
  <2>1. reg' = h /\ UNCHANGED <<now, shut, completions>>
    BY <1>8 DEF SocketError
  <2>2. Sound(g)
    BY <1>0, DetachSound
  <2> HIDE DEF g
  <2>3. SocketsShut(g, h)
    BY <2>2, ShutSocketsFields DEF Sound, Core
  <2> HIDE DEF h
  <2>4. Sound(h)
    BY <2>2, <2>3, SameBooksSound DEF SocketsShut
  <2> QED BY <1>0, <2>1, <2>4 DEF Inv
<1>9. ASSUME Sweep
      PROVE  Inv'
  <2>1. UNCHANGED <<now, shut, completions>>
    BY <1>9 DEF Sweep
  <2>2. PICK clogged \in SUBSET Pingable(reg) :
          LET g == CloseRooms(reg, Expired(reg) \cup clogged, TRUE)
          IN  reg' = [g EXCEPT !.consumed = {s \in @ : TicketExpiry[s] > now}]
    BY <1>9 DEF Sweep
  <2> DEFINE g == CloseRooms(reg, Expired(reg) \cup clogged, TRUE)
             left == {s \in g.consumed : TicketExpiry[s] > now}
             h == [g EXCEPT !.consumed = left]
  <2>3. reg' = h
    BY <2>2
  <2>4. Sound(g)
    BY <1>0, CloseRoomsSound
  <2> HIDE DEF g
  <2>5. g \in RegistryType /\ left \in SUBSET Session
    BY <2>4 DEF Sound, Core, RegistryType
  <2> HIDE DEF left
  <2>6. SameSeats(g, h) /\ h.rooms = g.rooms /\ h.sock = g.sock
    BY <2>5 DEF SameSeats, RegistryType
  <2> HIDE DEF h
  <2>7. Sound(h)
    BY <2>4, <2>6, SameBooksSound
  <2> QED BY <1>0, <2>1, <2>3, <2>7 DEF Inv
<1>10. ASSUME Shutdown
       PROVE  Inv'
  <2>1. /\ shut' = TRUE /\ UNCHANGED <<now, completions>>
        /\ reg' = CloseRooms(reg, reg.rooms, FALSE)
    BY <1>10 DEF Shutdown
  <2>2. Sound(CloseRooms(reg, reg.rooms, FALSE))
    BY <1>0, CloseRoomsSound
  <2> QED BY <1>0, <2>1, <2>2 DEF Inv
<1>11. ASSUME Tick
       PROVE  Inv'
  BY <1>0, <1>11 DEF Tick, Inv
<1>12. ASSUME UNCHANGED vars
       PROVE  Inv'
  BY <1>0, <1>12 DEF vars, Inv
<1> QED
  BY <1>1, <1>2, <1>3, <1>4, <1>5, <1>6, <1>7, <1>8, <1>9, <1>10, <1>11, <1>12
  DEF Next, Attach, PeerEvent

THEOREM Invariance == Spec => []Inv
BY InitInv, NextInv, PTL DEF Spec

(* Every field keeps its type. *)
THEOREM TypeCorrect == Spec => []TypeOK
<1>1. Inv => TypeOK
  BY DEF Inv, Sound, Core, TypeOK
<1> QED BY <1>1, Invariance, PTL

(* The admission counters always count exactly the present peers and the   *)
(* held reservations, whatever the limits, tickets and sockets.            *)
THEOREM Accounting == Spec => []AccountingExact
<1>1. Inv => AccountingExact
  BY DEF Inv, Sound, Core, Counted, Held, AccountingExact
<1> QED BY <1>1, Invariance, PTL

(* Rooms exist only while a peer is connected, one per session.            *)
THEOREM Occupancy == Spec => []RoomsExistWithPeers
<1>1. Inv => RoomsExistWithPeers
  BY DEF Inv, Sound, Core, Settled, Seated, OneRoomPerSession, Peers, RoomsExistWithPeers
<1> QED BY <1>1, Invariance, PTL

(* A room is paired exactly while a browser and a phone sit in it.         *)
THEOREM Pairing == Spec => []PairedMeansFull
<1>1. ASSUME Inv
      PROVE  PairedMeansFull
  <2>1. Core(reg) /\ Settled(reg, reg.rooms) /\ OneSeatPerRole(reg)
    BY <1>1 DEF Inv, Sound, Core
  <2>2. ASSUME NEW r \in reg.rooms
        PROVE  r \in reg.paired <=> Cardinality(Peers(reg, r)) = 2
    BY <2>1, TwoPeers DEF Settled
  <2>3. ASSUME NEW r \in reg.rooms, NEW p \in Peers(reg, r), NEW q \in Peers(reg, r), p.role = q.role
        PROVE  p = q
    BY <2>1, <2>3 DEF OneSeatPerRole, Peers
  <2> QED BY <2>2, <2>3 DEF PairedMeansFull
<1> QED BY <1>1, Invariance, PTL

(* Both: the rooms of the registry stand exactly for the peers that sit in *)
(* them.                                                                   *)
THEOREM Seating == Spec => []RoomsOccupied
BY Occupancy, Pairing, PTL DEF RoomsOccupied

-----------------------------------------------------------------------------
(* Who is not a peer has no live room: closing its room object is a no-op. *)
LEMMA DeadRoom ==
    ASSUME NEW g, Sound(g), NEW c \in Conn, c \notin g.attached
    PROVE  LET h == CloseRooms(g, {g.roomOf[c]}, TRUE)
           IN  /\ h.rooms = g.rooms /\ h.attached = g.attached
               /\ h.consumed = g.consumed /\ h.active = g.active
               /\ \A p \in g.attached : g.roomOf[p] # g.roomOf[c]
<1> DEFINE r == g.roomOf[c]
           h == CloseRooms(g, {r}, TRUE)
           inhit == {p \in g.attached : g.roomOf[p] \in {r}}
<1>1. /\ Core(g) /\ g \in RegistryType /\ Seated(g) /\ Settled(g, g.rooms)
  BY DEF Sound, Core
<1>2. r \notin g.rooms
  BY <1>1 DEF Settled
<1>3. \A p \in g.attached : g.roomOf[p] # r
  BY <1>1, <1>2 DEF Seated
<1>4. /\ inhit = {} /\ g.rooms \ {r} = g.rooms /\ g.attached \ {} = g.attached
      /\ SessionsOf({r} \cap g.rooms) = {}
  BY <1>2, <1>3 DEF SessionsOf
<1>5. RoomsClosed(g, h, {r}, TRUE)
  BY <1>1, CloseRoomsFields
<1> HIDE DEF h
<1>6. /\ h.rooms = g.rooms \ {r} /\ h.attached = g.attached \ inhit
      /\ h.active = Minus(g.active, Cardinality(inhit))
      /\ h.consumed = g.consumed \cup SessionsOf({r} \cap g.rooms)
  BY <1>5 DEF RoomsClosed
<1> HIDE DEF inhit
<1>7. h.active = g.active
  <2>1. g.active \in Nat
    BY <1>1 DEF RegistryType
  <2> QED BY <1>4, <1>6, <2>1, FS_EmptySet DEF Minus
<1>8. h.rooms = g.rooms /\ h.attached = g.attached /\ h.consumed = g.consumed
  BY <1>4, <1>6
<1> HIDE DEF r
<1> QED BY <1>3, <1>7, <1>8 DEF h, r

LEMMA DeadDetach ==
    ASSUME NEW g, Sound(g), NEW c \in Conn, c \notin g.attached
    PROVE  LET h == Detach(g, c)
           IN  /\ h.rooms = g.rooms /\ h.attached = g.attached
               /\ h.consumed = g.consumed /\ h.active = g.active /\ h \in RegistryType
<1> DEFINE h == ReleasePeers(g, {c})
<1>1. g \in RegistryType
  BY DEF Sound, Core
<1>2. Detach(g, c) = h
  BY DEF Detach
<1>3. PeersReleased(g, h, {c})
  BY <1>1, ReleasePeersFields
<1> HIDE DEF h
<1>4. {c} \cap g.attached = {} /\ g.attached \ {c} = g.attached /\ g.active \in Nat
  BY <1>1 DEF RegistryType
<1>5. /\ h \in RegistryType /\ h.rooms = g.rooms /\ h.consumed = g.consumed
      /\ h.attached = g.attached \ {c}
      /\ h.active = Minus(g.active, Cardinality({c} \cap g.attached))
  BY <1>3 DEF PeersReleased
<1>6. {c} \cap g.attached = {} /\ g.attached \ {c} = g.attached
  BY <1>1 DEF RegistryType
<1>7. Minus(g.active, Cardinality({})) = g.active
  BY <1>4, FS_EmptySet DEF Minus
<1> QED BY <1>2, <1>5, <1>6, <1>7

(* Whatever arrives late for a socket that is not a peer any more, it does *)
(* not touch the registry: not even a new room of the same session.        *)
THEOREM StaleEvents == Spec => StaleEventsAreInert
<1> DEFINE Inert == /\ reg'.rooms = reg.rooms /\ reg'.attached = reg.attached
                    /\ reg'.consumed = reg.consumed /\ reg'.active = reg.active
                    /\ completions' = completions
<1>1. ASSUME Inv, NEW c \in Conn, PeerEvent(c), c \notin reg.attached
      PROVE  Inert
  <2> DEFINE closed == CloseRooms(reg, {reg.roomOf[c]}, TRUE)
             left == Detach(reg, c)
  <2>0. Sound(reg)
    BY <1>1 DEF Inv
  <2>1. /\ closed.rooms = reg.rooms /\ closed.attached = reg.attached
        /\ closed.consumed = reg.consumed /\ closed.active = reg.active
        /\ \A p \in reg.attached : reg.roomOf[p] # reg.roomOf[c]
    BY <1>1, <2>0, DeadRoom
  <2>2. /\ left.rooms = reg.rooms /\ left.attached = reg.attached
        /\ left.consumed = reg.consumed /\ left.active = reg.active /\ left \in RegistryType
    BY <1>1, <2>0, DeadDetach
  <2>3. ~BothPresent(reg, reg.roomOf[c])
    BY <2>1 DEF BothPresent, HasRole, Peers, Role
  <2>4. CASE Relay(c) \/ CloseByMessage(c) \/ CloseByControlFrame(c) \/ SendCallbackFails(c)
    <3>1. completions' = completions /\ (reg' = reg \/ reg' = closed)
      BY <2>4 DEF Relay, CloseByMessage, CloseByControlFrame, SendCallbackFails
    <3> HIDE DEF closed
    <3> QED BY <2>1, <3>1
  <2>5. CASE Complete(c)
    <3>1. completions' = completions /\ reg' = closed
      BY <2>3, <2>5 DEF Complete
    <3> HIDE DEF closed
    <3> QED BY <2>1, <3>1
  <2>6. CASE SocketClosed(c)
    <3>1. completions' = completions /\ reg' = [left EXCEPT !.sock = Put(@, c, "closed")]
      BY <2>6 DEF SocketClosed
    <3> HIDE DEF left
    <3> QED BY <2>2, <3>1 DEF RegistryType
  <2>7. CASE SocketError(c)
    <3>1. completions' = completions /\ reg' = ShutSockets(left, {c})
      BY <2>7 DEF SocketError
    <3> HIDE DEF left
    <3>2. SocketsShut(left, reg')
      BY <2>2, <3>1, ShutSocketsFields
    <3> QED BY <2>2, <3>1, <3>2 DEF SocketsShut, SameSeats
  <2> QED BY <1>1, <2>4, <2>5, <2>6, <2>7 DEF PeerEvent
<1>2. Inv /\ [Next]_vars
        => [\A c \in Conn : PeerEvent(c) /\ c \notin reg.attached => Inert]_vars
  BY <1>1
<1> QED BY <1>2, Invariance, PTL DEF Spec, StaleEventsAreInert

-----------------------------------------------------------------------------
(* What the registry promises beyond its books: the limits on rooms and on *)
(* spent tickets, the seat kept for a second peer, and the session of      *)
(* PairingSession that every behaviour of the registry implements.         *)

(* The networks that hold a room. *)
Holders(R) == {r.network : r \in R}

LEMMA MapBound ==
    ASSUME NEW S, IsFiniteSet(S), NEW T, NEW f \in [S -> T],
           \A y \in T : \E x \in S : f[x] = y
    PROVE  IsFiniteSet(T) /\ Cardinality(T) <= Cardinality(S)
<1>1. f \in Surjection(S, T)
  BY DEF Surjection
<1> QED BY <1>1, FS_Surjection

LEMMA CupBound ==
    ASSUME NEW S, NEW T, IsFiniteSet(S), IsFiniteSet(T)
    PROVE  /\ IsFiniteSet(S \cup T) /\ Cardinality(S \cup T) \in Nat
           /\ Cardinality(S \cup T) <= Cardinality(S) + Cardinality(T)
<1>1. Cardinality(S) \in Nat /\ Cardinality(T) \in Nat
  BY FS_CardinalityType
<1>2. IsFiniteSet(S \cap T) /\ IsFiniteSet(S \cup T)
  BY FS_Intersection, FS_Union
<1>3. Cardinality(S \cap T) \in Nat /\ Cardinality(S \cup T) \in Nat
  BY <1>2, FS_CardinalityType
<1>4. Cardinality(S \cup T) = Cardinality(S) + Cardinality(T) - Cardinality(S \cap T)
  BY FS_Union
<1> QED BY <1>1, <1>2, <1>3, <1>4

LEMMA HoldersBound ==
    ASSUME NEW R \in SUBSET Conn
    PROVE  /\ IsFiniteSet(Holders(R)) /\ Cardinality(Holders(R)) \in Nat
           /\ Cardinality(Holders(R)) <= Cardinality(R)
<1> DEFINE f == [r \in R |-> r.network]
<1>1. f \in [R -> Holders(R)] /\ \A y \in Holders(R) : \E x \in R : f[x] = y
  BY DEF Holders
<1> HIDE DEF f
<1>2. IsFiniteSet(R)
  BY SubsetsFinite
<1> QED BY <1>1, <1>2, MapBound, FS_CardinalityType

LEMMA SessionsBound ==
    ASSUME NEW R \in SUBSET Conn
    PROVE  /\ SessionsOf(R) \in SUBSET Session
           /\ IsFiniteSet(SessionsOf(R)) /\ Cardinality(SessionsOf(R)) \in Nat
           /\ Cardinality(SessionsOf(R)) <= Cardinality(R)
<1> DEFINE f == [r \in R |-> r.session]
<1>1. f \in [R -> SessionsOf(R)] /\ \A y \in SessionsOf(R) : \E x \in R : f[x] = y
  BY DEF SessionsOf
<1> HIDE DEF f
<1>2. IsFiniteSet(R)
  BY SubsetsFinite
<1> QED BY <1>1, <1>2, MapBound, SessionsType, FS_CardinalityType

LEMMA SpentFinite ==
    ASSUME NEW S \in SUBSET Session
    PROVE  IsFiniteSet(S) /\ Cardinality(S) \in Nat
BY PopulationAssumption, FS_Subset, FS_CardinalityType

-----------------------------------------------------------------------------
(* The limits that admission keeps, on the registered rooms R and the      *)
(* spent tickets S.                                                        *)
RoomsLimited(R) ==
    /\ Cardinality(R) <= MaxRooms
    /\ Cardinality(R) - Cardinality(Holders(R)) < ReservedBoundary

SpentLimited(R, S) == Cardinality(S \cup SessionsOf(R)) <= 5 * MaxRooms - 1

Limited(g) == RoomsLimited(g.rooms) /\ SpentLimited(g.rooms, g.consumed)

(* No step of the registry but the opening of a room grows what the limits *)
(* count: a ticket is spent only by a room that was counted for it.        *)
Shrinks(g, h) ==
    /\ h.rooms \subseteq g.rooms
    /\ h.consumed \subseteq g.consumed \cup SessionsOf(g.rooms)

LEMMA ShrinksTransitive ==
    ASSUME NEW g, NEW h, NEW k, Shrinks(g, h), Shrinks(h, k)
    PROVE  Shrinks(g, k)
BY DEF Shrinks, SessionsOf

(* Closing a room frees one place and takes away one network at most.      *)
LEMMA FewerRooms ==
    ASSUME NEW R \in SUBSET Conn, RoomsLimited(R), NEW Q \in SUBSET R
    PROVE  RoomsLimited(Q)
<1> DEFINE gone == R \ Q
<1>1. /\ gone \in SUBSET Conn /\ Q \in SUBSET Conn /\ R \cap Q = Q
      /\ Holders(R) = Holders(Q) \cup Holders(gone)
  BY DEF Holders
<1>2. IsFiniteSet(R) /\ Cardinality(R) \in Nat /\ Cardinality(Q) \in Nat
  BY <1>1, SubsetsFinite
<1>3. Cardinality(gone) = Cardinality(R) - Cardinality(Q)
  BY <1>1, <1>2, FS_Difference
<1> HIDE DEF gone
<1>4. /\ IsFiniteSet(Holders(Q)) /\ Cardinality(Holders(Q)) \in Nat
      /\ IsFiniteSet(Holders(gone)) /\ Cardinality(Holders(gone)) \in Nat
      /\ Cardinality(Holders(gone)) <= Cardinality(gone)
      /\ Cardinality(Holders(R)) \in Nat
  BY <1>1, HoldersBound
<1>6. Cardinality(Holders(R)) <= Cardinality(Holders(Q)) + Cardinality(Holders(gone))
  BY <1>1, <1>4, CupBound
<1>7. Cardinality(R) <= MaxRooms /\ Cardinality(R) - Cardinality(Holders(R)) < ReservedBoundary
  BY DEF RoomsLimited
<1>8. MaxRooms \in Nat /\ ReservedBoundary \in Int
  BY LimitsAssumption DEF ReservedBoundary
<1>9. Cardinality(Q) <= MaxRooms
  BY <1>2, <1>3, <1>4, <1>7, <1>8
<1>10. Cardinality(Q) - Cardinality(Holders(Q)) < ReservedBoundary
  BY <1>2, <1>3, <1>4, <1>6, <1>7, <1>8
<1> QED BY <1>9, <1>10 DEF RoomsLimited

LEMMA ShrinksLimited ==
    ASSUME NEW g \in RegistryType, NEW h \in RegistryType, Limited(g), Shrinks(g, h)
    PROVE  Limited(h)
<1>1. /\ g.rooms \in SUBSET Conn /\ h.rooms \in SUBSET g.rooms
      /\ g.consumed \in SUBSET Session
  BY DEF RegistryType, Shrinks
<1>2. RoomsLimited(h.rooms)
  BY <1>1, FewerRooms DEF Limited
<1> DEFINE X == g.consumed \cup SessionsOf(g.rooms)
           Y == h.consumed \cup SessionsOf(h.rooms)
<1>3. X \in SUBSET Session /\ Y \in SUBSET X
  BY <1>1, SessionsBound DEF Shrinks, SessionsOf
<1>4. Cardinality(X) <= 5 * MaxRooms - 1
  BY DEF Limited, SpentLimited
<1> HIDE DEF X, Y
<1>5. IsFiniteSet(X) /\ Cardinality(X) \in Nat /\ Cardinality(Y) \in Nat
  BY <1>3, SpentFinite
<1>6. Cardinality(Y) <= Cardinality(X)
  BY <1>3, <1>5, FS_Subset
<1>7. Cardinality(Y) <= 5 * MaxRooms - 1
  BY <1>4, <1>5, <1>6, LimitsAssumption
<1> QED BY <1>2, <1>7 DEF Limited, SpentLimited, Y

(* A network without a room adds itself to the holders; one that holds a   *)
(* room already is let in only below the boundary.                         *)
LEMMA RegisterLimited ==
    ASSUME NEW g, Sound(g), Limited(g), NEW c \in Conn, c \notin g.rooms,
           ~RoomRefused(g, c), NEW t \in Nat
    PROVE  Limited(Register(g, c, t))
<1> DEFINE h == Register(g, c, t)
           R == g.rooms
           S == g.consumed
           Q == R \cup {c}
<1>1. /\ g \in RegistryType /\ R \in SUBSET Conn /\ S \in SUBSET Session /\ c.network \in Network
      /\ g.createdBy[c.network] = Cardinality(OnNetwork(R, c.network))
  BY PopulationAssumption DEF Sound, Core, RegistryType, Counted, Held
<1>2. h.rooms = Q /\ h.consumed = S
  BY <1>1, RegisterFields
<1>3. Cardinality(R) < MaxRooms /\ Cardinality(S) < 4 * MaxRooms
      /\ (Cardinality(R) < ReservedBoundary \/ g.createdBy[c.network] = 0)
  <2>1. Cardinality(R) \in Nat /\ Cardinality(S) \in Nat /\ g.createdBy[c.network] \in Nat
    BY <1>1, SubsetsFinite, SpentFinite
  <2> QED BY <1>1, <2>1, LimitsAssumption DEF RoomRefused, ReservedBoundary
<1>4. c \notin R
  OBVIOUS
<1>5. Cardinality(R) - Cardinality(Holders(R)) < ReservedBoundary
  BY DEF Limited, RoomsLimited
<1> HIDE DEF R, S, h
<1>6. IsFiniteSet(R) /\ Cardinality(R) \in Nat /\ Cardinality(Q) = Cardinality(R) + 1
  BY <1>1, <1>4, SubsetsFinite, FS_AddElement
<1>7. Holders(Q) = Holders(R) \cup {c.network} /\ Q \in SUBSET Conn
  BY <1>1 DEF Holders
<1>8. IsFiniteSet(Holders(R)) /\ Cardinality(Holders(R)) \in Nat
  BY <1>1, HoldersBound
<1>9. MaxRooms \in Nat /\ ReservedBoundary \in Int
  BY LimitsAssumption DEF ReservedBoundary
<1>10. Cardinality(Q) - Cardinality(Holders(Q)) < ReservedBoundary
  <2>1. CASE g.createdBy[c.network] = 0
    <3>1. Cardinality(OnNetwork(R, c.network)) = 0 /\ IsFiniteSet(OnNetwork(R, c.network))
      BY <1>1, <2>1, SubsetsFinite
    <3>2. OnNetwork(R, c.network) = {}
      BY <3>1, FS_EmptySet
    <3>3. c.network \notin Holders(R)
      BY <3>2 DEF OnNetwork, Holders
    <3>4. Cardinality(Holders(Q)) = Cardinality(Holders(R)) + 1
      BY <1>7, <1>8, <3>3, FS_AddElement
    <3> QED BY <1>5, <1>6, <1>8, <1>9, <3>4
  <2>2. CASE Cardinality(R) < ReservedBoundary
    <3>1. Holders(Q) # {} /\ IsFiniteSet(Holders(Q)) /\ Cardinality(Holders(Q)) \in Nat
      BY <1>7, HoldersBound
    <3>2. Cardinality(Holders(Q)) # 0
      BY <3>1, FS_EmptySet
    <3> QED BY <1>6, <1>9, <2>2, <3>1, <3>2
  <2> QED BY <1>3, <2>1, <2>2
<1>11. Cardinality(Q) <= MaxRooms
  BY <1>3, <1>6, <1>9
<1>12. SpentLimited(Q, S)
  <2>1. /\ IsFiniteSet(S) /\ Cardinality(S) \in Nat
        /\ IsFiniteSet(SessionsOf(Q)) /\ Cardinality(SessionsOf(Q)) \in Nat
        /\ Cardinality(SessionsOf(Q)) <= Cardinality(Q)
    BY <1>1, <1>7, SpentFinite, SessionsBound
  <2>3. /\ Cardinality(S \cup SessionsOf(Q)) <= Cardinality(S) + Cardinality(SessionsOf(Q))
        /\ Cardinality(S \cup SessionsOf(Q)) \in Nat
    BY <2>1, CupBound
  <2>5. Cardinality(S) <= 4 * MaxRooms - 1 /\ Cardinality(SessionsOf(Q)) <= MaxRooms
    BY <1>3, <1>6, <1>9, <1>11, <2>1
  <2>6. Cardinality(S \cup SessionsOf(Q)) <= 5 * MaxRooms - 1
    BY <1>9, <2>1, <2>3, <2>5
  <2> QED BY <2>6 DEF SpentLimited
<1> QED BY <1>2, <1>10, <1>11, <1>12 DEF Limited, RoomsLimited, h

-----------------------------------------------------------------------------
(* While a paired room is registered its ticket is spent or expired, and a *)
(* room never outlives its ticket.                                         *)
Spent(g, t) ==
    \A r \in g.rooms \cap g.paired : t < TicketExpiry[r.session] => r.session \in g.consumed

Timely(g) == \A r \in g.rooms : g.expiry[r] <= TicketExpiry[r.session]

Promises(g, t) == Limited(g) /\ Spent(g, t) /\ Timely(g)

(* The phase of the session s, as PhaseOf finds it in reg at now.          *)
PhaseIn(g, t, s) ==
    IF RoomsOf(g, s) # {}
      THEN IF RoomsOf(g, s) \subseteq g.paired THEN "paired" ELSE "waiting"
      ELSE IF s \in g.consumed \/ TicketExpiry[s] <= t THEN "spent" ELSE "idle"

(* The moves of PairingSession; live says that the ticket has not expired. *)
Allowed(a, b, live) ==
    \/ a = b
    \/ a = "idle" /\ b = "waiting" /\ live
    \/ a = "waiting" /\ b = "idle"
    \/ a = "waiting" /\ b = "paired" /\ live
    \/ a \in {"waiting", "paired"} /\ b = "spent"
    \/ a = "idle" /\ b = "spent"

SessionsMove(g, h, t) ==
    \A s \in Session : Allowed(PhaseIn(g, t, s), PhaseIn(h, t, s), t < TicketExpiry[s])

(* A step that opens no room and pairs no peers: rooms are closed, and     *)
(* tickets are spent by rooms or forgotten once they have expired.         *)
Closes(g, h, t) ==
    /\ Shrinks(g, h)
    /\ h.paired = g.paired /\ h.expiry = g.expiry
    /\ \A s \in g.consumed \ h.consumed : TicketExpiry[s] <= t
    /\ \A r \in g.rooms \ h.rooms :
         r \in g.paired /\ t < TicketExpiry[r.session] => r.session \in h.consumed

LEMMA ExpiryType == \A r \in Conn : r.session \in Session /\ TicketExpiry[r.session] \in Nat
BY PopulationAssumption, TimeAssumption

LEMMA ClosesKeeps ==
    ASSUME NEW g \in RegistryType, NEW h \in RegistryType, NEW t \in Nat,
           Promises(g, t), Closes(g, h, t)
    PROVE  Promises(h, t)
<1>1. Limited(h)
  BY ShrinksLimited DEF Promises, Closes
<1>2. Timely(h)
  BY DEF Promises, Closes, Shrinks, Timely
<1>3. Spent(h, t)
  <2>1. ASSUME NEW r \in h.rooms \cap h.paired, t < TicketExpiry[r.session]
        PROVE  r.session \in h.consumed
    <3>1. r \in g.rooms \cap g.paired /\ r \in Conn
      BY <2>1 DEF Closes, Shrinks, RegistryType
    <3>2. r.session \in g.consumed
      BY <2>1, <3>1 DEF Promises, Spent
    <3>3. TicketExpiry[r.session] \in Nat
      BY <3>1, ExpiryType
    <3> QED BY <2>1, <3>2, <3>3 DEF Closes
  <2> QED BY <2>1 DEF Spent
<1> QED BY <1>1, <1>2, <1>3 DEF Promises

LEMMA ClosesMoves ==
    ASSUME NEW g \in RegistryType, NEW h \in RegistryType, NEW t \in Nat,
           OneRoomPerSession(g), Closes(g, h, t)
    PROVE  SessionsMove(g, h, t)
<1> SUFFICES ASSUME NEW s \in Session
             PROVE  Allowed(PhaseIn(g, t, s), PhaseIn(h, t, s), t < TicketExpiry[s])
  BY DEF SessionsMove
<1>0. TicketExpiry[s] \in Nat
  BY TimeAssumption
<1>1. RoomsOf(h, s) \subseteq RoomsOf(g, s) /\ h.paired = g.paired
  BY DEF Closes, Shrinks, RoomsOf
<1>2. CASE RoomsOf(g, s) = {}
  <2>1. RoomsOf(h, s) = {}
    BY <1>1, <1>2
  <2>2. s \notin SessionsOf(g.rooms)
    BY <1>2 DEF RoomsOf, SessionsOf
  <2>3. (s \in h.consumed => s \in g.consumed) /\ (s \in g.consumed \ h.consumed => TicketExpiry[s] <= t)
    BY <2>2 DEF Closes, Shrinks
  <2>4. PhaseIn(g, t, s) = PhaseIn(h, t, s)
    BY <1>2, <2>1, <2>3 DEF PhaseIn
  <2> QED BY <2>4 DEF Allowed
<1>3. CASE RoomsOf(h, s) # {}
  <2>1. RoomsOf(h, s) = RoomsOf(g, s)
    BY <1>1, <1>3 DEF OneRoomPerSession, RoomsOf
  <2> QED BY <1>1, <2>1, <1>3 DEF PhaseIn, Allowed
<1>4. CASE RoomsOf(g, s) # {} /\ RoomsOf(h, s) = {} /\ ~(RoomsOf(g, s) \subseteq g.paired)
  BY <1>4 DEF PhaseIn, Allowed
<1>5. CASE RoomsOf(g, s) # {} /\ RoomsOf(h, s) = {} /\ RoomsOf(g, s) \subseteq g.paired
  <2>1. PICK r \in g.rooms : r.session = s /\ r \in g.paired /\ r \notin h.rooms
    BY <1>5 DEF RoomsOf
  <2>2. s \in h.consumed \/ TicketExpiry[s] <= t
    BY <1>0, <2>1 DEF Closes
  <2>3. PhaseIn(g, t, s) = "paired" /\ PhaseIn(h, t, s) = "spent"
    BY <1>5, <2>2 DEF PhaseIn
  <2> QED BY <2>3 DEF Allowed
<1> QED BY <1>2, <1>3, <1>4, <1>5

(* closeRoom, whether or not it spends the ticket. *)
LEMMA CloseRoomsCloses ==
    ASSUME NEW g, Core(g), NEW t \in Nat, Spent(g, t), NEW R, NEW b \in BOOLEAN
    PROVE  Closes(g, CloseRooms(g, R, b), t)
<1> DEFINE h == CloseRooms(g, R, b)
<1>1. RoomsClosed(g, h, R, b)
  BY CloseRoomsFields
<1> HIDE DEF h
<1>2. /\ h.rooms = g.rooms \ R /\ h.paired = g.paired /\ h.expiry = g.expiry
      /\ h.consumed = IF b THEN g.consumed \cup SessionsOf(R \cap g.rooms) ELSE g.consumed
  BY <1>1 DEF RoomsClosed
<1>3. Shrinks(g, h)
  BY <1>2 DEF Shrinks, SessionsOf
<1>4. ASSUME NEW r \in g.rooms \ h.rooms, r \in g.paired, t < TicketExpiry[r.session]
      PROVE  r.session \in h.consumed
  <2>1. r.session \in g.consumed
    BY <1>4 DEF Spent
  <2> QED BY <1>2, <2>1
<1> QED BY <1>2, <1>3, <1>4 DEF Closes, h

(* ... of one room, spending it. *)
LEMMA SpendingClose ==
    ASSUME NEW g, Core(g), NEW t \in Nat, Spent(g, t), NEW r
    PROVE  LET h == CloseRooms(g, {r}, TRUE)
           IN  /\ h \in RegistryType /\ Closes(g, h, t)
               /\ h.rooms = g.rooms \ {r} /\ h.paired = g.paired
               /\ r \in g.rooms => h.consumed = g.consumed \cup {r.session}
<1> DEFINE R == {r}
           h == CloseRooms(g, {r}, TRUE)
<1>1. SessionsOf(R \cap g.rooms) = IF r \in g.rooms THEN {r.session} ELSE {}
  BY DEF SessionsOf
<1> HIDE DEF R
<1>2. RoomsClosed(g, CloseRooms(g, R, TRUE), R, TRUE)
  BY CloseRoomsFields
<1>3. Closes(g, CloseRooms(g, R, TRUE), t)
  BY CloseRoomsCloses
<1>4. h = CloseRooms(g, R, TRUE)
  BY DEF R
<1> HIDE DEF h
<1>5. /\ h \in RegistryType /\ h.rooms = g.rooms \ R /\ h.paired = g.paired
      /\ h.consumed = g.consumed \cup SessionsOf(R \cap g.rooms)
  BY <1>2, <1>4 DEF RoomsClosed
<1> QED BY <1>1, <1>3, <1>4, <1>5 DEF R, h

LEMMA DetachCloses ==
    ASSUME NEW g, Sound(g), NEW t \in Nat, Spent(g, t), NEW c \in Conn
    PROVE  Closes(g, Detach(g, c), t)
<1> DEFINE left == ReleasePeers(g, {c})
           h == Detach(g, c)
<1> SUFFICES Closes(g, h, t)
  OBVIOUS
<1>1. /\ PeersReleased(g, left, {c}) /\ Core(left)
      /\ h = left \/ \E b \in BOOLEAN : h = CloseRooms(left, {g.roomOf[c]}, b)
  BY DetachSound
<1> HIDE DEF left, h
<1>2. left.rooms = g.rooms /\ left.paired = g.paired /\ left.expiry = g.expiry
      /\ left.consumed = g.consumed
  BY <1>1 DEF PeersReleased
<1>3. Spent(left, t)
  BY <1>2 DEF Spent
<1>4. CASE h = left
  BY <1>2, <1>4 DEF Closes, Shrinks
<1>5. CASE h # left
  <2>1. PICK b \in BOOLEAN : h = CloseRooms(left, {g.roomOf[c]}, b)
    BY <1>1, <1>5
  <2>2. Closes(left, h, t)
    BY <1>1, <1>3, <2>1, CloseRoomsCloses
  <2> QED BY <1>2, <2>2 DEF Closes, Shrinks
<1> QED BY <1>4, <1>5

LEMMA ForgetFields ==
    ASSUME NEW g \in RegistryType, NEW s, NEW t, NEW h, h = Forget(g, s, t)
    PROVE  /\ h \in RegistryType
           /\ h.rooms = g.rooms /\ h.paired = g.paired /\ h.expiry = g.expiry
           /\ TicketExpiry[s] <= t => h.consumed = g.consumed \ {s}
           /\ ~(TicketExpiry[s] <= t) => h.consumed = g.consumed
BY DEF Forget, RegistryType

LEMMA ForgetCloses ==
    ASSUME NEW g \in RegistryType, NEW s, NEW t
    PROVE  Closes(g, Forget(g, s, t), t)
<1> DEFINE h == Forget(g, s, t)
<1> SUFFICES Closes(g, h, t)
  OBVIOUS
<1>1. /\ h.rooms = g.rooms /\ h.paired = g.paired /\ h.expiry = g.expiry
      /\ TicketExpiry[s] <= t => h.consumed = g.consumed \ {s}
      /\ ~(TicketExpiry[s] <= t) => h.consumed = g.consumed
  BY ForgetFields
<1> HIDE DEF h
<1>2. \A q \in g.consumed \ h.consumed : TicketExpiry[q] <= t
  BY <1>1
<1>3. Shrinks(g, h)
  BY <1>1 DEF Shrinks
<1> QED BY <1>1, <1>2, <1>3 DEF Closes

-----------------------------------------------------------------------------
(* attach. *)
LEMMA RegisterExpiry ==
    ASSUME NEW g \in RegistryType, NEW c \in Conn, NEW t \in Nat
    PROVE  /\ Register(g, c, t).expiry[c] = MinOf(TicketExpiry[c.session], t + RoomTTL)
           /\ Register(g, c, t).expiry[c] <= TicketExpiry[c.session]
           /\ \A d \in Conn : d # c => Register(g, c, t).expiry[d] = g.expiry[d]
<1>1. Register(g, c, t).expiry = Put(g.expiry, c, MinOf(TicketExpiry[c.session], t + RoomTTL))
  BY DEF Register, RegistryType
<1>2. MinOf(TicketExpiry[c.session], t + RoomTTL) <= TicketExpiry[c.session]
  BY ExpiryType, TimeAssumption DEF MinOf
<1> QED BY <1>1, <1>2 DEF Put, RegistryType

(* The room attach goes on with keeps the promises. *)
LEMMA OpenedPromises ==
    ASSUME NEW g, Sound(g), now \in Nat, Promises(g, now), NEW c \in Conn, g.sock[c] = "new",
           NEW r \in Target(g, c)
    PROVE  LET h == Opened(g, c)
           IN  /\ h \in RegistryType /\ Promises(h, now)
               /\ r \in h.rooms /\ r \in Conn /\ r.session = c.session
               /\ h.rooms = g.rooms \cup {r} /\ h.paired = g.paired /\ h.consumed = g.consumed
               /\ IF RoomsOf(g, c.session) = {} THEN r = c /\ c \notin g.rooms /\ c \notin g.paired
                                                ELSE r \in g.rooms
<1>1. g \in RegistryType /\ c \notin g.rooms /\ c \notin g.paired
  BY DEF Sound, Core, Unused
<1>2. CASE RoomsOf(g, c.session) = {}
  <2> DEFINE h == Register(g, c, now)
  <2>1. r = c /\ ~RoomRefused(g, c) /\ Opened(g, c) = h
    BY <1>2 DEF Target, Opened
  <2>2. /\ h \in RegistryType /\ h.rooms = g.rooms \cup {c} /\ h.paired = g.paired
        /\ h.consumed = g.consumed
    BY <1>1, RegisterFields
  <2>3. Limited(h)
    BY <1>1, <2>1, RegisterLimited DEF Promises
  <2>4. h.expiry[c] <= TicketExpiry[c.session] /\ \A d \in Conn : d # c => h.expiry[d] = g.expiry[d]
    BY <1>1, RegisterExpiry
  <2> HIDE DEF h
  <2>5. Timely(h)
    BY <1>1, <2>2, <2>4 DEF Promises, Timely, RegistryType
  <2>6. Spent(h, now)
    BY <1>1, <2>2 DEF Promises, Spent
  <2> QED BY <1>1, <1>2, <2>1, <2>2, <2>3, <2>5, <2>6 DEF Promises
<1>3. CASE RoomsOf(g, c.session) # {}
  <2>1. Opened(g, c) = g /\ r \in g.rooms /\ r.session = c.session
    BY <1>3 DEF Target, Opened, RoomsOf
  <2>2. r \in Conn /\ g.rooms = g.rooms \cup {r}
    BY <1>1, <2>1 DEF RegistryType
  <2> QED BY <1>1, <1>3, <2>1, <2>2
<1> QED BY <1>2, <1>3

(* Taking the seat, and pairing if it was the second. *)
LEMMA SeatFields ==
    ASSUME NEW g \in RegistryType, NEW c \in Conn, NEW r \in Conn
    PROVE  LET k == PairIfFull(AddPeer(g, c, r), r)
           IN  /\ k \in RegistryType /\ k.rooms = g.rooms /\ k.expiry = g.expiry
               /\ \/ k.paired = g.paired /\ k.consumed = g.consumed
                  \/ /\ k.paired = g.paired \cup {r} /\ k.consumed = g.consumed \cup {r.session}
                     /\ Peers(g, r) # {}
<1> DEFINE h == AddPeer(g, c, r)
           k1 == [h EXCEPT !.paired = @ \cup {r}]
           k2 == ReleaseUnpaired(k1, {r})
           k == Consume(k2, {r.session})
<1>1. /\ h \in RegistryType /\ h.rooms = g.rooms /\ h.paired = g.paired /\ h.consumed = g.consumed
      /\ h.attached = g.attached \cup {c}
      /\ \A d \in Conn : d # c => h.roomOf[d] = g.roomOf[d]
  BY AddPeerFields
<1>2. h.expiry = g.expiry
  BY DEF AddPeer, RegistryType
<1> HIDE DEF h
<1>3. Cardinality(Peers(h, r)) = 2 => Peers(g, r) # {}
  <2>1. ASSUME Peers(g, r) = {}
        PROVE  Peers(h, r) \subseteq {c}
    BY <1>1, <2>1 DEF Peers, RegistryType
  <2>2. ASSUME Peers(h, r) \subseteq {c}
        PROVE  Cardinality(Peers(h, r)) # 2
    <3>1. Peers(h, r) = {} \/ Peers(h, r) = {c}
      BY <2>2
    <3> QED BY <3>1, FS_EmptySet, FS_Singleton
  <2> QED BY <2>1, <2>2
<1>4. CASE Cardinality(Peers(h, r)) # 2
  BY <1>1, <1>2, <1>4 DEF PairIfFull, h
<1>5. CASE Cardinality(Peers(h, r)) = 2
  <2>1. /\ k1 \in RegistryType /\ k1.paired = h.paired \cup {r}
        /\ k1.rooms = h.rooms /\ k1.expiry = h.expiry /\ k1.consumed = h.consumed
    BY <1>1 DEF RegistryType
  <2>2. PairIfFull(h, r) = k
    BY <1>5 DEF PairIfFull
  <2> HIDE DEF k1
  <2>3. UnpairedReleased(k1, k2, {r})
    BY <2>1, ReleaseUnpairedFields
  <2> HIDE DEF k2
  <2>4. k2 \in RegistryType /\ {r.session} \in SUBSET Session
    BY <2>3, ExpiryType DEF UnpairedReleased
  <2>5. SameSeats(k2, k) /\ k.rooms = k2.rooms /\ k.consumed = k2.consumed \cup {r.session}
    BY <2>4, ConsumeFields
  <2> HIDE DEF k
  <2>6. /\ k \in RegistryType /\ k.rooms = g.rooms /\ k.expiry = g.expiry
        /\ k.paired = g.paired \cup {r} /\ k.consumed = g.consumed \cup {r.session}
    BY <1>1, <1>2, <2>1, <2>3, <2>5 DEF UnpairedReleased, SameSeats
  <2> QED BY <1>3, <1>5, <2>2, <2>6 DEF h
<1> QED BY <1>4, <1>5

LEMMA SeatPromises ==
    ASSUME NEW g \in RegistryType, NEW k \in RegistryType, NEW t \in Nat, Promises(g, t),
           NEW r \in g.rooms, k.rooms = g.rooms, k.expiry = g.expiry,
           \/ k.paired = g.paired /\ k.consumed = g.consumed
           \/ k.paired = g.paired \cup {r} /\ k.consumed = g.consumed \cup {r.session}
    PROVE  Promises(k, t)
<1>1. Shrinks(g, k)
  BY DEF Shrinks, SessionsOf
<1>2. Limited(k)
  BY <1>1, ShrinksLimited DEF Promises
<1>3. Spent(k, t)
  BY DEF Promises, Spent
<1>4. Timely(k)
  BY DEF Promises, Timely
<1> QED BY <1>2, <1>3, <1>4 DEF Promises

(* Only the session of the connection that attaches moves. *)
OnlyMoves(g, h, x) ==
    \A s \in Session \ {x} :
        /\ RoomsOf(h, s) = RoomsOf(g, s)
        /\ \A r \in RoomsOf(g, s) : r \in h.paired <=> r \in g.paired
        /\ s \in h.consumed <=> s \in g.consumed

LEMMA OthersStay ==
    ASSUME NEW g, NEW h, NEW t, NEW x, OnlyMoves(g, h, x),
           Allowed(PhaseIn(g, t, x), PhaseIn(h, t, x), t < TicketExpiry[x])
    PROVE  SessionsMove(g, h, t)
<1>1. ASSUME NEW s \in Session \ {x}
      PROVE  PhaseIn(g, t, s) = PhaseIn(h, t, s)
  <2>1. RoomsOf(g, s) \subseteq g.paired <=> RoomsOf(h, s) \subseteq h.paired
    BY DEF OnlyMoves
  <2> QED BY <2>1 DEF OnlyMoves, PhaseIn
<1> QED BY <1>1 DEF SessionsMove, Allowed

LEMMA NewRoomEmpty ==
    ASSUME NEW g, Sound(g), NEW c \in Conn, NEW t \in Nat, g.sock[c] = "new",
           RoomsOf(g, c.session) = {}
    PROVE  Peers(Register(g, c, t), c) = {}
BY RegisterCore

LEMMA AttachExpiredStep ==
    ASSUME Inv, Promises(reg, now), NEW c \in Conn, AttachExpired(c)
    PROVE  Promises(reg', now) /\ SessionsMove(reg, reg', now)
<1> DEFINE g == Forget(reg, c.session, now)
           h == Opened(g, c)
<1>0. now \in Nat /\ Sound(reg) /\ reg \in RegistryType /\ OneRoomPerSession(reg)
  BY DEF Inv, Sound, Core
<1>1. /\ g.rooms = reg.rooms /\ g.paired = reg.paired /\ g \in RegistryType
      /\ TicketExpiry[c.session] <= now => g.consumed = reg.consumed \ {c.session}
      /\ ~(TicketExpiry[c.session] <= now) => g.consumed = reg.consumed
  BY <1>0, ForgetFields
<1>2. Sound(g) /\ g.sock[c] = "new"
  BY <1>0, ForgetSound DEF AttachExpired, Presents
<1>3. Closes(reg, g, now)
  BY <1>0, ForgetCloses
<1>4. PICK r \in Target(g, c) : reg' = CloseRooms(h, {r}, TRUE)
  BY DEF AttachExpired
<1> HIDE DEF g
<1>30. Promises(g, now)
  BY <1>0, <1>1, <1>3, ClosesKeeps
<1>5. Core(h) /\ Settled(h, h.rooms \ {r}) /\ Unused(h, {r})
  BY <1>0, <1>2, OpenedAdmits
<1>6. /\ h \in RegistryType /\ Promises(h, now)
      /\ r \in h.rooms /\ r \in Conn /\ r.session = c.session
      /\ h.rooms = g.rooms \cup {r} /\ h.paired = g.paired /\ h.consumed = g.consumed
      /\ IF RoomsOf(g, c.session) = {} THEN r = c /\ c \notin g.rooms /\ c \notin g.paired
                                       ELSE r \in g.rooms
  BY <1>0, <1>2, <1>30, OpenedPromises
<1> HIDE DEF h
<1>7. /\ reg' \in RegistryType /\ Closes(h, reg', now)
      /\ reg'.rooms = h.rooms \ {r} /\ reg'.paired = h.paired
      /\ reg'.consumed = h.consumed \cup {r.session}
  <2>1. Spent(h, now)
    BY <1>6 DEF Promises
  <2> DEFINE k == CloseRooms(h, {r}, TRUE)
  <2>2. /\ k \in RegistryType /\ Closes(h, k, now)
        /\ k.rooms = h.rooms \ {r} /\ k.paired = h.paired
        /\ r \in h.rooms => k.consumed = h.consumed \cup {r.session}
    BY <1>0, <1>5, <2>1, SpendingClose
  <2> QED BY <1>4, <1>6, <2>2
<1>8. Promises(reg', now)
  BY <1>0, <1>6, <1>7, ClosesKeeps
<1>9. /\ reg'.rooms = reg.rooms \ {r} /\ reg'.paired = reg.paired
      /\ reg'.consumed = g.consumed \cup {c.session}
  BY <1>1, <1>6, <1>7
<1>10. RoomsOf(reg', c.session) = {}
  <2>1. \A q \in reg.rooms : q.session = c.session => q = r
    BY <1>0, <1>1, <1>6 DEF OneRoomPerSession, RoomsOf
  <2> QED BY <1>9, <2>1 DEF RoomsOf
<1>11. OnlyMoves(reg, reg', c.session)
  BY <1>1, <1>6, <1>9 DEF OnlyMoves, RoomsOf
<1>12. PhaseIn(reg', now, c.session) = "spent"
  BY <1>9, <1>10 DEF PhaseIn
<1>13. PhaseIn(reg, now, c.session) \in {"idle", "waiting", "paired", "spent"}
  BY DEF PhaseIn
<1>14. SessionsMove(reg, reg', now)
  BY <1>11, <1>12, <1>13, OthersStay DEF Allowed
<1> QED BY <1>8, <1>14

LEMMA AttachSeatedStep ==
    ASSUME Inv, Promises(reg, now), NEW c \in Conn, AttachSeated(c)
    PROVE  Promises(reg', now) /\ SessionsMove(reg, reg', now)
<1> DEFINE g == Forget(reg, c.session, now)
           h == Opened(g, c)
<1>0. now \in Nat /\ Sound(reg) /\ reg \in RegistryType /\ OneRoomPerSession(reg)
  BY DEF Inv, Sound, Core
<1>1. /\ g.rooms = reg.rooms /\ g.paired = reg.paired /\ g \in RegistryType
      /\ TicketExpiry[c.session] <= now => g.consumed = reg.consumed \ {c.session}
      /\ ~(TicketExpiry[c.session] <= now) => g.consumed = reg.consumed
  BY <1>0, ForgetFields
<1>2. Sound(g) /\ g.sock[c] = "new" /\ c.session \notin g.consumed
  BY <1>0, ForgetSound DEF AttachSeated, Presents, ConnectionRefused
<1>3. Closes(reg, g, now)
  BY <1>0, ForgetCloses
<1>4. PICK r \in Target(g, c) :
        /\ now < h.expiry[r]
        /\ ~SeatRefused(h, c, r)
        /\ LET seated == PairIfFull(AddPeer(h, c, r), r)
           IN  reg' = seated \/ reg' = CloseRooms(seated, {r}, TRUE)
  BY DEF AttachSeated
<1> HIDE DEF g
<1>30. Promises(g, now)
  BY <1>0, <1>1, <1>3, ClosesKeeps
<1>5. Admitted(h, c, r)
  BY <1>0, <1>2, <1>4, OpenedAdmits
<1>6. /\ h \in RegistryType /\ Promises(h, now)
      /\ r \in h.rooms /\ r \in Conn /\ r.session = c.session
      /\ h.rooms = g.rooms \cup {r} /\ h.paired = g.paired /\ h.consumed = g.consumed
      /\ IF RoomsOf(g, c.session) = {} THEN r = c /\ c \notin g.rooms /\ c \notin g.paired
                                       ELSE r \in g.rooms
  BY <1>0, <1>2, <1>30, OpenedPromises
<1>7. Peers(h, r) # {} => RoomsOf(g, c.session) # {}
  BY <1>0, <1>2, <1>6, NewRoomEmpty DEF Target, Opened, Sound
<1> HIDE DEF h
<1> DEFINE k == PairIfFull(AddPeer(h, c, r), r)
<1>8. Sound(k) /\ r \notin h.paired
  BY <1>5, SeatCore DEF Admitted
<1>9. /\ k \in RegistryType /\ k.rooms = h.rooms /\ k.expiry = h.expiry
      /\ \/ k.paired = h.paired /\ k.consumed = h.consumed
         \/ /\ k.paired = h.paired \cup {r} /\ k.consumed = h.consumed \cup {r.session}
            /\ Peers(h, r) # {}
  BY <1>6, SeatFields
<1>10. reg' = k \/ reg' = CloseRooms(k, {r}, TRUE)
  BY <1>4
<1> HIDE DEF k
<1>11. Promises(k, now)
  BY <1>0, <1>6, <1>9, SeatPromises
<1>12. now < TicketExpiry[c.session]
  <2>1. /\ h.expiry[r] <= TicketExpiry[r.session] /\ h.expiry[r] \in Nat
        /\ TicketExpiry[r.session] \in Nat
    BY <1>6, ExpiryType DEF Promises, Timely, RegistryType
  <2> QED BY <1>0, <1>4, <1>6, <2>1
<1>13. g.consumed = reg.consumed /\ c.session \notin reg.consumed
  <2>1. TicketExpiry[c.session] \in Nat
    BY ExpiryType
  <2> QED BY <1>0, <1>1, <1>2, <1>12, <2>1
<1>14. /\ \A q \in k.rooms : q.session = c.session => q = r
       /\ \A q \in reg.rooms : q.session = c.session => q = r
  BY <1>1, <1>6, <1>8, <1>9 DEF Sound, Core, OneRoomPerSession
<1>15. OnlyMoves(reg, k, c.session)
  BY <1>1, <1>6, <1>9, <1>13 DEF OnlyMoves, RoomsOf
<1>16. ASSUME reg' = k
       PROVE  SessionsMove(reg, reg', now)
  <2>1. RoomsOf(k, c.session) = {r}
    BY <1>6, <1>9, <1>14 DEF RoomsOf
  <2>2. CASE RoomsOf(g, c.session) = {}
    <3>1. PhaseIn(reg, now, c.session) = "idle"
      <4>1. TicketExpiry[c.session] \in Nat /\ RoomsOf(reg, c.session) = {}
        BY <1>1, <2>2, ExpiryType DEF RoomsOf
      <4> QED BY <1>0, <1>12, <1>13, <4>1 DEF PhaseIn
    <3>2. r \notin k.paired
      BY <1>6, <1>7, <1>9, <2>2
    <3>3. PhaseIn(k, now, c.session) = "waiting"
      BY <2>1, <3>2 DEF PhaseIn
    <3> QED BY <1>12, <1>15, <1>16, <3>1, <3>3, OthersStay DEF Allowed
  <2>3. CASE RoomsOf(g, c.session) # {}
    <3>1. RoomsOf(reg, c.session) = {r} /\ r \notin reg.paired
      BY <1>1, <1>6, <1>8, <1>14, <2>3 DEF RoomsOf
    <3>2. PhaseIn(reg, now, c.session) = "waiting"
      BY <3>1 DEF PhaseIn
    <3>3. PhaseIn(k, now, c.session) \in {"waiting", "paired"}
      BY <2>1 DEF PhaseIn
    <3> QED BY <1>12, <1>15, <1>16, <3>2, <3>3, OthersStay DEF Allowed
  <2> QED BY <2>2, <2>3
<1>17. ASSUME reg' = CloseRooms(k, {r}, TRUE)
       PROVE  Promises(reg', now) /\ SessionsMove(reg, reg', now)
  <2>1. Core(k)
    BY <1>8 DEF Sound
  <2>2. /\ reg' \in RegistryType /\ Closes(k, reg', now)
        /\ reg'.rooms = k.rooms \ {r} /\ reg'.paired = k.paired
        /\ r \in k.rooms => reg'.consumed = k.consumed \cup {r.session}
    <3>1. Spent(k, now)
      BY <1>11 DEF Promises
    <3> DEFINE m == CloseRooms(k, {r}, TRUE)
    <3>2. /\ m \in RegistryType /\ Closes(k, m, now)
          /\ m.rooms = k.rooms \ {r} /\ m.paired = k.paired
          /\ r \in k.rooms => m.consumed = k.consumed \cup {r.session}
      BY <1>0, <2>1, <3>1, SpendingClose
    <3> QED BY <1>17, <3>2
  <2>4. Promises(reg', now)
    BY <1>0, <1>9, <1>11, <2>2, ClosesKeeps
  <2>6. /\ reg'.rooms = k.rooms \ {r} /\ reg'.paired = k.paired
        /\ reg'.consumed = k.consumed \cup {c.session}
    BY <1>6, <1>9, <2>2
  <2>7. RoomsOf(reg', c.session) = {}
    BY <1>14, <2>6 DEF RoomsOf
  <2>8. OnlyMoves(reg, reg', c.session)
    BY <1>1, <1>6, <1>15, <2>6 DEF OnlyMoves, RoomsOf
  <2>9. PhaseIn(reg', now, c.session) = "spent"
    BY <2>6, <2>7 DEF PhaseIn
  <2>10. PhaseIn(reg, now, c.session) \in {"idle", "waiting", "paired", "spent"}
    BY DEF PhaseIn
  <2> QED BY <2>4, <2>8, <2>9, <2>10, OthersStay DEF Allowed
<1> QED BY <1>10, <1>11, <1>16, <1>17

-----------------------------------------------------------------------------
(* Peers of one role sit in different rooms. *)
LEMMA SeatsBound ==
    ASSUME NEW g, Core(g), NEW role, NEW T \in SUBSET g.rooms,
           \A c \in g.attached : c.role = role => g.roomOf[c] \in T
    PROVE  Cardinality({c \in g.attached : c.role = role}) <= Cardinality(T)
<1> DEFINE D == {c \in g.attached : c.role = role}
           f == [c \in D |-> g.roomOf[c]]
<1>1. IsFiniteSet(T)
  BY SubsetsFinite DEF Core, RegistryType
<1>2. f \in [D -> T] /\ \A c, d \in D : f[c] = f[d] => c = d
  BY DEF Core, OneSeatPerRole
<1> HIDE DEF f
<1>3. f \in Injection(D, T)
  BY <1>2 DEF Injection, IsInjective
<1> HIDE DEF D
<1>4. Cardinality(D) <= Cardinality(T)
  BY <1>1, <1>3, FS_Injection
<1> QED BY <1>4 DEF D

(* Two seats a room, and one of them free in a room that waits. *)
LEMMA FreeSeat ==
    ASSUME NEW g, Sound(g), Limited(g), ~(g.rooms \subseteq g.paired)
    PROVE  g.active < 2 * MaxRooms
<1> DEFINE Of(role) == {c \in g.attached : c.role = role}
<1>1. /\ Core(g) /\ Settled(g, g.rooms) /\ Seated(g)
      /\ g.attached \in SUBSET Conn /\ g.rooms \in SUBSET Conn
      /\ g.active = Cardinality(g.attached)
  BY DEF Sound, Core, RegistryType, Counted
<1>2. PICK r \in g.rooms : r \notin g.paired
  OBVIOUS
<1>3. PICK p \in g.attached : g.roomOf[p] = r
  BY <1>1 DEF Settled
<1>4. \A q \in g.attached : g.roomOf[q] = r => q = p
  BY <1>1, <1>2, <1>3 DEF Settled
<1>5. \A c \in Conn : c.role \in Role
  BY PopulationAssumption
<1>6. PICK other \in Role : other # p.role /\ \A c \in Conn : c.role \in {p.role, other}
  BY <1>1, <1>5 DEF Role
<1>7. g.attached = Of(p.role) \cup Of(other)
  BY <1>1, <1>6
<1>8. Cardinality(Of(p.role)) <= Cardinality(g.rooms)
  <2> DEFINE T == g.rooms
  <2>1. T \in SUBSET g.rooms /\ \A c \in g.attached : c.role = p.role => g.roomOf[c] \in T
    BY <1>1 DEF Seated
  <2> HIDE DEF T
  <2>2. Cardinality(Of(p.role)) <= Cardinality(T)
    BY <1>1, <2>1, SeatsBound
  <2> QED BY <2>2 DEF T
<1>9. Cardinality(Of(other)) <= Cardinality(g.rooms \ {r})
  <2>1. \A c \in g.attached : c.role = other => g.roomOf[c] \in g.rooms \ {r}
    BY <1>1, <1>4, <1>6 DEF Seated
  <2> DEFINE T == g.rooms \ {r}
  <2>2. T \in SUBSET g.rooms
    OBVIOUS
  <2> HIDE DEF T
  <2>3. Cardinality(Of(other)) <= Cardinality(T)
    BY <1>1, <2>1, <2>2, SeatsBound DEF T
  <2> QED BY <2>3 DEF T
<1>10. Of(p.role) \in SUBSET Conn /\ Of(other) \in SUBSET Conn
  BY <1>1
<1> HIDE DEF Of
<1>11. /\ IsFiniteSet(Of(p.role)) /\ Cardinality(Of(p.role)) \in Nat
       /\ IsFiniteSet(Of(other)) /\ Cardinality(Of(other)) \in Nat
       /\ IsFiniteSet(g.rooms) /\ Cardinality(g.rooms) \in Nat
  BY <1>1, <1>10, SubsetsFinite
<1>12. Cardinality(g.rooms \ {r}) = Cardinality(g.rooms) - 1
  BY <1>11, FS_RemoveElement
<1>13. /\ Cardinality(g.attached) \in Nat
       /\ Cardinality(g.attached) <= Cardinality(Of(p.role)) + Cardinality(Of(other))
  BY <1>7, <1>11, CupBound
<1>14. Cardinality(g.rooms) <= MaxRooms /\ MaxRooms \in Nat
  BY LimitsAssumption DEF Limited, RoomsLimited
<1> QED BY <1>1, <1>8, <1>9, <1>11, <1>12, <1>13, <1>14

-----------------------------------------------------------------------------
(* The inductive invariant: sound books, and with them the promises.       *)
PromiseInv == Inv /\ Promises(reg, now)

LEMMA InitPromises == Init => Promises(reg, now)
<1> SUFFICES ASSUME Init PROVE Promises(reg, now)
  OBVIOUS
<1>1. reg.rooms = {} /\ reg.consumed = {}
  BY DEF Init
<1>2. Holders({}) = {} /\ {} \cup SessionsOf({}) = {}
  BY DEF Holders, SessionsOf
<1>3. Limited(reg)
  BY <1>1, <1>2, FS_EmptySet, LimitsAssumption
  DEF Limited, RoomsLimited, SpentLimited, ReservedBoundary
<1> QED BY <1>1, <1>3 DEF Promises, Spent, Timely

(* One step: the promises are kept, and every session moves as it may.     *)
LEMMA PromiseStep ==
    ASSUME PromiseInv, Next
    PROVE  Promises(reg', now')
           /\ \A s \in Session :
                Allowed(PhaseIn(reg, now, s), PhaseIn(reg', now', s), now < TicketExpiry[s])
<1> DEFINE Kept == Promises(reg', now) /\ SessionsMove(reg, reg', now)
<1>0. /\ now \in Nat /\ Sound(reg) /\ Core(reg) /\ reg \in RegistryType /\ OneRoomPerSession(reg)
      /\ Promises(reg, now) /\ Spent(reg, now) /\ Inv
  BY DEF PromiseInv, Inv, Promises, Sound, Core
<1>1. reg' \in RegistryType
  <2>1. Inv'
    BY NextInv DEF PromiseInv
  <2> QED BY <2>1 DEF Inv, Sound, Core
<1>2. ASSUME Closes(reg, reg', now)
      PROVE  Kept
  BY <1>0, <1>1, <1>2, ClosesKeeps, ClosesMoves
<1>3. ASSUME now' = now, Kept
      PROVE  /\ Promises(reg', now')
             /\ \A s \in Session :
                  Allowed(PhaseIn(reg, now, s), PhaseIn(reg', now', s), now < TicketExpiry[s])
  BY <1>3 DEF SessionsMove
<1>4. \A c \in Conn : Closes(reg, CloseRooms(reg, {reg.roomOf[c]}, TRUE), now)
  BY <1>0, CloseRoomsCloses
<1>5. Closes(reg, reg, now)
  BY DEF Closes, Shrinks
<1>6. ASSUME NEW c \in Conn, Attach(c)
      PROVE  now' = now /\ Kept
  <2>1. CASE AttachRefused(c)
    <3>1. reg' = Forget(reg, c.session, now) /\ now' = now
      BY <2>1 DEF AttachRefused
    <3> QED BY <1>0, <1>2, <3>1, ForgetCloses
  <2>2. CASE AttachExpired(c)
    BY <1>0, <2>2, AttachExpiredStep DEF AttachExpired
  <2>3. CASE AttachSeated(c)
    BY <1>0, <2>3, AttachSeatedStep DEF AttachSeated
  <2> QED BY <1>6, <2>1, <2>2, <2>3 DEF Attach
<1>7. ASSUME NEW c \in Conn, PeerCloses(c) \/ PeerEvent(c)
      PROVE  now' = now /\ Kept
  <2>1. CASE PeerCloses(c)
    <3>1. now' = now /\ reg' = [reg EXCEPT !.sock = Put(@, c, "closing")]
      BY <2>1 DEF PeerCloses
    <3>2. Closes(reg, reg', now)
      BY <1>0, <1>5, <3>1 DEF RegistryType, Closes, Shrinks
    <3> QED BY <1>2, <3>1, <3>2
  <2>2. CASE Relay(c) \/ Complete(c) \/ CloseByMessage(c) \/ CloseByControlFrame(c)
             \/ SendCallbackFails(c)
    <3>1. now' = now /\ (reg' = reg \/ reg' = CloseRooms(reg, {reg.roomOf[c]}, TRUE))
      BY <2>2 DEF Relay, Complete, CloseByMessage, CloseByControlFrame, SendCallbackFails
    <3>2. Closes(reg, reg', now)
      BY <1>4, <1>5, <3>1
    <3> QED BY <1>2, <3>1, <3>2
  <2>3. CASE SocketClosed(c)
    <3> DEFINE g == Detach(reg, c)
    <3>1. now' = now /\ reg' = [g EXCEPT !.sock = Put(@, c, "closed")]
      BY <2>3 DEF SocketClosed
    <3>2. Closes(reg, g, now) /\ g \in RegistryType
      BY <1>0, DetachCloses, DetachSound DEF Sound, Core
    <3> HIDE DEF g
    <3>3. reg'.rooms = g.rooms /\ reg'.paired = g.paired /\ reg'.expiry = g.expiry
          /\ reg'.consumed = g.consumed
      BY <3>1, <3>2 DEF RegistryType
    <3>4. Closes(reg, reg', now)
      BY <3>2, <3>3 DEF Closes, Shrinks
    <3> QED BY <1>2, <3>1, <3>4
  <2>4. CASE SocketError(c)
    <3> DEFINE g == Detach(reg, c)
               h == ShutSockets(g, {c})
    <3>1. now' = now /\ reg' = h
      BY <2>4 DEF SocketError
    <3>2. Closes(reg, g, now) /\ g \in RegistryType
      BY <1>0, DetachCloses, DetachSound DEF Sound, Core
    <3> HIDE DEF g
    <3>3. SocketsShut(g, h)
      BY <3>2, ShutSocketsFields
    <3> HIDE DEF h
    <3>4. Closes(reg, h, now)
      BY <3>2, <3>3 DEF Closes, Shrinks, SocketsShut, SameSeats
    <3> QED BY <1>2, <3>1, <3>4
  <2> QED BY <1>7, <2>1, <2>2, <2>3, <2>4 DEF PeerEvent
<1>8. ASSUME Sweep
      PROVE  now' = now /\ Kept
  <2>1. PICK clogged \in SUBSET Pingable(reg) :
          reg' = [CloseRooms(reg, Expired(reg) \cup clogged, TRUE)
                    EXCEPT !.consumed = {s \in @ : TicketExpiry[s] > now}]
    BY <1>8 DEF Sweep
  <2> DEFINE R == Expired(reg) \cup clogged
             g == CloseRooms(reg, R, TRUE)
             left == {s \in g.consumed : TicketExpiry[s] > now}
  <2> HIDE DEF R
  <2>2. Closes(reg, g, now) /\ g \in RegistryType
    BY <1>0, CloseRoomsCloses, CloseRoomsSound DEF Sound, Core
  <2>3. reg' = [g EXCEPT !.consumed = left]
    BY <2>1 DEF R
  <2> HIDE DEF g
  <2>4. /\ reg'.rooms = g.rooms /\ reg'.paired = g.paired /\ reg'.expiry = g.expiry
        /\ reg'.consumed = left
    BY <2>2, <2>3 DEF RegistryType
  <2>5. g.consumed \subseteq Session /\ \A s \in Session : TicketExpiry[s] \in Nat
    BY <2>2, TimeAssumption DEF RegistryType
  <2>6. /\ left \subseteq g.consumed
        /\ \A s \in g.consumed \ left : TicketExpiry[s] <= now
        /\ \A s \in g.consumed : now < TicketExpiry[s] => s \in left
    BY <1>0, <2>5
  <2> HIDE DEF left
  <2>7. Shrinks(reg, reg')
    BY <2>2, <2>4, <2>6 DEF Closes, Shrinks
  <2>8. \A s \in reg.consumed \ reg'.consumed : TicketExpiry[s] <= now
    BY <2>2, <2>4, <2>6 DEF Closes
  <2>9. \A r \in reg.rooms \ reg'.rooms :
          r \in reg.paired /\ now < TicketExpiry[r.session] => r.session \in reg'.consumed
    BY <2>2, <2>4, <2>6 DEF Closes
  <2>10. Closes(reg, reg', now)
    BY <2>2, <2>4, <2>7, <2>8, <2>9 DEF Closes
  <2> QED BY <1>2, <1>8, <2>10 DEF Sweep
<1>9. ASSUME Shutdown
      PROVE  now' = now /\ Kept
  <2>1. now' = now /\ reg' = CloseRooms(reg, reg.rooms, FALSE)
    BY <1>9 DEF Shutdown
  <2>2. Closes(reg, CloseRooms(reg, reg.rooms, FALSE), now)
    BY <1>0, CloseRoomsCloses
  <2> QED BY <1>2, <2>1, <2>2
<1>10. ASSUME Tick
       PROVE  /\ Promises(reg', now')
              /\ \A s \in Session :
                  Allowed(PhaseIn(reg, now, s), PhaseIn(reg', now', s), now < TicketExpiry[s])
  <2>1. reg' = reg /\ now' = now + 1
    BY <1>10 DEF Tick
  <2>2. \A r \in reg.rooms : TicketExpiry[r.session] \in Nat
    BY <1>0, ExpiryType DEF RegistryType
  <2>3. Promises(reg, now + 1)
    BY <1>0, <2>2 DEF Promises, Spent
  <2>4. ASSUME NEW s \in Session
        PROVE  Allowed(PhaseIn(reg, now, s), PhaseIn(reg, now + 1, s), now < TicketExpiry[s])
    <3>1. TicketExpiry[s] \in Nat /\ (TicketExpiry[s] <= now => TicketExpiry[s] <= now + 1)
      BY <1>0, TimeAssumption
    <3> QED BY <3>1 DEF PhaseIn, Allowed
  <2> QED BY <2>1, <2>3, <2>4
<1> HIDE DEF Kept
<1> QED BY <1>3, <1>6, <1>7, <1>8, <1>9, <1>10 DEF Next

LEMMA PromiseInvariance == Spec => []PromiseInv
<1>1. Init => PromiseInv
  BY InitInv, InitPromises DEF PromiseInv
<1>2. ASSUME PromiseInv, [Next]_vars
      PROVE  PromiseInv'
  <2>1. Inv'
    BY <1>2, NextInv DEF PromiseInv
  <2>2. CASE Next
    BY <1>2, <2>1, <2>2, PromiseStep DEF PromiseInv
  <2>3. CASE UNCHANGED vars
    BY <1>2, <2>1, <2>3 DEF PromiseInv, vars
  <2> QED BY <1>2, <2>2, <2>3
<1> QED BY <1>1, <1>2, PTL DEF Spec

(* While a paired room is open its ticket is spent, through every purge of *)
(* expired entries and every lazy deletion.                                *)
THEOREM PairedSpent == Spec => []PairedMeansSpent
<1>1. PromiseInv => PairedMeansSpent
  BY DEF PromiseInv, Promises, Spent, PairedMeansSpent
<1> QED BY <1>1, PromiseInvariance, PTL

(* Repeated rooms of the same networks never use up the slice of rooms     *)
(* kept for networks that have none.                                       *)
THEOREM ReservedSlice == Spec => []ReservedSliceKept
<1>1. PromiseInv => ReservedSliceKept
  BY DEF PromiseInv, Promises, Limited, RoomsLimited, Holders, ReservedSliceKept
<1> QED BY <1>1, PromiseInvariance, PTL

(* The memory of spent tickets is bounded, although closeRoom spends them  *)
(* without looking at the limit.                                           *)
THEOREM SpentBounded == Spec => []ConsumedBounded
<1>1. PromiseInv => ConsumedBounded
  BY DEF PromiseInv, Promises, Limited, SpentLimited, ConsumedBounded
<1> QED BY <1>1, PromiseInvariance, PTL

(* The second peer of a waiting room is never refused for the global limit *)
(* on connections.                                                         *)
THEOREM SecondPeer == Spec => []SecondPeerAdmissible
<1>1. PromiseInv => SecondPeerAdmissible
  BY FreeSeat DEF PromiseInv, Inv, Promises, SecondPeerAdmissible
<1> QED BY <1>1, PromiseInvariance, PTL

-----------------------------------------------------------------------------
(* The refinement of PairingSession.                                       *)

(* A connection is reported out of a full room, and ends it. *)
LEMMA ReportEnds ==
    ASSUME PromiseInv, NEW c \in Conn, Complete(c), completions' # completions
    PROVE  /\ completions' = [completions EXCEPT ![c.session] = @ + 1]
           /\ PhaseIn(reg, now, c.session) = "paired"
           /\ PhaseIn(reg', now', c.session) = "spent"
<1> DEFINE r == reg.roomOf[c]
<1>0. /\ now \in Nat /\ Core(reg) /\ reg \in RegistryType /\ OneRoomPerSession(reg)
      /\ Seated(reg) /\ Settled(reg, reg.rooms) /\ OneSeatPerRole(reg) /\ Spent(reg, now)
  BY DEF PromiseInv, Inv, Promises, Sound, Core
<1>1. /\ BothPresent(reg, r) /\ now' = now /\ reg' = CloseRooms(reg, {r}, TRUE)
      /\ completions' = [completions EXCEPT ![c.session] = @ + 1]
  BY DEF Complete
<1>2. PICK p \in reg.attached, q \in reg.attached :
        reg.roomOf[p] = r /\ reg.roomOf[q] = r /\ p.role = "browser" /\ q.role = "phone"
  BY <1>1 DEF BothPresent, HasRole, Peers, Role
<1> HIDE DEF r
<1>3. r \in reg.rooms /\ r \in reg.paired
  BY <1>0, <1>2 DEF Seated, Settled
<1>4. c \in reg.attached /\ r.session = c.session
  BY <1>0, <1>3 DEF Settled, Seated, r
<1>5. RoomsOf(reg, c.session) = {r}
  BY <1>0, <1>3, <1>4 DEF RoomsOf, OneRoomPerSession
<1>6. PhaseIn(reg, now, c.session) = "paired"
  BY <1>3, <1>5 DEF PhaseIn
<1> DEFINE h == CloseRooms(reg, {r}, TRUE)
<1>7. /\ h \in RegistryType /\ Closes(reg, h, now)
      /\ h.rooms = reg.rooms \ {r} /\ h.paired = reg.paired
      /\ r \in reg.rooms => h.consumed = reg.consumed \cup {r.session}
  BY <1>0, SpendingClose
<1> HIDE DEF h
<1>8. RoomsOf(h, c.session) = {} /\ c.session \in h.consumed
  BY <1>3, <1>4, <1>5, <1>7 DEF RoomsOf
<1>9. reg' = h
  BY <1>1 DEF h
<1>10. PhaseIn(reg', now', c.session) = "spent"
  BY <1>8, <1>9 DEF PhaseIn
<1> QED BY <1>1, <1>6, <1>10

(* Every step of the registry is one of the abstract session, or none.     *)
LEMMA PromiseSimulation ==
    ASSUME PromiseInv, PromiseInv', Next
    PROVE  Promise!Next
<1>0. \A s \in Session : PhaseOf(s) = PhaseIn(reg, now, s)
  BY DEF PhaseOf, PhaseIn
<1>1. \A s \in Session : PhaseOf(s)' = PhaseIn(reg', now', s)
  BY DEF PhaseOf, PhaseIn
<1>2. \A s \in Session :
        Allowed(PhaseIn(reg, now, s), PhaseIn(reg', now', s), now < TicketExpiry[s])
  BY PromiseStep
<1>3. \A s \in Session : PhaseIn(reg', now', s) \in {"idle", "waiting", "paired", "spent"}
  BY DEF PhaseIn
<1>4. /\ completions \in [Session -> Nat] /\ completions' \in [Session -> Nat]
      /\ now \in Nat /\ now' \in Nat
      /\ \A s \in Session : TicketExpiry[s] \in Nat
  BY TimeAssumption DEF PromiseInv, Inv
<1>5. now <= now'
  <2>1. ASSUME NEW c \in Conn, Attach(c) \/ PeerCloses(c)
        PROVE  now' = now
    BY <2>1 DEF Attach, AttachRefused, AttachExpired, AttachSeated, PeerCloses
  <2>2. ASSUME NEW c \in Conn, PeerEvent(c)
        PROVE  now' = now
    BY <2>2 DEF PeerEvent, Relay, Complete, CloseByMessage, CloseByControlFrame,
       SendCallbackFails, SocketClosed, SocketError
  <2>3. Sweep \/ Shutdown => now' = now
    BY DEF Sweep, Shutdown
  <2>4. Tick => now' = now + 1
    BY DEF Tick
  <2>5. now' = now \/ now' = now + 1
    BY <2>1, <2>2, <2>3, <2>4 DEF Next
  <2> QED BY <1>4, <2>5
<1>6. \/ completions' = completions
      \/ \E c \in Conn : Complete(c) /\ completions' # completions
  BY DEF Next, Attach, AttachRefused, AttachExpired, AttachSeated, PeerCloses, PeerEvent,
     Relay, CloseByMessage, CloseByControlFrame, SendCallbackFails, SocketClosed,
     SocketError, Sweep, Shutdown, Tick
<1>7. [s \in Session |-> PhaseOf(s)]' \in [Session -> Promise!Phase]
  BY <1>1, <1>3 DEF Promise!Phase
<1>8. ExpiredTickets \subseteq ExpiredTickets' /\ ExpiredTickets' \subseteq Session
  BY <1>4, <1>5 DEF ExpiredTickets
<1>9. ASSUME NEW s \in Session
      PROVE  /\ \/ Promise!Open(s) \/ Promise!Leave(s) \/ Promise!Pair(s)
                \/ Promise!End(s) \/ Promise!Skip(s) \/ Promise!Stay(s)
             /\ Promise!Report(s)
  <2> DEFINE a == PhaseIn(reg, now, s)
             b == PhaseIn(reg', now', s)
  <2>1. [q \in Session |-> PhaseOf(q)][s] = a /\ [q \in Session |-> PhaseOf(q)]'[s] = b
    BY <1>0, <1>1
  <2>2. Allowed(a, b, now < TicketExpiry[s]) /\ (now < TicketExpiry[s] => s \notin ExpiredTickets)
    BY <1>2, <1>4 DEF ExpiredTickets
  <2>3. \/ completions'[s] = completions[s]
        \/ completions'[s] = completions[s] + 1 /\ a = "paired" /\ b = "spent"
    <3>1. CASE completions' = completions
      BY <3>1
    <3>2. CASE \E c \in Conn : Complete(c) /\ completions' # completions
      <4>1. PICK c \in Conn : Complete(c) /\ completions' # completions
        BY <3>2
      <4>2. /\ completions' = [completions EXCEPT ![c.session] = @ + 1]
            /\ PhaseIn(reg, now, c.session) = "paired"
            /\ PhaseIn(reg', now', c.session) = "spent"
        BY <4>1, ReportEnds
      <4> QED BY <1>4, <4>2
    <3> QED BY <1>6, <3>1, <3>2
  <2> HIDE DEF a, b
  <2>4. \/ Promise!Open(s) \/ Promise!Leave(s) \/ Promise!Pair(s)
        \/ Promise!End(s) \/ Promise!Skip(s) \/ Promise!Stay(s)
    BY <2>1, <2>2 DEF Allowed, Promise!Open, Promise!Leave, Promise!Pair, Promise!End,
       Promise!Skip, Promise!Stay, Promise!InRoom
  <2>5. Promise!Report(s)
    BY <2>1, <2>3 DEF Promise!Report, Promise!End, Promise!InRoom
  <2> QED BY <2>4, <2>5
<1> QED BY <1>4, <1>7, <1>8, <1>9 DEF Promise!Next

(* Every behaviour of the registry is one of PairingSession: a session is  *)
(* paired at most once, reported at most once and only out of a pairing,   *)
(* and over for good once it was paired, given up or has expired.          *)
THEOREM Promised == Spec => KeepsPromise
<1>1. Init => Promise!Init
  <2>1. ASSUME Init
        PROVE  Promise!Init
    <3>1. \A s \in Session : RoomsOf(reg, s) = {} /\ s \notin reg.consumed /\ TicketExpiry[s] \in Nat
      BY <2>1, TimeAssumption DEF Init, RoomsOf
    <3>2. \A s \in Session : PhaseOf(s) = IF s \in ExpiredTickets THEN "spent" ELSE "idle"
      BY <3>1 DEF PhaseOf, ExpiredTickets
    <3>3. ExpiredTickets \in SUBSET Session /\ completions = [s \in Session |-> 0]
      BY <2>1 DEF ExpiredTickets, Init
    <3> QED BY <3>2, <3>3 DEF Promise!Init
  <2> QED BY <2>1
<1>2. PromiseInv /\ PromiseInv' /\ [Next]_vars => [Promise!Next]_(Promise!vars)
  <2>1. UNCHANGED vars => UNCHANGED Promise!vars
    BY DEF vars, Promise!vars, PhaseOf, ExpiredTickets, RoomsOf
  <2> QED BY <2>1, PromiseSimulation
<1> QED BY <1>1, <1>2, PromiseInvariance, PTL DEF Spec, KeepsPromise, Promise!Safe
=============================================================================
