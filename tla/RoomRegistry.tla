---------------------------- MODULE RoomRegistry ----------------------------
(***************************************************************************)
(* The signalling rooms of server/src/rooms.ts: which WebSocket sits in    *)
(* which room, which tickets are spent, and the four counters that admit   *)
(* or refuse the next connection.                                          *)
(*                                                                         *)
(* Node runs one handler at a time, so every handler is one action; what   *)
(* interleaves are the handlers of different sockets, the sweeper, and the *)
(* callbacks and events that still arrive for a socket whose room object   *)
(* is gone.  A handler is a composition of the registry's private methods, *)
(* so those are operators from a registry state g to a registry state.     *)
(*                                                                         *)
(* A connection is identified by the ticket session, role and network it   *)
(* presents.  A room object is identified by the connection that created   *)
(* it: two rooms that existed at different times for one session are       *)
(* different objects, and a closure keeps the object it captured.          *)
(***************************************************************************)
EXTENDS Integers, FiniteSets

CONSTANTS
    Session,                    \* ticket session identifiers
    Network,                    \* client network prefixes
    Conn,                       \* the sockets that may ever attach
    NoRoom,                     \* "no room object captured"
    MaxRooms,                   \* limits.maxRooms
    MaxConnectionsPerNetwork,   \* limits.maxConnectionsPerNetwork
    MaxUnpairedRoomsPerNetwork, \* limits.maxUnpairedRoomsPerNetwork
    ReservedRooms,              \* limits.reservedRoomsForNewNetworks
    RoomTTL,                    \* limits.roomTTLSeconds, in clock ticks
    TicketExpiry,               \* claims.expiresAt of each session, in ticks
    MaxTime                     \* bound: the clock stops here

Role == {"browser", "phone"}

(* server/src/config.ts: MAX_ROOMS >= 10, reserved <= maxRooms - 1,        *)
(* MAX_CONNECTIONS_PER_NETWORK >= 2, MAX_UNPAIRED_ROOMS_PER_NETWORK >= 1.  *)
(* Nothing below needs more than a positive MAX_ROOMS.                     *)
ASSUME LimitsAssumption ==
    /\ MaxRooms \in Nat \ {0}
    /\ MaxConnectionsPerNetwork \in Nat \ {0}
    /\ MaxUnpairedRoomsPerNetwork \in Nat \ {0}
    /\ ReservedRooms \in 0 .. MaxRooms - 1

ASSUME PopulationAssumption ==
    /\ IsFiniteSet(Session)
    /\ IsFiniteSet(Conn)
    /\ Conn \subseteq [session : Session, role : Role, network : Network, attempt : Nat]
    /\ NoRoom \notin Conn

ASSUME TimeAssumption ==
    /\ RoomTTL \in Nat
    /\ MaxTime \in Nat
    /\ TicketExpiry \in [Session -> Nat]

VARIABLES
    now,          \* Date.now()
    shut,         \* closeResources() has run
    reg,          \* the registry and its sockets, a record (see RegistryType)
    completions   \* calls of observer.connectionCompleted, per session

vars == <<now, shut, reg, completions>>

SocketState == {"new", "open", "closing", "closed"}

(* rooms: registered room objects (the Map, keyed by the room's session)   *)
(* attached, roomOf: the union of all room.peers, and the room object the  *)
(*   listeners of a socket captured                                        *)
(* paired, expiry, unpairedHeld, creationHeld: fields of room objects      *)
(*   (a reservation is held while its network field is not null)           *)
(* consumed: consumedSessions, whose value is always the ticket's expiry   *)
(* active, connectionsBy, unpairedBy, createdBy: the admission counters    *)
RegistryType ==
    [rooms         : SUBSET Conn,
     attached      : SUBSET Conn,
     roomOf        : [Conn -> Conn \cup {NoRoom}],
     paired        : SUBSET Conn,
     expiry        : [Conn -> Nat],
     unpairedHeld  : SUBSET Conn,
     creationHeld  : SUBSET Conn,
     consumed      : SUBSET Session,
     active        : Nat,
     connectionsBy : [Network -> Nat],
     unpairedBy    : [Network -> Nat],
     createdBy     : [Network -> Nat],
     sock          : [Conn -> SocketState]]

-----------------------------------------------------------------------------
(* Views of a registry state.                                              *)

Peers(g, r) == {c \in g.attached : g.roomOf[c] = r}

RoomsOf(g, s) == {r \in g.rooms : r.session = s}

HasRole(g, r, role) == \E p \in Peers(g, r) : p.role = role

BothPresent(g, r) == \A role \in Role : HasRole(g, r, role)

OnNetwork(C, n) == {c \in C : c.network = n}

SessionsOf(R) == {r.session : r \in R}

(* The guarded decrements of releasePeer and of the two reservation        *)
(* releases never go below zero.                                           *)
Minus(a, b) == IF a > b THEN a - b ELSE 0

MinOf(a, b) == IF a < b THEN a ELSE b

(* Map.set. *)
Put(f, x, v) == [f EXCEPT ![x] = v]

Bump(f, n) == Put(f, n, f[n] + 1)

-----------------------------------------------------------------------------
(* The private methods.  C is a set of connections, R of room objects.     *)

(* The operators named ...Slip are the operator that follows with one       *)
(* plausible slip in it; the README says which property each one breaks.   *)

(* Slip: the global count is left to whoever handles 'close' later. *)
ReleasePeersLeakSlip(g, C) ==
    LET gone == C \cap g.attached
    IN  [g EXCEPT
           !.attached = @ \ gone,
           !.connectionsBy =
               [n \in Network |-> Minus(@[n], Cardinality(OnNetwork(gone, n)))]]

(* releasePeer, for the peers in C that are still present.                 *)
ReleasePeers(g, C) ==
    LET gone == C \cap g.attached
    IN  [g EXCEPT
           !.attached = @ \ gone,
           !.active = Minus(@, Cardinality(gone)),
           !.connectionsBy =
               [n \in Network |-> Minus(@[n], Cardinality(OnNetwork(gone, n)))]]

(* Slip: the room does not forget the network it reserved for. *)
ReleaseUnpairedSlip(g, R) ==
    LET gone == R \cap g.unpairedHeld
    IN  [g EXCEPT !.unpairedBy =
               [n \in Network |-> Minus(@[n], Cardinality(OnNetwork(gone, n)))]]

(* releaseUnpairedReservation: idempotent, the room forgets its network.   *)
ReleaseUnpaired(g, R) ==
    LET gone == R \cap g.unpairedHeld
    IN  [g EXCEPT
           !.unpairedHeld = @ \ gone,
           !.unpairedBy =
               [n \in Network |-> Minus(@[n], Cardinality(OnNetwork(gone, n)))]]

ReleaseCreation(g, R) ==
    LET gone == R \cap g.creationHeld
    IN  [g EXCEPT
           !.creationHeld = @ \ gone,
           !.createdBy =
               [n \in Network |-> Minus(@[n], Cardinality(OnNetwork(gone, n)))]]

Consume(g, S) == [g EXCEPT !.consumed = @ \cup S]

Unregister(g, R) == [g EXCEPT !.rooms = @ \ R]

(* safeClose and safeTerminate leave the socket unusable for sending; its  *)
(* events keep coming until 'close'.                                       *)
ShutSockets(g, C) ==
    [g EXCEPT !.sock = [c \in Conn |-> IF c \in C /\ @[c] = "open" THEN "closing" ELSE @[c]]]

(* Slip: closeRoom looks the room up by its session, not by identity. *)
CloseRoomsSlip(g, R, consume) ==
    LET hit   == {r \in Conn : r.session \in SessionsOf(R)
                               /\ (r \in g.rooms \/ Peers(g, r) # {})}
        inhit == {c \in g.attached : g.roomOf[c] \in hit}
        freed == ReleaseCreation(ReleaseUnpaired(Unregister(g, hit), hit), hit)
        spent == IF consume THEN Consume(freed, SessionsOf(hit)) ELSE freed
    IN  ShutSockets(ReleasePeers(spent, inhit), inhit)

(* closeRoom for every room in R: it returns early for an object that is   *)
(* neither registered nor occupied.                                        *)
CloseRooms(g, R, consume) ==
    LET hit   == {r \in R : r \in g.rooms \/ Peers(g, r) # {}}
        inhit == {c \in g.attached : g.roomOf[c] \in hit}
        freed == ReleaseCreation(ReleaseUnpaired(Unregister(g, hit), hit), hit)
        spent == IF consume THEN Consume(freed, SessionsOf(hit)) ELSE freed
    IN  ShutSockets(ReleasePeers(spent, inhit), inhit)

(* attach: rooms.set and the two reservations of a new room.               *)
Register(g, c, t) ==
    [g EXCEPT
       !.rooms = @ \cup {c},
       !.expiry = Put(@, c, MinOf(TicketExpiry[c.session], t + RoomTTL)),
       !.unpairedHeld = @ \cup {c},
       !.creationHeld = @ \cup {c},
       !.unpairedBy = Bump(@, c.network),
       !.createdBy = Bump(@, c.network)]

(* attach: peers.set, the connection counters and the listeners.           *)
AddPeer(g, c, r) ==
    [g EXCEPT
       !.attached = @ \cup {c},
       !.roomOf = Put(@, c, r),
       !.active = @ + 1,
       !.connectionsBy = Bump(@, c.network),
       !.sock = Put(@, c, "open")]

(* attach: the second peer makes the room paired and spends the ticket.    *)
PairIfFull(g, r) ==
    IF Cardinality(Peers(g, r)) = 2
      THEN Consume(ReleaseUnpaired([g EXCEPT !.paired = @ \cup {r}], {r}), {r.session})
      ELSE g

-----------------------------------------------------------------------------
(* Admission, in the order attach asks.                                    *)

(* Slip: expiry compared one tick too early. *)
ForgetSlip(g, s, t) ==
    [g EXCEPT !.consumed = IF TicketExpiry[s] <= t + 1 THEN @ \ {s} ELSE @]

(* The lazily deleted entry of a ticket that has expired since.            *)
Forget(g, s, t) ==
    [g EXCEPT !.consumed = IF TicketExpiry[s] <= t THEN @ \ {s} ELSE @]

ConnectionRefused(g, c) ==
    \/ c.session \in g.consumed
    \/ g.active >= 2 * MaxRooms
    \/ g.connectionsBy[c.network] >= MaxConnectionsPerNetwork

ReservedBoundary == MaxRooms - ReservedRooms

(* Slip: the boundary itself is handed out. *)
RoomRefusedSlip(g, c) ==
    \/ Cardinality(g.rooms) >= MaxRooms
    \/ Cardinality(g.consumed) >= 4 * MaxRooms
    \/ g.unpairedBy[c.network] >= MaxUnpairedRoomsPerNetwork
    \/ Cardinality(g.rooms) > ReservedBoundary /\ g.createdBy[c.network] > 0

(* Slip: spent tickets are not counted against new rooms. *)
RoomRefusedUncappedSlip(g, c) ==
    \/ Cardinality(g.rooms) >= MaxRooms
    \/ g.unpairedBy[c.network] >= MaxUnpairedRoomsPerNetwork
    \/ Cardinality(g.rooms) >= ReservedBoundary /\ g.createdBy[c.network] > 0

RoomRefused(g, c) ==
    \/ Cardinality(g.rooms) >= MaxRooms
    \/ Cardinality(g.consumed) >= 4 * MaxRooms
    \/ g.unpairedBy[c.network] >= MaxUnpairedRoomsPerNetwork
    \/ Cardinality(g.rooms) >= ReservedBoundary /\ g.createdBy[c.network] > 0

SeatRefused(g, c, r) == r \in g.paired \/ HasRole(g, r, c.role)

(* A verified ticket reaches attach: verification may have read the clock  *)
(* one tick earlier.  websocketServer.close() refuses upgrades once shut.  *)
Presents(c) ==
    /\ ~shut
    /\ reg.sock[c] = "new"
    /\ now <= TicketExpiry[c.session]

-----------------------------------------------------------------------------
Init ==
    /\ now = 0
    /\ shut = FALSE
    /\ reg = [rooms |-> {}, attached |-> {}, roomOf |-> [c \in Conn |-> NoRoom],
              paired |-> {}, expiry |-> [c \in Conn |-> 0],
              unpairedHeld |-> {}, creationHeld |-> {}, consumed |-> {},
              active |-> 0, connectionsBy |-> [n \in Network |-> 0],
              unpairedBy |-> [n \in Network |-> 0],
              createdBy |-> [n \in Network |-> 0],
              sock |-> [c \in Conn |-> "new"]]
    /\ completions = [s \in Session |-> 0]

(* A refused socket is closed (and terminated 250 ms later) without ever   *)
(* getting a listener of the registry: the connection may be tried again.  *)
AttachRefused(c) ==
    LET g == Forget(reg, c.session, now)
    IN  /\ Presents(c)
        /\ \/ ConnectionRefused(g, c)
           \/ RoomsOf(g, c.session) = {} /\ RoomRefused(g, c)
           \/ \E r \in RoomsOf(g, c.session) : now < g.expiry[r] /\ SeatRefused(g, c, r)
        /\ reg' = g
        /\ UNCHANGED <<now, shut, completions>>

(* The rooms attach may go on with: the session's room, or a new one.      *)
Target(g, c) ==
    IF RoomsOf(g, c.session) # {} THEN RoomsOf(g, c.session)
    ELSE IF RoomRefused(g, c) THEN {} ELSE {c}

Opened(g, c) == IF RoomsOf(g, c.session) = {} THEN Register(g, c, now) ELSE g

(* The room has outlived its time but the sweeper has not come by.         *)
AttachExpired(c) ==
    LET g == Forget(reg, c.session, now)
    IN  /\ Presents(c)
        /\ ~ConnectionRefused(g, c)
        /\ \E r \in Target(g, c) :
             /\ Opened(g, c).expiry[r] <= now
             /\ reg' = CloseRooms(Opened(g, c), {r}, TRUE)
        /\ UNCHANGED <<now, shut, completions>>

(* The peer takes its seat and both peers are told.  A message that cannot *)
(* be sent, because send throws or because the other peer's socket is      *)
(* already closing, closes the room it was for.                            *)
AttachSeated(c) ==
    LET g == Forget(reg, c.session, now)
    IN  /\ Presents(c)
        /\ ~ConnectionRefused(g, c)
        /\ \E r \in Target(g, c), sent \in BOOLEAN :
             LET opened == Opened(g, c)
                 seated == PairIfFull(AddPeer(opened, c, r), r)
                 told   == sent /\ \A p \in Peers(seated, r) : seated.sock[p] = "open"
             IN  /\ now < opened.expiry[r]
                 /\ ~SeatRefused(opened, c, r)
                 /\ reg' = IF told THEN seated ELSE CloseRooms(seated, {r}, TRUE)
        /\ UNCHANGED <<now, shut, completions>>

-----------------------------------------------------------------------------
(* Events of a socket that attached.  They may belong to a room object     *)
(* that is gone: ws still delivers messages while a socket is closing.     *)

Listening(c) == reg.roomOf[c] # NoRoom /\ reg.sock[c] \in {"open", "closing"}

(* The peer's close frame or a dead network: sends fail from here on, and  *)
(* 'close' has not been emitted yet.                                       *)
PeerCloses(c) ==
    /\ reg.sock[c] = "open"
    /\ reg' = [reg EXCEPT !.sock = Put(@, c, "closing")]
    /\ UNCHANGED <<now, shut, completions>>

(* handleMessage, relay: forwarded, dropped when alone, fatal when the     *)
(* other peer's buffer is full or its socket is closing.                   *)
Relay(c) ==
    LET r      == reg.roomOf[c]
        others == {p \in Peers(reg, r) : p.role # c.role}
    IN  /\ Listening(c)
        /\ \E full \in BOOLEAN :
             reg' = IF \/ ~HasRole(reg, r, c.role)
                       \/ \E p \in others : full \/ reg.sock[p] # "open"
                      THEN CloseRooms(reg, {r}, TRUE)
                      ELSE reg
        /\ UNCHANGED <<now, shut, completions>>

(* handleMessage, complete: only the browser of a full room may say so.    *)
Complete(c) ==
    LET r     == reg.roomOf[c]
        valid == c.role = "browser" /\ BothPresent(reg, r)
    IN  /\ Listening(c)
        /\ completions' = IF valid THEN [completions EXCEPT ![c.session] = @ + 1]
                                   ELSE completions
        /\ reg' = CloseRooms(reg, {r}, TRUE)
        /\ UNCHANGED <<now, shut>>

(* handleMessage, everything else: cancel, binary, malformed, too large,   *)
(* unsupported, or beyond the room's message or byte budget.               *)
CloseByMessage(c) ==
    /\ Listening(c)
    /\ reg' = CloseRooms(reg, {reg.roomOf[c]}, TRUE)
    /\ UNCHANGED <<now, shut, completions>>

(* handleControlFrame: a present peer exceeds its frame allowance, or its  *)
(* pong does not fit in the buffer.                                        *)
CloseByControlFrame(c) ==
    /\ Listening(c)
    /\ c \in reg.attached
    /\ reg' = CloseRooms(reg, {reg.roomOf[c]}, TRUE)
    /\ UNCHANGED <<now, shut, completions>>

(* The callback of socket.send or socket.pong reports an error, at any     *)
(* later time.                                                             *)
SendCallbackFails(c) ==
    /\ reg.roomOf[c] # NoRoom
    /\ reg' = CloseRooms(reg, {reg.roomOf[c]}, TRUE)
    /\ UNCHANGED <<now, shut, completions>>

(* Slip: an empty room stays registered until the sweeper finds it. *)
DetachSlip(g, c) ==
    LET r    == g.roomOf[c]
        left == ReleasePeers(g, {c})
    IN  IF c \in g.attached /\ r \in g.rooms /\ r \in g.paired
          THEN CloseRooms(left, {r}, TRUE)
          ELSE left

(* detach: the last peer of an unpaired room takes the room with it and    *)
(* leaves the ticket usable; a paired room dies with its first leaver,     *)
(* whether or not peer_left could still be sent.                           *)
Detach(g, c) ==
    LET r    == g.roomOf[c]
        left == ReleasePeers(g, {c})
    IN  IF c \notin g.attached \/ r \notin g.rooms THEN left
        ELSE IF r \in g.paired THEN CloseRooms(left, {r}, TRUE)
        ELSE IF Peers(left, r) = {}
          THEN ReleaseCreation(ReleaseUnpaired(Unregister(left, {r}), {r}), {r})
        ELSE left

SocketClosed(c) ==
    /\ Listening(c)
    /\ reg' = [Detach(reg, c) EXCEPT !.sock = Put(@, c, "closed")]
    /\ UNCHANGED <<now, shut, completions>>

(* 'error': detach, then terminate; 'close' follows.                       *)
SocketError(c) ==
    /\ Listening(c)
    /\ reg' = ShutSockets(Detach(reg, c), {c})
    /\ UNCHANGED <<now, shut, completions>>

-----------------------------------------------------------------------------
(* Slip (ExpiredSlip): only rooms still waiting for a peer are timed.      *)
(* The 15 s sweep: expired rooms close; the others are pinged, and a peer  *)
(* with an open socket that cannot take the ping closes its room.  Entries *)
(* of expired tickets are purged last.                                     *)
ExpiredSlip(g) == {r \in g.rooms \ g.paired : g.expiry[r] <= now}

Expired(g) == {r \in g.rooms : g.expiry[r] <= now}

Pingable(g) == {r \in g.rooms \ Expired(g) : \E p \in Peers(g, r) : g.sock[p] = "open"}

(* Slip: the purge drops a ticket's entry one tick before it expires. *)
SweepSlip ==
    /\ ~shut
    /\ \E clogged \in SUBSET Pingable(reg) :
         LET g == CloseRooms(reg, Expired(reg) \cup clogged, TRUE)
         IN  reg' = [g EXCEPT !.consumed = {s \in @ : TicketExpiry[s] > now + 1}]
    /\ UNCHANGED <<now, shut, completions>>

Sweep ==
    /\ ~shut
    /\ \E clogged \in SUBSET Pingable(reg) :
         LET g == CloseRooms(reg, Expired(reg) \cup clogged, TRUE)
         IN  reg' = [g EXCEPT !.consumed = {s \in @ : TicketExpiry[s] > now}]
    /\ UNCHANGED <<now, shut, completions>>

(* close(), from closeResources(): tickets are not spent.                  *)
Shutdown ==
    /\ ~shut
    /\ shut' = TRUE
    /\ reg' = CloseRooms(reg, reg.rooms, FALSE)
    /\ UNCHANGED <<now, completions>>

Tick ==
    /\ now < MaxTime
    /\ now' = now + 1
    /\ UNCHANGED <<shut, reg, completions>>

Attach(c) == AttachRefused(c) \/ AttachExpired(c) \/ AttachSeated(c)

PeerEvent(c) ==
    \/ Relay(c) \/ Complete(c) \/ CloseByMessage(c) \/ CloseByControlFrame(c)
    \/ SendCallbackFails(c) \/ SocketClosed(c) \/ SocketError(c)

Next ==
    \/ \E c \in Conn : Attach(c) \/ PeerCloses(c) \/ PeerEvent(c)
    \/ Sweep
    \/ Shutdown
    \/ Tick

Spec == Init /\ [][Next]_vars

(* The sweeper's interval keeps firing until close() and time passes; no   *)
(* peer has to do anything.                                                *)
FairSpec == Spec /\ WF_vars(Tick) /\ WF_vars(Sweep)

-----------------------------------------------------------------------------
(* The registry keeps every field in its range and never loses one.        *)
TypeOK ==
    /\ now \in Nat
    /\ shut \in BOOLEAN
    /\ reg \in RegistryType
    /\ completions \in [Session -> Nat]

(* The admission counters are maintained by increments and guarded         *)
(* decrements scattered over attach, detach, closeRoom and the releases.   *)
(* They always count exactly the present peers and the held reservations,  *)
(* so no path of failures leaks a slot or frees one twice.                 *)
AccountingExact ==
    /\ reg.active = Cardinality(reg.attached)
    /\ \A n \in Network :
         /\ reg.connectionsBy[n] = Cardinality(OnNetwork(reg.attached, n))
         /\ reg.unpairedBy[n] = Cardinality(OnNetwork(reg.rooms \ reg.paired, n))
         /\ reg.createdBy[n] = Cardinality(OnNetwork(reg.rooms, n))

(* protocol/README.md, Resource bounds: "Rooms exist only while a WebSocket *)
(* peer is connected."  A registered room has a peer, every present peer   *)
(* sits in a registered room object, and a session has one room at most.   *)
RoomsExistWithPeers ==
    /\ \A r \in reg.rooms : Peers(reg, r) # {}
    /\ \A c \in reg.attached :
         reg.roomOf[c] \in reg.rooms /\ reg.roomOf[c].session = c.session
    /\ \A r, q \in reg.rooms : r.session = q.session => r = q

(* A room is paired exactly while it holds one browser and one phone: the  *)
(* branch of detach that would tell a lone unpaired peer that another left *)
(* is never taken, and a third peer never gets in.                         *)
PairedMeansFull ==
    \A r \in reg.rooms :
        /\ r \in reg.paired <=> Cardinality(Peers(reg, r)) = 2
        /\ \A p, q \in Peers(reg, r) : p.role = q.role => p = q

(* A room stands exactly for the peers that sit in it.                     *)
RoomsOccupied == RoomsExistWithPeers /\ PairedMeansFull

(* While a paired room is open its ticket is spent, through every lazy     *)
(* deletion and purge: a third peer cannot outlive the pairing.            *)
PairedMeansSpent ==
    \A r \in reg.rooms \cap reg.paired :
        now < TicketExpiry[r.session] => r.session \in reg.consumed

(* The rooms networks hold beyond their first never reach into the slice   *)
(* reserved for networks without a room, in whatever order rooms open and  *)
(* close (protocol/README.md, "A reserved slice of global room capacity    *)
(* remains available to networks without an existing room").               *)
ReservedSliceKept ==
    LET holders == {r.network : r \in reg.rooms}
    IN  /\ Cardinality(reg.rooms) <= MaxRooms
        /\ Cardinality(reg.rooms) - Cardinality(holders) < ReservedBoundary

(* "... while the second peer may still join a room at the ordinary        *)
(* room-count boundary": a waiting room's second peer is never turned away *)
(* by the global connection limit.                                         *)
SecondPeerAdmissible ==
    reg.rooms \subseteq reg.paired \/ reg.active < 2 * MaxRooms

(* closeRoom spends tickets without looking at the limit on spent tickets; *)
(* counting the rooms that may still spend theirs bounds the memory.       *)
ConsumedBounded ==
    Cardinality(reg.consumed \cup SessionsOf(reg.rooms)) <= 5 * MaxRooms - 1

(* An event or callback of a socket that is no longer a peer finds its own *)
(* room object dead: whatever it is, it does not touch the registry, not   *)
(* even a new room of the same session.                                    *)
StaleEventsAreInert ==
    [][\A c \in Conn :
         PeerEvent(c) /\ c \notin reg.attached
           => /\ reg'.rooms = reg.rooms /\ reg'.attached = reg.attached
              /\ reg'.consumed = reg.consumed /\ reg'.active = reg.active
              /\ completions' = completions]_vars

(* The abstract session of PairingSession.                                 *)
PhaseOf(s) ==
    IF RoomsOf(reg, s) # {}
      THEN IF RoomsOf(reg, s) \subseteq reg.paired THEN "paired" ELSE "waiting"
      ELSE IF s \in reg.consumed \/ TicketExpiry[s] <= now THEN "spent" ELSE "idle"

ExpiredTickets == {s \in Session : TicketExpiry[s] <= now}

Promise == INSTANCE PairingSession WITH
    phase <- [s \in Session |-> PhaseOf(s)],
    expired <- ExpiredTickets

(* Every behaviour of the registry is one the abstract session allows:     *)
(* "Completed, cancelled, expired, or invalidated tickets cannot create    *)
(* another room during their remaining lifetime", and a connection is      *)
(* reported at most once per ticket.                                       *)
KeepsPromise == Promise!Safe

(* A room whose peers never leave is still released in the end.            *)
RoomsEnd == Promise!RoomsEnd
=============================================================================
