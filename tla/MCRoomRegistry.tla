--------------------------- MODULE MCRoomRegistry ---------------------------
(* Small populations of connections for RoomRegistry. *)
EXTENDS RoomRegistry, TLC

CONSTANTS s1, s2, s3, n1, n2

Socket(s, role, n, k) == [session |-> s, role |-> role, network |-> n, attempt |-> k]

(* Two sessions.  The first has two browser attempts, so that a room of it *)
(* can be given up and opened again as a new object, and a phone attempt   *)
(* from each network; the second is a plain pair on the first network.     *)
TwoSessions ==
    {Socket(s1, "browser", n1, 1), Socket(s1, "browser", n1, 2),
     Socket(s1, "phone", n2, 1),
     Socket(s2, "browser", n1, 1), Socket(s2, "phone", n1, 1)}

(* Three sessions competing for rooms from two networks. *)
ThreeSessions ==
    {Socket(s1, "browser", n1, 1), Socket(s1, "phone", n2, 1),
     Socket(s2, "browser", n1, 1), Socket(s3, "browser", n2, 1)}

(* A single-connection population: every session spends its ticket alone. *)
Loners == {Socket(s, "browser", n1, 1) : s \in Session}

Expiry1 == [s \in Session |-> 1]
ExpiryMixed == [s \in Session |-> IF s = s1 THEN 1 ELSE 2]

LonerSymmetry == Permutations(Session)
=============================================================================
