----------------------------- MODULE MCFrontDoor -----------------------------
(***************************************************************************)
(* FrontDoor under two kinds of traffic, each on its own: a flood of       *)
(* upgrades without a ticket, and guests who ask for tickets and use them. *)
(***************************************************************************)
EXTENDS FrontDoor, TLC

CONSTANTS s1, s2, n1, n2

VARIABLE traffic

MCInit == Init /\ traffic \in {"flood", "guests"}

Flood == \E n \in Network, trusted \in BOOLEAN : Upgrade(n, trusted, None)

Guests ==
    \E s \in Session :
        \/ Ask(s, n1) \/ BodyRefused(s) \/ BodyAccepted(s) \/ VerificationSettles(s)
        \/ Verified(s) /\ Upgrade(n1, TRUE, s)

MCNext ==
    /\ \/ traffic = "flood" /\ Flood
       \/ traffic = "guests" /\ Guests
       \/ Tick
    /\ UNCHANGED traffic

MCSpec == MCInit /\ [][MCNext]_<<vars, traffic>> /\ Timeouts

SmallLimits ==
    [l \in Limiter |->
        CASE l = "rawGlobalUpgrade" -> 7
          [] l \in {"upgrade", "untrustedUpgrade", "rawTicket", "ticket"} -> 2
          [] OTHER -> 1]

SmallTables == [l \in Limiter |-> IF l \in Shared THEN 1 ELSE 2]
=============================================================================
