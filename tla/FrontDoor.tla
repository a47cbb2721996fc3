----------------------------- MODULE FrontDoor -----------------------------
(***************************************************************************)
(* What server/src/server.ts lets in: the ticket route with the human      *)
(* verification of turnstile.ts, and the upgrade handler with its chain of *)
(* rate limiters and the tickets of tickets.ts.  What passes is handed to  *)
(* RoomRegistry.                                                           *)
(*                                                                         *)
(* The upgrade handler runs in one step.  A ticket request awaits its body *)
(* and its verification; a session names the ticket a request is going to  *)
(* get.  The clock does not go back.  Human verification is enabled.       *)
(***************************************************************************)
EXTENDS RateLimiter, FiniteSets

CONSTANTS
    Network,        \* clientNetworkPrefix
    Session,
    None,           \* no valid ticket
    Limit,          \* per limiter
    MaxKeys,        \* per limiter
    MaximumConcurrent,
    TicketTTL,
    MaxNow          \* bound of the clock

Limiter ==
    {"upgrade", "untrustedUpgrade", "rawGlobalUpgrade", "ticketUpgrade", "globalUpgrade",
     "rawTicket", "ticket", "turnstile"}

Shared == {"rawGlobalUpgrade", "globalUpgrade", "turnstile"}

ASSUME FrontDoorAssumption ==
    /\ IsFiniteSet(Network) /\ IsFiniteSet(Session) /\ None \notin Session
    /\ Limit \in [Limiter -> Nat \ {0}] /\ MaxKeys \in [Limiter -> Nat \ {0}]
    /\ \A l \in Shared : MaxKeys[l] = 1
    /\ MaximumConcurrent \in Nat \ {0} /\ TicketTTL \in Nat \ {0} /\ MaxNow \in Nat
    /\ Limit["untrustedUpgrade"] = Limit["upgrade"]
    /\ Limit["rawGlobalUpgrade"] >= 4 * Limit["upgrade"] - 1        \* loadConfig

VARIABLES
    now,
    tables,     \* the limiters
    request,    \* per session: the ticket request that is to get it
    active,     \* verifications that hold a slot
    charged     \* history: what each network took of the current raw global window

vars == <<now, tables, request, active, charged>>

RequestType ==
    [at : {"none", "reading", "verifying", "issued"}, network : Network \cup {None},
     expiresAt : Nat]

Unasked == [at |-> "none", network |-> None, expiresAt |-> 0]

Init ==
    /\ now = 0
    /\ tables = [l \in Limiter |-> << >>]
    /\ request = [s \in Session |-> Unasked]
    /\ active = 0
    /\ charged = [n \in Network |-> 0]

-----------------------------------------------------------------------------
(* limiter.consume(key) on the tables ts.                                  *)

Lets(ts, l, key) == Admits(ts[l], key, Limit[l], MaxKeys[l], now)

Took(ts, l, key) == [ts EXCEPT ![l] = Consumed(@, key, Limit[l], MaxKeys[l], now)]

Noted(n, ts) ==
    IF ts["rawGlobalUpgrade"] = tables["rawGlobalUpgrade"] THEN charged
    ELSE IF ts["rawGlobalUpgrade"][1].count = 1 THEN [m \in Network |-> IF m = n THEN 1 ELSE 0]
    ELSE [charged EXCEPT ![n] = @ + 1]

-----------------------------------------------------------------------------
(* The upgrade handler.                                                    *)

(* tickets.verify *)
Verified(s) == s # None /\ request[s].at = "issued" /\ request[s].expiresAt > now

(* Slip: the raw global budget is charged before that of the network.      *)
UpgradeSlip(n, trusted, s) ==
    LET door == IF trusted THEN "upgrade" ELSE "untrustedUpgrade"
        raw == Took(tables, "rawGlobalUpgrade", "global")
        own == Took(raw, door, n)
    IN  /\ tables' = IF Lets(tables, "rawGlobalUpgrade", "global") THEN own ELSE raw
        /\ charged' = Noted(n, tables')
        /\ UNCHANGED <<now, request, active>>

(* A request from n, with an allowed Origin or not, that shows the ticket  *)
(* s: 429 or 503 before the ticket is looked at, 403 or 401, and 429, 503  *)
(* or attach after it.                                                     *)
Upgrade(n, trusted, s) ==
    LET door == IF trusted THEN "upgrade" ELSE "untrustedUpgrade"
        own == Took(tables, door, n)
        raw == Took(own, "rawGlobalUpgrade", "global")
        ticket == Took(raw, "ticketUpgrade", s)
        passes == Lets(own, "rawGlobalUpgrade", "global") /\ trusted /\ Verified(s)
    IN  /\ \/ ~Lets(tables, door, n) /\ tables' = own
           \/ Lets(tables, door, n) /\ ~passes /\ tables' = raw
           \/ /\ Lets(tables, door, n) /\ passes
              /\ tables' = IF Lets(raw, "ticketUpgrade", s)
                           THEN Took(ticket, "globalUpgrade", "global") ELSE ticket
        /\ charged' = Noted(n, tables')
        /\ UNCHANGED <<now, request, active>>

-----------------------------------------------------------------------------
(* POST /api/v1/tickets.                                                   *)

Ask(s, n) ==
    /\ request[s].at = "none"
    /\ tables' = Took(tables, "rawTicket", n)
    /\ request' = IF Lets(tables, "rawTicket", n)
                  THEN [request EXCEPT ![s] = [@ EXCEPT !.at = "reading", !.network = n]]
                  ELSE request
    /\ UNCHANGED <<now, active, charged>>

Answered(s) == request' = [request EXCEPT ![s] = Unasked]

(* 400, 429, or a client that leaves before its body is read: nothing more *)
(* is charged.                                                             *)
BodyRefused(s) ==
    /\ request[s].at = "reading"
    /\ Answered(s)
    /\ UNCHANGED <<now, tables, active, charged>>

(* Slip: the slot is taken before the budget of the minute is asked.       *)
BodyAcceptedSlip(s) ==
    LET own == Took(tables, "ticket", request[s].network)
    IN  /\ request[s].at = "reading" /\ Lets(tables, "ticket", request[s].network)
        /\ \/ active >= MaximumConcurrent /\ tables' = own /\ Answered(s) /\ UNCHANGED active
           \/ /\ active < MaximumConcurrent
              /\ tables' = Took(own, "turnstile", "global")
              /\ active' = active + 1
              /\ IF Lets(own, "turnstile", "global")
                 THEN request' = [request EXCEPT ![s].at = "verifying"] ELSE Answered(s)
        /\ UNCHANGED <<now, charged>>

(* The budget of the network, then TurnstileVerifier.verify up to fetch;   *)
(* 503 if it is busy.                                                      *)
BodyAccepted(s) ==
    LET own == Took(tables, "ticket", request[s].network)
    IN  /\ request[s].at = "reading" /\ Lets(tables, "ticket", request[s].network)
        /\ \/ active >= MaximumConcurrent /\ tables' = own /\ Answered(s) /\ UNCHANGED active
           \/ /\ active < MaximumConcurrent
              /\ tables' = Took(own, "turnstile", "global")
              /\ \/ /\ Lets(own, "turnstile", "global")
                    /\ active' = active + 1
                    /\ request' = [request EXCEPT ![s].at = "verifying"]
                 \/ ~Lets(own, "turnstile", "global") /\ Answered(s) /\ UNCHANGED active
        /\ UNCHANGED <<now, charged>>

(* tickets.issue *)
Issued == [Unasked EXCEPT !.at = "issued", !.expiresAt = now + TicketTTL]

(* fetch answers, fails, is aborted because the client has left, or runs   *)
(* into its timeout; the ticket of a client that has left goes nowhere.    *)
VerificationSettles(s) ==
    /\ request[s].at = "verifying"
    /\ active' = active - 1
    /\ \/ Answered(s)
       \/ request' = [request EXCEPT ![s] = Issued]
    /\ UNCHANGED <<now, tables, charged>>

-----------------------------------------------------------------------------
Tick == now < MaxNow /\ now' = now + 1 /\ UNCHANGED <<tables, request, active, charged>>

Upgrades == \E n \in Network, trusted \in BOOLEAN, s \in Session \cup {None} : Upgrade(n, trusted, s)

TicketRoute ==
    \E s \in Session :
        \/ \E n \in Network : Ask(s, n)
        \/ BodyRefused(s) \/ BodyAccepted(s) \/ VerificationSettles(s)

Next == Upgrades \/ TicketRoute \/ Tick

Spec == Init /\ [][Next]_vars

(* AbortSignal.timeout                                                     *)
Timeouts == \A s \in Session : WF_vars(VerificationSettles(s))

FairSpec == Spec /\ Timeouts

-----------------------------------------------------------------------------
TypeOK ==
    /\ now \in 0 .. MaxNow
    /\ DOMAIN tables = Limiter
    /\ \A l \in Limiter :
         /\ Len(tables[l]) <= MaxKeys[l]
         /\ \A i \in 1 .. Len(tables[l]) : tables[l][i].count \in 1 .. Limit[l]
    /\ request \in [Session -> RequestType]
    /\ active \in Nat
    /\ charged \in [Network -> Nat]

(* "The per-network upgrade budget is consumed before the raw global       *)
(* budget so one network cannot drain the shared allowance": with the      *)
(* margin loadConfig asks for, a network that floods the server through    *)
(* both of its budgets and across their windows still leaves something of  *)
(* each raw global window to the others.                                   *)
SharedAllowanceKept == \A n \in Network : charged[n] < Limit["rawGlobalUpgrade"]

(* Looking at a few entries is enough: whenever a full table holds a key   *)
(* whose window is over, a key that is not in it is admitted.              *)
NewKeysAdmitted ==
    \A l \in Limiter :
        (\E i \in 1 .. Len(tables[l]) : Over(tables[l][i], now))
            => MakeSpace(tables[l], MaxKeys[l], now)

(* A verifier at its ceiling becomes free again, whatever ends the checks  *)
(* it runs and whichever budget refused the others.                        *)
VerifierRecovers == (active >= MaximumConcurrent) ~> (active < MaximumConcurrent)
=============================================================================
