---------------------------- MODULE NodePromise ----------------------------
(***************************************************************************)
(* What the pages of one browser promise to the phones (protocol/README.md,*)
(* "Temporary filesystem node"): one link at a time holds the browser, a   *)
(* scope is a reclaim receipt only once its node has come to rest and      *)
(* never after a crash, receipts are forgotten only for newer ones, and    *)
(* the phone is told the receipts as they are while the link lasts.        *)
(***************************************************************************)
EXTENDS Naturals, Sequences

CONSTANTS Scope, None, MaxReceipts

VARIABLES
    owner,       \* the scope that holds the browser
    serving,     \* the scopes whose node may touch the folder
    rested,      \* the scopes whose node has come to rest
    receipts,    \* the receipts, oldest first
    told         \* per scope, the receipts its phone was told of

vars == <<owner, serving, rested, receipts, told>>

Last(s, n) == IF Len(s) > n THEN SubSeq(s, Len(s) - n + 1, Len(s)) ELSE s

Noting(s, x) == Last(Append(SelectSeq(s, LAMBDA y : y # x), x), MaxReceipts)

Init ==
    /\ owner = None /\ serving = {} /\ rested = {} /\ receipts = << >>
    /\ told = [s \in Scope |-> << >>]

Take(s) ==
    /\ owner = None
    /\ owner' = s
    /\ UNCHANGED <<serving, rested, receipts, told>>

Serve(s) ==
    /\ owner = s /\ serving = {} /\ s \notin rested
    /\ serving' = {s}
    /\ told' = [told EXCEPT ![s] = receipts]
    /\ UNCHANGED <<owner, rested, receipts>>

Rest(s) ==
    /\ s \in serving
    /\ serving' = serving \ {s} /\ rested' = rested \cup {s}
    /\ UNCHANGED <<owner, receipts, told>>

(* A link ends with a receipt or, if storage fails, without one.           *)
Leave(s) ==
    /\ owner = s /\ s \notin serving
    /\ owner' = None
    /\ \/ receipts' = receipts
       \/ s \in rested /\ receipts' = Noting(receipts, s)
    /\ UNCHANGED <<serving, rested, told>>

Crash(s) ==
    /\ owner = s
    /\ owner' = None /\ serving' = serving \ {s}
    /\ UNCHANGED <<rested, receipts, told>>

Next == \E s \in Scope : Take(s) \/ Serve(s) \/ Rest(s) \/ Leave(s) \/ Crash(s)

Spec == Init /\ [][Next]_vars
=============================================================================
