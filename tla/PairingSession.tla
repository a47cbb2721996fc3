--------------------------- MODULE PairingSession ---------------------------
(***************************************************************************)
(* What the signalling service promises about one ticket session, whoever  *)
(* connects, disconnects or misbehaves.  A session waits for its second    *)
(* peer, may fall back to idle when the only peer leaves, is paired at     *)
(* most once, completes at most once and only out of a pairing, and is     *)
(* over for good once it has been paired, given up or has expired.         *)
(***************************************************************************)
EXTENDS Naturals

CONSTANT Session

VARIABLES
    phase,       \* per session
    expired,     \* sessions whose ticket has expired
    completions  \* per session, how often a connection was reported

vars == <<phase, expired, completions>>

Phase == {"idle", "waiting", "paired", "spent"}

InRoom == {"waiting", "paired"}

(* A ticket that is past its time when it first appears is over.           *)
Init ==
    /\ expired \in SUBSET Session
    /\ phase = [s \in Session |-> IF s \in expired THEN "spent" ELSE "idle"]
    /\ completions = [s \in Session |-> 0]

(* The ways one session moves, as relations between its two phases.  An    *)
(* expired ticket opens no room and pairs no peers.  Skip is a ticket that *)
(* expires unused, or whose first peer could not even be greeted.          *)
Open(s)  == phase[s] = "idle" /\ phase'[s] = "waiting" /\ s \notin expired
Leave(s) == phase[s] = "waiting" /\ phase'[s] = "idle"
Pair(s)  == phase[s] = "waiting" /\ phase'[s] = "paired" /\ s \notin expired
End(s)   == phase[s] \in InRoom /\ phase'[s] = "spent"
Skip(s)  == phase[s] = "idle" /\ phase'[s] = "spent"
Stay(s)  == phase'[s] = phase[s]

Report(s) ==
    \/ completions'[s] = completions[s]
    \/ phase[s] = "paired" /\ End(s) /\ completions'[s] = completions[s] + 1

(* One step of the service may move several sessions: a sweep, a shutdown. *)
Next ==
    /\ phase' \in [Session -> Phase]
    /\ completions' \in [Session -> Nat]
    /\ expired \subseteq expired' /\ expired' \subseteq Session
    /\ \A s \in Session :
         /\ Open(s) \/ Leave(s) \/ Pair(s) \/ End(s) \/ Skip(s) \/ Stay(s)
         /\ Report(s)

Safe == Init /\ [][Next]_vars

(* No peers hold a room for ever.                                          *)
RoomsEnd == \A s \in Session : (phase[s] \in InRoom) ~> (phase[s] \notin InRoom)

Spec == Safe /\ RoomsEnd
=============================================================================
