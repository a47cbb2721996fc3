---------------------------- MODULE MCUploadPairs ----------------------------
(***************************************************************************)
(* UploadNode with two pairs of transfers, of which the phone uses one.    *)
(* a and b compete for the data slot through different queues, and b is    *)
(* rude; c and d write the same write lock.                                *)
(***************************************************************************)
EXTENDS MCUploadNode

CONSTANTS c, d

VARIABLE pair

Foreign == {"/.watermelon/locks/x"}
WriteLocks == {"/.watermelon/locks/w.lock"}
Locks == Foreign \cup WriteLocks
Files == Photo \cup Locks
FileOf ==
    [t \in Transfer |-> CASE t = a -> "/p" [] t = b -> "/.watermelon/locks/x"
                          [] OTHER -> "/.watermelon/locks/w.lock"]
FileSize == [t \in Transfer |-> IF t = a THEN 0 ELSE 1]
FileRelated == Same(Files)
FileRequests == All({b, c}) \cup {<<"begin", a>>, <<"begin", d>>, <<"finish", d>>}

PairInit == Init /\ pair \in {{a, b}, {c, d}}

PairNext ==
    /\ Next
    /\ \A r \in phone'.sent \ phone.sent : r[2] \in pair
    /\ \A t \in Transfer \ pair : phone'.frames[t] = phone.frames[t]
    /\ UNCHANGED pair

PairSpec == PairInit /\ [][PairNext]_<<vars, pair>>
=============================================================================
