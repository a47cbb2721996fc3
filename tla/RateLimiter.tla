---------------------------- MODULE RateLimiter ----------------------------
(***************************************************************************)
(* FixedWindowRateLimiter of server/src/rate-limiter.ts: one count per key *)
(* and window in a Map of bounded size.  The table is the Map in its       *)
(* insertion order, in which makeSpace looks at it.                        *)
(***************************************************************************)
EXTENDS Naturals, SequencesExt

CONSTANTS
    Window,     \* windowMilliseconds
    Inspect     \* how many entries makeSpace looks at: 32

ASSUME LimiterAssumption == Window \in Nat \ {0} /\ Inspect \in Nat \ {0}

Fresh(key, now) == [key |-> key, count |-> 1, resetAt |-> now + Window]

Position(table, key) == SelectInSeq(table, LAMBDA e : e.key = key)

Has(table, key) == Position(table, key) # 0

Over(entry, now) == entry.resetAt <= now

(* The entry makeSpace deletes: the first that is over among those it      *)
(* looks at, because one is room enough; 0 if none.                        *)
Removable(table, now) ==
    SelectInSeq(SubSeq(table, 1, Min({Inspect, Len(table)})), LAMBDA e : Over(e, now))

MakeSpace(table, maxKeys, now) == Len(table) < maxKeys \/ Removable(table, now) # 0

(* What consume answers, and the table it leaves.                          *)
Admits(table, key, limit, maxKeys, now) ==
    IF Has(table, key)
    THEN LET e == table[Position(table, key)] IN Over(e, now) \/ e.count < limit
    ELSE MakeSpace(table, maxKeys, now)

(* Slip: the window of a key starts again without delete, in its old place *)
(* of the Map.                                                             *)
ConsumedSlip(table, key, limit, maxKeys, now) ==
    LET i == Position(table, key)
    IN  IF ~Admits(table, key, limit, maxKeys, now) THEN table
        ELSE IF ~Has(table, key)
        THEN Append(IF Len(table) < maxKeys THEN table ELSE RemoveAt(table, Removable(table, now)),
                    Fresh(key, now))
        ELSE IF Over(table[i], now) THEN [table EXCEPT ![i] = Fresh(key, now)]
        ELSE [table EXCEPT ![i].count = @ + 1]

Consumed(table, key, limit, maxKeys, now) ==
    LET i == Position(table, key)
    IN  IF ~Admits(table, key, limit, maxKeys, now) THEN table
        ELSE IF ~Has(table, key)
        THEN Append(IF Len(table) < maxKeys THEN table ELSE RemoveAt(table, Removable(table, now)),
                    Fresh(key, now))
        ELSE IF Over(table[i], now) THEN Append(RemoveAt(table, i), Fresh(key, now))
        ELSE [table EXCEPT ![i].count = @ + 1]
=============================================================================
