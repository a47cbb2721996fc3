------------------------ MODULE UsageAggregatesProofs ------------------------
(***************************************************************************)
(* Theorems about UsageAggregates, for every retention, every cap on the   *)
(* hashes and every population of networks.                                *)
(***************************************************************************)
EXTENDS UsageAggregates, SumProofs, Integers, FiniteSetTheorems, TLAPS

Breakdown == [total : Nat, unique : Nat, capped : BOOLEAN, hashes : SUBSET Network]

(* The networks that were seen, by kind and hour, and by kind and day.     *)
HoursSeen(v) == [k \in Kind |-> [h \in Nat |-> {n \in Network : <<k, n, h>> \in v}]]

DaysSeen(v) ==
    [k \in Kind |-> [d \in Nat |->
        {n \in Network : \E x \in v : x[1] = k /\ x[2] = n /\ DayOf(x[3]) = d}]]

(* b counts the networks of seen; its hashes, if it has any, are theirs.   *)
Exact(b, seen) ==
    /\ b \in Breakdown
    /\ IsFiniteSet(seen)
    /\ b.unique = IF Cardinality(seen) < MaxHashes THEN Cardinality(seen) ELSE MaxHashes
    /\ b.capped <=> Cardinality(seen) > MaxHashes
    /\ Cardinality(seen) <= b.total
    /\ b.hashes \subseteq seen

(* The periods of one length.  A period that is kept and was never counted *)
(* saw nobody, so that it may start from nothing; only the current one has *)
(* hashes, and it has one for every network it counted.                    *)
Right(P, S, now, kept) ==
    /\ \A p \in DOMAIN P : p \in kept /\ p <= now /\ P[p] \in PeriodType
    /\ \A p \in DOMAIN P, k \in Kind :
         /\ Exact(P[p][k], S[k][p])
         /\ p = now => Cardinality(P[p][k].hashes) = P[p][k].unique
         /\ p # now => P[p][k].hashes = {}
    /\ \A p \in kept, k \in Kind : p \notin DOMAIN P => S[k][p] = {}

SameTotals(Q, P) == \A p \in DOMAIN Q, k \in Kind : Q[p][k].total = P[p][k].total

HoursOf(u, d) == {h \in DOMAIN u.hours : DayOf(h) = d}

TotalsOf(u, k) == [h \in DOMAIN u.hours |-> u.hours[h][k].total]

(* An hour whose day is kept has its day, and days add up to their hours.  *)
AddsUp(u, kept) ==
    /\ \A h \in DOMAIN u.hours : DayOf(h) \in kept => DayOf(h) \in DOMAIN u.days
    /\ \A d \in DOMAIN u.days, k \in Kind :
         u.days[d][k].total = Total(TotalsOf(u, k), HoursOf(u, d))

(* Counts that were last pruned at p, with the visits they count.          *)
Good(u, v, p) ==
    /\ u = [lifetime |-> u.lifetime, days |-> u.days, hours |-> u.hours]
    /\ u.lifetime \in [Kind -> 0 .. MaxEvents]
    /\ v \subseteq Kind \X Network \X (FirstHour .. p)
    /\ Right(u.days, DaysSeen(v), DayOf(p), KeptDays(p))
    /\ Right(u.hours, HoursSeen(v), p, KeptHours(p))
    /\ AddsUp(u, KeptDays(p))

(* A cached set is the set of hashes of a current period that has some, so *)
(* that prune, which looks at the hashes, forgets it in time.              *)
CachedIn(s, key, P, p) ==
    key \in DOMAIN s => /\ p \in DOMAIN P /\ HasHashes(P[p])
                        /\ s[key] = [k \in Kind |-> P[p][k].hashes]

Cached(s, u, p) ==
    /\ DOMAIN s \subseteq {HourKey(p), DayKey(DayOf(p))}
    /\ CachedIn(s, HourKey(p), u.hours, p)
    /\ CachedIn(s, DayKey(DayOf(p)), u.days, DayOf(p))

Inv ==
    /\ hour \in FirstHour .. LastHour /\ lastPruned \in FirstHour .. hour
    /\ Good(usage, visits, lastPruned)
    /\ Cached(sets, usage, lastPruned)
    /\ file # NoFile => \E p \in FirstHour .. hour : Good(file.usage, file.visits, p)

-----------------------------------------------------------------------------
(* Hours and days.                                                         *)

LEMMA Ranges ==
    /\ HoursPerDay \in Nat \ {0} /\ MaxHashes \in Nat \ {0} /\ MaxDays \in Nat \ {0}
    /\ RetentionDays \in Nat \ {0} /\ RetentionDays <= MaxDays
    /\ FirstHour \in Nat /\ LastHour \in Nat /\ LastHour >= FirstHour /\ MaxEvents \in Nat
BY RetentionAssumption

LEMMA Days ==
    ASSUME NEW h \in Nat
    PROVE  /\ DayOf(h) \in Nat
           /\ HoursPerDay * DayOf(h) <= h /\ h < HoursPerDay * DayOf(h) + HoursPerDay
           /\ \A g \in Nat : g <= h => DayOf(g) <= DayOf(h)
<1>1. HoursPerDay \in Nat \ {0}
  BY Ranges
<1>2. DayOf(h) \in Nat
  BY <1>1 DEF DayOf
<1>3. HoursPerDay * DayOf(h) <= h
  BY <1>1 DEF DayOf
<1>4. h < HoursPerDay * DayOf(h) + HoursPerDay
  BY <1>1 DEF DayOf
<1>5. ASSUME NEW g \in Nat, g <= h PROVE DayOf(g) <= DayOf(h)
  BY <1>1, <1>5 DEF DayOf
<1> QED BY <1>2, <1>3, <1>4, <1>5

(* The periods that are kept now were kept before, the current one is, and *)
(* an hour of a day that is kept is kept.                                  *)
LEMMA Cutoffs ==
    ASSUME NEW p \in Nat, NEW h \in Nat, p <= h
    PROVE  /\ KeptDays(h) \subseteq KeptDays(p) /\ KeptHours(h) \subseteq KeptHours(p)
           /\ KeptDays(h) \subseteq Nat /\ KeptHours(h) \subseteq Nat
           /\ DayOf(h) \in KeptDays(h) /\ h \in KeptHours(h)
           /\ \A g \in Nat : DayOf(g) \in KeptDays(h) => g \in KeptHours(h)
<1>1. HoursPerDay \in Nat \ {0} /\ RetentionDays \in Nat \ {0}
  BY Ranges
<1>2. DayOf(p) \in Nat /\ DayOf(h) \in Nat /\ DayOf(p) <= DayOf(h)
  BY Days
<1>3. KeptDays(h) \subseteq KeptDays(p) /\ KeptDays(h) \subseteq Nat /\ DayOf(h) \in KeptDays(h)
  BY <1>1, <1>2 DEF KeptDays
<1> DEFINE RH == RetentionDays * HoursPerDay
<1>4. RH \in Nat /\ RH >= 1
  BY <1>1
<1>5. KeptHours(h) \subseteq KeptHours(p) /\ KeptHours(h) \subseteq Nat /\ h \in KeptHours(h)
  <2>1. \A k \in Nat : KeptHours(k) = {g \in Nat : g + RH - 1 >= k}
    BY DEF KeptHours
  <2> HIDE DEF RH
  <2> QED BY <1>4, <2>1
<1>6. ASSUME NEW g \in Nat, DayOf(g) \in KeptDays(h)
      PROVE  g \in KeptHours(h)
  <2>1. DayOf(g) \in Nat /\ HoursPerDay * DayOf(g) <= g /\ DayOf(g) + RetentionDays - 1 >= DayOf(h)
    BY <1>6, Days DEF KeptDays
  <2>2. h < HoursPerDay * DayOf(h) + HoursPerDay
    BY Days
  <2>3. HoursPerDay * (DayOf(h) + 1) <= HoursPerDay * (DayOf(g) + RetentionDays)
    <3>1. \A a, b, c \in Nat : a <= b => c * a <= c * b
      OBVIOUS
    <3>2. DayOf(h) + 1 \in Nat /\ DayOf(g) + RetentionDays \in Nat
          /\ DayOf(h) + 1 <= DayOf(g) + RetentionDays
      BY <1>1, <1>2, <2>1
    <3> QED BY <1>1, <3>1, <3>2
  <2>4. /\ HoursPerDay * (DayOf(h) + 1) = HoursPerDay * DayOf(h) + HoursPerDay
        /\ HoursPerDay * (DayOf(g) + RetentionDays) = HoursPerDay * DayOf(g) + RH
    BY <1>1, <1>2, <2>1
  <2>5. h < g + RH
    <3>1. HoursPerDay * DayOf(h) \in Nat /\ HoursPerDay * DayOf(g) \in Nat
      BY <1>1, <1>2, <2>1
    <3> HIDE DEF RH
    <3> QED BY <1>1, <1>4, <2>1, <2>2, <2>3, <2>4, <3>1
  <2>6. g + RH - 1 >= h
    <3> HIDE DEF RH
    <3> QED BY <1>4, <2>5
  <2> QED BY <2>6 DEF KeptHours
<1> QED BY <1>3, <1>5, <1>6

-----------------------------------------------------------------------------
(* One breakdown: updateUsage.                                             *)

Blank == [total |-> 0, unique |-> 0, capped |-> FALSE, hashes |-> {}]

LEMMA BlankExact == Exact(Blank, {}) /\ Cardinality(Blank.hashes) = Blank.unique
<1>1. IsFiniteSet({}) /\ Cardinality({}) = 0
  BY FS_EmptySet
<1>2. MaxHashes \in Nat /\ MaxHashes > 0
  BY Ranges
<1>3. Blank \in Breakdown
  BY DEF Blank, Breakdown
<1> QED BY <1>1, <1>2, <1>3 DEF Blank, Exact

LEMMA CountedExact ==
    ASSUME NEW b, NEW seen, Exact(b, seen), Cardinality(b.hashes) = b.unique,
           NEW n \in Network
    PROVE  LET c == Counted(b, n, b.hashes)
           IN  /\ Exact(c, seen \cup {n}) /\ Cardinality(c.hashes) = c.unique
               /\ c.total = b.total + 1 /\ c.hashes # {}
               /\ c.hashes = Known(b.hashes, n)
<1> DEFINE H == b.hashes
           c == Counted(b, n, H)
<1>1. /\ b.total \in Nat /\ b.unique \in Nat /\ b.capped \in BOOLEAN /\ H \in SUBSET Network
      /\ b = [total |-> b.total, unique |-> b.unique, capped |-> b.capped, hashes |-> H]
      /\ IsFiniteSet(seen) /\ H \subseteq seen
  BY DEF Exact, Breakdown
<1>2. IsFiniteSet(H) /\ Cardinality(H) \in Nat /\ Cardinality(seen) \in Nat
      /\ Cardinality(H) <= Cardinality(seen)
  BY <1>1, FS_Subset, FS_CardinalityType
<1>3. Cardinality(H) = Cardinality(seen) => H = seen
  BY <1>1, <1>2, FS_Subset
<1>4. /\ IsFiniteSet(H \cup {n}) /\ IsFiniteSet(seen \cup {n})
      /\ n \notin H => Cardinality(H \cup {n}) = Cardinality(H) + 1
      /\ n \notin seen => Cardinality(seen \cup {n}) = Cardinality(seen) + 1
      /\ n \in seen => seen \cup {n} = seen
  BY <1>1, <1>2, FS_AddElement
<1>5. MaxHashes \in Nat /\ MaxHashes > 0
  BY Ranges
<1>6. /\ Cardinality(H) = b.unique
      /\ b.unique = IF Cardinality(seen) < MaxHashes THEN Cardinality(seen) ELSE MaxHashes
      /\ b.capped <=> Cardinality(seen) > MaxHashes
      /\ Cardinality(seen) <= b.total
  BY DEF Exact
<1>7. /\ c.total = b.total + 1
      /\ c.unique = IF n \notin H /\ Cardinality(H) < MaxHashes THEN b.unique + 1 ELSE b.unique
      /\ c.capped = (b.capped \/ (n \notin H /\ ~(Cardinality(H) < MaxHashes)))
      /\ c.hashes = IF n \notin H /\ Cardinality(H) < MaxHashes THEN H \cup {n} ELSE H
      /\ c = [total |-> c.total, unique |-> c.unique, capped |-> c.capped, hashes |-> c.hashes]
  BY DEF Counted
<1>8. Known(H, n) = IF Cardinality(H) < MaxHashes THEN H \cup {n} ELSE H
  BY DEF Known
<1> HIDE DEF c, H
<1>9. c.total \in Nat /\ c.unique \in Nat /\ c.capped \in BOOLEAN /\ c.hashes \in SUBSET Network
  BY <1>1, <1>7
<1>10. c \in Breakdown
  BY <1>7, <1>9 DEF Breakdown
<1>11. CASE n \in H
  <2>1. /\ c.unique = b.unique /\ c.capped = b.capped /\ c.hashes = H /\ H # {}
        /\ seen \cup {n} = seen /\ Known(H, n) = H
    BY <1>1, <1>4, <1>7, <1>8, <1>11
  <2>2. Cardinality(seen) <= c.total
    BY <1>1, <1>2, <1>6, <1>7
  <2>3. Exact(c, seen \cup {n})
    BY <1>1, <1>6, <1>10, <2>1, <2>2 DEF Exact
  <2> QED BY <1>6, <1>7, <2>1, <2>3 DEF c, H
<1>12. CASE n \notin H /\ Cardinality(H) < MaxHashes
  <2>1. H = seen /\ n \notin seen /\ Cardinality(seen) < MaxHashes
    BY <1>2, <1>3, <1>5, <1>6, <1>12
  <2>2. /\ c.unique = b.unique + 1 /\ c.capped = b.capped /\ c.hashes = H \cup {n}
        /\ Known(H, n) = H \cup {n} /\ Cardinality(H \cup {n}) = Cardinality(H) + 1
        /\ Cardinality(seen \cup {n}) = Cardinality(seen) + 1
    BY <1>1, <1>4, <1>7, <1>8, <1>12, <2>1
  <2>3. /\ c.unique = IF Cardinality(seen) + 1 < MaxHashes THEN Cardinality(seen) + 1 ELSE MaxHashes
        /\ Cardinality(seen) + 1 <= c.total
        /\ ~b.capped /\ ~(Cardinality(seen) + 1 > MaxHashes)
    BY <1>1, <1>2, <1>5, <1>6, <1>7, <2>1, <2>2
  <2>4. Exact(c, seen \cup {n})
    BY <1>4, <1>10, <2>1, <2>2, <2>3 DEF Exact
  <2>5. Cardinality(c.hashes) = c.unique /\ c.hashes # {}
    BY <1>6, <2>2
  <2> QED BY <1>7, <2>2, <2>4, <2>5 DEF c, H
<1>13. CASE n \notin H /\ ~(Cardinality(H) < MaxHashes)
  <2>1. Cardinality(H) = MaxHashes /\ H # {} /\ Cardinality(seen) >= MaxHashes
    <3>1. Cardinality({}) = 0
      BY FS_EmptySet
    <3> QED BY <1>2, <1>5, <1>6, <1>13, <3>1
  <2>2. c.unique = b.unique /\ c.capped /\ c.hashes = H /\ Known(H, n) = H
    BY <1>7, <1>8, <1>13
  <2>3. Cardinality(seen \cup {n}) > MaxHashes /\ Cardinality(seen \cup {n}) <= c.total
    <3>1. CASE n \in seen
      <4>1. H # seen /\ seen \cup {n} = seen
        BY <1>4, <1>13, <3>1
      <4>2. Cardinality(seen) > MaxHashes
        BY <1>2, <1>3, <1>5, <2>1, <4>1
      <4> QED BY <1>1, <1>2, <1>5, <1>6, <1>7, <4>1, <4>2
    <3>2. CASE n \notin seen
      <4>1. Cardinality(seen \cup {n}) = Cardinality(seen) + 1
        BY <1>4, <3>2
      <4> QED BY <1>1, <1>2, <1>5, <1>6, <1>7, <2>1, <4>1
    <3> QED BY <3>1, <3>2
  <2>4. c.unique = IF Cardinality(seen \cup {n}) < MaxHashes THEN Cardinality(seen \cup {n}) ELSE MaxHashes
    <3>1. Cardinality(seen \cup {n}) \in Nat
      BY <1>4, FS_CardinalityType
    <3> QED BY <1>5, <1>6, <2>1, <2>2, <2>3, <3>1
  <2>5. Exact(c, seen \cup {n})
    BY <1>1, <1>4, <1>10, <2>2, <2>3, <2>4 DEF Exact
  <2> QED BY <1>6, <1>7, <2>1, <2>2, <2>5 DEF c, H
<1> QED BY <1>11, <1>12, <1>13 DEF c, H
-----------------------------------------------------------------------------
(* The periods of one length: prune, and the count of one event.           *)

LEMMA PeriodParts ==
    ASSUME NEW b \in PeriodType
    PROVE  \A k \in Kind : b[k] \in Breakdown
BY DEF PeriodType, Breakdown

LEMMA PrunedRight ==
    ASSUME NEW P, NEW S, NEW now \in Nat, NEW kept \in SUBSET Nat, Right(P, S, now, kept),
           NEW later \in Nat, now <= later, NEW still, \A p \in still : p \in kept,
           NEW Q, Q = PrunePeriods(P, still, later)
    PROVE  /\ Right(Q, S, later, still)
           /\ DOMAIN Q = DOMAIN P \cap still
           /\ SameTotals(Q, P)
<1>1. DOMAIN Q = DOMAIN P \cap still
  BY DEF PrunePeriods
<1>2. ASSUME NEW p \in DOMAIN Q
      PROVE  /\ Q[p] \in PeriodType
             /\ \A k \in Kind : /\ Exact(Q[p][k], S[k][p])
                                /\ p = later => Cardinality(Q[p][k].hashes) = Q[p][k].unique
                                /\ p # later => Q[p][k].hashes = {}
                                /\ Q[p][k].total = P[p][k].total
  <2>1. /\ p \in DOMAIN P /\ p \in still /\ p \in Nat /\ p <= now /\ P[p] \in PeriodType
        /\ \A k \in Kind : /\ Exact(P[p][k], S[k][p])
                           /\ p = now => Cardinality(P[p][k].hashes) = P[p][k].unique
                           /\ P[p][k] \in Breakdown
    BY <1>1, PeriodParts DEF Right
  <2>2. CASE p = later
    <3>1. Q[p] = P[p] /\ p = now
      BY <1>1, <2>1, <2>2 DEF PrunePeriods
    <3> QED BY <2>1, <2>2, <3>1
  <2>3. CASE p # later
    <3>1. Q[p] = [k \in Kind |-> [P[p][k] EXCEPT !.hashes = {}]]
      BY <1>1, <2>1, <2>3 DEF PrunePeriods, WithoutHashes
    <3>2. ASSUME NEW k \in Kind
          PROVE  /\ Q[p][k] \in Breakdown /\ Q[p][k].hashes = {}
                 /\ Q[p][k].unique = P[p][k].unique /\ Q[p][k].total = P[p][k].total
                 /\ Q[p][k].capped = P[p][k].capped
      <4>1. P[p][k] \in Breakdown /\ Q[p][k] = [P[p][k] EXCEPT !.hashes = {}]
        BY <2>1, <3>1
      <4> QED BY <4>1 DEF Breakdown
    <3>3. \A k \in Kind : Exact(Q[p][k], S[k][p])
      BY <2>1, <3>2 DEF Exact
    <3>4. Q[p] \in PeriodType
      BY <3>1, <3>2 DEF PeriodType, Breakdown
    <3> QED BY <2>3, <3>2, <3>3, <3>4
  <2> QED BY <2>2, <2>3
<1>3. ASSUME NEW p \in DOMAIN Q
      PROVE  p \in still /\ p <= later
  <2>1. p \in still /\ p \in Nat /\ p <= now
    BY <1>1 DEF Right
  <2> QED BY <2>1
<1>4. \A p \in still, k \in Kind : p \notin DOMAIN Q => S[k][p] = {}
  BY <1>1 DEF Right
<1>5. Right(Q, S, later, still)
  BY <1>2, <1>3, <1>4 DEF Right
<1>6. SameTotals(Q, P)
  BY <1>2 DEF SameTotals
<1> QED BY <1>1, <1>5, <1>6

(* A period, or the empty one it would start from, is right for its time.  *)
LEMMA AtRight ==
    ASSUME NEW P, NEW S, NEW now \in Nat, NEW kept \in SUBSET Nat, Right(P, S, now, kept),
           now \in kept
    PROVE  /\ PeriodAt(P, now) \in PeriodType
           /\ \A k \in Kind : /\ Exact(PeriodAt(P, now)[k], S[k][now])
                              /\ Cardinality(PeriodAt(P, now)[k].hashes) = PeriodAt(P, now)[k].unique
<1>1. CASE now \in DOMAIN P
  BY <1>1 DEF Right, PeriodAt
<1>2. CASE now \notin DOMAIN P
  <2>1. PeriodAt(P, now) = [k \in Kind |-> Blank]
    BY <1>2 DEF PeriodAt, EmptyUsage, Blank
  <2>2. \A k \in Kind : S[k][now] = {}
    BY <1>2 DEF Right
  <2>3. Blank \in Breakdown
    BY BlankExact DEF Exact
  <2> QED BY <2>1, <2>2, <2>3, BlankExact DEF PeriodType, Breakdown
<1> QED BY <1>1, <1>2

(* One more network was seen in one period.                                *)
Grown(S, R, k, n, now) ==
    \A j \in Kind : \A p \in Nat :
        R[j][p] = IF j = k /\ p = now THEN S[j][p] \cup {n} ELSE S[j][p]

(* What the count of one event leaves, in the period it falls into (b      *)
(* before) and in the others.                                              *)
CountedIn(P, Q, b, k, n, now) ==
    /\ DOMAIN Q = DOMAIN P \cup {now}
    /\ \A p \in DOMAIN P : p # now => Q[p] = P[p]
    /\ \A j \in Kind : /\ Q[now][j].total = IF j = k THEN b[j].total + 1 ELSE b[j].total
                       /\ Q[now][j].hashes = IF j = k THEN Known(b[j].hashes, n)
                                             ELSE b[j].hashes
    /\ HasHashes(Q[now])

LEMMA CountedRight ==
    ASSUME NEW P, NEW S, NEW now \in Nat, NEW kept \in SUBSET Nat, Right(P, S, now, kept),
           now \in kept, NEW k \in Kind, NEW n \in Network,
           NEW R, Grown(S, R, k, n, now),
           NEW b, b = PeriodAt(P, now),
           NEW Q, Q = Put(P, now, [b EXCEPT ![k] = Counted(@, n, b[k].hashes)])
    PROVE  Right(Q, R, now, kept) /\ CountedIn(P, Q, b, k, n, now)
<1>0. \A j \in Kind : \A p \in Nat :
        R[j][p] = IF j = k /\ p = now THEN S[j][p] \cup {n} ELSE S[j][p]
  BY DEF Grown
<1>1. /\ b \in PeriodType
      /\ \A j \in Kind : /\ Exact(b[j], S[j][now]) /\ Cardinality(b[j].hashes) = b[j].unique
                         /\ b[j] \in Breakdown
  BY AtRight, PeriodParts
<1>2. /\ DOMAIN Q = DOMAIN P \cup {now}
      /\ \A p \in DOMAIN P : p # now => Q[p] = P[p]
      /\ Q[now] = [b EXCEPT ![k] = Counted(b[k], n, b[k].hashes)]
  BY DEF Put
<1>3. b \in [Kind -> Breakdown]
  BY <1>1 DEF PeriodType, Breakdown
<1>4. \A j \in Kind : Q[now][j] = IF j = k THEN Counted(b[k], n, b[k].hashes) ELSE b[j]
  BY <1>2, <1>3
<1> DEFINE c == Counted(b[k], n, b[k].hashes)
<1>5. /\ Exact(c, S[k][now] \cup {n}) /\ Cardinality(c.hashes) = c.unique
      /\ c.total = b[k].total + 1 /\ c.hashes # {} /\ c.hashes = Known(b[k].hashes, n)
  BY <1>1, CountedExact
<1> HIDE DEF c
<1>6. /\ Q[now] = [b EXCEPT ![k] = c] /\ Q[now][k] = c
      /\ \A j \in Kind : j # k => Q[now][j] = b[j]
  BY <1>2, <1>4 DEF c
<1>7. c \in Breakdown
  BY <1>5 DEF Exact
<1>8. Q[now] \in PeriodType
  BY <1>3, <1>6, <1>7 DEF PeriodType, Breakdown
<1>9. ASSUME NEW j \in Kind
      PROVE  Exact(Q[now][j], R[j][now]) /\ Cardinality(Q[now][j].hashes) = Q[now][j].unique
  <2>1. CASE j = k
    BY <1>0, <1>5, <1>6, <2>1
  <2>2. CASE j # k
    <3>1. R[j][now] = S[j][now] /\ Q[now][j] = b[j]
      BY <1>0, <1>6, <2>2
    <3> QED BY <1>1, <3>1
  <2> QED BY <2>1, <2>2
<1>10. ASSUME NEW p \in DOMAIN P, p # now
       PROVE  /\ Q[p] = P[p] /\ p \in kept /\ p <= now /\ Q[p] \in PeriodType
              /\ \A j \in Kind : Exact(Q[p][j], R[j][p]) /\ Q[p][j].hashes = {}
  <2>1. Q[p] = P[p] /\ p \in kept /\ p <= now /\ P[p] \in PeriodType
    BY <1>2, <1>10 DEF Right
  <2>2. \A j \in Kind : R[j][p] = S[j][p]
    BY <1>0, <1>10, <2>1
  <2> QED BY <1>10, <2>1, <2>2 DEF Right
<1>11. \A p \in kept, j \in Kind : p \notin DOMAIN Q => R[j][p] = {}
  BY <1>0, <1>2 DEF Right
<1>12. Right(Q, R, now, kept)
  <2>1. ASSUME NEW p \in DOMAIN Q
        PROVE  /\ p \in kept /\ p <= now /\ Q[p] \in PeriodType
               /\ \A j \in Kind : /\ Exact(Q[p][j], R[j][p])
                                  /\ p = now => Cardinality(Q[p][j].hashes) = Q[p][j].unique
                                  /\ p # now => Q[p][j].hashes = {}
    <3>1. CASE p = now
      <4>1. now <= now
        OBVIOUS
      <4> QED BY ONLY <1>8, <1>9, <3>1, <4>1, now \in kept
    <3>2. CASE p # now
      <4>1. p \in DOMAIN P
        BY <1>2, <3>2
      <4> QED BY ONLY <1>10, <3>2, <4>1
    <3> QED BY ONLY <3>1, <3>2
  <2> QED BY <1>11, <2>1 DEF Right
<1>13. HasHashes(Q[now])
  BY <1>5, <1>6 DEF HasHashes
<1>14. \A j \in Kind : /\ Q[now][j].total = IF j = k THEN b[j].total + 1 ELSE b[j].total
                       /\ Q[now][j].hashes = IF j = k THEN Known(b[j].hashes, n) ELSE b[j].hashes
  BY <1>5, <1>6
<1> QED BY <1>2, <1>12, <1>13, <1>14 DEF CountedIn
-----------------------------------------------------------------------------
(* The counts as a whole: empty, pruned, and after one event.              *)

LEMMA Periods ==
    ASSUME NEW u, NEW v, NEW p \in Nat, Good(u, v, p)
    PROVE  /\ \A h \in DOMAIN u.hours : h \in 0 .. p
           /\ \A d \in DOMAIN u.days : d \in Nat /\ d \in KeptDays(p)
           /\ \A h \in DOMAIN u.hours, k \in Kind : u.hours[h][k] \in Breakdown
           /\ \A d \in DOMAIN u.days, k \in Kind : u.days[d][k] \in Breakdown
           /\ \A d : IsFiniteSet(HoursOf(u, d))
<1>1. KeptHours(p) \subseteq Nat /\ KeptDays(p) \subseteq Nat
  BY Cutoffs
<1>2. Right(u.hours, HoursSeen(v), p, KeptHours(p))
      /\ Right(u.days, DaysSeen(v), DayOf(p), KeptDays(p))
  BY DEF Good
<1>3. \A h \in DOMAIN u.hours : h \in 0 .. p
  <2>1. ASSUME NEW h \in DOMAIN u.hours PROVE h \in Nat /\ h <= p
    BY <1>1, <1>2 DEF Right
  <2> QED BY <2>1
<1>4. \A d \in DOMAIN u.days : d \in Nat /\ d \in KeptDays(p)
  BY <1>1, <1>2 DEF Right
<1>5. /\ \A h \in DOMAIN u.hours, k \in Kind : u.hours[h][k] \in Breakdown
      /\ \A d \in DOMAIN u.days, k \in Kind : u.days[d][k] \in Breakdown
  BY <1>2, PeriodParts DEF Right
<1>6. ASSUME NEW d PROVE IsFiniteSet(HoursOf(u, d))
  <2>1. IsFiniteSet(0 .. p)
    BY FS_Interval
  <2>2. HoursOf(u, d) \subseteq 0 .. p
    BY <1>3 DEF HoursOf
  <2> QED BY <2>1, <2>2, FS_Subset
<1> QED BY <1>3, <1>4, <1>5, <1>6

LEMMA EmptyGood ==
    ASSUME NEW p \in Nat
    PROVE  Good(EmptyState, {}, p)
<1>1. DOMAIN EmptyState.days = {} /\ DOMAIN EmptyState.hours = {}
  BY DEF EmptyState
<1>2. /\ EmptyState = [lifetime |-> EmptyState.lifetime, days |-> EmptyState.days,
                       hours |-> EmptyState.hours]
      /\ EmptyState.lifetime \in [Kind -> 0 .. MaxEvents]
  <2>1. 0 \in 0 .. MaxEvents
    BY Ranges
  <2>2. EmptyState.lifetime = [k \in Kind |-> 0]
    BY DEF EmptyState
  <2> QED BY <2>1, <2>2 DEF EmptyState
<1>3. KeptHours(p) \subseteq Nat /\ KeptDays(p) \subseteq Nat
  BY Cutoffs
<1>4. /\ \A k \in Kind, h \in Nat : HoursSeen({})[k][h] = {}
      /\ \A k \in Kind, d \in Nat : DaysSeen({})[k][d] = {}
  BY DEF HoursSeen, DaysSeen
<1>5. Right(EmptyState.days, DaysSeen({}), DayOf(p), KeptDays(p))
  BY <1>1, <1>3, <1>4 DEF Right
<1>6. Right(EmptyState.hours, HoursSeen({}), p, KeptHours(p))
  BY <1>1, <1>3, <1>4 DEF Right
<1>7. AddsUp(EmptyState, KeptDays(p))
  BY <1>1 DEF AddsUp
<1> QED BY <1>2, <1>5, <1>6, <1>7 DEF Good

LEMMA PrunedGood ==
    ASSUME NEW u, NEW v, NEW p \in Nat, Good(u, v, p), NEW h \in Nat, p <= h, FirstHour <= p
    PROVE  Good(Prune(u, h), v, h) /\ Prune(u, h).lifetime = u.lifetime
<1> DEFINE days == PrunePeriods(u.days, KeptDays(h), DayOf(h))
           hours == PrunePeriods(u.hours, KeptHours(h), h)
           w == Prune(u, h)
<1>1. u = [lifetime |-> u.lifetime, days |-> u.days, hours |-> u.hours]
  BY DEF Good
<1>2. w = [lifetime |-> u.lifetime, days |-> days, hours |-> hours]
  <2>1. w = [u EXCEPT !.days = days, !.hours = hours]
    BY DEF Prune
  <2> HIDE DEF days, hours, w
  <2> QED BY <1>1, <2>1
<1>3. DayOf(p) \in Nat /\ DayOf(h) \in Nat /\ DayOf(p) <= DayOf(h)
  BY Days
<1>4. /\ KeptDays(h) \in SUBSET KeptDays(p) /\ KeptHours(h) \in SUBSET KeptHours(p)
      /\ KeptDays(p) \in SUBSET Nat /\ KeptHours(p) \in SUBSET Nat
  BY Cutoffs
<1>5. /\ Right(days, DaysSeen(v), DayOf(h), KeptDays(h))
      /\ DOMAIN days = DOMAIN u.days \cap KeptDays(h)
      /\ \A d \in DOMAIN days, k \in Kind : days[d][k].total = u.days[d][k].total
  <2> DEFINE P == u.days
             S == DaysSeen(v)
             now == DayOf(p)
             later == DayOf(h)
             kept == KeptDays(p)
             still == KeptDays(h)
  <2>1. Right(P, S, now, kept)
    BY DEF Good
  <2>2. now \in Nat /\ later \in Nat /\ now <= later /\ kept \in SUBSET Nat /\ still \in SUBSET kept
    BY <1>3, <1>4
  <2>3. days = PrunePeriods(P, still, later)
    OBVIOUS
  <2> HIDE DEF P, S, now, later, kept, still, days
  <2>4. Right(days, S, later, still)
    BY <2>1, <2>2, <2>3, PrunedRight, Zenon
  <2>5. DOMAIN days = DOMAIN P \cap still
    BY <2>3 DEF PrunePeriods
  <2>6. SameTotals(days, P)
    BY <2>1, <2>2, <2>3, PrunedRight, Zenon
  <2> QED BY <2>4, <2>5, <2>6 DEF P, S, later, still, SameTotals
<1>6. /\ Right(hours, HoursSeen(v), h, KeptHours(h))
      /\ DOMAIN hours = DOMAIN u.hours \cap KeptHours(h)
      /\ \A g \in DOMAIN hours, k \in Kind : hours[g][k].total = u.hours[g][k].total
  <2> DEFINE P == u.hours
             S == HoursSeen(v)
             kept == KeptHours(p)
             still == KeptHours(h)
  <2>1. Right(P, S, p, kept)
    BY DEF Good
  <2>2. kept \in SUBSET Nat /\ still \in SUBSET kept
    BY <1>4
  <2>3. hours = PrunePeriods(P, still, h)
    OBVIOUS
  <2> HIDE DEF P, S, kept, still, hours
  <2>4. Right(hours, S, h, still)
    BY <2>1, <2>2, <2>3, PrunedRight, Zenon
  <2>5. DOMAIN hours = DOMAIN P \cap still
    BY <2>3 DEF PrunePeriods
  <2>6. SameTotals(hours, P)
    BY <2>1, <2>2, <2>3, PrunedRight, Zenon
  <2> QED BY <2>4, <2>5, <2>6 DEF P, S, still, SameTotals
<1> HIDE DEF days, hours, w
<1>7. AddsUp(w, KeptDays(h))
  <2>1. AddsUp(u, KeptDays(p))
    BY DEF Good
  <2>2. \A g \in DOMAIN u.hours : g \in Nat
    BY Periods
  <2>3. \A g \in DOMAIN u.hours : DayOf(g) \in KeptDays(h) => g \in KeptHours(h)
    BY <2>2, Cutoffs
  <2>4. \A g \in DOMAIN w.hours : DayOf(g) \in KeptDays(h) => DayOf(g) \in DOMAIN w.days
    BY <1>2, <1>4, <1>5, <1>6, <2>1 DEF AddsUp
  <2>5. ASSUME NEW d \in DOMAIN w.days, NEW k \in Kind
        PROVE  w.days[d][k].total = Total(TotalsOf(w, k), HoursOf(w, d))
    <3>1. d \in DOMAIN u.days /\ d \in KeptDays(h) /\ w.days[d][k].total = u.days[d][k].total
      BY <1>2, <1>5
    <3>2. u.days[d][k].total = Total(TotalsOf(u, k), HoursOf(u, d))
      BY <2>1, <3>1 DEF AddsUp
    <3>3. HoursOf(w, d) = HoursOf(u, d)
      BY <1>2, <1>6, <2>3, <3>1 DEF HoursOf
    <3>4. \A g \in HoursOf(u, d) : TotalsOf(w, k)[g] = TotalsOf(u, k)[g]
      <4>1. ASSUME NEW g \in HoursOf(u, d)
            PROVE  TotalsOf(w, k)[g] = TotalsOf(u, k)[g]
        <5>1. g \in DOMAIN u.hours /\ g \in KeptHours(h) /\ g \in DOMAIN w.hours
          BY <1>2, <1>6, <2>3, <3>1, <3>3 DEF HoursOf
        <5>2. w.hours[g][k].total = u.hours[g][k].total
          BY <1>2, <1>6, <5>1
        <5> QED BY <5>1, <5>2 DEF TotalsOf
      <4> QED BY <4>1
    <3>5. IsFiniteSet(HoursOf(u, d))
      BY Periods
    <3>6. Total(TotalsOf(w, k), HoursOf(u, d)) = Total(TotalsOf(u, k), HoursOf(u, d))
      BY <3>4, <3>5, TotalSame
    <3> QED BY <3>1, <3>2, <3>3, <3>6
  <2> QED BY <2>4, <2>5 DEF AddsUp
<1>8. v \subseteq Kind \X Network \X (FirstHour .. h)
  <2>1. FirstHour .. p \subseteq FirstHour .. h
    BY Ranges
  <2> QED BY <2>1 DEF Good
<1>9. u.lifetime \in [Kind -> 0 .. MaxEvents]
  BY DEF Good
<1>10. Good(w, v, h)
  <2>1. w.lifetime = u.lifetime /\ w.days = days /\ w.hours = hours
        /\ w = [lifetime |-> w.lifetime, days |-> w.days, hours |-> w.hours]
    BY <1>2
  <2> QED BY <1>5, <1>6, <1>7, <1>8, <1>9, <2>1 DEF Good
<1> QED BY <1>2, <1>10 DEF w

LEMMA Keys ==
    ASSUME NEW a, NEW b
    PROVE  /\ HourKey(a) = HourKey(b) => a = b
           /\ DayKey(a) = DayKey(b) => a = b
           /\ HourKey(a) # DayKey(b)
BY DEF HourKey, DayKey

LEMMA PrunedCached ==
    ASSUME NEW s, NEW u, NEW v, NEW p \in Nat, Good(u, v, p), Cached(s, u, p),
           NEW h \in Nat, p <= h
    PROVE  Cached(PruneSets(s, u, h), Prune(u, h), h)
<1> DEFINE lostDays == Forgotten(u.days, KeptDays(h), DayOf(h))
           lostHours == Forgotten(u.hours, KeptHours(h), h)
           gone == {DayKey(d) : d \in lostDays} \cup {HourKey(g) : g \in lostHours}
           r == PruneSets(s, u, h)
           w == Prune(u, h)
<1>1. DOMAIN r = DOMAIN s \ gone /\ \A key \in DOMAIN r : r[key] = s[key]
  BY DEF PruneSets, Keep
<1>2. u = [lifetime |-> u.lifetime, days |-> u.days, hours |-> u.hours]
  BY DEF Good
<1>3. /\ w.days = PrunePeriods(u.days, KeptDays(h), DayOf(h))
      /\ w.hours = PrunePeriods(u.hours, KeptHours(h), h)
  BY <1>2 DEF Prune
<1>4. DayOf(h) \in KeptDays(h) /\ h \in KeptHours(h)
  BY Cutoffs
<1>5. /\ DOMAIN s \subseteq {HourKey(p), DayKey(DayOf(p))}
      /\ CachedIn(s, HourKey(p), u.hours, p)
      /\ CachedIn(s, DayKey(DayOf(p)), u.days, DayOf(p))
  BY DEF Cached
<1>6. HourKey(p) \in DOMAIN r => p = h
  <2>1. ASSUME HourKey(p) \in DOMAIN s, p # h PROVE p \in lostHours
    BY <1>5, <2>1 DEF CachedIn, Forgotten
  <2> QED BY <1>1, <2>1
<1>7. DayKey(DayOf(p)) \in DOMAIN r => DayOf(p) = DayOf(h)
  <2>1. ASSUME DayKey(DayOf(p)) \in DOMAIN s, DayOf(p) # DayOf(h) PROVE DayOf(p) \in lostDays
    BY <1>5, <2>1 DEF CachedIn, Forgotten
  <2> QED BY <1>1, <2>1
<1> HIDE DEF gone, lostDays, lostHours, r, w
<1>8. DOMAIN r \subseteq {HourKey(h), DayKey(DayOf(h))}
  <2>1. ASSUME NEW key \in DOMAIN r PROVE key \in {HourKey(h), DayKey(DayOf(h))}
    BY <1>1, <1>5, <1>6, <1>7
  <2> QED BY <2>1
<1>9. CachedIn(r, HourKey(h), w.hours, h)
  <2> SUFFICES ASSUME HourKey(h) \in DOMAIN r
               PROVE  /\ h \in DOMAIN w.hours /\ HasHashes(w.hours[h])
                      /\ r[HourKey(h)] = [k \in Kind |-> w.hours[h][k].hashes]
    BY DEF CachedIn
  <2>1. p = h /\ HourKey(h) \in DOMAIN s
    BY <1>1, <1>5, <1>6, Keys
  <2>2. h \in DOMAIN u.hours /\ HasHashes(u.hours[h])
        /\ s[HourKey(h)] = [k \in Kind |-> u.hours[h][k].hashes]
    BY <1>5, <2>1 DEF CachedIn
  <2>3. h \in DOMAIN w.hours /\ w.hours[h] = u.hours[h]
    BY <1>3, <1>4, <2>2 DEF PrunePeriods
  <2> QED BY <1>1, <2>2, <2>3
<1>10. CachedIn(r, DayKey(DayOf(h)), w.days, DayOf(h))
  <2> SUFFICES ASSUME DayKey(DayOf(h)) \in DOMAIN r
               PROVE  /\ DayOf(h) \in DOMAIN w.days /\ HasHashes(w.days[DayOf(h)])
                      /\ r[DayKey(DayOf(h))] = [k \in Kind |-> w.days[DayOf(h)][k].hashes]
    BY DEF CachedIn
  <2>1. DayOf(p) = DayOf(h) /\ DayKey(DayOf(h)) \in DOMAIN s
    BY <1>1, <1>5, <1>7, Keys
  <2>2. DayOf(h) \in DOMAIN u.days /\ HasHashes(u.days[DayOf(h)])
        /\ s[DayKey(DayOf(h))] = [k \in Kind |-> u.days[DayOf(h)][k].hashes]
    BY <1>5, <2>1 DEF CachedIn
  <2>3. DayOf(h) \in DOMAIN w.days /\ w.days[DayOf(h)] = u.days[DayOf(h)]
    BY <1>3, <1>4, <2>2 DEF PrunePeriods
  <2> QED BY <1>1, <2>2, <2>3
<1>11. Cached(r, w, h)
  BY <1>8, <1>9, <1>10 DEF Cached
<1> QED BY <1>11 DEF r, w
(* The sets that record uses are the hashes of the current periods.        *)
LEMMA SetsUsed ==
    ASSUME NEW s, NEW key, NEW P, NEW p, CachedIn(s, key, P, p)
    PROVE  NetworkSet(s, key, PeriodAt(P, p)) = [k \in Kind |-> PeriodAt(P, p)[k].hashes]
BY DEF CachedIn, NetworkSet, PeriodAt

LEMMA SeenMore ==
    ASSUME NEW v, NEW k \in Kind, NEW n \in Network, NEW h \in Nat,
           NEW w, w = v \cup {<<k, n, h>>}
    PROVE  /\ Grown(HoursSeen(v), HoursSeen(w), k, n, h)
           /\ Grown(DaysSeen(v), DaysSeen(w), k, n, DayOf(h))
<1>1. ASSUME NEW j \in Kind, NEW g \in Nat
      PROVE  HoursSeen(w)[j][g] = IF j = k /\ g = h THEN HoursSeen(v)[j][g] \cup {n}
                                  ELSE HoursSeen(v)[j][g]
  <2>1. \A m : <<j, m, g>> \in w <=> <<j, m, g>> \in v \/ (j = k /\ m = n /\ g = h)
    OBVIOUS
  <2>2. \A x : HoursSeen(x)[j][g] = {m \in Network : <<j, m, g>> \in x}
    BY DEF HoursSeen
  <2> QED BY <2>1, <2>2
<1>2. ASSUME NEW j \in Kind, NEW d \in Nat
      PROVE  DaysSeen(w)[j][d] = IF j = k /\ d = DayOf(h) THEN DaysSeen(v)[j][d] \cup {n}
                                 ELSE DaysSeen(v)[j][d]
  <2> DEFINE Hit(x, m) == x[1] = j /\ x[2] = m /\ DayOf(x[3]) = d
             New == <<k, n, h>>
  <2>1. \A x : DaysSeen(x)[j][d] = {m \in Network : \E y \in x : Hit(y, m)}
    BY DEF DaysSeen
  <2>2. \A m : Hit(New, m) <=> k = j /\ n = m /\ DayOf(h) = d
    OBVIOUS
  <2> HIDE DEF Hit, New
  <2>3. w = v \cup {New}
    BY DEF New
  <2>4. \A m : (\E y \in w : Hit(y, m)) <=> (\E y \in v : Hit(y, m)) \/ Hit(New, m)
    BY <2>3
  <2>5. \A m : (\E y \in w : Hit(y, m)) <=>
               (\E y \in v : Hit(y, m)) \/ (k = j /\ n = m /\ DayOf(h) = d)
    BY <2>2, <2>4
  <2>6. {m \in Network : \E y \in w : Hit(y, m)}
          = IF j = k /\ d = DayOf(h) THEN {m \in Network : \E y \in v : Hit(y, m)} \cup {n}
            ELSE {m \in Network : \E y \in v : Hit(y, m)}
    BY <2>5
  <2> QED BY <2>1, <2>6
<1> QED BY <1>1, <1>2 DEF Grown

(* One more in the hour and one more in the day: they still add up.        *)
LEMMA CountedAddsUp ==
    ASSUME NEW u, NEW v, NEW h \in Nat, Good(u, v, h), NEW k \in Kind, NEW w,
           NEW n, CountedIn(u.hours, w.hours, PeriodAt(u.hours, h), k, n, h),
           CountedIn(u.days, w.days, PeriodAt(u.days, DayOf(h)), k, n, DayOf(h))
    PROVE  AddsUp(w, KeptDays(h))
<1> DEFINE day == DayOf(h)
<1>0. /\ DOMAIN w.hours = DOMAIN u.hours \cup {h}
      /\ DOMAIN w.days = DOMAIN u.days \cup {day}
      /\ \A g \in DOMAIN u.hours : g # h => w.hours[g] = u.hours[g]
      /\ \A d \in DOMAIN u.days : d # day => w.days[d] = u.days[d]
      /\ \A j \in Kind : w.hours[h][j].total = IF j = k THEN PeriodAt(u.hours, h)[j].total + 1
                                               ELSE PeriodAt(u.hours, h)[j].total
      /\ \A j \in Kind : w.days[day][j].total = IF j = k THEN PeriodAt(u.days, day)[j].total + 1
                                                ELSE PeriodAt(u.days, day)[j].total
  BY DEF CountedIn
<1>1. AddsUp(u, KeptDays(h)) /\ day \in KeptDays(h)
  BY Cutoffs DEF Good
<1>2. /\ \A g \in DOMAIN u.hours : g \in 0 .. h
      /\ \A g \in DOMAIN u.hours, j \in Kind : u.hours[g][j] \in Breakdown
      /\ \A d \in DOMAIN u.days, j \in Kind : u.days[d][j] \in Breakdown
      /\ \A d : IsFiniteSet(HoursOf(u, d))
  BY Periods
<1> HIDE DEF day
<1>3. \A g \in DOMAIN w.hours : DayOf(g) \in KeptDays(h) => DayOf(g) \in DOMAIN w.days
  BY <1>0, <1>1 DEF AddsUp, day
<1>4. ASSUME NEW d \in DOMAIN w.days, NEW j \in Kind
      PROVE  w.days[d][j].total = Total(TotalsOf(w, j), HoursOf(w, d))
  <2> DEFINE f == TotalsOf(u, j)
             g == TotalsOf(w, j)
             Old == HoursOf(u, d)
             New == HoursOf(w, d)
             one == IF j = k THEN 1 ELSE 0
  <2>1. /\ \A x \in Old : f[x] \in Nat /\ x \in DOMAIN u.hours /\ f[x] = u.hours[x][j].total
        /\ IsFiniteSet(Old) /\ one \in Nat
    BY <1>2 DEF HoursOf, TotalsOf, Breakdown
  <2>2. /\ New = IF d = day THEN Old \cup {h} ELSE Old
        /\ d # day => h \notin Old
    BY <1>0 DEF HoursOf, day
  <2>20. PeriodAt(u.hours, h)[j].total \in Nat /\ PeriodAt(u.days, day)[j].total \in Nat
    BY <1>2 DEF PeriodAt, EmptyUsage, Breakdown
  <2>3. /\ g[h] = PeriodAt(u.hours, h)[j].total + one
        /\ \A x \in Old : x # h => g[x] = f[x]
    BY <1>0, <2>1, <2>20 DEF TotalsOf
  <2> HIDE DEF f, g, Old, New, one
  <2>4. CASE d # day
    <3>1. \A x \in Old : g[x] = f[x]
      BY <2>2, <2>3, <2>4
    <3>2. New = Old /\ Total(g, Old) = Total(f, Old)
      BY <2>1, <2>2, <2>4, <3>1, TotalSame
    <3>3. d \in DOMAIN u.days /\ w.days[d] = u.days[d]
      BY <1>0, <2>4
    <3>4. u.days[d][j].total = Total(f, Old)
      BY <1>1, <3>3 DEF AddsUp, f, Old
    <3> QED BY <3>2, <3>3, <3>4 DEF g, New
  <2>5. CASE d = day
    <3> DEFINE r == Old \ {h}
    <3>1. IsFiniteSet(New) /\ h \in New /\ New \ {h} = r /\ IsFiniteSet(r) /\ r \subseteq Old
      BY <2>1, <2>2, <2>5, FS_AddElement, FS_Subset
    <3>2. /\ PeriodAt(u.hours, h)[j].total \in Nat
          /\ h \in DOMAIN u.hours => PeriodAt(u.hours, h)[j].total = u.hours[h][j].total
          /\ h \notin DOMAIN u.hours => PeriodAt(u.hours, h)[j].total = 0
      BY <2>20 DEF PeriodAt, EmptyUsage
    <3>3. /\ \A x \in r : f[x] = g[x] /\ f[x] \in Int /\ g[x] \in Int
          /\ g[h] \in Int
      BY <2>1, <2>3, <3>2
    <3>4. \A x \in New : g[x] \in Int
      <4>1. \A x \in New : x = h \/ x \in r
        BY <2>2, <2>5
      <4> QED BY <3>3, <4>1
    <3> HIDE DEF r
    <3>5. Total(g, New) = g[h] + Total(g, r)
      <4>1. Total(g, New) = g[h] + Total(g, New \ {h})
        <5>1. IsFiniteSet(New) /\ h \in New
          BY <3>1
        <5> QED BY <3>4, <5>1, TotalAt, Zenon
      <4> QED BY <3>1, <4>1
    <3>6. Total(g, r) = Total(f, r) /\ Total(f, r) \in Int
      BY <3>1, <3>3, TotalSame, TotalType
    <3>7. Total(f, Old) = PeriodAt(u.hours, h)[j].total + Total(f, r)
      <4>1. CASE h \in Old
        <5>1. Total(f, Old) = f[h] + Total(f, r)
          <6>1. \A x \in Old : f[x] \in Int
            BY <2>1
          <6>2. Total(f, Old) = f[h] + Total(f, Old \ {h})
            BY <2>1, <4>1, <6>1, TotalAt
          <6> QED BY <6>2 DEF r
        <5> QED BY <2>1, <3>2, <4>1, <5>1
      <4>2. CASE h \notin Old
        <5>1. h \notin DOMAIN u.hours /\ r = Old
          BY <2>5, <4>2 DEF Old, HoursOf, day, r
        <5> QED BY <3>2, <3>6, <5>1
      <4> QED BY <4>1, <4>2
    <3>8. Total(f, Old) \in Int /\ Total(g, New) = Total(f, Old) + one
      BY <2>1, <2>3, <3>2, <3>5, <3>6, <3>7
    <3>9. PeriodAt(u.days, day)[j].total = Total(f, Old)
      <4>1. CASE day \in DOMAIN u.days
        BY <1>1, <2>5, <4>1 DEF PeriodAt, AddsUp, f, Old
      <4>2. CASE day \notin DOMAIN u.days
        <5>1. Old = {}
          BY <1>1, <2>5, <4>2 DEF AddsUp, Old, HoursOf
        <5>2. Total(f, Old) = 0
          BY <2>1, <5>1, TotalZero
        <5>3. PeriodAt(u.days, day)[j].total = 0
          BY <4>2 DEF PeriodAt, EmptyUsage
        <5> QED BY <5>2, <5>3
      <4> QED BY <4>1, <4>2
    <3>10. w.days[d][j].total = PeriodAt(u.days, day)[j].total + one
      BY <1>0, <2>5, <2>20 DEF one
    <3> QED BY <3>8, <3>9, <3>10 DEF g, New
  <2> QED BY <2>4, <2>5
<1> QED BY <1>3, <1>4 DEF AddsUp

(* What record does, once it has pruned.                                   *)
Recorded(u, s, h, k, n, w, r) ==
    LET daily  == PeriodAt(u.days, DayOf(h))
        hourly == PeriodAt(u.hours, h)
        ofDay  == NetworkSet(s, DayKey(DayOf(h)), daily)
        ofHour == NetworkSet(s, HourKey(h), hourly)
    IN  /\ u.lifetime[k] < MaxEvents
        /\ w = [lifetime |-> [u.lifetime EXCEPT ![k] = @ + 1],
                days  |-> Put(u.days, DayOf(h), [daily EXCEPT ![k] = Counted(@, n, ofDay[k])]),
                hours |-> Put(u.hours, h, [hourly EXCEPT ![k] = Counted(@, n, ofHour[k])])]
        /\ r = Put(Put(s, DayKey(DayOf(h)), [ofDay EXCEPT ![k] = Known(@, n)]),
                   HourKey(h), [ofHour EXCEPT ![k] = Known(@, n)])

LEMMA RecordedGood ==
    ASSUME NEW u, NEW v, NEW h \in Nat, h >= FirstHour, Good(u, v, h),
           NEW s, Cached(s, u, h), NEW k \in Kind, NEW n \in Network,
           NEW w, NEW r, Recorded(u, s, h, k, n, w, r)
    PROVE  Good(w, v \cup {<<k, n, h>>}, h) /\ Cached(r, w, h)
<1> DEFINE daily  == PeriodAt(u.days, DayOf(h))
           hourly == PeriodAt(u.hours, h)
           ofDay  == NetworkSet(s, DayKey(DayOf(h)), daily)
           ofHour == NetworkSet(s, HourKey(h), hourly)
<1>0. /\ u.lifetime[k] < MaxEvents
      /\ w = [lifetime |-> [u.lifetime EXCEPT ![k] = @ + 1],
              days  |-> Put(u.days, DayOf(h), [daily EXCEPT ![k] = Counted(@, n, ofDay[k])]),
              hours |-> Put(u.hours, h, [hourly EXCEPT ![k] = Counted(@, n, ofHour[k])])]
      /\ r = Put(Put(s, DayKey(DayOf(h)), [ofDay EXCEPT ![k] = Known(@, n)]),
                 HourKey(h), [ofHour EXCEPT ![k] = Known(@, n)])
      /\ daily = PeriodAt(u.days, DayOf(h)) /\ hourly = PeriodAt(u.hours, h)
      /\ ofDay = NetworkSet(s, DayKey(DayOf(h)), daily)
      /\ ofHour = NetworkSet(s, HourKey(h), hourly)
  BY DEF Recorded
<1> HIDE DEF daily, hourly, ofDay, ofHour
<1> DEFINE d == DayOf(h)
           x == v \cup {<<k, n, h>>}
<1>1. d \in Nat
  BY Days
<1>2. /\ d \in KeptDays(h) /\ KeptDays(h) \in SUBSET Nat
      /\ h \in KeptHours(h) /\ KeptHours(h) \in SUBSET Nat
  BY Cutoffs
<1>3. /\ Right(u.days, DaysSeen(v), d, KeptDays(h))
      /\ Right(u.hours, HoursSeen(v), h, KeptHours(h))
      /\ v \subseteq Kind \X Network \X (FirstHour .. h)
      /\ u.lifetime \in [Kind -> 0 .. MaxEvents]
  BY DEF Good
<1>4. /\ CachedIn(s, HourKey(h), u.hours, h) /\ CachedIn(s, DayKey(d), u.days, d)
      /\ DOMAIN s \subseteq {HourKey(h), DayKey(d)}
  BY DEF Cached
<1>5. Grown(HoursSeen(v), HoursSeen(x), k, n, h) /\ Grown(DaysSeen(v), DaysSeen(x), k, n, d)
  BY SeenMore
<1>6. /\ ofDay = [j \in Kind |-> daily[j].hashes]
      /\ ofHour = [j \in Kind |-> hourly[j].hashes]
  BY <1>0, <1>4, SetsUsed
<1>7. /\ w.days = Put(u.days, d, [daily EXCEPT ![k] = Counted(@, n, daily[k].hashes)])
      /\ w.hours = Put(u.hours, h, [hourly EXCEPT ![k] = Counted(@, n, hourly[k].hashes)])
      /\ w = [lifetime |-> w.lifetime, days |-> w.days, hours |-> w.hours]
      /\ w.lifetime = [u.lifetime EXCEPT ![k] = @ + 1]
  BY <1>0, <1>6
<1> HIDE DEF d, x
<1>8. Right(w.hours, HoursSeen(x), h, KeptHours(h)) /\ CountedIn(u.hours, w.hours, hourly, k, n, h)
  <2>1. hourly = PeriodAt(u.hours, h) /\ h \in Nat
    BY <1>0
  <2>2. w.hours = Put(u.hours, h, [hourly EXCEPT ![k] = Counted(@, n, hourly[k].hashes)])
    BY <1>7
  <2> QED BY ONLY <1>2, <1>3, <1>5, <2>1, <2>2, k \in Kind, n \in Network, CountedRight, Zenon
<1>9. Right(w.days, DaysSeen(x), d, KeptDays(h)) /\ CountedIn(u.days, w.days, daily, k, n, d)
  <2>1. daily = PeriodAt(u.days, d)
    BY <1>0 DEF d
  <2>2. w.days = Put(u.days, d, [daily EXCEPT ![k] = Counted(@, n, daily[k].hashes)])
    BY <1>7
  <2> QED BY ONLY <1>1, <1>2, <1>3, <1>5, <2>1, <2>2, k \in Kind, n \in Network, CountedRight, Zenon
<1>10. AddsUp(w, KeptDays(h))
  BY <1>0, <1>8, <1>9, CountedAddsUp DEF d
<1>11. w.lifetime \in [Kind -> 0 .. MaxEvents]
  <2>1. u.lifetime[k] + 1 \in 0 .. MaxEvents
    BY <1>0, <1>3, Ranges
  <2> QED BY <1>3, <1>7, <2>1
<1>12. x \subseteq Kind \X Network \X (FirstHour .. h)
  <2>1. <<k, n, h>> \in Kind \X Network \X (FirstHour .. h)
    BY Ranges
  <2> QED BY <1>3, <2>1 DEF x
<1>13. Good(w, x, h)
  BY <1>7, <1>8, <1>9, <1>10, <1>11, <1>12 DEF Good, d
<1>14. Cached(r, w, h)
  <2> DEFINE D == [ofDay EXCEPT ![k] = Known(@, n)]
             H == [ofHour EXCEPT ![k] = Known(@, n)]
  <2>1. D = [j \in Kind |-> w.days[d][j].hashes]
    <3>1. D = [j \in Kind |-> IF j = k THEN Known(daily[j].hashes, n) ELSE daily[j].hashes]
      BY <1>6
    <3>2. \A j \in Kind : w.days[d][j].hashes = IF j = k THEN Known(daily[j].hashes, n)
                                               ELSE daily[j].hashes
      BY <1>9 DEF CountedIn
    <3> QED BY <3>1, <3>2
  <2>2. H = [j \in Kind |-> w.hours[h][j].hashes]
    <3>1. H = [j \in Kind |-> IF j = k THEN Known(hourly[j].hashes, n) ELSE hourly[j].hashes]
      BY <1>6
    <3>2. \A j \in Kind : w.hours[h][j].hashes = IF j = k THEN Known(hourly[j].hashes, n)
                                                ELSE hourly[j].hashes
      BY <1>8 DEF CountedIn
    <3> QED BY <3>1, <3>2
  <2>3. r = Put(Put(s, DayKey(d), D), HourKey(h), H)
    BY <1>0 DEF d
  <2> HIDE DEF D, H
  <2>4. HourKey(h) # DayKey(d)
    BY Keys
  <2>5. /\ DOMAIN r = DOMAIN s \cup {DayKey(d), HourKey(h)}
        /\ r[DayKey(d)] = D /\ r[HourKey(h)] = H
    BY <2>3, <2>4 DEF Put
  <2>6. CachedIn(r, HourKey(h), w.hours, h)
    BY <1>8, <2>2, <2>5 DEF CachedIn, CountedIn
  <2>7. CachedIn(r, DayKey(d), w.days, d)
    BY <1>9, <2>1, <2>5 DEF CachedIn, CountedIn
  <2> QED BY <1>4, <2>5, <2>6, <2>7 DEF Cached, d
<1> QED BY <1>13, <1>14 DEF x
(* A snapshot within the limits of load: as many hours and days as are     *)
(* kept, and no more hashes than networks, nor networks than events.       *)
LEMMA IntervalBound ==
    ASSUME NEW S, NEW a \in Int, NEW b \in Int, a <= b, \A x \in S : x \in Int /\ a <= x /\ x <= b
    PROVE  IsFiniteSet(S) /\ Cardinality(S) <= b - a + 1
<1>1. S \subseteq a .. b
  OBVIOUS
<1>2. IsFiniteSet(a .. b) /\ Cardinality(a .. b) = b - a + 1
  BY FS_Interval
<1> QED BY <1>1, <1>2, FS_Subset

LEMMA GoodValid ==
    ASSUME NEW u, NEW v, NEW p \in Nat, Good(u, v, p)
    PROVE  Valid(u)
<1>1. /\ HoursPerDay \in Nat \ {0} /\ RetentionDays \in Nat \ {0} /\ MaxDays \in Nat
      /\ RetentionDays <= MaxDays /\ MaxHashes \in Nat
  BY Ranges
<1>2. DayOf(p) \in Nat
  BY Days
<1>3. /\ Right(u.days, DaysSeen(v), DayOf(p), KeptDays(p))
      /\ Right(u.hours, HoursSeen(v), p, KeptHours(p))
  BY DEF Good
<1>4. Cardinality(DOMAIN u.days) <= MaxDays
  <2> DEFINE low == DayOf(p) - RetentionDays + 1
  <2>1. \A d \in DOMAIN u.days : d \in Int /\ low <= d /\ d <= DayOf(p)
    <3>1. ASSUME NEW d \in DOMAIN u.days
          PROVE  d \in Nat /\ d + RetentionDays - 1 >= DayOf(p) /\ d <= DayOf(p)
      BY <1>3 DEF Right, KeptDays
    <3> QED BY <1>1, <1>2, <3>1
  <2>2. low \in Int /\ low <= DayOf(p) /\ DayOf(p) - low + 1 = RetentionDays
    BY <1>1, <1>2
  <2> HIDE DEF low
  <2>3. Cardinality(DOMAIN u.days) <= RetentionDays /\ Cardinality(DOMAIN u.days) \in Nat
    BY <1>2, <2>1, <2>2, IntervalBound, FS_CardinalityType
  <2> QED BY <1>1, <2>3
<1>5. Cardinality(DOMAIN u.hours) <= MaxDays * HoursPerDay
  <2> DEFINE RH == RetentionDays * HoursPerDay
             low == p - RH + 1
  <2>1. RH \in Nat /\ RH >= 1 /\ MaxDays * HoursPerDay \in Nat
    BY <1>1
  <2>2. RH <= MaxDays * HoursPerDay
    <3>1. \A a, b, c \in Nat : a <= b => a * c <= b * c
      OBVIOUS
    <3> QED BY <1>1, <3>1
  <2>3. KeptHours(p) = {g \in Nat : g + RH - 1 >= p}
    BY DEF KeptHours
  <2> HIDE DEF RH
  <2>4. \A g \in DOMAIN u.hours : g \in Int /\ low <= g /\ g <= p
    <3>1. ASSUME NEW g \in DOMAIN u.hours
          PROVE  g \in Nat /\ g + RH - 1 >= p /\ g <= p
      BY <1>3, <2>3 DEF Right
    <3> QED BY <2>1, <3>1
  <2>5. low \in Int /\ low <= p /\ p - low + 1 = RH
    BY <2>1
  <2> HIDE DEF low
  <2>6. Cardinality(DOMAIN u.hours) <= RH /\ Cardinality(DOMAIN u.hours) \in Nat
    BY <2>4, <2>5, IntervalBound, FS_CardinalityType
  <2> QED BY <2>1, <2>2, <2>6
<1>6. ASSUME NEW b, NEW seen, Exact(b, seen)
      PROVE  /\ Cardinality({}) <= b.unique /\ b.unique <= b.total
             /\ b.unique <= MaxHashes /\ Cardinality({}) <= MaxHashes
  <2>1. Cardinality({}) = 0
    BY FS_EmptySet
  <2>2. Cardinality(seen) \in Nat /\ b.total \in Nat /\ b.unique \in Nat
    BY <1>6, FS_CardinalityType DEF Exact, Breakdown
  <2> QED BY <1>1, <1>6, <2>1, <2>2 DEF Exact
<1>7. ASSUME NEW P, NEW S, NEW now, NEW kept, Right(P, S, now, kept),
             NEW q \in DOMAIN P, NEW k \in Kind
      PROVE  /\ Cardinality(P[q][k].hashes) <= P[q][k].unique
             /\ P[q][k].unique <= P[q][k].total
             /\ Cardinality(P[q][k].hashes) <= MaxHashes
  <2>1. /\ Exact(P[q][k], S[k][q])
        /\ Cardinality(P[q][k].hashes) = P[q][k].unique \/ P[q][k].hashes = {}
    BY <1>7 DEF Right
  <2>2. P[q][k].unique \in Nat
    BY <2>1 DEF Exact, Breakdown
  <2>3. /\ Cardinality({}) <= P[q][k].unique /\ P[q][k].unique <= P[q][k].total
        /\ P[q][k].unique <= MaxHashes /\ Cardinality({}) <= MaxHashes
    BY <1>6, <2>1
  <2> QED BY <2>1, <2>2, <2>3
<1>8. ValidPeriods(u.days, MaxDays)
  BY <1>3, <1>4, <1>7 DEF ValidPeriods
<1>9. ValidPeriods(u.hours, MaxDays * HoursPerDay)
  BY <1>3, <1>5, <1>7 DEF ValidPeriods
<1> QED BY <1>8, <1>9 DEF Valid

-----------------------------------------------------------------------------
(* The actions.                                                            *)

LEMMA InvInit == Init => Inv
<1> SUFFICES ASSUME Init PROVE Inv
  OBVIOUS
<1>1. hour \in FirstHour .. LastHour /\ lastPruned \in FirstHour .. hour
  BY Ranges DEF Init
<1>2. Good(usage, visits, lastPruned)
  BY EmptyGood, Ranges DEF Init
<1>3. Cached(sets, usage, lastPruned)
  BY DEF Init, Cached, CachedIn
<1> QED BY <1>1, <1>2, <1>3 DEF Init, Inv

LEMMA HoursTyped ==
    ASSUME Inv
    PROVE  /\ hour \in Nat /\ lastPruned \in Nat /\ lastPruned <= hour
           /\ FirstHour <= hour /\ FirstHour <= lastPruned
BY Ranges DEF Inv

LEMMA RecordInv ==
    ASSUME Inv, NEW k \in Kind, NEW n \in Network, Record(k, n)
    PROVE  Inv'
<1> DEFINE u == IF PruneDue THEN Prune(usage, hour) ELSE usage
           s == IF PruneDue THEN PruneSets(sets, usage, hour) ELSE sets
<1>1. /\ hour \in Nat /\ lastPruned \in Nat /\ lastPruned <= hour /\ hour >= FirstHour
      /\ FirstHour <= lastPruned
  BY HoursTyped, Ranges
<1>2. Good(usage, visits, lastPruned) /\ Cached(sets, usage, lastPruned)
  BY DEF Inv
<1>3. Good(u, visits, hour) /\ Cached(s, u, hour) /\ u.lifetime = usage.lifetime
  <2>1. CASE PruneDue
    BY <1>1, <1>2, <2>1, PrunedGood, PrunedCached
  <2>2. CASE ~PruneDue
    BY <1>2, <2>2 DEF PruneDue
  <2> QED BY <2>1, <2>2
<1>4. /\ Recorded(u, s, hour, k, n, usage', sets')
      /\ lastPruned' = hour /\ visits' = visits \cup {<<k, n, hour>>}
      /\ hour' = hour /\ file' = file
  BY <1>3 DEF Record, Recorded
<1> HIDE DEF u, s
<1>5. Good(usage', visits', hour) /\ Cached(sets', usage', hour)
  BY <1>1, <1>3, <1>4, RecordedGood
<1>6. hour' \in FirstHour .. LastHour /\ lastPruned' \in FirstHour .. hour'
  BY <1>1, <1>4, Ranges DEF Inv
<1> QED BY <1>4, <1>5, <1>6 DEF Inv

LEMMA TickInv ==
    ASSUME Inv, ClockTicks
    PROVE  Inv'
<1>1. hour' \in FirstHour .. LastHour /\ hour' = hour + 1 /\ UNCHANGED <<usage, sets, lastPruned, visits, file>>
  BY HoursTyped, Ranges DEF ClockTicks, Inv
<1>2. FirstHour .. hour \subseteq FirstHour .. hour'
  BY <1>1, HoursTyped, Ranges
<1> QED BY <1>1, <1>2 DEF Inv

LEMMA SaveInv ==
    ASSUME Inv, Save
    PROVE  Inv'
<1>1. /\ file' = [usage |-> usage, visits |-> visits]
      /\ UNCHANGED <<hour, usage, sets, lastPruned, visits>>
  BY DEF Save
<1>2. file'.usage = usage /\ file'.visits = visits
  BY <1>1
<1>3. Good(usage, visits, lastPruned) /\ lastPruned \in FirstHour .. hour
  BY DEF Inv
<1>4. \E p \in FirstHour .. hour' : Good(file'.usage, file'.visits, p)
  BY <1>1, <1>2, <1>3
<1> QED BY <1>1, <1>4 DEF Inv

LEMMA RestartInv ==
    ASSUME Inv, Restart
    PROVE  Inv'
<1>1. /\ usage' = Prune(Loaded, hour) /\ sets' = << >> /\ lastPruned' = hour
      /\ visits' = IF file # NoFile THEN file.visits ELSE {}
      /\ hour' = hour /\ file' = file
  BY DEF Restart
<1>2. hour \in Nat /\ FirstHour <= hour /\ FirstHour \in Nat
  BY HoursTyped, Ranges
<1>3. Good(usage', visits', hour)
  <2>1. CASE file # NoFile
    <3>1. PICK p \in FirstHour .. hour : Good(file.usage, file.visits, p)
      BY <2>1 DEF Inv
    <3>2. p \in Nat /\ p <= hour /\ FirstHour <= p
      BY <1>2
    <3>3. Valid(file.usage)
      BY <3>1, <3>2, GoodValid
    <3>4. Loaded = file.usage
      BY <2>1, <3>3 DEF Loaded
    <3>5. Good(Prune(file.usage, hour), file.visits, hour)
      BY <1>2, <3>1, <3>2, PrunedGood
    <3> QED BY <1>1, <2>1, <3>4, <3>5
  <2>2. CASE file = NoFile
    <3>1. Loaded = EmptyState /\ visits' = {}
      BY <1>1, <2>2 DEF Loaded
    <3>2. Good(EmptyState, {}, hour)
      BY <1>2, EmptyGood
    <3>3. hour <= hour
      BY <1>2
    <3>4. Good(Prune(EmptyState, hour), {}, hour)
      BY <1>2, <3>2, <3>3, PrunedGood
    <3> QED BY <1>1, <3>1, <3>4
  <2> QED BY <2>1, <2>2
<1>4. Cached(sets', usage', hour)
  BY <1>1 DEF Cached, CachedIn
<1>5. hour' \in FirstHour .. LastHour /\ lastPruned' \in FirstHour .. hour'
  BY <1>1, <1>2 DEF Inv
<1> QED BY <1>1, <1>3, <1>4, <1>5 DEF Inv

LEMMA InvNext == Inv /\ [Next]_vars => Inv'
<1> SUFFICES ASSUME Inv, [Next]_vars PROVE Inv'
  OBVIOUS
<1>1. CASE Next
  BY <1>1, RecordInv, TickInv, SaveInv, RestartInv DEF Next
<1>2. CASE UNCHANGED vars
  BY <1>2 DEF vars, Inv
<1> QED BY <1>1, <1>2
-----------------------------------------------------------------------------
(* The theorems.                                                           *)

(* The counts in memory, the cached sets and the counts in the file agree  *)
(* with what was visited, however records, hours, snapshots and restarts   *)
(* follow one another.                                                     *)
THEOREM Invariance == Spec => []Inv
BY InvInit, InvNext, PTL DEF Spec

(* Every field stays in its range.                                         *)
THEOREM Typing == Spec => []TypeOK
<1>1. ASSUME Inv PROVE TypeOK
  <2>1. Good(usage, visits, lastPruned) /\ Cached(sets, usage, lastPruned)
        /\ hour \in FirstHour .. LastHour /\ lastPruned \in FirstHour .. hour
    BY <1>1 DEF Inv
  <2>2. hour \in Nat /\ lastPruned \in Nat /\ lastPruned <= hour /\ FirstHour \in Nat
    BY <1>1, HoursTyped, Ranges
  <2>3. /\ \A d \in DOMAIN usage.days : d \in Nat /\ usage.days[d] \in PeriodType
        /\ \A h \in DOMAIN usage.hours : h \in Nat /\ usage.hours[h] \in PeriodType
    <3>1. /\ \A h \in DOMAIN usage.hours : h \in 0 .. lastPruned
          /\ \A d \in DOMAIN usage.days : d \in Nat
      BY <2>1, <2>2, Periods
    <3> QED BY <2>1, <3>1 DEF Good, Right
  <2>4. DOMAIN sets \subseteq {DayKey(d) : d \in DOMAIN usage.days}
                               \cup {HourKey(h) : h \in DOMAIN usage.hours}
    BY <2>1 DEF Cached, CachedIn
  <2>5. visits \subseteq Kind \X Network \X (FirstHour .. hour)
    <3>1. FirstHour .. lastPruned \subseteq FirstHour .. hour
      BY <2>2
    <3> QED BY <2>1, <3>1 DEF Good
  <2> QED BY <2>1, <2>3, <2>4, <2>5 DEF TypeOK, Good
<1> QED BY <1>1, Invariance, PTL

(* Every snapshot is one the next process accepts: with the retention      *)
(* within maximumRetainedDays, prune always leaves fewer hours and days    *)
(* than load tolerates, and no breakdown has more hashes than networks.    *)
THEOREM Snapshots == Spec => []SnapshotsLoad
<1>1. ASSUME Inv PROVE SnapshotsLoad
  BY <1>1, HoursTyped, GoodValid DEF Inv, SnapshotsLoad
<1> QED BY <1>1, Invariance, PTL

(* Unique networks are counted exactly up to the cap, in every hour and    *)
(* every day that is kept, although the sets they are compared with come   *)
(* and go.                                                                 *)
THEOREM Uniques == Spec => []UniquesExact
<1>1. ASSUME Inv PROVE UniquesExact
  <2>1. Good(usage, visits, lastPruned) /\ lastPruned \in Nat
    BY <1>1, HoursTyped DEF Inv
  <2>2. /\ Right(usage.days, DaysSeen(visits), DayOf(lastPruned), KeptDays(lastPruned))
        /\ Right(usage.hours, HoursSeen(visits), lastPruned, KeptHours(lastPruned))
        /\ KeptDays(lastPruned) \subseteq Nat /\ KeptHours(lastPruned) \subseteq Nat
    BY <2>1, Cutoffs DEF Good
  <2>3. ASSUME NEW k \in Kind, NEW h \in DOMAIN usage.hours
        PROVE  Exact(usage.hours[h][k], {n \in Network : <<k, n, h>> \in visits})
    <3>1. Exact(usage.hours[h][k], HoursSeen(visits)[k][h]) /\ h \in Nat
      BY <2>2 DEF Right
    <3> QED BY <3>1 DEF HoursSeen
  <2>4. ASSUME NEW k \in Kind, NEW d \in DOMAIN usage.days
        PROVE  Exact(usage.days[d][k],
                     {n \in Network : \E v \in visits : v[1] = k /\ v[2] = n /\ DayOf(v[3]) = d})
    <3>1. Exact(usage.days[d][k], DaysSeen(visits)[k][d]) /\ d \in Nat
      BY <2>2 DEF Right
    <3> QED BY <3>1 DEF DaysSeen
  <2> QED BY <2>3, <2>4 DEF UniquesExact, Exact
<1> QED BY <1>1, Invariance, PTL

(* The retained hours of a retained day add up to it.                      *)
THEOREM DaysAndHours == Spec => []DaysAddUp
<1>1. ASSUME Inv PROVE DaysAddUp
  BY <1>1 DEF Inv, Good, AddsUp, DaysAddUp, TotalsOf, HoursOf
<1> QED BY <1>1, Invariance, PTL

(* Only the hour that prune saw last, and its day, have hashes, in the     *)
(* state and in the cached sets.                                           *)
THEOREM OldHashes == Spec => []OldHashesDiscarded
<1>1. ASSUME Inv PROVE OldHashesDiscarded
  <2>1. /\ Right(usage.days, DaysSeen(visits), DayOf(lastPruned), KeptDays(lastPruned))
        /\ Right(usage.hours, HoursSeen(visits), lastPruned, KeptHours(lastPruned))
        /\ Cached(sets, usage, lastPruned)
    BY <1>1 DEF Inv, Good
  <2> QED BY <2>1 DEF Right, HasHashes, Cached, OldHashesDiscarded
<1> QED BY <1>1, Invariance, PTL
=============================================================================
