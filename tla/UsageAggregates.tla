--------------------------- MODULE UsageAggregates ---------------------------
(***************************************************************************)
(* The usage counts of server/src/usage-metrics.ts: every event is counted *)
(* in the totals of its UTC hour and day and for ever, unique networks are *)
(* told apart by hashes kept only for the current hour and day, and old    *)
(* periods are dropped.  A snapshot of the counts may be in the file when  *)
(* the process restarts (MetricsWriter models how it gets there); on the   *)
(* way back it must pass the validation of load, or all history is lost.   *)
(*                                                                         *)
(* Browser and operating system families are a breakdown of each total and *)
(* are left out.  A network's hash is the network itself: hashes are only  *)
(* compared within one day, where the HMAC tells networks apart.           *)
(***************************************************************************)
EXTENDS Naturals, FiniteSets, Sums

CONSTANTS
    Kind,           \* generatedLinks, successfulConnections
    Network,        \* client network prefixes
    HoursPerDay,    \* 24
    RetentionDays,  \* USAGE_METRICS_RETENTION_DAYS
    MaxDays,        \* maximumRetainedDays
    MaxHashes,      \* maximumPeriodNetworkHashes
    NoFile,         \* the metrics file is not there
    FirstHour,      \* the hour the first process starts
    LastHour,       \* bound: the clock stops here
    MaxEvents       \* bound: events counted

ASSUME RetentionAssumption ==
    /\ HoursPerDay \in Nat \ {0} /\ MaxHashes \in Nat \ {0}
    /\ MaxDays \in Nat \ {0} /\ RetentionDays \in 1 .. MaxDays
    /\ FirstHour \in Nat /\ FirstHour >= MaxDays * HoursPerDay
    /\ MaxEvents \in Nat /\ LastHour \in Nat /\ LastHour >= FirstHour

VARIABLES
    hour,        \* Date.now(), in hours; it is never set back
    usage,       \* this.state: lifetime, days, hours
    sets,        \* networkSets, by period key
    lastPruned,  \* lastPrunedHour
    visits,      \* history: the <<kind, network, hour>> that usage counts
    file         \* the last snapshot written, with its history

vars == <<hour, usage, sets, lastPruned, visits, file>>

DayOf(h) == h \div HoursPerDay

DayKey(d) == <<"day", d>>
HourKey(h) == <<"hour", h>>

Put(f, x, v) == [y \in DOMAIN f \cup {x} |-> IF y = x THEN v ELSE f[y]]

Keep(f, S) == [x \in DOMAIN f \cap S |-> f[x]]

EmptyUsage == [k \in Kind |-> [total |-> 0, unique |-> 0, capped |-> FALSE, hashes |-> {}]]

EmptyState == [lifetime |-> [k \in Kind |-> 0], days |-> << >>, hours |-> << >>]

-----------------------------------------------------------------------------
(* prune.                                                                  *)

HasHashes(period) == \E k \in Kind : period[k].hashes # {}

WithoutHashes(period) == [k \in Kind |-> [period[k] EXCEPT !.hashes = {}]]

(* Of the periods that stay, all but the current one lose their hashes.    *)
PrunePeriods(periods, kept, current) ==
    [p \in DOMAIN periods \cap kept |->
        IF p = current THEN periods[p] ELSE WithoutHashes(periods[p])]

(* The keys whose hash sets prune deletes: of dropped periods, and of old  *)
(* periods that still had hashes.                                          *)
Forgotten(periods, kept, current) ==
    {p \in DOMAIN periods : p \notin kept \/ (p # current /\ HasHashes(periods[p]))}

KeptDays(h) == {d \in Nat : d + RetentionDays - 1 >= DayOf(h)}

(* Slip: one hour more than the retained days have. *)
KeptHoursLongSlip(h) == {g \in Nat : g + RetentionDays * HoursPerDay >= h}

(* Slip: one hour less than the retained days have. *)
KeptHoursShortSlip(h) == {g \in Nat : g + RetentionDays * HoursPerDay - 2 >= h}

KeptHours(h) == {g \in Nat : g + RetentionDays * HoursPerDay - 1 >= h}

Prune(u, h) ==
    [u EXCEPT !.days = PrunePeriods(@, KeptDays(h), DayOf(h)),
              !.hours = PrunePeriods(@, KeptHours(h), h)]

PruneSets(s, u, h) ==
    LET gone == {DayKey(d) : d \in Forgotten(u.days, KeptDays(h), DayOf(h))}
                  \cup {HourKey(g) : g \in Forgotten(u.hours, KeptHours(h), h)}
    IN  Keep(s, DOMAIN s \ gone)

-----------------------------------------------------------------------------
(* Slip: a set that is not there yet starts empty. *)
NetworkSetSlip(s, key, period) ==
    IF key \in DOMAIN s THEN s[key] ELSE [k \in Kind |-> {}]

(* networkSet: the cached sets of a period, or new ones from its hashes.   *)
NetworkSet(s, key, period) ==
    IF key \in DOMAIN s THEN s[key] ELSE [k \in Kind |-> period[k].hashes]

(* updateUsage, for a network not seen (fresh) or seen in this period.     *)
Counted(b, n, known) ==
    LET fresh == n \notin known
        room  == Cardinality(known) < MaxHashes
    IN  [total  |-> b.total + 1,
         unique |-> IF fresh /\ room THEN b.unique + 1 ELSE b.unique,
         capped |-> b.capped \/ (fresh /\ ~room),
         hashes |-> IF fresh /\ room THEN b.hashes \cup {n} ELSE b.hashes]

Known(known, n) == IF Cardinality(known) < MaxHashes THEN known \cup {n} ELSE known

PeriodAt(periods, p) == IF p \in DOMAIN periods THEN periods[p] ELSE EmptyUsage

(* Slip: old periods are pruned when the day changes. *)
PruneDueSlip == DayOf(hour) # DayOf(lastPruned)

PruneDue == hour # lastPruned

(* record                                                                  *)
Record(k, n) ==
    LET d      == DayOf(hour)
        u      == IF PruneDue THEN Prune(usage, hour) ELSE usage
        s      == IF PruneDue THEN PruneSets(sets, usage, hour) ELSE sets
        daily  == PeriodAt(u.days, d)
        hourly == PeriodAt(u.hours, hour)
        ofDay  == NetworkSet(s, DayKey(d), daily)
        ofHour == NetworkSet(s, HourKey(hour), hourly)
    IN  /\ usage.lifetime[k] < MaxEvents
        /\ usage' = [lifetime |-> [u.lifetime EXCEPT ![k] = @ + 1],
                     days  |-> Put(u.days, d, [daily EXCEPT ![k] = Counted(@, n, ofDay[k])]),
                     hours |-> Put(u.hours, hour, [hourly EXCEPT ![k] = Counted(@, n, ofHour[k])])]
        /\ sets' = Put(Put(s, DayKey(d), [ofDay EXCEPT ![k] = Known(@, n)]),
                       HourKey(hour), [ofHour EXCEPT ![k] = Known(@, n)])
        /\ lastPruned' = hour
        /\ visits' = visits \cup {<<k, n, hour>>}
        /\ UNCHANGED <<hour, file>>

ClockTicks ==
    /\ hour < LastHour
    /\ hour' = hour + 1
    /\ UNCHANGED <<usage, sets, lastPruned, visits, file>>

(* drainWrites serialises the state at some moment between two events.     *)
Save ==
    /\ file' = [usage |-> usage, visits |-> visits]
    /\ UNCHANGED <<hour, usage, sets, lastPruned, visits>>

(* validateState. *)
ValidPeriods(periods, limit) ==
    /\ Cardinality(DOMAIN periods) <= limit
    /\ \A p \in DOMAIN periods : \A k \in Kind :
         LET b == periods[p][k]
         IN  /\ Cardinality(b.hashes) <= b.unique /\ b.unique <= b.total
             /\ Cardinality(b.hashes) <= MaxHashes

Valid(u) == ValidPeriods(u.days, MaxDays) /\ ValidPeriods(u.hours, MaxDays * HoursPerDay)

Loaded == IF file # NoFile /\ Valid(file.usage) THEN file.usage ELSE EmptyState

(* The process ends and another one loads the file and prunes it.          *)
Restart ==
    /\ usage' = Prune(Loaded, hour)
    /\ sets' = << >>
    /\ lastPruned' = hour
    /\ visits' = IF file # NoFile THEN file.visits ELSE {}
    /\ UNCHANGED <<hour, file>>

Init ==
    /\ hour = FirstHour
    /\ usage = EmptyState /\ sets = << >> /\ lastPruned = FirstHour
    /\ visits = {} /\ file = NoFile

Next ==
    \/ \E k \in Kind, n \in Network : Record(k, n)
    \/ ClockTicks \/ Save \/ Restart

Spec == Init /\ [][Next]_vars

-----------------------------------------------------------------------------
PeriodType ==
    [Kind -> [total : Nat, unique : Nat, capped : BOOLEAN, hashes : SUBSET Network]]

TypeOK ==
    /\ hour \in FirstHour .. LastHour /\ lastPruned \in FirstHour .. hour
    /\ usage.lifetime \in [Kind -> 0 .. MaxEvents]
    /\ \A d \in DOMAIN usage.days : d \in Nat /\ usage.days[d] \in PeriodType
    /\ \A h \in DOMAIN usage.hours : h \in Nat /\ usage.hours[h] \in PeriodType
    /\ DOMAIN sets \subseteq {DayKey(d) : d \in DOMAIN usage.days}
                               \cup {HourKey(h) : h \in DOMAIN usage.hours}
    /\ visits \subseteq Kind \X Network \X (FirstHour .. hour)

(* Whatever the moment of the snapshot, the next process accepts it: no    *)
(* restart throws the history away over its own limits.                    *)
SnapshotsLoad == Valid(usage)

(* Unique networks are counted exactly, up to the cap and across restarts: *)
(* once per hour and once per day, although hashes come and go and the     *)
(* sets they are compared with are rebuilt.                                *)
UniquesExact ==
    LET Exact(b, seen) ==
            /\ b.unique = IF Cardinality(seen) < MaxHashes THEN Cardinality(seen) ELSE MaxHashes
            /\ b.capped <=> Cardinality(seen) > MaxHashes
    IN  \A k \in Kind :
          /\ \A h \in DOMAIN usage.hours :
               Exact(usage.hours[h][k], {n \in Network : <<k, n, h>> \in visits})
          /\ \A d \in DOMAIN usage.days :
               Exact(usage.days[d][k],
                     {n \in Network : \E v \in visits : v[1] = k /\ v[2] = n /\ DayOf(v[3]) = d})

(* The retained hours of a retained day add up to it: the two cutoffs and  *)
(* the two counts of every event agree.                                    *)
DaysAddUp ==
    \A d \in DOMAIN usage.days, k \in Kind :
        usage.days[d][k].total =
            Total([h \in DOMAIN usage.hours |-> usage.hours[h][k].total],
                  {h \in DOMAIN usage.hours : DayOf(h) = d})

(* deploy/README.md: "discard old hash sets while retaining their          *)
(* aggregate counts".  Only the hour that prune saw last, and its day,     *)
(* have hashes, in the state and in the cached sets.                       *)
OldHashesDiscarded ==
    /\ \A h \in DOMAIN usage.hours : HasHashes(usage.hours[h]) => h = lastPruned
    /\ \A d \in DOMAIN usage.days : HasHashes(usage.days[d]) => d = DayOf(lastPruned)
    /\ DOMAIN sets \subseteq {HourKey(lastPruned), DayKey(DayOf(lastPruned))}
=============================================================================
