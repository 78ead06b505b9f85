-------------------------------- MODULE Uptime --------------------------------
(***************************************************************************)
(* The uptime of one endpoint: an entry per hour, which the SQL store      *)
(* merges into entries per day when they become too many.  The database    *)
(* keeps three sums per entry (executions, successful ones, response       *)
(* time); an entry here is the set of hours that it sums up, from which    *)
(* all three follow.                                                       *)
(***************************************************************************)
EXTENDS Naturals, FiniteSets

CONSTANTS
  HoursPerDay,      \* 24
  Retention,        \* days that must be kept, 30
  MergeThreshold,   \* entries that start a merge, 100
  Horizon,          \* bound: hours that pass
  MaxOutages        \* bound: how often checks stop for an hour or more

ASSUME UptimeAssumption ==
  /\ HoursPerDay \in Nat \ {0}
  /\ Retention \in Nat \ 0..3
  /\ MergeThreshold = 3 * HoursPerDay + Retention - 2

VARIABLES
  upStore,    \* "memory" or "sql"
  hour,       \* now, rounded down
  entries,    \* hours summed up by the entry of each timestamp
  seen,       \* history: hours in which there was a result
  outages     \* how often there was none in an hour after one in which there was

uptimeVars == <<upStore, hour, entries, seen, outages>>

Days(n) == n * HoursPerDay
DayStart(h) == h - (h % HoursPerDay)
Origin == Days(Retention + 3)           \* hours are counted from before that
Timestamps == Origin..(Origin + Horizon)
Kept(es, S) == [h \in S |-> es[h]]

(* updateEndpointUptime, processUptimeAfterResult                          *)
AddTo(es, h) ==
  [x \in DOMAIN es \cup {h} |-> (IF x \in DOMAIN es THEN es[x] ELSE {}) \cup (IF x = h THEN {h} ELSE {})]

\* Slip: the hours of yesterday are merged, too.
MergeUntilToday(es) ==
  LET min == DayStart(hour)
      old == {h \in DOMAIN es : h < min /\ h > hour - Days(Retention)}
      days == {DayStart(h) : h \in old}
      recent == {h \in DOMAIN es : h >= min}
  IN [x \in recent \cup days |->
        IF x \in days THEN UNION {es[h] : h \in {o \in old : DayStart(o) = x}} ELSE es[x]]
(* mergeHourlyUptimeEntriesOlderThanMergeThresholdIntoDailyUptimeEntries:  *)
(* results come later than on the hour, hence > where the code has >=.     *)
Merged(es) ==
  LET min == DayStart(hour - Days(2))
      old == {h \in DOMAIN es : h < min /\ h > hour - Days(Retention)}
      days == {DayStart(h) : h \in old}
      recent == {h \in DOMAIN es : h >= min}
  IN [x \in recent \cup days |->
        IF x \in days THEN UNION {es[h] : h \in {o \in old : DayStart(o) = x}} ELSE es[x]]

MergeIfMany(es) == IF Cardinality(DOMAIN es) >= MergeThreshold THEN Merged(es) ELSE es

WithoutOld(es) == Kept(es, {h \in DOMAIN es : h >= hour - Days(Retention)})
DeleteIfOld(es) ==
  IF \E h \in DOMAIN es : hour - h >= Days(Retention + 2) THEN WithoutOld(es) ELSE es

DeleteIfMany(es) ==
  IF Cardinality(DOMAIN es) > Days(Retention + 2) THEN WithoutOld(es) ELSE es

InsertResult ==
  /\ entries' = (IF upStore = "sql" THEN DeleteIfOld(MergeIfMany(AddTo(entries, hour)))
                 ELSE DeleteIfMany(AddTo(entries, hour)))
  /\ seen' = seen \cup {hour}
  /\ UNCHANGED <<upStore, hour, outages>>

HourPasses ==
  /\ hour < Origin + Horizon
  /\ hour' = hour + 1
  /\ outages' = outages + (IF hour \notin seen /\ hour - 1 \in seen THEN 1 ELSE 0)
  /\ outages' <= MaxOutages
  /\ UNCHANGED <<upStore, entries, seen>>

UptimeInit ==
  /\ upStore \in {"memory", "sql"}
  /\ hour \in Origin..(Origin + HoursPerDay - 1)
  /\ entries = [h \in {} |-> {}] /\ seen = {} /\ outages = 0

UptimeIdle == upStore = "memory" /\ hour = Origin /\ entries = [h \in {} |-> {}] /\ seen = {} /\ outages = 0

UptimeNext == InsertResult \/ HourPasses

-----------------------------------------------------------------------------
(* GetUptimeByKey, GetAverageResponseTimeByKey and the hourly averages ask *)
(* for a number of days back from now.  The memory store steps back hour   *)
(* by hour and rounds down, so that it looks at one hour more.             *)
Window(days) ==
  (IF upStore = "sql" THEN hour - Days(days) + 1 ELSE hour - Days(days))..hour
Counted(days) == UNION {entries[h] : h \in DOMAIN entries \cap Window(days)}

(* sql.go:1066-1071: the uptime of the last day is exact, whatever was     *)
(* merged.  That of more days counts every hour of every whole day in it,  *)
(* and none before it; and no hour is counted twice.                       *)
UptimeSurvivesMerges ==
  /\ Counted(1) = seen \cap Window(1)
  /\ \A days \in 1..Retention :
       /\ Counted(days) \subseteq seen \cap Window(days)
       /\ {h \in seen : DayStart(h) > DayStart(hour - Days(days))} \subseteq Counted(days)
  /\ \A g, h \in DOMAIN entries : g # h => entries[g] \cap entries[h] = {}
=============================================================================
