------------------------------ MODULE Alerting ------------------------------
(***************************************************************************)
(* The alerting of one endpoint: watchdog.HandleAlerting, which is called  *)
(* with every result of the endpoint, the triggered alerts it persists in  *)
(* the store, and main.initializeStorage, which loads them back after a    *)
(* restart.  The handler walks ep.Alerts in order; each call it makes to a *)
(* provider or to the store is a step of its own, so that the process can  *)
(* die between any two of them.                                            *)
(***************************************************************************)
EXTENDS Integers

CONSTANTS
  AlertCount,        \* len(ep.Alerts)
  FailureThreshold,  \* FailureThreshold[a], SuccessThreshold[a]: the
  SuccessThreshold,  \*   thresholds of alert a
  ReminderInterval,  \* ReminderInterval[a], in ticks; 0 disables reminders
  SendOnResolved,    \* the alerts whose send-on-resolved is true
  Configured,        \* the alerts whose provider is configured
  Checksum,          \* Checksum[a]: what the store identifies alert a by
  EnabledSets,       \* what a (re)loaded configuration may enable
  Persistent,        \* TRUE for the SQL store, FALSE for the memory store
  StoreMayFail,      \* whether calls to the store can return an error
  MaxCrashes,        \* bound on the number of times the process dies
  CounterCap,        \* counters saturate here: no threshold exceeds it
  AgeCap             \* ages saturate here: no reminder interval exceeds it

Alerts == 1..AlertCount
Checksums == {Checksum[a] : a \in Alerts}

ASSUME CountAssumption == AlertCount \in Nat
ASSUME CapAssumption == CounterCap \in Nat \ {0} /\ AgeCap \in Nat \ {0}
ASSUME ThresholdAssumption ==
  /\ FailureThreshold \in [Alerts -> 1..CounterCap]
  /\ SuccessThreshold \in [Alerts -> 1..CounterCap]
  /\ ReminderInterval \in [Alerts -> 0..AgeCap]
ASSUME FlagAssumption ==
  /\ SendOnResolved \subseteq Alerts
  /\ Configured \subseteq Alerts
  /\ EnabledSets \subseteq SUBSET Alerts
  /\ Persistent \in BOOLEAN
  /\ StoreMayFail \in BOOLEAN
  /\ MaxCrashes \in Nat

VARIABLES
  pc,         \* where the watchdog is: "down", "idle" (between two results)
              \*   or inside HandleAlerting
  cur,        \* the alert the handler's loop has reached
  enabled,    \* the alerts with IsEnabled()
  successes,  \* ep.NumberOfSuccessesInARow
  failures,   \* ep.NumberOfFailuresInARow
  age,        \* time.Since(ep.LastReminderSent)
  refAge,     \* time.Since(lastReminderSent), the handler's local copy
  triggered,  \* triggered[a]: Alert.Triggered
  row,        \* row[c]: number_of_successes_in_a_row of the persisted alert
  mail,       \* mail[a]: the last notification about a that was delivered
  crashes     \* how many times the process has died

memory == <<enabled, successes, failures, age, triggered>>
vars == <<pc, cur, enabled, successes, failures, age, refAge, triggered, row, mail, crashes>>

NoRow == -1
Counters == 0..CounterCap
Ages == 0..AgeCap
Notifications == {"none", "triggered", "reminder", "resolved"}
Places == {"down", "idle", "triggering", "persisting", "resolving", "reporting"}

TypeOK ==
  /\ pc \in Places
  /\ cur \in 1..(AlertCount + 1)
  /\ pc \in {"persisting", "reporting"} => cur \in Alerts
  /\ enabled \in SUBSET Alerts
  /\ successes \in Counters
  /\ failures \in Counters
  /\ age \in Ages
  /\ refAge \in Ages
  /\ triggered \in [Alerts -> BOOLEAN]
  /\ row \in [Checksums -> Counters \cup {NoRow}]
  /\ mail \in [Alerts -> Notifications]
  /\ crashes \in 0..MaxCrashes

(* Counters and ages stop growing where no comparison can tell any more.   *)
Bump(n) == IF n < CounterCap THEN n + 1 ELSE n
Older(t) == IF t < AgeCap THEN t + 1 ELSE t

-----------------------------------------------------------------------------
(* The store's triggered alerts.  With the memory store every operation is *)
(* a no-op; with the SQL store an operation takes effect or fails.         *)

Outcomes == IF StoreMayFail THEN BOOLEAN ELSE {TRUE}

Upsert(a) == \E ok \in Outcomes :
  row' = IF Persistent /\ ok THEN [row EXCEPT ![Checksum[a]] = successes] ELSE row

\* Slip: the row of a resolved alert stays.
DeleteForgotten(a) == UNCHANGED row

Delete(a) == \E ok \in Outcomes :
  row' = IF ok THEN [row EXCEPT ![Checksum[a]] = NoRow] ELSE row

\* Slip: rows of alerts that are no longer enabled are not deleted.
KeptAll(S) == row

(* The rows left when only those of the alerts in S are kept.              *)
Kept(S) == [c \in Checksums |-> IF \E a \in S : Checksum[a] = c THEN row[c] ELSE NoRow]

-----------------------------------------------------------------------------
(* handleAlertsToTrigger *)

AdvanceTo(place) == pc' = place /\ cur' = cur + 1

\* Slip: a failure does not interrupt the run of successes.
FailKeepsSuccesses ==
  /\ pc = "idle"
  /\ pc' = "triggering" /\ cur' = 1
  /\ failures' = Bump(failures)
  /\ refAge' = age
  /\ UNCHANGED <<successes, enabled, age, triggered, row, mail, crashes>>

Fail ==
  /\ pc = "idle"
  /\ pc' = "triggering" /\ cur' = 1
  /\ successes' = 0
  /\ failures' = Bump(failures)
  /\ refAge' = age
  /\ UNCHANGED <<enabled, age, triggered, row, mail, crashes>>

\* Slip: the notification is only tried when the threshold is reached.
DueInitialOnce(a) == ~triggered[a] /\ failures = FailureThreshold[a]

DueInitial(a) == ~triggered[a]

\* Slip: the reminder is only due at the very end of the interval.
DueReminderExactly(a) == triggered[a] /\ ReminderInterval[a] > 0 /\ refAge = ReminderInterval[a]

DueReminder(a) == triggered[a] /\ ReminderInterval[a] > 0 /\ refAge >= ReminderInterval[a]

ToSend(a) ==
  /\ a \in enabled
  /\ FailureThreshold[a] <= failures
  /\ DueInitial(a) \/ DueReminder(a)
  /\ a \in Configured

SkipTrigger ==
  /\ pc = "triggering" /\ cur \in Alerts
  /\ ~ToSend(cur)
  /\ AdvanceTo("triggering")
  /\ UNCHANGED <<memory, refAge, row, mail, crashes>>

\* Slip: Triggered is set although the provider refused the notification.
SendFailsTriggers ==
  /\ pc = "triggering" /\ cur \in Alerts
  /\ ToSend(cur)
  /\ triggered' = [triggered EXCEPT ![cur] = TRUE]
  /\ AdvanceTo("triggering")
  /\ UNCHANGED <<enabled, successes, failures, age, refAge, row, mail, crashes>>

SendFails ==
  /\ pc = "triggering" /\ cur \in Alerts
  /\ ToSend(cur)
  /\ AdvanceTo("triggering")
  /\ UNCHANGED <<memory, refAge, row, mail, crashes>>

\* Slip: only the initial notification updates LastReminderSent.
SendKeepsReminderTime ==
  /\ pc = "triggering" /\ cur \in Alerts
  /\ ToSend(cur)
  /\ mail' = [mail EXCEPT ![cur] = IF DueInitial(cur) THEN "triggered" ELSE "reminder"]
  /\ triggered' = [triggered EXCEPT ![cur] = TRUE]
  /\ age' = IF DueInitial(cur) THEN 0 ELSE age
  /\ pc' = "persisting"
  /\ UNCHANGED <<cur, enabled, successes, failures, refAge, row, crashes>>

SendSucceeds ==
  /\ pc = "triggering" /\ cur \in Alerts
  /\ ToSend(cur)
  /\ mail' = [mail EXCEPT ![cur] = IF DueInitial(cur) THEN "triggered" ELSE "reminder"]
  /\ triggered' = [triggered EXCEPT ![cur] = TRUE]
  /\ age' = 0
  /\ pc' = "persisting"
  /\ UNCHANGED <<cur, enabled, successes, failures, refAge, row, crashes>>

PersistTriggered ==
  /\ pc = "persisting"
  /\ Upsert(cur)
  /\ AdvanceTo("triggering")
  /\ UNCHANGED <<memory, refAge, mail, crashes>>

EndTrigger ==
  /\ pc = "triggering" /\ cur \notin Alerts
  /\ pc' = "idle" /\ cur' = 1
  /\ refAge' = AgeCap  \* the local variable goes out of scope
  /\ UNCHANGED <<memory, row, mail, crashes>>

-----------------------------------------------------------------------------
(* handleAlertsToResolve *)

Succeed ==
  /\ pc = "idle"
  /\ pc' = "resolving" /\ cur' = 1
  /\ successes' = Bump(successes)
  /\ UNCHANGED <<enabled, failures, age, refAge, triggered, row, mail, crashes>>

\* Slip: one success too many.
AtSuccessThreshold(a) == SuccessThreshold[a] >= successes

BelowSuccessThreshold(a) == SuccessThreshold[a] > successes
Ongoing(a) == a \in enabled /\ triggered[a]

SkipResolve ==
  /\ pc = "resolving" /\ cur \in Alerts
  /\ ~Ongoing(cur)
  /\ AdvanceTo("resolving")
  /\ UNCHANGED <<memory, refAge, row, mail, crashes>>

PersistSuccesses ==
  /\ pc = "resolving" /\ cur \in Alerts
  /\ Ongoing(cur) /\ BelowSuccessThreshold(cur)
  /\ Upsert(cur)
  /\ AdvanceTo("resolving")
  /\ UNCHANGED <<memory, refAge, mail, crashes>>

\* Slip: the alert stays triggered when the provider refuses the resolution.
ResolveIfDelivered ==
  /\ pc = "resolving" /\ cur \in Alerts
  /\ Ongoing(cur) /\ ~BelowSuccessThreshold(cur)
  /\ AdvanceTo("resolving")
  /\ \/ /\ triggered' = [triggered EXCEPT ![cur] = FALSE]
        /\ Delete(cur)
     \/ UNCHANGED <<triggered, row>>
  /\ UNCHANGED <<enabled, successes, failures, age, refAge, mail, crashes>>

Resolve ==
  /\ pc = "resolving" /\ cur \in Alerts
  /\ Ongoing(cur) /\ ~BelowSuccessThreshold(cur)
  /\ triggered' = [triggered EXCEPT ![cur] = FALSE]
  /\ Delete(cur)
  /\ IF cur \in SendOnResolved \cap Configured
       THEN pc' = "reporting" /\ UNCHANGED cur
       ELSE AdvanceTo("resolving")
  /\ UNCHANGED <<enabled, successes, failures, age, refAge, mail, crashes>>

(* The incident is over whether or not the provider takes the report.      *)
ReportResolved ==
  /\ pc = "reporting"
  /\ \E delivered \in BOOLEAN :
       mail' = IF delivered THEN [mail EXCEPT ![cur] = "resolved"] ELSE mail
  /\ AdvanceTo("resolving")
  /\ UNCHANGED <<memory, refAge, row, crashes>>

\* Slip: a success does not interrupt the run of failures.
EndResolveKeepsFailures ==
  /\ pc = "resolving" /\ cur \notin Alerts
  /\ pc' = "idle" /\ cur' = 1
  /\ UNCHANGED <<enabled, successes, failures, age, refAge, triggered, row, mail, crashes>>

EndResolve ==
  /\ pc = "resolving" /\ cur \notin Alerts
  /\ pc' = "idle" /\ cur' = 1
  /\ failures' = 0
  /\ UNCHANGED <<enabled, successes, age, refAge, triggered, row, mail, crashes>>

-----------------------------------------------------------------------------
(* The process and the passing of time *)

(* The process dies and everything it had in memory is lost.               *)
Crash ==
  /\ pc # "down" /\ crashes < MaxCrashes
  /\ crashes' = crashes + 1
  /\ pc' = "down" /\ cur' = 1
  /\ successes' = 0 /\ failures' = 0
  /\ age' = AgeCap /\ refAge' = AgeCap  \* the zero time.Time
  /\ triggered' = [a \in Alerts |-> FALSE]
  /\ enabled' = {}
  /\ UNCHANGED <<row, mail>>

\* Slip: the counters are taken from rows that do not exist.
LoadCountersBlindly(loaded) ==
  \/ enabled' = {} /\ successes' = 0 /\ failures' = 0
  \/ \E last \in enabled' :
       /\ \A a \in enabled' : a <= last
       /\ successes' = row'[Checksum[last]]
       /\ failures' = FailureThreshold[last]

(* initializeStorage loads the alerts of `loaded` in the order of          *)
(* ep.Alerts: each one overwrites the counters set by the one before.      *)
LoadCounters(loaded) ==
  \/ /\ loaded = {}
     /\ successes' = 0 /\ failures' = 0
  \/ \E last \in loaded :
       /\ \A a \in loaded : a <= last
       /\ successes' = row'[Checksum[last]]
       /\ failures' = FailureThreshold[last]

(* A reloaded configuration, and main.initializeStorage on it: the         *)
(* persisted alerts that are no longer enabled are deleted, the others     *)
(* are loaded, except those that could not be read.                        *)
Restart ==
  /\ pc = "down"
  /\ pc' = "idle" /\ cur' = 1
  /\ enabled' \in EnabledSets
  /\ \E cleaned \in Outcomes : row' = IF cleaned THEN Kept(enabled') ELSE row
  /\ \E unread \in IF StoreMayFail THEN SUBSET enabled' ELSE {{}} :
       LET loaded == {a \in enabled' \ unread : row'[Checksum[a]] # NoRow}
       IN  /\ triggered' = [a \in Alerts |-> a \in loaded]
           /\ LoadCounters(loaded)
  /\ UNCHANGED <<age, refAge, mail, crashes>>

Tick ==
  /\ age < AgeCap \/ refAge < AgeCap
  /\ age' = Older(age) /\ refAge' = Older(refAge)
  /\ UNCHANGED <<pc, cur, enabled, successes, failures, triggered, row, mail, crashes>>

-----------------------------------------------------------------------------
Init ==
  /\ pc = "down" /\ cur = 1
  /\ enabled = {}
  /\ successes = 0 /\ failures = 0
  /\ age = AgeCap /\ refAge = AgeCap
  /\ triggered = [a \in Alerts |-> FALSE]
  /\ row = [c \in Checksums |-> NoRow]
  /\ mail = [a \in Alerts |-> "none"]
  /\ crashes = 0

TriggerStep == SkipTrigger \/ SendFails \/ SendSucceeds \/ PersistTriggered \/ EndTrigger
ResolveStep == SkipResolve \/ PersistSuccesses \/ Resolve \/ ReportResolved \/ EndResolve

Next ==
  \/ Fail \/ TriggerStep
  \/ Succeed \/ ResolveStep
  \/ Crash \/ Restart
  \/ Tick

Spec == Init /\ [][Next]_vars

(* The endpoint is evaluated for ever (its ticker never stops), a handler  *)
(* that has begun finishes, a process that died is started again, and      *)
(* time passes.                                                            *)
Fairness ==
  /\ WF_vars(Fail \/ Succeed)
  /\ WF_vars(TriggerStep)
  /\ WF_vars(ResolveStep)
  /\ WF_vars(Restart)
  /\ WF_vars(Tick)

FairSpec == Spec /\ Fairness

(* In addition, a provider that is tried over and over for the same alert  *)
(* ends up accepting a notification.  This is about the provider, not      *)
(* about this code.                                                        *)
ProviderRecovers == \A a \in Alerts : SF_vars(SendSucceeds /\ cur = a)
RecoveringSpec == FairSpec /\ ProviderRecovers

-----------------------------------------------------------------------------
(* Properties *)

(* Between two steps of the handler, the persisted rows and the Triggered  *)
(* flags agree: a row belongs to a triggered alert, and with the SQL store *)
(* a triggered alert has its row, except while alerting.go:66-73 has sent  *)
(* it and not yet persisted it.  This is what a restart relies on.         *)
RowsMatchTriggered ==
  pc # "down" =>
    \A a \in Alerts :
      /\ row[Checksum[a]] # NoRow => triggered[a]
      /\ triggered[a] /\ Persistent => \/ row[Checksum[a]] # NoRow
                                       \/ pc = "persisting" /\ cur = a

(* alert.go:67: Triggered is set only for an alert whose notification the  *)
(* provider took and whose resolution was not reported since, also after   *)
(* a restart has loaded the rows.                                          *)
Announced(a) == mail[a] \in {"triggered", "reminder"}

TriggeredMeansAnnounced ==
  \A a \in Alerts : (triggered[a] \/ row[Checksum[a]] # NoRow) => Announced(a)

(* alert.go:67-68 of the flag alone: "This value should only be modified   *)
(* if the provider.AlertProvider's Send function does not return an error  *)
(* for an alert that hasn't been triggered yet".  In one life of the       *)
(* process the flag is set after Send only; whether a restart sets it for  *)
(* another alert depends on what tells the rows apart.                     *)
TriggeredMeansSent == \A a \in Alerts : triggered[a] => Announced(a)

(* What the proof of the two adds: where the handler is says that much     *)
(* about the alert it has reached.                                         *)
HandlerInv ==
  /\ pc = "persisting" => triggered[cur]
  /\ pc = "reporting" => ~triggered[cur] /\ Announced(cur)

Consistency == RowsMatchTriggered /\ TriggeredMeansAnnounced /\ HandlerInv

(* The conditions they hold under: the store never fails, and the store    *)
(* can tell the alerts of the endpoint apart.                              *)
ReliableStore == StoreMayFail = FALSE
DistinctChecksums == \A a, b \in Alerts : Checksum[a] = Checksum[b] => a = b

(* The incidents this code keeps open: the Triggered flags, and while the  *)
(* process is down the rows that a restart would load.                     *)
OpenIncidents ==
  {a \in Alerts : IF pc = "down" THEN row[Checksum[a]] # NoRow ELSE triggered[a]}

(* alert.go:64-72: an alert does not go out twice, a reminder is only sent *)
(* for an open incident, a resolution only for an announced one, and a     *)
(* restart never invents an incident.                                      *)
Incidents == INSTANCE Incident WITH open <- OpenIncidents

ImplementsIncident == Incidents!Spec

(* alert.go:67-69, the lazy retry: an endpoint that keeps failing ends up  *)
(* with every alert announced, however often its provider refused it.      *)
AnnouncedEventually ==
  \A a \in Configured :
    <>[](failures > 0 /\ a \in enabled) => <>[](triggered[a])

(* alert.go:69-72: an endpoint that keeps succeeding ends up with every    *)
(* alert resolved, even if the provider always returns errors.             *)
ResolvedEventually ==
  \A a \in Alerts : <>[](successes > 0) => <>[](~triggered[a])

(* alert.go:41: as long as an alert with a reminder interval is ongoing,   *)
(* its reminders keep being sent, although the notifications of the other  *)
(* alerts update the time it goes by.  It takes an endpoint with no other  *)
(* reminder interval: a shorter one postpones the reminders for ever.      *)
RemindedForEver ==
  \A a \in Configured :
    (ReminderInterval[a] > 0 /\ <>[](failures > 0 /\ Ongoing(a)))
      => []<>(pc = "persisting" /\ cur = a)
=============================================================================
