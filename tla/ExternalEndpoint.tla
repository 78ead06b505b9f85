-------------------------- MODULE ExternalEndpoint --------------------------
(***************************************************************************)
(* One external endpoint with one alert: results are pushed to it through  *)
(* the API (api.CreateExternalEndpointResult), and its heartbeat           *)
(* (watchdog.executeExternalEndpointHeartbeat) records a failure when none *)
(* came.  Each of these handlers works on a temporary endpoint made by     *)
(* ToEndpoint: it copies the counters, calls HandleAlerting on the copy    *)
(* and writes the counters back, without a lock.  The alert itself is      *)
(* shared by pointer.  Handlers run concurrently, so each access to the    *)
(* shared state, the store or the provider is a step of its own.           *)
(***************************************************************************)
EXTENDS Integers, FiniteSets

CONSTANTS
  Pushers,            \* requests that may be in flight at the same time
  HasHeartbeat,       \* whether heartbeat.interval is set
  HeartbeatInterval,  \* in ticks
  FailureThreshold, SuccessThreshold,
  Reminders,          \* whether the alert has a reminder interval
  SendOnResolved,
  StoreMayFail,       \* whether the store can return an error
  MayBeMaintained,    \* whether a maintenance window may be active
  CounterCap,         \* counters saturate here
  AgeCap              \* ages saturate here

ASSUME ThresholdAssumption ==
  /\ CounterCap \in Nat
  /\ FailureThreshold \in 1..CounterCap
  /\ SuccessThreshold \in 1..CounterCap
ASSUME IntervalAssumption ==
  /\ AgeCap \in Nat
  /\ HeartbeatInterval \in 1..AgeCap
ASSUME FlagAssumption ==
  /\ {HasHeartbeat, Reminders, SendOnResolved, StoreMayFail, MayBeMaintained} \subseteq BOOLEAN
  /\ "heartbeat" \notin Pushers

Actors == Pushers \cup (IF HasHeartbeat THEN {"heartbeat"} ELSE {})

VARIABLES
  pc,         \* pc[p]: where actor p is in its handler
  good,       \* good[p]: result.Success of the result p handles
  local,      \* local[p]: the counters of p's converted endpoint
  successes,  \* externalEndpoint.NumberOfSuccessesInARow
  failures,   \* externalEndpoint.NumberOfFailuresInARow
  triggered,  \* Alert.Triggered
  row,        \* whether the triggered alert is persisted
  silence,    \* age of the newest result in the store, whoever inserted it
  mail,       \* the last notification that was delivered
  disturbed   \* history: two handlers have overlapped, or the store has
              \*   failed to keep a row

vars == <<pc, good, local, successes, failures, triggered, row, silence, mail, disturbed>>
shared == <<successes, failures, triggered, row, silence, mail, disturbed>>

Places == {"idle", "checking", "inserting", "deciding", "triggering", "sendInitial",
           "sendReminder", "marking", "upserting", "resolving", "deleting",
           "unmarking", "reporting", "clearing", "writeSuccesses", "writeFailures"}
Counters == [successes : 0..CounterCap, failures : 0..CounterCap]
Ages == 0..AgeCap

TypeOK ==
  /\ pc \in [Actors -> Places]
  /\ good \in [Actors -> BOOLEAN]
  /\ local \in [Actors -> Counters]
  /\ [successes |-> successes, failures |-> failures] \in Counters
  /\ triggered \in BOOLEAN /\ row \in BOOLEAN
  /\ silence \in Ages
  /\ mail \in {"none", "triggered", "reminder", "resolved"}
  /\ disturbed \in BOOLEAN

Bump(n) == IF n < CounterCap THEN n + 1 ELSE n
Outcomes == IF StoreMayFail THEN BOOLEAN ELSE {TRUE}

Goto(p, place) == pc' = [pc EXCEPT ![p] = place]

AtRest == \A p \in Actors : pc[p] = "idle"
Overlap == disturbed' = (disturbed \/ ~AtRest)

(* ToEndpoint copies the counters, not the time of the last reminder.      *)
ToEndpoint(p) ==
  local' = [local EXCEPT ![p] = [successes |-> successes, failures |-> failures]]

-----------------------------------------------------------------------------
(* A push *)

Push(p) ==
  /\ p \in Pushers /\ pc[p] = "idle"
  /\ \E ok \in BOOLEAN : good' = [good EXCEPT ![p] = ok]
  /\ ToEndpoint(p)
  /\ Goto(p, "inserting")
  /\ Overlap
  /\ UNCHANGED <<successes, failures, triggered, row, silence, mail>>

(* The heartbeat *)

Beat(p) ==
  /\ p = "heartbeat" /\ pc[p] = "idle"
  /\ good' = [good EXCEPT ![p] = FALSE]
  /\ ToEndpoint(p)
  /\ Goto(p, "checking")
  /\ Overlap
  /\ UNCHANGED <<successes, failures, triggered, row, silence, mail>>

HasResultWithinInterval == silence < HeartbeatInterval

HeartbeatReceived(p) ==
  /\ pc[p] = "checking"
  /\ HasResultWithinInterval
  /\ Goto(p, "idle")
  /\ UNCHANGED <<good, local, shared>>

(* The stores answer "none" instead of returning an error.                 *)
HeartbeatMissed(p) ==
  /\ pc[p] = "checking"
  /\ StoreMayFail \/ ~HasResultWithinInterval
  /\ Goto(p, "inserting")
  /\ UNCHANGED <<good, local, shared>>

-----------------------------------------------------------------------------
(* Both insert the result.  A push that cannot be stored is refused; the   *)
(* heartbeat only logs the error (UpdateEndpointStatus) and goes on.       *)

Insert(p) ==
  /\ pc[p] = "inserting"
  /\ silence' = 0
  /\ Goto(p, "deciding")
  /\ UNCHANGED <<good, local, successes, failures, triggered, row, mail, disturbed>>

InsertFails(p) ==
  /\ pc[p] = "inserting" /\ StoreMayFail
  /\ Goto(p, IF p \in Pushers THEN "idle" ELSE "deciding")
  /\ UNCHANGED <<good, local, shared>>

UnderMaintenance(p) ==
  /\ pc[p] = "deciding" /\ MayBeMaintained
  /\ Goto(p, "idle")
  /\ UNCHANGED <<good, local, shared>>

-----------------------------------------------------------------------------
(* HandleAlerting on p's copy, whose LastReminderSent is the zero time: a  *)
(* reminder is always due.                                                 *)

Count(p) ==
  /\ pc[p] = "deciding"
  /\ local' = [local EXCEPT ![p] =
       IF good[p] THEN [successes |-> Bump(@.successes), failures |-> @.failures]
                  ELSE [successes |-> 0, failures |-> Bump(@.failures)]]
  /\ Goto(p, IF good[p] THEN "resolving" ELSE "triggering")
  /\ UNCHANGED <<good, shared>>

Trigger(p) ==
  /\ pc[p] = "triggering"
  /\ Goto(p, IF local[p].failures < FailureThreshold THEN "writeSuccesses"
             ELSE IF ~triggered THEN "sendInitial"
             ELSE IF Reminders THEN "sendReminder"
             ELSE "writeSuccesses")
  /\ UNCHANGED <<good, local, shared>>

Send(p) ==
  /\ pc[p] \in {"sendInitial", "sendReminder"}
  /\ mail' = IF pc[p] = "sendInitial" THEN "triggered" ELSE "reminder"
  /\ Goto(p, IF pc[p] = "sendInitial" THEN "marking" ELSE "upserting")
  /\ UNCHANGED <<good, local, successes, failures, triggered, row, silence, disturbed>>

SendFails(p) ==
  /\ pc[p] \in {"sendInitial", "sendReminder"}
  /\ Goto(p, "writeSuccesses")
  /\ UNCHANGED <<good, local, shared>>

\* Slip: the alert is not remembered as triggered.
MarkNothing(p) ==
  /\ pc[p] = "marking"
  /\ Goto(p, "upserting")
  /\ UNCHANGED <<good, local, shared>>

Mark(p) ==
  /\ pc[p] = "marking"
  /\ triggered' = TRUE
  /\ Goto(p, "upserting")
  /\ UNCHANGED <<good, local, successes, failures, row, silence, mail, disturbed>>

(* Used for a triggered alert and to persist its number of successes.      *)
Upsert(p) ==
  /\ pc[p] = "upserting"
  /\ \E ok \in Outcomes : row' = (row \/ ok) /\ disturbed' = (disturbed \/ ~ok)
  /\ Goto(p, IF good[p] THEN "clearing" ELSE "writeSuccesses")
  /\ UNCHANGED <<good, local, successes, failures, triggered, silence, mail>>

Resolve(p) ==
  /\ pc[p] = "resolving"
  /\ Goto(p, IF ~triggered THEN "clearing"
             ELSE IF local[p].successes < SuccessThreshold THEN "upserting"
             ELSE "unmarking")
  /\ UNCHANGED <<good, local, shared>>

Unmark(p) ==
  /\ pc[p] = "unmarking"
  /\ triggered' = FALSE
  /\ Goto(p, "deleting")
  /\ UNCHANGED <<good, local, successes, failures, row, silence, mail, disturbed>>

\* Slip: the row of a resolved alert stays.
DeleteForgotten(p) ==
  /\ pc[p] = "deleting"
  /\ Goto(p, IF SendOnResolved THEN "reporting" ELSE "clearing")
  /\ UNCHANGED <<good, local, shared>>

Delete(p) ==
  /\ pc[p] = "deleting"
  /\ \E ok \in Outcomes : row' = (row /\ ~ok) /\ disturbed' = (disturbed \/ ~ok)
  /\ Goto(p, IF SendOnResolved THEN "reporting" ELSE "clearing")
  /\ UNCHANGED <<good, local, successes, failures, triggered, silence, mail>>

Report(p) ==
  /\ pc[p] = "reporting"
  /\ \E delivered \in BOOLEAN : mail' = IF delivered THEN "resolved" ELSE mail
  /\ Goto(p, "clearing")
  /\ UNCHANGED <<good, local, successes, failures, triggered, row, silence, disturbed>>

ClearFailures(p) ==
  /\ pc[p] = "clearing"
  /\ local' = [local EXCEPT ![p].failures = 0]
  /\ Goto(p, "writeSuccesses")
  /\ UNCHANGED <<good, shared>>

-----------------------------------------------------------------------------
(* The counters are copied back, one after the other.                      *)

WriteSuccesses(p) ==
  /\ pc[p] = "writeSuccesses"
  /\ successes' = local[p].successes
  /\ Goto(p, "writeFailures")
  /\ UNCHANGED <<good, local, failures, triggered, row, silence, mail, disturbed>>

\* Slip: only the number of successes is copied back.
WriteFailuresForgotten(p) ==
  /\ pc[p] = "writeFailures"
  /\ Goto(p, "idle")
  /\ UNCHANGED <<good, local, shared>>

WriteFailures(p) ==
  /\ pc[p] = "writeFailures"
  /\ failures' = local[p].failures
  /\ Goto(p, "idle")
  /\ UNCHANGED <<good, local, successes, triggered, row, silence, mail, disturbed>>

Tick ==
  /\ silence < AgeCap
  /\ silence' = silence + 1
  /\ UNCHANGED <<pc, good, local, successes, failures, triggered, row, mail, disturbed>>

-----------------------------------------------------------------------------
Init ==
  /\ pc = [p \in Actors |-> "idle"]
  /\ good = [p \in Actors |-> FALSE]
  /\ local = [p \in Actors |-> [successes |-> 0, failures |-> 0]]
  /\ successes = 0 /\ failures = 0
  /\ triggered = FALSE /\ row = FALSE
  /\ silence = AgeCap  \* no result yet
  /\ mail = "none" /\ disturbed = FALSE

Alert(p) ==
  \/ Count(p) \/ Trigger(p) \/ Send(p) \/ SendFails(p) \/ Mark(p) \/ Upsert(p)
  \/ Resolve(p) \/ Unmark(p) \/ Delete(p) \/ Report(p) \/ ClearFailures(p)

Step(p) ==
  \/ HeartbeatReceived(p) \/ HeartbeatMissed(p)
  \/ Insert(p) \/ InsertFails(p) \/ UnderMaintenance(p)
  \/ Alert(p)
  \/ WriteSuccesses(p) \/ WriteFailures(p)

Next == Tick \/ \E p \in Actors : Push(p) \/ Beat(p) \/ Step(p)

Spec == Init /\ [][Next]_vars

(* The heartbeat's ticker never stops, a handler that has begun finishes,  *)
(* time passes and maintenance windows end, the store answers now and      *)
(* then, and a provider that is tried over and over ends up accepting.     *)
(* Nobody has to push.                                                     *)
FairSpec ==
  /\ Spec
  /\ WF_vars(Tick)
  /\ \A p \in Actors : /\ WF_vars(Beat(p)) /\ WF_vars(Step(p))
                       /\ SF_vars(Count(p)) /\ SF_vars(Send(p))

-----------------------------------------------------------------------------
(* Properties *)

(* Somebody has sent the alert, and it is not resolved yet.                *)
Open == triggered \/ row \/ \E p \in Actors : pc[p] = "marking"

(* alert.go:64-66: Triggered "is used to prevent the same alert from going *)
(* out twice".  It does as long as no two handlers overlap, although every *)
(* one of them works on a temporary endpoint.                              *)
SentOnce ==
  [][\A p \in Actors :
       (pc[p] = "sendInitial" /\ pc'[p] = "marking") => disturbed \/ ~Open]_vars

(* Between two handlers that did not overlap, the counters describe one    *)
(* run of results, the row is there exactly while the alert is triggered,  *)
(* and a triggered alert was announced and is overdue by no success:       *)
(* nothing is lost on the way through the temporary endpoint.              *)
ConsistentAtRest ==
  AtRest /\ ~disturbed =>
    /\ successes = 0 \/ failures = 0
    /\ row <=> triggered
    /\ triggered => mail \in {"triggered", "reminder"} /\ successes < SuccessThreshold

(* external_endpoint.go:74-82 in api: a handler that has counted a failure *)
(* leaves exactly one failure more behind and no success, unless another   *)
(* one interfered: what it counts in the temporary endpoint reaches the    *)
(* next one.                                                               *)
CountersAccumulate ==
  [][\A p \in Actors :
       (pc[p] = "writeFailures" /\ pc'[p] = "idle" /\ ~good[p])
         => disturbed \/ (failures' = Bump(failures) /\ successes' = 0)]_vars

(* README.md:339: when no update comes any more, the alert is triggered,   *)
(* whatever requests and heartbeats did to the counters before, and        *)
(* although every other heartbeat may find the result of the one before.   *)
SilenceIsAnnounced ==
  (HasHeartbeat /\ <>[](\A p \in Pushers : pc[p] = "idle")) => <>[]triggered
=============================================================================
