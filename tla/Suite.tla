-------------------------------- MODULE Suite --------------------------------
(***************************************************************************)
(* One suite: the goroutine of monitorSuite executes it over and over,     *)
(* each time evaluating its endpoints one after the other with a context   *)
(* that later endpoints read and earlier ones write (Suite.Execute), then  *)
(* storing the result and handling the alerts of its endpoints             *)
(* (watchdog.executeSuite).                                                *)
(***************************************************************************)
EXTENDS Integers, Sequences

CONSTANTS
  N,           \* number of endpoints; an endpoint is its position
  AlwaysRun,   \* the endpoints with always-run: true
  Keys,        \* keys of the context
  InitialKeys, \* those that the suite's own context defines
  Uses,        \* Uses[e]: keys in e's URL, body or headers
  Stores,      \* Stores[e]: keys of e's store
  MaxRuns,     \* bound on the number of executions
  CounterCap   \* the counters of the alerts saturate here

Endpoints == 1..N

ASSUME EndpointAssumption ==
  /\ N \in Nat \ {0}
  /\ AlwaysRun \subseteq Endpoints
ASSUME KeyAssumption ==
  /\ InitialKeys \subseteq Keys
  /\ Uses \in [Endpoints -> SUBSET Keys]
  /\ Stores \in [Endpoints -> SUBSET Keys]
ASSUME BoundAssumption == MaxRuns \in Nat /\ CounterCap \in Nat \ {0}

VARIABLES
  phase,     \* "idle", "looping", "evaluating", "storing" or "alerting"
  run,       \* how many executions have begun
  at,        \* index of the loop under way
  hasFailed, \* suiteHasFailed
  timer,     \* timeoutChan: "armed", "fired" or "drained"
  context,   \* context[k]: the execution that stored k, Initial or Absent
  results,   \* Result.EndpointResults
  errors,    \* number of Result.Errors
  success,   \* Result.Success
  failures   \* failures[e]: NumberOfFailuresInARow of e

vars == <<phase, run, at, hasFailed, timer, context, results, errors, success, failures>>

Initial == 0
Absent == -1
FreshContext == [k \in Keys |-> IF k \in InitialKeys THEN Initial ELSE Absent]

(* called: all placeholders were resolved, so that the endpoint is called. *)
EndpointResult == [endpoint : Endpoints, called : BOOLEAN, success : BOOLEAN]

TypeOK ==
  /\ phase \in {"idle", "looping", "evaluating", "storing", "alerting"}
  /\ run \in 0..MaxRuns
  /\ at \in 1..(N + 1)
  /\ hasFailed \in BOOLEAN
  /\ timer \in {"armed", "fired", "drained"}
  /\ context \in [Keys -> {Initial, Absent} \cup 1..MaxRuns]
  /\ results \in Seq(EndpointResult)
  /\ errors \in 0..1
  /\ success \in BOOLEAN
  /\ failures \in [Endpoints -> 0..CounterCap]

-----------------------------------------------------------------------------
(* Execute *)

\* Slip: the context of the previous execution is used again.
BeginWithOldContext ==
  /\ phase = "idle" /\ run < MaxRuns
  /\ phase' = "looping"
  /\ run' = run + 1 /\ at' = 1
  /\ hasFailed' = FALSE /\ timer' = "armed"
  /\ results' = <<>> /\ errors' = 0 /\ success' = TRUE
  /\ UNCHANGED <<context, failures>>

Begin ==
  /\ phase = "idle" /\ run < MaxRuns
  /\ phase' = "looping"
  /\ run' = run + 1 /\ at' = 1
  /\ hasFailed' = FALSE /\ timer' = "armed"
  /\ context' = FreshContext
  /\ results' = <<>> /\ errors' = 0 /\ success' = TRUE
  /\ UNCHANGED failures

(* time.After: the timer of the suite fires, whatever is going on.         *)
TimerFires ==
  /\ phase \in {"looping", "evaluating"} /\ timer = "armed"
  /\ timer' = "fired"
  /\ UNCHANGED <<phase, run, at, hasFailed, context, results, errors, success, failures>>

\* Slip: a failed suite skips everything that is left.
SkippedAll(e) == hasFailed

Skipped(e) == hasFailed /\ e \notin AlwaysRun

Skip ==
  /\ phase = "looping" /\ at \in Endpoints /\ Skipped(at)
  /\ at' = at + 1
  /\ UNCHANGED <<phase, run, hasFailed, timer, context, results, errors, success, failures>>

(* The select: the break leaves the select, not the loop, so that the      *)
(* endpoint is evaluated nevertheless; the channel delivers only once.     *)
TimedOut ==
  /\ phase = "looping" /\ at \in Endpoints /\ ~Skipped(at)
  /\ timer = "fired"
  /\ timer' = "drained"
  /\ errors' = errors + 1 /\ success' = FALSE
  /\ phase' = "evaluating"
  /\ UNCHANGED <<run, at, hasFailed, context, results, failures>>

InTime ==
  /\ phase = "looping" /\ at \in Endpoints /\ ~Skipped(at)
  /\ timer # "fired"
  /\ phase' = "evaluating"
  /\ UNCHANGED <<run, at, hasFailed, timer, context, results, errors, success, failures>>

(* preprocessWithContext: a placeholder without a value is an error, and   *)
(* an endpoint with errors is not called.                                  *)
Resolved(e) == \A k \in Uses[e] : context[k] # Absent

\* Slip: the failure is not remembered for the endpoints that follow.
FailForgotten(passed) == success' = (success /\ passed) /\ UNCHANGED hasFailed

Fail(passed) == success' = (success /\ passed) /\ hasFailed' = (hasFailed \/ ~passed)

(* The result is a success only if the endpoint was called and met its     *)
(* conditions.  Values are stored either way; one that cannot be extracted *)
(* adds an error to the result and leaves its success alone.               *)
Evaluate ==
  /\ phase = "evaluating"
  /\ phase' = "looping"
  /\ at' = at + 1
  /\ \E passed \in BOOLEAN, extracted \in SUBSET Stores[at] :
       /\ passed => Resolved(at)
       /\ context' = [k \in Keys |-> IF k \in extracted THEN run ELSE context[k]]
       /\ results' = Append(results, [endpoint |-> at, called |-> Resolved(at),
                                      success |-> passed])
       /\ Fail(passed)
  /\ UNCHANGED <<run, timer, errors, failures>>

\* Slip: the errors of the suite itself are left out.
AllSucceeded == \A i \in 1..Len(results) : results[i].success

(* CalculateSuccess                                                        *)
Succeeded == AllSucceeded /\ errors = 0

CalculateSuccess ==
  /\ phase = "looping" /\ at = N + 1
  /\ success' = Succeeded
  /\ phase' = "storing"
  /\ UNCHANGED <<run, at, hasFailed, timer, context, results, errors, failures>>

-----------------------------------------------------------------------------
(* executeSuite *)

(* UpdateSuiteStatus only logs an error.                                   *)
Store ==
  /\ phase = "storing"
  /\ phase' = "alerting" /\ at' = 1
  /\ UNCHANGED <<run, hasFailed, timer, context, results, errors, success, failures>>

Bump(n) == IF n < CounterCap THEN n + 1 ELSE n

(* Endpoint at and the result at the same index; HandleAlerting counts a   *)
(* failure in a row or forgets those there were.                           *)
HandleAlerting ==
  /\ phase = "alerting" /\ at \in Endpoints /\ at <= Len(results)
  /\ failures' = [failures EXCEPT ![at] = IF results[at].success THEN 0 ELSE Bump(@)]
  /\ at' = at + 1
  /\ UNCHANGED <<phase, run, hasFailed, timer, context, results, errors, success>>

(* No result at this index, no alerting or a maintenance window.           *)
LeaveAlone ==
  /\ phase = "alerting" /\ at \in Endpoints
  /\ at' = at + 1
  /\ UNCHANGED <<phase, run, hasFailed, timer, context, results, errors, success, failures>>

End ==
  /\ phase = "alerting" /\ at = N + 1
  /\ phase' = "idle"
  /\ UNCHANGED <<run, at, hasFailed, timer, context, results, errors, success, failures>>

-----------------------------------------------------------------------------
Init ==
  /\ phase = "idle" /\ run = 0 /\ at = 1
  /\ hasFailed = FALSE /\ timer = "armed"
  /\ context = FreshContext
  /\ results = <<>> /\ errors = 0 /\ success = TRUE
  /\ failures = [e \in Endpoints |-> 0]

Next ==
  \/ Begin \/ TimerFires \/ Skip \/ TimedOut \/ InTime \/ Evaluate \/ CalculateSuccess
  \/ Store \/ HandleAlerting \/ LeaveAlone \/ End

Spec == Init /\ [][Next]_vars

-----------------------------------------------------------------------------
(* Properties *)

Done == phase \in {"storing", "alerting"}
ResultIndexes == 1..Len(results)
Evaluated == {results[i].endpoint : i \in ResultIndexes}

(* endpoint.go:153-155 and README.md:456: whatever fails or times out, an  *)
(* always-run endpoint is evaluated in every execution.                    *)
CleanupRuns == Done => AlwaysRun \subseteq Evaluated

(* suite.go:133-136: after the first failure only always-run endpoints are *)
(* evaluated, each endpoint once and in the order of the configuration.    *)
StopsAtFirstFailure ==
  \A i, j \in ResultIndexes :
    i < j => /\ results[i].endpoint < results[j].endpoint
             /\ ~results[i].success => results[j].endpoint \in AlwaysRun

(* result.go:17 and README.md: the suite is successful only if all of its  *)
(* endpoints were evaluated and succeeded, and it was not seen to time out *)
(* (skipping an endpoint never makes a suite look healthy).                *)
SuccessMeansAllPassed ==
  Done => (success <=> /\ Evaluated = Endpoints
                       /\ \A i \in ResultIndexes : results[i].success
                       /\ timer # "drained")

(* gontext.go:22-34 and endpoint.go:402-420: an endpoint is called only    *)
(* with values that this execution stored before or the configuration      *)
(* defines, never with those of an earlier execution.                      *)
NoStaleValue ==
  phase \in {"looping", "evaluating"} =>
    /\ \A k \in Keys : context[k] \in {Absent, Initial, run}
    /\ \A i \in ResultIndexes : results[i].called =>
         \A k \in Uses[results[i].endpoint] :
           k \in InitialKeys \/ \E j \in 1..(i - 1) : k \in Stores[results[j].endpoint]

(* suite.go:49 and README.md:393: no endpoint is evaluated after the       *)
(* maximum duration of the execution.                                      *)
TimeoutEnforced ==
  [][(phase = "looping" /\ phase' = "evaluating") => timer # "fired"]_vars

(* watchdog/suite.go:55 and README.md:399: the alerts of an endpoint are   *)
(* handled with its own result.                                            *)
OwnResultCounted ==
  [][\A e \in Endpoints : failures'[e] > failures[e] =>
       \E i \in ResultIndexes : results[i].endpoint = e /\ ~results[i].success]_vars
=============================================================================
