----------------------------- MODULE SuiteProofs -----------------------------
(***************************************************************************)
(* Proofs about Suite, for any number of endpoints, whichever of them      *)
(* always run, whatever they store and use, any number of executions and   *)
(* a timer that fires at any time.                                         *)
(***************************************************************************)
EXTENDS Suite, TLAPS

(* The timer has been drained exactly by the step that counted the error.  *)
ErrorsInv == errors = IF timer = "drained" THEN 1 ELSE 0

(* While the loop is at an endpoint, the results are those of endpoints    *)
(* before it: of all of them as long as none has failed, and of those that *)
(* always run anyway.                                                      *)
LoopInv ==
  phase \in {"looping", "evaluating"} =>
    /\ \A i \in ResultIndexes : results[i].endpoint < at
    /\ \A e \in 1..(at - 1) : ~hasFailed \/ e \in AlwaysRun => e \in Evaluated
    /\ hasFailed <=> \E i \in ResultIndexes : ~results[i].success
    /\ phase = "evaluating" => at \in Endpoints /\ ~Skipped(at)

(* A value that the context has now was stored by an endpoint that this    *)
(* execution has evaluated, or is one of those that the suite defines.     *)
ContextInv ==
  phase \in {"looping", "evaluating"} =>
    /\ run \in 1..MaxRuns
    /\ \A k \in Keys : context[k] # Absent =>
         k \in InitialKeys \/ \E j \in ResultIndexes : k \in Stores[results[j].endpoint]

SuiteInv ==
  /\ TypeOK /\ ErrorsInv /\ LoopInv /\ ContextInv
  /\ CleanupRuns /\ StopsAtFirstFailure /\ SuccessMeansAllPassed /\ NoStaleValue

-----------------------------------------------------------------------------
(* The results so far, one by one.                                         *)
LEMMA ResultTypes ==
  ASSUME TypeOK
  PROVE  /\ Len(results) \in Nat
         /\ \A i \in ResultIndexes : /\ i \in Nat
                                     /\ results[i].endpoint \in Endpoints
                                     /\ results[i].called \in BOOLEAN
                                     /\ results[i].success \in BOOLEAN
<1>1. Len(results) \in Nat /\ \A i \in 1..Len(results) : results[i] \in EndpointResult
  BY DEF TypeOK
<1>2. ASSUME NEW i \in ResultIndexes
      PROVE  i \in Nat /\ results[i] \in EndpointResult
  BY <1>1, <1>2 DEF ResultIndexes
<1> QED
  BY <1>1, <1>2 DEF EndpointResult

(* Evaluate appends the result of the endpoint at hand and leaves those    *)
(* before it alone.                                                        *)
LEMMA EvaluateEffect ==
  ASSUME TypeOK, LoopInv, Evaluate
  PROVE  /\ at \in Endpoints /\ at' = at + 1 /\ phase' = "looping"
         /\ results' \in Seq(EndpointResult)
         /\ ResultIndexes' = ResultIndexes \cup {Len(results) + 1}
         /\ \A i \in ResultIndexes : results'[i] = results[i] /\ i < Len(results) + 1 /\ i \in Nat
         /\ results'[Len(results) + 1].endpoint = at
         /\ results'[Len(results) + 1].called = Resolved(at)
         /\ results'[Len(results) + 1].success \in BOOLEAN
         /\ hasFailed' = (hasFailed \/ ~results'[Len(results) + 1].success)
         /\ Evaluated' = Evaluated \cup {at}
<1>1. at \in Endpoints
  BY DEF LoopInv, Evaluate
<1>2. PICK passed \in BOOLEAN :
        /\ results' = Append(results, [endpoint |-> at, called |-> Resolved(at), success |-> passed])
        /\ Fail(passed)
  BY DEF Evaluate
<1> DEFINE new == [endpoint |-> at, called |-> Resolved(at), success |-> passed]
<1>3. new \in EndpointResult
  <2>1. Resolved(at) \in BOOLEAN
    BY DEF Resolved
  <2> QED
    BY <1>1, <2>1 DEF EndpointResult
<1>4. results \in Seq(EndpointResult) /\ Len(results) \in Nat
  BY DEF TypeOK
<1> HIDE DEF new
<1>5. /\ results' \in Seq(EndpointResult)
      /\ Len(results') = Len(results) + 1
      /\ \A i \in 1..Len(results) : results'[i] = results[i]
      /\ results'[Len(results) + 1] = new
  BY <1>2, <1>3, <1>4 DEF new
<1>6. ResultIndexes' = ResultIndexes \cup {Len(results) + 1}
  BY <1>4, <1>5 DEF ResultIndexes
<1>7. \A i \in ResultIndexes : results'[i] = results[i] /\ i < Len(results) + 1 /\ i \in Nat
  BY <1>4, <1>5 DEF ResultIndexes
<1>8. new.endpoint = at /\ new.called = Resolved(at) /\ new.success = passed
  BY DEF new
<1>9. Evaluated' = Evaluated \cup {at}
  BY <1>5, <1>6, <1>7, <1>8 DEF Evaluated
<1> QED
  BY <1>1, <1>2, <1>5, <1>6, <1>7, <1>8, <1>9 DEF Evaluate, Fail

(* Every variable of the execution keeps to its range, and the number of   *)
(* errors tells whether the timer was seen to fire.                        *)
LEMMA TypeStep ==
  ASSUME TypeOK, ErrorsInv, LoopInv, ContextInv, [Next]_vars
  PROVE  TypeOK' /\ ErrorsInv'
<1> USE DEF TypeOK, ErrorsInv
<1> USE EndpointAssumption, BoundAssumption DEF Endpoints
<1>1. CASE Begin
  <2>1. FreshContext \in [Keys -> {Initial, Absent} \cup 1..MaxRuns]
    BY DEF FreshContext
  <2>2. <<>> \in Seq(EndpointResult)
    OBVIOUS
  <2>3. hasFailed' \in BOOLEAN /\ success' \in BOOLEAN
    BY <1>1 DEF Begin
  <2> QED
    BY <1>1, <2>1, <2>2, <2>3 DEF Begin
<1>2. CASE TimerFires
  BY <1>2 DEF TimerFires
<1>3. CASE Skip
  BY <1>3 DEF Skip
<1>4. CASE TimedOut
  <2>1. success' \in BOOLEAN
    BY <1>4 DEF TimedOut
  <2> QED
    BY <1>4, <2>1 DEF TimedOut
<1>5. CASE InTime
  BY <1>5 DEF InTime
<1>6. CASE Evaluate
  <2>1. context' \in [Keys -> {Initial, Absent} \cup 1..MaxRuns]
    BY <1>6 DEF Evaluate, ContextInv
  <2>2. success' \in BOOLEAN /\ hasFailed' \in BOOLEAN
    BY <1>6 DEF Evaluate, Fail
  <2>3. at' \in 1..(N + 1) /\ results' \in Seq(EndpointResult) /\ phase' = "looping"
    BY <1>6, EvaluateEffect
  <2>4. UNCHANGED <<run, timer, errors, failures>>
    BY <1>6 DEF Evaluate
  <2> QED
    BY <2>1, <2>2, <2>3, <2>4
<1>7. CASE CalculateSuccess
  BY <1>7 DEF CalculateSuccess, Succeeded, AllSucceeded
<1>8. CASE Store
  BY <1>8 DEF Store
<1>9. CASE HandleAlerting
  BY <1>9 DEF HandleAlerting, Bump
<1>10. CASE LeaveAlone
  BY <1>10 DEF LeaveAlone
<1>11. CASE End
  BY <1>11 DEF End
<1>12. CASE UNCHANGED vars
  BY <1>12 DEF vars
<1> QED
  BY <1>1, <1>2, <1>3, <1>4, <1>5, <1>6, <1>7, <1>8, <1>9, <1>10, <1>11, <1>12 DEF Next

(* What the loop knows of the endpoints behind it, of the values in the    *)
(* context and of the order of the results.                                *)
LEMMA LoopStep ==
  ASSUME TypeOK, LoopInv, ContextInv, StopsAtFirstFailure, NoStaleValue, [Next]_vars
  PROVE  LoopInv' /\ ContextInv' /\ StopsAtFirstFailure' /\ NoStaleValue'
<1> USE DEF LoopInv, ContextInv, StopsAtFirstFailure, NoStaleValue
<1>1. CASE Begin
  <2>1. ResultIndexes' = {}
    BY <1>1 DEF Begin, ResultIndexes
  <2>2. \A k \in Keys : context'[k] \in {Absent, Initial} /\ (context'[k] # Absent => k \in InitialKeys)
    BY <1>1 DEF Begin, FreshContext
  <2>3. run' \in 1..MaxRuns
    BY <1>1, BoundAssumption DEF Begin, TypeOK
  <2>4. hasFailed' = FALSE /\ at' = 1 /\ phase' = "looping"
    BY <1>1 DEF Begin
  <2> QED
    BY <2>1, <2>2, <2>3, <2>4
<1>2. CASE TimerFires
  BY <1>2 DEF TimerFires, ResultIndexes, Evaluated, Skipped
<1>3. CASE Skip
  <2>1. UNCHANGED <<ResultIndexes, Evaluated, results, context, run, hasFailed, phase>> /\ at' = at + 1
    BY <1>3 DEF Skip, ResultIndexes, Evaluated
  <2>2. hasFailed /\ at \notin AlwaysRun /\ phase = "looping" /\ at \in 1..N
    BY <1>3 DEF Skip, Skipped, Endpoints
  <2>3. \A i \in ResultIndexes : results[i].endpoint < at'
    <3>1. \A i \in ResultIndexes : results[i].endpoint \in Int
      BY ResultTypes, EndpointAssumption DEF Endpoints
    <3> QED
      BY <2>1, <2>2, <3>1
  <2>4. \A e \in 1..(at' - 1) : e = at \/ e \in 1..(at - 1)
    BY <2>1, <2>2
  <2> QED
    BY <2>1, <2>2, <2>3, <2>4 DEF Evaluated
<1>4. CASE TimedOut \/ InTime
  BY <1>4 DEF TimedOut, InTime, ResultIndexes, Evaluated, Skipped
<1>5. CASE Evaluate
  <2> DEFINE last == Len(results) + 1
  <2> USE EvaluateEffect
  <2>1. phase = "evaluating" /\ at \in 1..N /\ ~Skipped(at)
    BY <1>5 DEF Evaluate, Endpoints
  <2>2. \A i \in ResultIndexes : results[i].endpoint \in Int /\ results[i].success \in BOOLEAN
    BY ResultTypes, EndpointAssumption DEF Endpoints
  <2>3. LoopInv'
    <3>1. \A i \in ResultIndexes' : results'[i].endpoint < at'
      BY <1>5, <2>1, <2>2
    <3>2. \A e \in 1..(at' - 1) : e = at \/ e \in 1..(at - 1)
      BY <1>5, <2>1
    <3>3. \A e \in 1..(at' - 1) : ~hasFailed' \/ e \in AlwaysRun => e \in Evaluated'
      BY <1>5, <2>1, <3>2
    <3>4. hasFailed' <=> \E i \in ResultIndexes' : ~results'[i].success
      BY <1>5, <2>1
    <3> QED
      BY <1>5, <3>1, <3>3, <3>4
  <2>4. StopsAtFirstFailure'
    <3> SUFFICES ASSUME NEW i \in ResultIndexes', NEW j \in ResultIndexes', i < j
                 PROVE  /\ results'[i].endpoint < results'[j].endpoint
                        /\ ~results'[i].success => results'[j].endpoint \in AlwaysRun
      OBVIOUS
    <3>1. CASE j \in ResultIndexes
      <4>1. i \in ResultIndexes
        BY <1>5, <3>1
      <4> QED
        BY <1>5, <3>1, <4>1
    <3>2. CASE j = last
      <4>1. i \in ResultIndexes
        BY <1>5, <3>2
      <4> QED
        BY <1>5, <2>1, <3>2, <4>1 DEF Skipped
    <3> QED
      BY <1>5, <3>1, <3>2
  <2>5. ContextInv' /\ NoStaleValue'
    <3>1. PICK extracted \in SUBSET Stores[at] :
            context' = [k \in Keys |-> IF k \in extracted THEN run ELSE context[k]]
      BY <1>5 DEF Evaluate
    <3>2. run' = run
      BY <1>5 DEF Evaluate
    <3>3. \A k \in Keys : context'[k] \in {Absent, Initial, run'}
      BY <2>1, <3>1, <3>2
    <3>4. \A k \in Keys : context'[k] # Absent =>
            k \in InitialKeys \/ \E j \in ResultIndexes' : k \in Stores[results'[j].endpoint]
      BY <1>5, <2>1, <3>1
    <3>5. ASSUME NEW i \in ResultIndexes', results'[i].called, NEW k \in Uses[results'[i].endpoint]
          PROVE  k \in InitialKeys \/ \E j \in 1..(i - 1) : k \in Stores[results'[j].endpoint]
      <4>1. CASE i \in ResultIndexes
        <5>1. results'[i] = results[i] /\ \A j \in 1..(i - 1) : results'[j] = results[j]
          BY <1>5, <4>1 DEF ResultIndexes
        <5>2. k \in InitialKeys \/ \E j \in 1..(i - 1) : k \in Stores[results[j].endpoint]
          BY <2>1, <3>5, <4>1, <5>1
        <5> QED
          BY <5>1, <5>2
      <4>2. CASE i = last
        <5>1. k \in Keys /\ context[k] # Absent
          BY <1>5, <2>1, <3>5, <4>2, KeyAssumption DEF Resolved, Endpoints
        <5>2. 1..(i - 1) = ResultIndexes
          BY <4>2 DEF ResultIndexes, TypeOK
        <5> QED
          BY <1>5, <2>1, <5>1, <5>2
      <4> QED
        BY <1>5, <4>1, <4>2
    <3> QED
      BY <2>1, <3>2, <3>3, <3>4, <3>5
  <2> QED
    BY <2>3, <2>4, <2>5
<1>6. CASE CalculateSuccess
  BY <1>6 DEF CalculateSuccess, ResultIndexes, Evaluated, Skipped
<1>7. CASE Store \/ HandleAlerting \/ LeaveAlone \/ End
  BY <1>7 DEF Store, HandleAlerting, LeaveAlone, End, ResultIndexes, Evaluated, Skipped
<1>8. CASE UNCHANGED vars
  BY <1>8 DEF vars, ResultIndexes, Evaluated, Skipped
<1> QED
  BY <1>1, <1>2, <1>3, <1>4, <1>5, <1>6, <1>7, <1>8 DEF Next

(* What the result says once the loop is over.                             *)
LEMMA DoneStep ==
  ASSUME TypeOK, ErrorsInv, LoopInv, CleanupRuns, SuccessMeansAllPassed, [Next]_vars
  PROVE  CleanupRuns' /\ SuccessMeansAllPassed'
<1> USE DEF CleanupRuns, SuccessMeansAllPassed, Done
<1>1. CASE CalculateSuccess
  <2>1. phase = "looping" /\ 1..(at - 1) = Endpoints
    BY <1>1, EndpointAssumption DEF CalculateSuccess, Endpoints
  <2>2. UNCHANGED <<ResultIndexes, Evaluated, results, timer>>
    BY <1>1 DEF CalculateSuccess, ResultIndexes, Evaluated
  <2>3. AlwaysRun \subseteq Evaluated
    BY <2>1, EndpointAssumption DEF LoopInv
  <2>4. Evaluated \subseteq Endpoints
    BY ResultTypes DEF Evaluated
  <2>5. (\A i \in ResultIndexes : results[i].success) => Evaluated = Endpoints
    BY <2>1, <2>4 DEF LoopInv
  <2>6. success' <=> (\A i \in ResultIndexes : results[i].success) /\ timer # "drained"
    <3>1. errors = 0 <=> timer # "drained"
      BY DEF ErrorsInv
    <3>2. success' = ((\A i \in ResultIndexes : results[i].success) /\ errors = 0)
      BY <1>1 DEF CalculateSuccess, Succeeded, AllSucceeded, ResultIndexes
    <3> QED
      BY <3>1, <3>2
  <2> QED
    BY <2>2, <2>3, <2>5, <2>6
<1>2. CASE Store \/ HandleAlerting \/ LeaveAlone
  BY <1>2 DEF Store, HandleAlerting, LeaveAlone, ResultIndexes, Evaluated
<1>3. CASE Begin \/ TimerFires \/ Skip \/ TimedOut \/ InTime \/ Evaluate \/ End
  <2>1. ~Done'
    BY <1>3 DEF Begin, TimerFires, Skip, TimedOut, InTime, Evaluate, End
  <2> QED
    BY <2>1
<1>4. CASE UNCHANGED vars
  BY <1>4 DEF vars, ResultIndexes, Evaluated
<1> QED
  BY <1>1, <1>2, <1>3, <1>4 DEF Next

(* The inductive invariant of the execution.                               *)
THEOREM SuiteInvariant == Spec => []SuiteInv
<1>1. Init => SuiteInv
  <2> SUFFICES ASSUME Init PROVE SuiteInv
    OBVIOUS
  <2>1. results = <<>> /\ Len(results) = 0 /\ ResultIndexes = {} /\ Evaluated = {}
    BY DEF Init, ResultIndexes, Evaluated
  <2>2. TypeOK
    <3>1. FreshContext \in [Keys -> {Initial, Absent} \cup 1..MaxRuns]
      BY DEF FreshContext
    <3>2. <<>> \in Seq(EndpointResult)
      OBVIOUS
    <3>3. hasFailed \in BOOLEAN /\ success \in BOOLEAN
      BY DEF Init
    <3> QED
      BY <3>1, <3>2, <3>3, EndpointAssumption, BoundAssumption DEF Init, TypeOK, Endpoints
  <2> QED
    BY <2>1, <2>2
    DEF Init, SuiteInv, ErrorsInv, LoopInv, ContextInv, CleanupRuns, Done,
        StopsAtFirstFailure, SuccessMeansAllPassed, NoStaleValue
<1>2. SuiteInv /\ [Next]_vars => SuiteInv'
  BY TypeStep, LoopStep, DoneStep DEF SuiteInv
<1> QED
  BY <1>1, <1>2, PTL DEF Spec

(* endpoint.go:153-155: whatever fails or times out, an always-run         *)
(* endpoint is evaluated in every execution.                               *)
THEOREM CleanupAlwaysRuns == Spec => []CleanupRuns
<1>1. SuiteInv => CleanupRuns
  BY DEF SuiteInv
<1> QED
  BY <1>1, SuiteInvariant, PTL

(* suite.go:133-136: after the first failure only always-run endpoints are *)
(* evaluated, and all results come in the order of the configuration.      *)
THEOREM FailureStopsTheRest == Spec => []StopsAtFirstFailure
<1>1. SuiteInv => StopsAtFirstFailure
  BY DEF SuiteInv
<1> QED
  BY <1>1, SuiteInvariant, PTL

(* result.go:17: a suite is successful exactly if all of its endpoints     *)
(* were evaluated and succeeded, and it was not seen to time out.          *)
THEOREM SuccessIsEarned == Spec => []SuccessMeansAllPassed
<1>1. SuiteInv => SuccessMeansAllPassed
  BY DEF SuiteInv
<1> QED
  BY <1>1, SuiteInvariant, PTL

(* gontext.go:22-34: an endpoint is called only with values that this      *)
(* execution stored before or the configuration defines.                   *)
THEOREM ValuesAreFresh == Spec => []NoStaleValue
<1>1. SuiteInv => NoStaleValue
  BY DEF SuiteInv
<1> QED
  BY <1>1, SuiteInvariant, PTL
=============================================================================
