-------------------------- MODULE AlertingProofs ----------------------------
(***************************************************************************)
(* Proofs about Alerting, for every number of alerts, every thresholds,    *)
(* reminder intervals and configurations, any number of crashes, and both  *)
(* kinds of store.                                                         *)
(***************************************************************************)
EXTENDS Alerting, TLAPS

(* A saturated counter stays within its bound.                             *)
LEMMA BumpType == ASSUME NEW n \in Counters PROVE Bump(n) \in Counters
  BY CapAssumption DEF Bump, Counters

(* So does a saturated age.                                                *)
LEMMA OlderType == ASSUME NEW t \in Ages PROVE Older(t) \in Ages
  BY CapAssumption DEF Older, Ages

(* The thresholds are counters that a result can reach.                    *)
LEMMA ThresholdType ==
  ASSUME NEW a \in Alerts
  PROVE  FailureThreshold[a] \in Counters /\ Checksum[a] \in Checksums
  BY CapAssumption, ThresholdAssumption DEF Counters, Checksums

(* An upsert and a delete leave a well-formed table.                       *)
LEMMA RowType ==
  ASSUME TypeOK, NEW a \in Alerts
  PROVE  /\ Upsert(a) => row' \in [Checksums -> Counters \cup {NoRow}]
         /\ Delete(a) => row' \in [Checksums -> Counters \cup {NoRow}]
  BY ThresholdType DEF TypeOK, Upsert, Delete

(* Every variable of the handler, the store and the inbox keeps to its     *)
(* range.                                                                  *)
THEOREM TypeCorrect == Spec => []TypeOK
<1>1. Init => TypeOK
  BY CapAssumption, CountAssumption, FlagAssumption
  DEF Init, TypeOK, Alerts, Counters, Ages, Notifications, Places, NoRow
<1>2. ASSUME TypeOK, [Next]_vars PROVE TypeOK'
  <2> USE <1>2 DEF TypeOK
  <2> cur \in Alerts => cur + 1 \in 1..(AlertCount + 1)
    BY CountAssumption DEF Alerts
  <2> 1 \in 1..(AlertCount + 1)
    BY CountAssumption
  <2> 0 \in Counters /\ 0 \in Ages /\ AgeCap \in Ages
    BY CapAssumption DEF Counters, Ages
  <2>1. CASE Fail
    BY <2>1, BumpType DEF Fail, Places
  <2>2. CASE SkipTrigger
    BY <2>2 DEF SkipTrigger, AdvanceTo, memory, Places
  <2>3. CASE SendFails
    BY <2>3 DEF SendFails, AdvanceTo, memory, Places
  <2>4. CASE SendSucceeds
    BY <2>4 DEF SendSucceeds, Places, Notifications
  <2>5. CASE PersistTriggered
    BY <2>5, RowType DEF PersistTriggered, AdvanceTo, memory, Places
  <2>6. CASE EndTrigger
    BY <2>6 DEF EndTrigger, memory, Places
  <2>7. CASE Succeed
    BY <2>7, BumpType DEF Succeed, Places
  <2>8. CASE SkipResolve
    BY <2>8 DEF SkipResolve, AdvanceTo, memory, Places
  <2>9. CASE PersistSuccesses
    BY <2>9, RowType DEF PersistSuccesses, AdvanceTo, memory, Places
  <2>10. CASE Resolve
    BY <2>10, RowType DEF Resolve, AdvanceTo, Places
  <2>11. CASE ReportResolved
    BY <2>11 DEF ReportResolved, AdvanceTo, memory, Places, Notifications
  <2>12. CASE EndResolve
    BY <2>12 DEF EndResolve, Places
  <2>13. CASE Crash
    BY <2>13, FlagAssumption DEF Crash, Places
  <2>14. CASE Restart
    <3>1. enabled' \in SUBSET Alerts
      BY <2>14, FlagAssumption DEF Restart
    <3>2. row' \in [Checksums -> Counters \cup {NoRow}]
      BY <2>14 DEF Restart, Kept
    <3>3. successes' \in Counters /\ failures' \in Counters /\ triggered' \in [Alerts -> BOOLEAN]
      <4>1. PICK loaded : /\ loaded \subseteq {a \in enabled' : row'[Checksum[a]] # NoRow}
                          /\ triggered' = [a \in Alerts |-> a \in loaded]
                          /\ LoadCounters(loaded)
        BY <2>14 DEF Restart
      <4>2. ASSUME NEW last \in loaded PROVE row'[Checksum[last]] \in Counters /\ FailureThreshold[last] \in Counters
        BY <3>1, <3>2, <4>1, ThresholdType
      <4> QED
        BY <4>1, <4>2 DEF LoadCounters
    <3> QED
      BY <2>14, <3>1, <3>2, <3>3 DEF Restart, Places
  <2>15. CASE Tick
    BY <2>15, OlderType DEF Tick
  <2>16. CASE UNCHANGED vars
    BY <2>16 DEF vars
  <2> QED
    BY <2>1, <2>2, <2>3, <2>4, <2>5, <2>6, <2>7, <2>8, <2>9, <2>10, <2>11, <2>12,
       <2>13, <2>14, <2>15, <2>16 DEF Next, TriggerStep, ResolveStep
<1> QED
  BY <1>1, <1>2, PTL DEF Spec

-----------------------------------------------------------------------------
(* With a store that never fails, an upsert writes exactly the row of its  *)
(* alert and a delete removes exactly that row.                            *)
LEMMA RowEffect ==
  ASSUME TypeOK, ReliableStore, DistinctChecksums, NEW a \in Alerts
  PROVE  /\ Upsert(a) => /\ Persistent => row'[Checksum[a]] # NoRow
                         /\ ~Persistent => row' = row
                         /\ \A b \in Alerts \ {a} : row'[Checksum[b]] = row[Checksum[b]]
         /\ Delete(a) => /\ row'[Checksum[a]] = NoRow
                         /\ \A b \in Alerts \ {a} : row'[Checksum[b]] = row[Checksum[b]]
<1>1. Outcomes = {TRUE}
  BY DEF Outcomes, ReliableStore
<1>2. successes # NoRow
  BY CapAssumption DEF TypeOK, Counters, NoRow
<1>3. \A b \in Alerts : Checksum[b] \in Checksums
  BY ThresholdType
<1>4. \A b \in Alerts \ {a} : Checksum[b] # Checksum[a]
  BY DEF DistinctChecksums
<1>5. Upsert(a) => row' = IF Persistent THEN [row EXCEPT ![Checksum[a]] = successes] ELSE row
  BY <1>1 DEF Upsert
<1>6. Delete(a) => row' = [row EXCEPT ![Checksum[a]] = NoRow]
  BY <1>1 DEF Delete
<1> QED
  BY <1>2, <1>3, <1>4, <1>5, <1>6 DEF TypeOK

(* After a restart, an alert is triggered exactly if its row was there and *)
(* it is still enabled.                                                    *)
LEMMA RestartEffect ==
  ASSUME TypeOK, ReliableStore, DistinctChecksums, Restart
  PROVE  \A a \in Alerts :
           /\ row'[Checksum[a]] # NoRow <=> triggered'[a]
           /\ triggered'[a] => row[Checksum[a]] # NoRow
<1>1. row' = Kept(enabled') /\ enabled' \in SUBSET Alerts
  BY FlagAssumption DEF Restart, Outcomes, ReliableStore
<1>2. triggered' = [a \in Alerts |-> a \in enabled' /\ row'[Checksum[a]] # NoRow]
  BY <1>1 DEF Restart, ReliableStore
<1>3. ASSUME NEW a \in Alerts
      PROVE  row'[Checksum[a]] = IF a \in enabled' THEN row[Checksum[a]] ELSE NoRow
  BY <1>1, ThresholdType DEF Kept, DistinctChecksums
<1> QED
  BY <1>2, <1>3

(* The rows, the Triggered flags and the delivered notifications agree at  *)
(* every step, so that what a restart loads was announced and not yet      *)
(* resolved.                                                               *)
THEOREM Consistent ==
  ASSUME ReliableStore, DistinctChecksums
  PROVE  Spec => []Consistency
<1> USE DEF Consistency, RowsMatchTriggered, TriggeredMeansAnnounced, HandlerInv, Announced
<1>1. Init => Consistency
  BY ThresholdType DEF Init, Checksums
<1>2. ASSUME TypeOK, Consistency, [Next]_vars PROVE Consistency'
  <2> USE <1>2 DEF TypeOK
  <2>1. CASE Fail
    BY <2>1 DEF Fail
  <2>2. CASE SkipTrigger \/ SendFails \/ SkipResolve
    BY <2>2 DEF SkipTrigger, SendFails, SkipResolve, AdvanceTo, memory
  <2>3. CASE SendSucceeds
    BY <2>3 DEF SendSucceeds
  <2>4. CASE PersistTriggered
    <3>1. cur \in Alerts /\ triggered[cur] /\ Upsert(cur)
      BY <2>4 DEF PersistTriggered
    <3> QED
      BY <2>4, <3>1, RowEffect DEF PersistTriggered, AdvanceTo, memory
  <2>5. CASE EndTrigger
    BY <2>5 DEF EndTrigger, memory
  <2>6. CASE Succeed
    BY <2>6 DEF Succeed
  <2>7. CASE PersistSuccesses
    <3>1. cur \in Alerts /\ triggered[cur] /\ Upsert(cur)
      BY <2>7 DEF PersistSuccesses, Ongoing
    <3> QED
      BY <2>7, <3>1, RowEffect DEF PersistSuccesses, AdvanceTo, memory
  <2>8. CASE Resolve
    <3>1. cur \in Alerts /\ triggered[cur] /\ Delete(cur)
      BY <2>8 DEF Resolve, Ongoing
    <3> QED
      BY <2>8, <3>1, RowEffect DEF Resolve, AdvanceTo
  <2>9. CASE ReportResolved
    <3>1. cur \in Alerts /\ ~triggered[cur] /\ row[Checksum[cur]] = NoRow
      BY <2>9 DEF ReportResolved
    <3> QED
      BY <2>9, <3>1 DEF ReportResolved, AdvanceTo, memory
  <2>10. CASE EndResolve
    BY <2>10 DEF EndResolve
  <2>11. CASE Crash
    BY <2>11 DEF Crash
  <2>12. CASE Restart
    BY <2>12, RestartEffect DEF Restart
  <2>13. CASE Tick
    BY <2>13 DEF Tick
  <2>14. CASE UNCHANGED vars
    BY <2>14 DEF vars
  <2> QED
    BY <2>1, <2>2, <2>3, <2>4, <2>5, <2>6, <2>7, <2>8, <2>9, <2>10, <2>11, <2>12,
       <2>13, <2>14 DEF Next, TriggerStep, ResolveStep
<1> QED
  BY <1>1, <1>2, TypeCorrect, PTL DEF Spec

(* At rest, with a store that persists, an alert is triggered exactly if   *)
(* its row is in the table: UpsertTriggeredEndpointAlert and               *)
(* DeleteTriggeredEndpointAlert leave nothing behind and forget nothing.   *)
THEOREM RowsAgree ==
  ASSUME ReliableStore, DistinctChecksums
  PROVE  Spec => []RowsMatchTriggered
<1>1. Consistency => RowsMatchTriggered
  BY DEF Consistency
<1> QED
  BY <1>1, Consistent, PTL

(* An alert that is triggered, or that a restart would load as triggered,  *)
(* was announced and not resolved since.                                   *)
THEOREM TriggeredWasAnnounced ==
  ASSUME ReliableStore, DistinctChecksums
  PROVE  Spec => []TriggeredMeansAnnounced
<1>1. Consistency => TriggeredMeansAnnounced
  BY DEF Consistency
<1> QED
  BY <1>1, Consistent, PTL

(* What an incident may do is a step of Incident.                          *)
LEMMA IncidentSteps ==
  /\ \A a \in Alerts : (\/ Incidents!Announce(a) \/ Incidents!Remind(a)
                        \/ Incidents!Close(a) \/ Incidents!ReportResolved(a)) => Incidents!Next
  /\ Incidents!Forget => Incidents!Next
  BY DEF Incidents!Next

(* Each step of the code is a step of the incidents it keeps, or leaves    *)
(* them alone: no alert goes out twice for one incident, no reminder or    *)
(* resolution goes out without one, and no restart invents one.            *)
THEOREM Implements ==
  ASSUME ReliableStore, DistinctChecksums
  PROVE  Spec => ImplementsIncident
<1> USE DEF OpenIncidents
<1>1. Init => Incidents!Init
  BY ThresholdType DEF Init, Incidents!Init, Checksums
<1>2. ASSUME TypeOK, Consistency, [Next]_vars PROVE [Incidents!Next]_(Incidents!vars)
  <2> USE <1>2 DEF TypeOK, Consistency, RowsMatchTriggered, TriggeredMeansAnnounced,
                   HandlerInv, Announced, Incidents!vars
  <2>1. CASE Fail \/ Succeed
    BY <2>1 DEF Fail, Succeed
  <2>2. CASE SkipTrigger \/ SendFails \/ SkipResolve
    BY <2>2 DEF SkipTrigger, SendFails, SkipResolve, AdvanceTo, memory
  <2>3. CASE SendSucceeds
    <3>1. PICK a \in Alerts : a = cur
      BY <2>3 DEF SendSucceeds
    <3>2. CASE triggered[a]
      <4>1. Incidents!Remind(a)
        BY <2>3, <3>1, <3>2 DEF SendSucceeds, DueInitial, Incidents!Remind
      <4> QED
        BY <4>1, IncidentSteps
    <3>3. CASE ~triggered[a]
      <4>1. Incidents!Announce(a)
        BY <2>3, <3>1, <3>3 DEF SendSucceeds, DueInitial, Incidents!Announce
      <4> QED
        BY <4>1, IncidentSteps
    <3> QED
      BY <3>2, <3>3
  <2>4. CASE PersistTriggered
    BY <2>4 DEF PersistTriggered, AdvanceTo, memory
  <2>5. CASE PersistSuccesses
    BY <2>5 DEF PersistSuccesses, AdvanceTo, memory
  <2>6. CASE EndTrigger \/ EndResolve
    BY <2>6 DEF EndTrigger, EndResolve, memory
  <2>7. CASE Resolve
    <3>1. PICK a \in Alerts : a = cur
      BY <2>7 DEF Resolve
    <3>2. pc' # "down" /\ pc # "down" /\ triggered[a]
      BY <2>7, <3>1 DEF Resolve, Ongoing, AdvanceTo
    <3>3. OpenIncidents' = OpenIncidents \ {a}
      BY <2>7, <3>1, <3>2 DEF Resolve
    <3>4. Incidents!Close(a)
      BY <2>7, <3>2, <3>3 DEF Resolve, Incidents!Close
    <3> QED
      BY <3>4, IncidentSteps
  <2>8. CASE ReportResolved
    <3>1. PICK a \in Alerts : a = cur
      BY <2>8 DEF ReportResolved
    <3>2. pc' # "down" /\ UNCHANGED triggered
      BY <2>8 DEF ReportResolved, AdvanceTo, memory
    <3>3. Incidents!ReportResolved(a) \/ UNCHANGED Incidents!vars
      BY <2>8, <3>1, <3>2 DEF ReportResolved, Incidents!ReportResolved
    <3> QED
      BY <3>3, IncidentSteps
  <2>9. CASE Crash
    <3>1. Incidents!Forget
      BY <2>9 DEF Crash, Incidents!Forget
    <3> QED
      BY <3>1, IncidentSteps
  <2>10. CASE Restart
    <3>1. Incidents!Forget
      BY <2>10, RestartEffect DEF Restart, Incidents!Forget
    <3> QED
      BY <3>1, IncidentSteps
  <2>11. CASE Tick
    BY <2>11 DEF Tick
  <2>12. CASE UNCHANGED vars
    BY <2>12 DEF vars
  <2> QED
    BY <2>1, <2>2, <2>3, <2>4, <2>5, <2>6, <2>7, <2>8, <2>9, <2>10, <2>11, <2>12
    DEF Next, TriggerStep, ResolveStep
<1> QED
  BY <1>1, <1>2, TypeCorrect, Consistent, PTL DEF Spec, ImplementsIncident, Incidents!Spec
=============================================================================
