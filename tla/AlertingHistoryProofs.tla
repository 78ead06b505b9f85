------------------------ MODULE AlertingHistoryProofs -------------------------
(***************************************************************************)
(* Proofs about AlertingHistory, for every number of alerts, all their     *)
(* thresholds and intervals, and both kinds of store: what the handler     *)
(* decides by its counters and its one timestamp is what really happened.  *)
(***************************************************************************)
EXTENDS AlertingHistory, AlertingProofs

HistoryTypeOK ==
  /\ failRun \in Counters /\ okRun \in Counters
  /\ quiet \in [Alerts -> Ages]

(* Before its first start the process has nothing to load.                 *)
BlankInv ==
  pc = "down" =>
    /\ failRun = 0 /\ okRun = 0
    /\ successes = 0 /\ failures = 0
    /\ \A c \in Checksums : row[c] = NoRow
    /\ \A a \in Alerts : ~triggered[a]

(* The counters are the lengths of the runs; failures only catches up with *)
(* its run at the end of handleAlertsToResolve.                            *)
RunInv ==
  /\ successes = okRun
  /\ pc \in {"idle", "triggering", "persisting"} => failures = failRun
  /\ pc \in {"triggering", "persisting"} => okRun = 0
  /\ pc \in {"resolving", "reporting"} => failRun = 0

(* No alert that the loop is done with stays triggered past its threshold. *)
OverdueInv ==
  /\ \A a \in Alerts : triggered[a] => a \in enabled
  /\ pc = "reporting" => ~triggered[cur]
  /\ \A a \in Alerts :
       triggered[a] /\ pc \in {"resolving", "reporting"} /\ a < cur => okRun < SuccessThreshold[a]

(* Nothing is announced or reminded without resetting the endpoint's time  *)
(* of the last reminder; the copy that the handler made of it only says    *)
(* something about the alerts that its loop has not come to.               *)
SpacingInv ==
  /\ \A a \in Alerts : age <= quiet[a]
  /\ \A a \in Alerts :
       (pc = "triggering" /\ a >= cur) \/ (pc = "persisting" /\ a > cur) => refAge <= quiet[a]

FirstLifeInv == BlankInv /\ RunInv /\ OverdueInv /\ NotOverdue /\ SpacingInv

HistoryInv == HistoryTypeOK /\ (FirstLife => FirstLifeInv)

-----------------------------------------------------------------------------
(* What the history variables are added to are the steps of Alerting.      *)
LEMMA HistoryOnly ==
  /\ HInit => Init
  /\ [HNext]_hvars => [Next]_vars
  BY DEF HInit, HNext, hvars, HFail, HSucceed, HSend, HTick, HOther, HCrash,
         Next, TriggerStep

(* The history variables do not get in the way of the alerting: whatever   *)
(* HandleAlerting does with them beside it, its variables keep to their    *)
(* ranges.                                                                 *)
THEOREM StillTypeCorrect == HSpec => []TypeOK
  BY HistoryOnly, TypeCorrect, PTL DEF HSpec, Spec

(* What the assumptions say of the constants, in the form in which the     *)
(* arithmetic needs it.                                                    *)
LEMMA NumberFacts ==
  /\ AgeCap \in Nat /\ CounterCap \in Nat /\ AlertCount \in Nat
  /\ \A a \in Alerts : /\ a \in Nat /\ a >= 1 /\ a <= AlertCount
                       /\ FailureThreshold[a] \in Nat
                       /\ SuccessThreshold[a] \in Nat /\ SuccessThreshold[a] > 0
                       /\ ReminderInterval[a] \in Nat
                       /\ Checksum[a] \in Checksums
BY CountAssumption, CapAssumption, ThresholdAssumption DEF Alerts, Checksums

(* Time passes for all ages alike and makes none of them smaller.          *)
LEMMA OlderMonotone ==
  ASSUME NEW s \in Ages, NEW t \in Ages, s <= t
  PROVE  Older(s) <= Older(t) /\ s <= Older(t)
  BY CapAssumption DEF Ages, Older

(* Every step leaves the history variables in their ranges.                *)
LEMMA HistoryTypeStep ==
  ASSUME TypeOK, HistoryTypeOK, [HNext]_hvars
  PROVE  HistoryTypeOK'
<1> USE DEF HistoryTypeOK
<1>1. 0 \in Counters /\ 0 \in Ages /\ AgeCap \in Ages
  BY CapAssumption DEF Counters, Ages
<1>2. CASE HFail \/ HSucceed
  BY <1>1, <1>2, BumpType DEF HFail, HSucceed, history
<1>3. CASE HSend
  BY <1>1, <1>3 DEF HSend, history
<1>4. CASE HTick
  BY <1>4, OlderType DEF HTick
<1>5. CASE HOther \/ UNCHANGED hvars
  BY <1>5 DEF HOther, hvars, history
<1>6. CASE HCrash
  BY <1>1, <1>6 DEF HCrash
<1> QED
  BY <1>2, <1>3, <1>4, <1>5, <1>6 DEF HNext

(* One step of the first life, handler by handler.                         *)
LEMMA FirstLifeStep ==
  ASSUME TypeOK, HistoryTypeOK, FirstLife, FirstLifeInv, [HNext]_hvars, FirstLife'
  PROVE  FirstLifeInv'
<1> USE DEF FirstLifeInv, BlankInv, RunInv, OverdueInv, NotOverdue, SpacingInv, FirstLife
<1> USE NumberFacts
<1>1. CASE HFail
  <2>1. Fail /\ failRun' = Bump(failRun) /\ okRun' = 0 /\ UNCHANGED quiet
    BY <1>1 DEF HFail
  <2> QED
    BY <2>1 DEF Fail, TypeOK
<1>2. CASE HSucceed
  <2>1. Succeed /\ okRun' = Bump(okRun) /\ failRun' = 0 /\ UNCHANGED quiet
    BY <1>2 DEF HSucceed
  <2> QED
    BY <2>1 DEF Succeed, TypeOK
<1>3. CASE HSend
  <2>1. SendSucceeds /\ quiet' = [quiet EXCEPT ![cur] = 0] /\ UNCHANGED <<failRun, okRun>>
    BY <1>3 DEF HSend
  <2>2. SpacingInv'
    BY <2>1, CapAssumption DEF SendSucceeds, TypeOK, HistoryTypeOK, Ages
  <2> QED
    BY <2>1, <2>2 DEF SendSucceeds, TypeOK, ToSend
<1>4. CASE HTick
  <2>1. UNCHANGED <<pc, cur, enabled, successes, failures, triggered, row, failRun, okRun>>
    BY <1>4 DEF HTick, Tick, vars
  <2>2. \A a \in Alerts : quiet'[a] = Older(quiet[a]) /\ quiet[a] \in Ages
    BY <1>4 DEF HTick, HistoryTypeOK
  <2>3. (age' = Older(age) \/ age' = age) /\ (refAge' = Older(refAge) \/ refAge' = refAge)
    BY <1>4 DEF HTick, Tick, vars
  <2>4. SpacingInv'
    BY <2>1, <2>2, <2>3, OlderMonotone DEF TypeOK
  <2> QED
    BY <2>1, <2>4
<1>5. CASE HOther
  <2>1. UNCHANGED <<failRun, okRun, quiet>>
    BY <1>5 DEF HOther, history
  <2>2. CASE SkipTrigger \/ SendFails
    BY <2>1, <2>2 DEF SkipTrigger, SendFails, AdvanceTo, memory, TypeOK
  <2>3. CASE PersistTriggered
    BY <2>1, <2>3 DEF PersistTriggered, AdvanceTo, memory, TypeOK
  <2>4. CASE EndTrigger
    BY <2>1, <2>4 DEF EndTrigger, memory, TypeOK
  <2>5. CASE SkipResolve
    BY <2>1, <2>5 DEF SkipResolve, AdvanceTo, Ongoing, memory, TypeOK
  <2>6. CASE PersistSuccesses
    BY <2>1, <2>6 DEF PersistSuccesses, AdvanceTo, Ongoing, BelowSuccessThreshold, memory, TypeOK
  <2>7. CASE Resolve
    BY <2>1, <2>7 DEF Resolve, AdvanceTo, TypeOK
  <2>8. CASE ReportResolved
    BY <2>1, <2>8 DEF ReportResolved, AdvanceTo, memory, TypeOK
  <2>9. CASE EndResolve
    <3>1. \A a \in Alerts : a < cur
      BY <2>9 DEF EndResolve, TypeOK, Alerts
    <3> QED
      BY <2>1, <2>9, <3>1 DEF EndResolve
  <2>10. CASE Restart
    <3>1. \A c \in Checksums : row'[c] = NoRow
      BY <2>10 DEF Restart, Kept
    <3>2. PICK loaded : /\ loaded \subseteq {a \in enabled' : row'[Checksum[a]] # NoRow}
                        /\ triggered' = [a \in Alerts |-> a \in loaded]
                        /\ LoadCounters(loaded)
      BY <2>10 DEF Restart
    <3>3. loaded = {}
      BY <2>10, <3>1, <3>2, FlagAssumption DEF Restart
    <3>4. successes' = 0 /\ failures' = 0 /\ \A a \in Alerts : ~triggered'[a]
      BY <3>2, <3>3 DEF LoadCounters
    <3> QED
      BY <2>1, <2>10, <3>4 DEF Restart
  <2> QED
    BY <1>5, <2>2, <2>3, <2>4, <2>5, <2>6, <2>7, <2>8, <2>9, <2>10 DEF HOther, ResolveStep
<1>6. CASE HCrash
  BY <1>6 DEF HCrash, Crash, TypeOK
<1>7. CASE UNCHANGED hvars
  BY <1>7 DEF hvars, vars, history
<1> QED
  BY <1>1, <1>2, <1>3, <1>4, <1>5, <1>6, <1>7 DEF HNext

(* Nothing undoes a crash.                                                 *)
LEMMA LivesStep ==
  ASSUME TypeOK, [HNext]_hvars, FirstLife'
  PROVE  FirstLife
<1> USE DEF FirstLife
<1>1. CASE Crash
  BY <1>1, FlagAssumption DEF Crash, TypeOK
<1>2. CASE UNCHANGED crashes
  BY <1>2
<1>3. [Next]_vars => Crash \/ UNCHANGED crashes
  BY DEF Next, vars, Fail, TriggerStep, Succeed, ResolveStep, Restart, Tick, SkipTrigger,
         SendFails, SendSucceeds, PersistTriggered, EndTrigger, SkipResolve,
         PersistSuccesses, Resolve, ReportResolved, EndResolve
<1> QED
  BY <1>1, <1>2, <1>3, HistoryOnly

(* The inductive invariant of the first life.                              *)
THEOREM HistoryInvariant == HSpec => []HistoryInv
<1>1. HInit => HistoryInv
  BY NumberFacts, CapAssumption
  DEF HInit, Init, HistoryInv, HistoryTypeOK, FirstLifeInv, BlankInv, RunInv, OverdueInv,
      NotOverdue, SpacingInv, Counters, Ages
<1>2. TypeOK /\ HistoryInv /\ [HNext]_hvars => HistoryInv'
  BY HistoryTypeStep, FirstLifeStep, LivesStep DEF HistoryInv
<1> QED
  BY <1>1, <1>2, StillTypeCorrect, PTL DEF HSpec

(* alert.go:38: an incident never stays open past SuccessThreshold         *)
(* successful results in a row.                                            *)
THEOREM NeverOverdue == HSpec => []NotOverdue
<1>1. HistoryInv => NotOverdue
  BY DEF HistoryInv, FirstLifeInv, NotOverdue
<1> QED
  BY <1>1, HistoryInvariant, PTL

-----------------------------------------------------------------------------
(* Only SendSucceeds makes an alert triggered or leads to "persisting".    *)
LEMMA SendOnly ==
  ASSUME TypeOK, pc = "triggering", [HNext]_hvars, ~SendSucceeds
  PROVE  pc' # "persisting" /\ \A a \in Alerts : ~triggered[a] => ~triggered'[a]
<1>1. Next \/ UNCHANGED vars
  BY HistoryOnly
<1>2. CASE SkipTrigger \/ SendFails \/ EndTrigger
  BY <1>2 DEF SkipTrigger, SendFails, EndTrigger, AdvanceTo, memory
<1>3. CASE Crash
  BY <1>3 DEF Crash
<1>4. CASE Tick \/ UNCHANGED vars
  BY <1>4 DEF Tick, vars
<1> QED
  BY <1>1, <1>2, <1>3, <1>4
  DEF Next, TriggerStep, ResolveStep, Fail, Succeed, PersistTriggered, SkipResolve,
      PersistSuccesses, Resolve, ReportResolved, EndResolve, Restart

(* alert.go:35: an alert is announced only after FailureThreshold failed   *)
(* results in a row.                                                       *)
THEOREM AnnouncedOnlyOnThreshold == HSpec => AnnouncedOnThreshold
<1> DEFINE Due == \A a \in Alerts :
                    (FirstLife /\ pc = "triggering" /\ ~triggered[a] /\ triggered'[a])
                      => failRun >= FailureThreshold[a]
<1>1. TypeOK /\ HistoryInv /\ [HNext]_hvars => [Due]_hvars
  <2> SUFFICES ASSUME TypeOK, HistoryInv, [HNext]_hvars, NEW a \in Alerts,
                      FirstLife, pc = "triggering", ~triggered[a], triggered'[a]
               PROVE  failRun >= FailureThreshold[a]
    OBVIOUS
  <2>1. SendSucceeds
    BY SendOnly
  <2>2. cur = a
    BY <2>1 DEF SendSucceeds, TypeOK
  <2>3. FailureThreshold[a] <= failures
    BY <2>1, <2>2 DEF SendSucceeds, ToSend
  <2>4. failures = failRun
    BY DEF HistoryInv, FirstLifeInv, RunInv
  <2> QED
    BY <2>3, <2>4, NumberFacts DEF TypeOK, Counters
<1> QED
  BY <1>1, StillTypeCorrect, HistoryInvariant, PTL DEF HSpec, AnnouncedOnThreshold

(* alert.go:38: an incident is resolved only after SuccessThreshold        *)
(* successful results in a row.                                            *)
THEOREM ResolvedOnlyOnThreshold == HSpec => ResolvedOnThreshold
<1> DEFINE Due == \A a \in Alerts :
                    (crashes' = 0 /\ pc = "resolving" /\ triggered[a] /\ ~triggered'[a])
                      => okRun >= SuccessThreshold[a]
<1>1. TypeOK /\ HistoryInv /\ [HNext]_hvars => [Due]_hvars
  <2> SUFFICES ASSUME TypeOK, HistoryInv, [HNext]_hvars, NEW a \in Alerts,
                      crashes' = 0, pc = "resolving", triggered[a], ~triggered'[a]
               PROVE  okRun >= SuccessThreshold[a]
    OBVIOUS
  <2>1. FirstLife
    BY LivesStep DEF FirstLife
  <2>2. Resolve
    <3>1. Next \/ UNCHANGED vars
      BY HistoryOnly
    <3>2. ~(SkipResolve \/ PersistSuccesses \/ EndResolve)
      BY DEF SkipResolve, PersistSuccesses, EndResolve, memory
    <3>3. ~(Tick \/ UNCHANGED vars)
      BY DEF Tick, vars
    <3>4. ~Crash
      BY FlagAssumption DEF Crash, TypeOK
    <3> QED
      BY <3>1, <3>2, <3>3, <3>4
      DEF Next, TriggerStep, ResolveStep, Fail, Succeed, SkipTrigger, SendFails,
          SendSucceeds, PersistTriggered, EndTrigger, ReportResolved, Restart
  <2>3. cur = a
    BY <2>2 DEF Resolve, TypeOK
  <2>4. ~(SuccessThreshold[a] > successes)
    BY <2>2, <2>3 DEF Resolve, BelowSuccessThreshold
  <2>5. successes = okRun
    BY <2>1 DEF HistoryInv, FirstLifeInv, RunInv
  <2> QED
    BY <2>4, <2>5, NumberFacts DEF TypeOK, Counters
<1> QED
  BY <1>1, StillTypeCorrect, HistoryInvariant, PTL DEF HSpec, ResolvedOnThreshold

(* alert.go:41: two notifications about the same ongoing incident are at   *)
(* least the minimum reminder interval apart, although all alerts of the   *)
(* endpoint share the time of the last reminder.                           *)
THEOREM RemindersAreSpaced == HSpec => RemindersSpaced
<1> DEFINE Due == \A a \in Alerts :
                    (FirstLife /\ pc = "triggering" /\ pc' = "persisting" /\ cur = a /\ triggered[a])
                      => quiet[a] >= ReminderInterval[a]
<1>1. TypeOK /\ HistoryInv /\ [HNext]_hvars => [Due]_hvars
  <2> SUFFICES ASSUME TypeOK, HistoryInv, [HNext]_hvars, NEW a \in Alerts,
                      FirstLife, pc = "triggering", pc' = "persisting", cur = a, triggered[a]
               PROVE  quiet[a] >= ReminderInterval[a]
    OBVIOUS
  <2>1. SendSucceeds
    BY SendOnly
  <2>2. refAge >= ReminderInterval[a]
    BY <2>1 DEF SendSucceeds, ToSend, DueInitial, DueReminder
  <2>3. a >= cur
    BY NumberFacts
  <2>4. refAge <= quiet[a]
    BY <2>3 DEF HistoryInv, FirstLifeInv, SpacingInv
  <2> QED
    BY <2>2, <2>4, NumberFacts DEF TypeOK, HistoryInv, HistoryTypeOK, Ages
<1> QED
  BY <1>1, StillTypeCorrect, HistoryInvariant, PTL DEF HSpec, RemindersSpaced
=============================================================================
