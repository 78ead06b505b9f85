------------------------ MODULE ExternalEndpointProofs ------------------------
(***************************************************************************)
(* Proofs about ExternalEndpoint, for any number of pushers, with and      *)
(* without a heartbeat, for all thresholds and a store that may fail.      *)
(***************************************************************************)
EXTENDS ExternalEndpoint, TLAPS

Announced == mail \in {"triggered", "reminder"}

(* What a handler that leaves s successes in a row must leave behind.      *)
Agree(s) == (row <=> triggered) /\ (triggered => Announced /\ s < SuccessThreshold)

(* What handler p knows at each of its steps, as long as nobody interfered *)
(* and the store kept its rows: about the counters it has copied...        *)
CountersInv(p) ==
  /\ pc[p] \in {"checking", "inserting", "deciding"} =>
       /\ local[p].successes = successes /\ local[p].failures = failures
       /\ successes = 0 \/ failures = 0
       /\ Agree(successes)
  /\ pc[p] \in {"triggering", "sendInitial", "sendReminder", "marking"} => ~good[p]
  /\ pc[p] \in {"resolving", "unmarking", "deleting", "reporting", "clearing"} => good[p]
  /\ pc[p] \notin {"idle", "checking", "inserting", "deciding"} /\ ~good[p] =>
       local[p].successes = 0 /\ local[p].failures = Bump(failures)
  /\ pc[p] \in {"writeSuccesses", "writeFailures"} /\ good[p] => local[p].failures = 0
  /\ pc[p] = "writeFailures" => successes = local[p].successes

(* ... and about the alert, its row and the mail.                          *)
AlertInv(p) ==
  /\ pc[p] \in {"triggering", "resolving"} => (row <=> triggered) /\ (triggered => Announced)
  /\ pc[p] \in {"sendInitial", "marking", "deleting", "reporting"} => ~triggered
  /\ pc[p] \in {"sendInitial", "marking", "reporting"} => ~row
  /\ pc[p] \in {"sendReminder", "upserting"} => triggered
  /\ pc[p] \in {"sendReminder", "upserting", "marking"} => Announced
  /\ pc[p] = "sendReminder" => row
  /\ pc[p] = "upserting" => local[p].successes < SuccessThreshold
  /\ pc[p] \in {"clearing", "writeSuccesses", "writeFailures"} => Agree(local[p].successes)

RestInv == (successes = 0 \/ failures = 0) /\ Agree(successes)

Alone == \A p, q \in Actors : pc[p] # "idle" /\ pc[q] # "idle" => p = q

QuietInv ==
  ~disturbed =>
    /\ Alone
    /\ AtRest => RestInv
    /\ \A p \in Actors : CountersInv(p) /\ AlertInv(p)

ExternalInv == TypeOK /\ QuietInv

-----------------------------------------------------------------------------
(* The range of the shared counters and of the thresholds.                 *)
LEMMA NumberFacts ==
  ASSUME TypeOK
  PROVE  /\ CounterCap \in Nat /\ AgeCap \in Nat
         /\ SuccessThreshold \in Nat /\ SuccessThreshold > 0
         /\ successes \in 0..CounterCap /\ failures \in 0..CounterCap
         /\ \A p \in Actors : /\ local[p].successes \in 0..CounterCap
                              /\ local[p].failures \in 0..CounterCap
                              /\ local[p] = [successes |-> local[p].successes,
                                             failures |-> local[p].failures]
BY ThresholdAssumption, IntervalAssumption DEF TypeOK, Counters

(* A counter that saturates stays in its range.                            *)
LEMMA BumpType == ASSUME NEW n \in 0..CounterCap PROVE Bump(n) \in 0..CounterCap
BY ThresholdAssumption DEF Bump

(* One handler moves on, the others stay where they are.                   *)
LEMMA GotoEffect ==
  ASSUME TypeOK, NEW p \in Actors, NEW place \in Places, Goto(p, place)
  PROVE  /\ pc' \in [Actors -> Places]
         /\ pc'[p] = place
         /\ \A q \in Actors \ {p} : pc'[q] = pc[q]
BY DEF TypeOK, Goto

-----------------------------------------------------------------------------
(* Every variable keeps to its range.                                      *)
LEMMA TypeStep ==
  ASSUME TypeOK, [Next]_vars
  PROVE  TypeOK'
<1> USE NumberFacts
<1>1. CASE Tick
  BY <1>1 DEF Tick, TypeOK, Ages
<1>2. CASE UNCHANGED vars
  BY <1>2 DEF vars, TypeOK
<1>3. ASSUME NEW p \in Actors, Push(p) \/ Beat(p) \/ Step(p)
      PROVE  TypeOK'
  <2>1. pc' \in [Actors -> Places]
    <3>1. PICK place \in Places : Goto(p, place)
      BY <1>3
      DEF Push, Beat, Step, Alert, HeartbeatReceived, HeartbeatMissed, Insert, InsertFails,
          UnderMaintenance, Count, Trigger, Send, SendFails, Mark, Upsert, Resolve, Unmark,
          Delete, Report, ClearFailures, WriteSuccesses, WriteFailures, Places
    <3> QED
      BY <3>1, GotoEffect
  <2>2. CASE Push(p) \/ Beat(p)
    <3>1. good' \in [Actors -> BOOLEAN] /\ disturbed' \in BOOLEAN
      BY <2>2 DEF Push, Beat, Overlap, TypeOK
    <3>2. local' \in [Actors -> Counters]
      BY <2>2 DEF Push, Beat, ToEndpoint, TypeOK
    <3> QED
      BY <2>1, <2>2, <3>1, <3>2 DEF Push, Beat, TypeOK
  <2>3. CASE HeartbeatReceived(p) \/ HeartbeatMissed(p) \/ InsertFails(p) \/ UnderMaintenance(p)
             \/ Trigger(p) \/ SendFails(p) \/ Resolve(p)
    BY <2>1, <2>3
    DEF HeartbeatReceived, HeartbeatMissed, InsertFails, UnderMaintenance, Trigger,
        SendFails, Resolve, TypeOK, shared
  <2>4. CASE Insert(p) \/ Send(p) \/ Report(p)
    BY <2>1, <2>4 DEF Insert, Send, Report, TypeOK, Ages
  <2>5. CASE Mark(p) \/ Unmark(p)
    <3>1. triggered' \in BOOLEAN
      BY <2>5 DEF Mark, Unmark
    <3> QED
      BY <2>1, <2>5, <3>1 DEF Mark, Unmark, TypeOK
  <2>6. CASE Upsert(p) \/ Delete(p)
    <3>1. row' \in BOOLEAN /\ disturbed' \in BOOLEAN
      BY <2>6 DEF Upsert, Delete
    <3> QED
      BY <2>1, <2>6, <3>1 DEF Upsert, Delete, TypeOK
  <2>7. CASE Count(p)
    <3>1. Bump(local[p].successes) \in 0..CounterCap /\ Bump(local[p].failures) \in 0..CounterCap
      BY BumpType
    <3>2. local' \in [Actors -> Counters]
      BY <2>7, <3>1 DEF Count, TypeOK, Counters
    <3> QED
      BY <2>1, <2>7, <3>2 DEF Count, TypeOK, shared
  <2>8. CASE ClearFailures(p)
    <3>1. local' \in [Actors -> Counters]
      BY <2>8 DEF ClearFailures, TypeOK, Counters
    <3> QED
      BY <2>1, <2>8, <3>1 DEF ClearFailures, TypeOK, shared
  <2>9. CASE WriteSuccesses(p) \/ WriteFailures(p)
    <3>1. [successes |-> successes', failures |-> failures'] \in Counters
      BY <2>9 DEF WriteSuccesses, WriteFailures, Counters
    <3> QED
      BY <2>1, <2>9, <3>1 DEF WriteSuccesses, WriteFailures, TypeOK
  <2> QED
    BY <1>3, <2>2, <2>3, <2>4, <2>5, <2>6, <2>7, <2>8, <2>9 DEF Step, Alert
<1> QED
  BY <1>1, <1>2, <1>3 DEF Next

(* What handler p does when it is alone: it goes from one place to the     *)
(* next knowing what AlertInv and CountersInv say, or it leaves everything *)
(* in order.                                                               *)
LEMMA HandlerStep ==
  ASSUME TypeOK, NEW p \in Actors, Step(p), CountersInv(p), AlertInv(p), ~disturbed'
  PROVE  /\ ~disturbed /\ pc[p] # "idle"
         /\ \A q \in Actors \ {p} : pc'[q] = pc[q]
         /\ CountersInv(p)' /\ AlertInv(p)'
         /\ pc'[p] = "idle" => RestInv'
<1> USE DEF CountersInv, AlertInv, Agree, Announced, RestInv, TypeOK, Places
<1> USE NumberFacts, GotoEffect
<1>1. CASE HeartbeatReceived(p)
  BY <1>1 DEF HeartbeatReceived, shared
<1>2. CASE HeartbeatMissed(p)
  BY <1>2 DEF HeartbeatMissed, shared
<1>3. CASE Insert(p)
  BY <1>3 DEF Insert
<1>4. CASE InsertFails(p)
  BY <1>4 DEF InsertFails, shared
<1>5. CASE UnderMaintenance(p)
  BY <1>5 DEF UnderMaintenance, shared
<1>6. CASE Count(p)
  BY <1>6 DEF Count, shared
<1>7. CASE Trigger(p)
  BY <1>7 DEF Trigger, shared
<1>8. CASE Send(p)
  BY <1>8 DEF Send
<1>9. CASE SendFails(p)
  BY <1>9 DEF SendFails, shared
<1>10. CASE Mark(p)
  BY <1>10 DEF Mark
<1>11. CASE Upsert(p)
  BY <1>11 DEF Upsert
<1>12. CASE Resolve(p)
  BY <1>12 DEF Resolve, shared
<1>13. CASE Unmark(p)
  BY <1>13 DEF Unmark
<1>14. CASE Delete(p)
  BY <1>14 DEF Delete
<1>15. CASE Report(p)
  BY <1>15 DEF Report
<1>16. CASE ClearFailures(p)
  BY <1>16 DEF ClearFailures, shared
<1>17. CASE WriteSuccesses(p)
  BY <1>17 DEF WriteSuccesses
<1>18. CASE WriteFailures(p)
  BY <1>18 DEF WriteFailures
<1> QED
  BY <1>1, <1>2, <1>3, <1>4, <1>5, <1>6, <1>7, <1>8, <1>9, <1>10, <1>11, <1>12, <1>13,
     <1>14, <1>15, <1>16, <1>17, <1>18 DEF Step, Alert

(* As long as no two handlers have overlapped and the store has not        *)
(* failed, each step of a push or heartbeat leaves what the next one of    *)
(* the same handler relies on.                                             *)
LEMMA QuietStep ==
  ASSUME TypeOK, QuietInv, [Next]_vars
  PROVE  QuietInv'
<1> SUFFICES ASSUME ~disturbed'
             PROVE  /\ Alone' /\ (AtRest' => RestInv')
                    /\ \A p \in Actors : CountersInv(p)' /\ AlertInv(p)'
  BY DEF QuietInv
<1>1. CASE Tick \/ UNCHANGED vars
  BY <1>1 DEF Tick, vars, QuietInv, Alone, AtRest, RestInv, CountersInv, AlertInv, Agree, Announced
<1>2. ASSUME NEW p \in Actors, Push(p) \/ Beat(p)
      PROVE  /\ Alone' /\ ~AtRest'
             /\ \A q \in Actors : CountersInv(q)' /\ AlertInv(q)'
  <2>1. ~disturbed /\ AtRest
    BY <1>2 DEF Push, Beat, Overlap, TypeOK
  <2>2. RestInv
    BY <2>1 DEF QuietInv
  <2>3. pc'[p] \in {"checking", "inserting"} /\ \A q \in Actors \ {p} : pc'[q] = "idle"
    BY <1>2, <2>1, GotoEffect DEF Push, Beat, AtRest, Places
  <2>4. CountersInv(p)' /\ AlertInv(p)'
    <3>1. local'[p] = [successes |-> successes, failures |-> failures]
      BY <1>2 DEF Push, Beat, ToEndpoint, TypeOK
    <3>2. UNCHANGED <<successes, failures, triggered, row, mail>>
      BY <1>2 DEF Push, Beat
    <3> QED
      BY <2>2, <2>3, <3>1, <3>2 DEF CountersInv, AlertInv, RestInv, Agree, Announced
  <2>5. \A q \in Actors \ {p} : CountersInv(q)' /\ AlertInv(q)'
    BY <2>3 DEF CountersInv, AlertInv
  <2> QED
    BY <2>3, <2>4, <2>5 DEF Alone, AtRest
<1>3. ASSUME NEW p \in Actors, Step(p)
      PROVE  /\ Alone' /\ (AtRest' => RestInv')
             /\ \A q \in Actors : CountersInv(q)' /\ AlertInv(q)'
  <2>1. ~disturbed
    BY <1>3
    DEF Step, Alert, HeartbeatReceived, HeartbeatMissed, Insert, InsertFails,
        UnderMaintenance, Count, Trigger, Send, SendFails, Mark, Upsert, Resolve, Unmark,
        Delete, Report, ClearFailures, WriteSuccesses, WriteFailures, shared, TypeOK
  <2>2. Alone /\ CountersInv(p) /\ AlertInv(p)
    BY <2>1 DEF QuietInv
  <2>3. /\ pc[p] # "idle" /\ \A q \in Actors \ {p} : pc'[q] = pc[q]
        /\ CountersInv(p)' /\ AlertInv(p)' /\ (pc'[p] = "idle" => RestInv')
    BY <1>3, <2>2, HandlerStep
  <2>4. \A q \in Actors \ {p} : pc'[q] = "idle"
    BY <2>2, <2>3 DEF Alone
  <2>5. \A q \in Actors \ {p} : CountersInv(q)' /\ AlertInv(q)'
    BY <2>4 DEF CountersInv, AlertInv
  <2> QED
    BY <2>3, <2>4, <2>5 DEF Alone, AtRest
<1> QED
  BY <1>1, <1>2, <1>3 DEF Next

(* The inductive invariant of the handlers.                                *)
THEOREM ExternalInvariant == Spec => []ExternalInv
<1>1. Init => ExternalInv
  <2> SUFFICES ASSUME Init PROVE ExternalInv
    OBVIOUS
  <2>1. 0 \in 0..CounterCap /\ AgeCap \in Ages /\ 0 < SuccessThreshold
    BY ThresholdAssumption, IntervalAssumption DEF Ages
  <2>2. TypeOK
    <3>1. triggered \in BOOLEAN /\ row \in BOOLEAN /\ disturbed \in BOOLEAN
      BY DEF Init
    <3>2. good \in [Actors -> BOOLEAN]
      BY DEF Init
    <3> QED
      BY <2>1, <3>1, <3>2 DEF Init, TypeOK, Places, Counters
  <2> QED
    BY <2>1, <2>2
    DEF Init, ExternalInv, QuietInv, Alone, RestInv, CountersInv, AlertInv, Agree
<1>2. ExternalInv /\ [Next]_vars => ExternalInv'
  BY TypeStep, QuietStep DEF ExternalInv
<1> QED
  BY <1>1, <1>2, PTL DEF Spec

-----------------------------------------------------------------------------
(* external_endpoint.go:90-99: between two handlers that did not overlap,  *)
(* the counters describe one run of results, and the row, the Triggered    *)
(* flag and the mail agree.                                                *)
THEOREM ConsistentBetweenHandlers == Spec => []ConsistentAtRest
<1>1. ExternalInv => ConsistentAtRest
  BY DEF ExternalInv, QuietInv, RestInv, Agree, Announced, ConsistentAtRest
<1> QED
  BY <1>1, ExternalInvariant, PTL

(* alert.go:64-66: the same alert does not go out twice, although every    *)
(* handler works on a temporary endpoint.                                  *)
THEOREM AlertSentOnce == Spec => SentOnce
<1> DEFINE Once == \A p \in Actors :
                     (pc[p] = "sendInitial" /\ pc'[p] = "marking") => disturbed \/ ~Open
<1>1. ExternalInv => [Once]_vars
  <2> SUFFICES ASSUME ExternalInv, NEW p \in Actors, pc[p] = "sendInitial", ~disturbed
               PROVE  ~Open
    OBVIOUS
  <2>1. Alone /\ AlertInv(p)
    BY DEF ExternalInv, QuietInv
  <2> QED
    BY <2>1 DEF Open, Alone, AlertInv
<1> QED
  BY <1>1, ExternalInvariant, PTL DEF Spec, SentOnce

(* api/external_endpoint.go:74-82: what a handler counts in the temporary  *)
(* endpoint reaches the next handler.                                      *)
THEOREM NothingCountedIsLost == Spec => CountersAccumulate
<1> DEFINE Kept == \A p \in Actors :
                     (pc[p] = "writeFailures" /\ pc'[p] = "idle" /\ ~good[p])
                       => disturbed \/ (failures' = Bump(failures) /\ successes' = 0)
<1>1. ExternalInv /\ [Next]_vars => [Kept]_vars
  <2> SUFFICES ASSUME ExternalInv, Next, NEW p \in Actors,
                      pc[p] = "writeFailures", pc'[p] = "idle", ~good[p], ~disturbed
               PROVE  failures' = Bump(failures) /\ successes' = 0
    OBVIOUS
  <2>1. Alone /\ CountersInv(p)
    BY DEF ExternalInv, QuietInv
  <2>2. WriteFailures(p)
    <3>1. ~Tick
      BY DEF Tick
    <3>2. PICK q \in Actors : Push(q) \/ Beat(q) \/ Step(q)
      BY <3>1 DEF Next
    <3>3. q = p
      <4>1. PICK place \in Places : Goto(q, place)
        BY <3>2
        DEF Push, Beat, Step, Alert, HeartbeatReceived, HeartbeatMissed, Insert, InsertFails,
            UnderMaintenance, Count, Trigger, Send, SendFails, Mark, Upsert, Resolve, Unmark,
            Delete, Report, ClearFailures, WriteSuccesses, WriteFailures, Places
      <4> QED
        BY <4>1, GotoEffect DEF ExternalInv
    <3> QED
      BY <3>2, <3>3
      DEF Push, Beat, Step, Alert, HeartbeatReceived, HeartbeatMissed, Insert, InsertFails,
          UnderMaintenance, Count, Trigger, Send, SendFails, Mark, Upsert, Resolve, Unmark,
          Delete, Report, ClearFailures, WriteSuccesses
  <2> QED
    BY <2>1, <2>2 DEF WriteFailures, CountersInv
<1> QED
  BY <1>1, ExternalInvariant, PTL DEF Spec, CountersAccumulate
=============================================================================
