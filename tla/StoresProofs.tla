----------------------------- MODULE StoresProofs -----------------------------
(***************************************************************************)
(* Proofs about Stores, for any endpoints, any maxima and thresholds, any  *)
(* number of goroutines and results, and all three kinds of store.         *)
(***************************************************************************)
EXTENDS Stores, ResultLogProofs

Recorded == 1..Len(outcome)

(* What is kept of each endpoint and suite is at least the newest of its   *)
(* results.                                                                *)
HistoryInv ==
  /\ storeType \in {"memory", "sqlite", "postgres"}
  /\ outcome \in Seq(BOOLEAN) /\ Len(outcome) <= MaxInserts
  /\ history \in [Keys -> SUBSET Recorded]
  /\ \A k \in Keys : /\ ResultsOf(k) \subseteq history[k]
                     /\ Newest(MaximumNumberOfResults, history[k]) \subseteq ResultsOf(k)

(* Of each endpoint into which insertions never overlapped, the events are *)
(* the latest changes, and there are not too many results or events.       *)
EventsInv(k) ==
  /\ IsSuffix(EventsOf(k), EventsAfter(outcome, history[k]))
  /\ Newest(MaximumNumberOfEvents, EventsAfter(outcome, history[k])) \subseteq EventsOf(k)

SizesInv(k) ==
  /\ Cardinality(ResultsOf(k)) <= MaximumNumberOfResults + Slack(ResultSlack)
  /\ Cardinality(EventsOf(k)) <= MaximumNumberOfEvents + 1 + Slack(EventSlack)

LogInv == HistoryInv /\ \A k \in EndpointKeys \ overlapped : EventsInv(k) /\ SizesInv(k)

MemoryTypeOK ==
  /\ memResults \in [Keys -> SUBSET Results]
  /\ memEvents \in [EndpointKeys -> SUBSET Numbers]

-----------------------------------------------------------------------------
(* What the bounds and the outcomes of results are.                        *)
LEMMA LogFacts ==
  ASSUME HistoryInv
  PROVE  /\ MaxInserts \in Nat
         /\ MaximumNumberOfResults \in Nat \ {0} /\ MaximumNumberOfEvents \in Nat \ {0}
         /\ Len(outcome) \in Nat /\ Len(outcome) + 1 \notin Recorded
         /\ Recorded \in SUBSET Results /\ Results \in SUBSET Numbers
         /\ \A k \in Keys : history[k] \in SUBSET Results
         /\ \A k \in Keys : \A x \in history[k] : x < Len(outcome) + 1
         /\ EndpointKeys \subseteq Keys /\ SuiteKey \in Keys
<1>1. Len(outcome) \in Nat /\ Len(outcome) <= MaxInserts /\ MaxInserts \in Nat
  BY MaximumAssumption DEF HistoryInv
<1>2. Recorded \in SUBSET Results /\ Results \in SUBSET Numbers
  BY <1>1 DEF Recorded, Results, Numbers
<1>3. \A x \in Recorded : x < Len(outcome) + 1
  BY <1>1 DEF Recorded
<1>4. \A k \in Keys : history[k] \in SUBSET Recorded
  BY DEF HistoryInv
<1> QED
  BY <1>1, <1>2, <1>3, <1>4, MaximumAssumption DEF Recorded, Keys

(* A new result gets the next number and changes no earlier outcome.       *)
LEMMA OutcomeAppended ==
  ASSUME HistoryInv, NEW success \in BOOLEAN, outcome' = Append(outcome, success),
         Len(outcome) + 1 \in Results
  PROVE  /\ outcome' \in Seq(BOOLEAN) /\ Len(outcome') <= MaxInserts
         /\ Recorded' = Recorded \cup {Len(outcome) + 1}
         /\ outcome'[Len(outcome) + 1] = success
         /\ \A x \in Recorded : outcome'[x] = outcome[x]
<1>1. outcome \in Seq(BOOLEAN) /\ Len(outcome) \in Nat /\ MaxInserts \in Nat
  BY MaximumAssumption DEF HistoryInv
<1>2. /\ outcome' \in Seq(BOOLEAN) /\ Len(outcome') = Len(outcome) + 1
      /\ \A x \in 1..Len(outcome) : outcome'[x] = outcome[x]
      /\ outcome'[Len(outcome) + 1] = success
  BY <1>1
<1> QED
  BY <1>1, <1>2 DEF Recorded, Results

(* Every event stays what it is when a result is numbered.                 *)
LEMMA EventsUntouched ==
  ASSUME HistoryInv, \A x \in Recorded : outcome'[x] = outcome[x], NEW k \in Keys
  PROVE  EventsAfter(outcome', history[k]) = EventsAfter(outcome, history[k])
<1>1. history[k] \in SUBSET Results /\ history[k] \in SUBSET Recorded
  BY LogFacts DEF HistoryInv
<1> QED
  BY <1>1, EventsStay

-----------------------------------------------------------------------------
(* The memory store *)

LEMMA MemoryInsertion ==
  ASSUME HistoryInv, MemoryTypeOK, storeType = "memory", storeType' = storeType,
         NEW k \in Keys, NEW success \in BOOLEAN, NEW r \in Results,
         r = Len(outcome) + 1, outcome' = Append(outcome, success),
         memResults' = [memResults EXCEPT ![k] = Trim(MaximumNumberOfResults, @ \cup {r})],
         history' = [history EXCEPT ![k] = @ \cup {r}]
  PROVE  /\ HistoryInv' /\ memResults' \in [Keys -> SUBSET Results]
         /\ Cardinality(memResults'[k]) <= MaximumNumberOfResults
<1> DEFINE s == memResults[k]
           t == Newest(MaximumNumberOfResults, s \cup {r})
<1>1. /\ s \in SUBSET history[k] /\ history[k] \in SUBSET Numbers /\ r \in Numbers
      /\ Newest(MaximumNumberOfResults, history[k]) \subseteq s
  BY LogFacts DEF HistoryInv, ResultsOf
<1> DEFINE gone == (s \cup {r}) \ t
<1>2. /\ t \subseteq s \cup {r} /\ t = (s \cup {r}) \ gone
      /\ gone \in SUBSET (s \cup {r})
      /\ gone \cap Newest(MaximumNumberOfResults, s \cup {r}) = {}
  BY DEF Newest
<1>3. s \cup {r} \in SUBSET (history[k] \cup {r}) /\ history[k] \cup {r} \in SUBSET Numbers
  BY <1>1
<1>0. MaximumNumberOfResults \in Nat
  BY LogFacts
<1> HIDE DEF gone, s
<1>4. gone \cap Newest(MaximumNumberOfResults, history[k] \cup {r}) = {}
  BY <1>0, <1>2, <1>3, OldStaysOld
<1>5. Newest(MaximumNumberOfResults, history[k] \cup {r}) \subseteq t
  BY <1>0, <1>1, <1>2, <1>4, NewestGrows
<1> USE DEF s
<1>6. Cardinality(t) <= MaximumNumberOfResults
  BY <1>1, NewestBound, LogFacts
<1>7. /\ memResults' = [memResults EXCEPT ![k] = t]
      /\ memResults \in [Keys -> SUBSET Results]
  BY DEF Trim, MemoryTypeOK
<1>8. t \in SUBSET Results
  BY <1>2, <1>7
<1> HIDE DEF t
<1>9. memResults'[k] = t /\ \A q \in Keys \ {k} : memResults'[q] = memResults[q]
  BY <1>7
<1>10. /\ history \in [Keys -> SUBSET Recorded]
       /\ history'[k] = history[k] \cup {r}
       /\ \A q \in Keys \ {k} : history'[q] = history[q]
  BY DEF HistoryInv
<1>11. /\ outcome' \in Seq(BOOLEAN) /\ Len(outcome') <= MaxInserts
       /\ Recorded' = Recorded \cup {r}
  BY OutcomeAppended
<1>12. history' \in [Keys -> SUBSET Recorded']
  BY <1>10, <1>11
<1>13. ASSUME NEW q \in Keys
       PROVE  /\ memResults'[q] \subseteq history'[q]
              /\ Newest(MaximumNumberOfResults, history'[q]) \subseteq memResults'[q]
  <2>1. CASE q = k
    BY <1>1, <1>2, <1>5, <1>9, <1>10, <2>1
  <2>2. CASE q # k
    BY <1>9, <1>10, <2>2 DEF HistoryInv, ResultsOf
  <2> QED
    BY <2>1, <2>2
<1> QED
  BY <1>6, <1>7, <1>8, <1>9, <1>11, <1>12, <1>13 DEF HistoryInv, ResultsOf

(* Every operation of the memory store keeps the log, both trims included. *)
LEMMA MemoryStep ==
  ASSUME LogInv, MemoryTypeOK, storeType = "memory", MemoryNext, UNCHANGED sqlVars
  PROVE  LogInv' /\ MemoryTypeOK' /\ storeType' = storeType
<1> USE DEF LogInv
<1>0. overlapped' = overlapped /\ storeType' = storeType
  BY DEF sqlVars, MemoryNext, MemoryInsertEndpointResult, MemoryInsertSuiteResult,
         MemoryInitialize
<1>1. ASSUME NEW k \in EndpointKeys, MemoryInsertEndpointResult(k)
      PROVE  LogInv' /\ MemoryTypeOK'
  <2> DEFINE r == Len(outcome) + 1
  <2>1. PICK success \in BOOLEAN :
          /\ r \in Results /\ outcome' = Append(outcome, success)
          /\ memEvents' = [memEvents EXCEPT ![k] = AddEvent(k, r)]
          /\ memResults' = [memResults EXCEPT ![k] = Trim(MaximumNumberOfResults, @ \cup {r})]
          /\ history' = [history EXCEPT ![k] = @ \cup {r}]
    BY <1>1 DEF MemoryInsertEndpointResult
  <2>2. k \in Keys
    BY LogFacts
  <2>3. /\ HistoryInv' /\ memResults' \in [Keys -> SUBSET Results]
        /\ Cardinality(memResults'[k]) <= MaximumNumberOfResults
    BY <1>0, <2>1, <2>2, MemoryInsertion
  <2>4. /\ history'[k] = history[k] \cup {r}
        /\ \A q \in Keys \ {k} : history'[q] = history[q] /\ memResults'[q] = memResults[q]
    BY <2>1, <2>2 DEF HistoryInv, MemoryTypeOK
  <2>5. \A x \in Recorded : outcome'[x] = outcome[x]
    BY <2>1, OutcomeAppended
  <2>6. memEvents \in [EndpointKeys -> SUBSET Numbers]
    BY DEF MemoryTypeOK
  <2>7. AddEvent(k, r) \in SUBSET Numbers
    BY <2>1, <2>6, LogFacts, MaximumAssumption DEF AddEvent, Trim, Newest, EventStart, Numbers
  <2>8. memEvents' \in [EndpointKeys -> SUBSET Numbers] /\ memEvents'[k] = AddEvent(k, r)
        /\ \A q \in EndpointKeys \ {k} : memEvents'[q] = memEvents[q]
    BY <2>1, <2>6, <2>7
  <2>9. ASSUME k \notin overlapped
        PROVE  EventsInv(k)' /\ SizesInv(k)'
    <3> DEFINE h == history[k]
               s == memResults[k]
               ev == memEvents[k]
               added == AddedEvents(outcome', h, r)
               old == IF h # {} /\ added # {}
                      THEN ev \ Newest(MaximumNumberOfEvents, ev \cup added) ELSE {}
    <3>1. /\ h \in SUBSET Results /\ s \in SUBSET h /\ h \in SUBSET Numbers
          /\ Newest(MaximumNumberOfResults, h) \subseteq s
          /\ \A x \in h : x < r
      BY <2>2, LogFacts DEF HistoryInv, ResultsOf
    <3>2. /\ IsSuffix(ev, EventsAfter(outcome', h))
          /\ Newest(MaximumNumberOfEvents, EventsAfter(outcome', h)) \subseteq ev
          /\ Cardinality(ev) <= MaximumNumberOfEvents + 1
      BY <2>2, <2>5, <2>9, EventsUntouched, LogFacts DEF EventsInv, SizesInv, EventsOf, Slack
    <3>3. s = {} <=> h = {}
      BY <3>1, LatestIsKept, LogFacts
    <3>4. h # {} => outcome[Latest(s)] = outcome'[Latest(h)]
      BY <2>2, <2>5, <3>1, LatestIsKept, LatestIsLast, LogFacts DEF HistoryInv
    <3>5. EventNeeded(k, r) <=> added # {}
      BY <3>3, <3>4 DEF EventNeeded, AddedEvents
    <3>6. h = {} => ev = {}
      BY <3>2 DEF IsSuffix, EventsAfter
    <3>7. added # {} /\ h # {} => added = {r} /\ {r} \subseteq Newest(MaximumNumberOfEvents, ev \cup {r})
      <4>1. EventsAfter(outcome', h) \in SUBSET Numbers
        BY <2>1, <3>1, EventsAfterResult
      <4>2. ev \in SUBSET Numbers /\ \A x \in ev : x < r
        <5>1. ev \subseteq h \cup {EventStart}
          BY <3>2, ChangedSubset DEF IsSuffix, EventsAfter
        <5> QED
          BY <2>1, <3>1, <5>1, LogFacts, MaximumAssumption DEF EventStart, Results, Numbers
      <4>3. ev \cup {r} \in SUBSET Numbers /\ \A x \in ev \cup {r} : x <= r
        <5>1. r \in Numbers
          BY <2>1, LogFacts
        <5>2. ev \cup {r} \in SUBSET Numbers
          BY <4>2, <5>1
        <5>3. \A x \in ev \cup {r} : x \in Nat
          BY <5>2, NumberSets
        <5> QED
          BY <4>2, <5>2, <5>3
      <4>4. r \in Newest(MaximumNumberOfEvents, ev \cup {r})
        BY <4>3, LastIsNewest, LogFacts
      <4> QED
        BY <4>4 DEF AddedEvents
    <3>8. AddEvent(k, r) = (ev \ old) \cup added
      BY <3>3, <3>5, <3>6, <3>7 DEF AddEvent, Trim, AddedEvents, Newest
    <3>9. /\ IsSuffix((ev \ old) \cup added, EventsAfter(outcome', h \cup {r}))
          /\ Newest(MaximumNumberOfEvents, EventsAfter(outcome', h \cup {r})) \subseteq (ev \ old) \cup added
      <4>1. /\ MaximumNumberOfEvents \in Nat
            /\ old = {} \/ old = ev \ Newest(MaximumNumberOfEvents, ev \cup added)
        BY LogFacts
      <4> HIDE DEF old, h, ev
      <4> QED
        BY <2>1, <3>1, <3>2, <4>1, EventsStayLatest
    <3>10. EventsInv(k)'
      BY <1>0, <2>4, <2>8, <3>8, <3>9 DEF EventsInv, EventsOf
    <3>11. Cardinality(AddEvent(k, r)) <= MaximumNumberOfEvents + 1
      <4>1. AddEvent(k, r) = {EventStart, r} => Cardinality(AddEvent(k, r)) <= 2
        <5>1. IsFiniteSet({EventStart}) /\ Cardinality({EventStart}) = 1
          BY FS_Singleton
        <5>2. \/ Cardinality({EventStart} \cup {r}) = 1
              \/ Cardinality({EventStart} \cup {r}) = 1 + 1
          BY <5>1, FS_AddElement
        <5>3. {EventStart, r} = {EventStart} \cup {r}
          OBVIOUS
        <5> HIDE DEF r
        <5> QED
          BY <5>2, <5>3
      <4>2. Cardinality(Trim(MaximumNumberOfEvents, memEvents[k] \cup {r})) <= MaximumNumberOfEvents
        <5>1. memEvents[k] \cup {r} \in SUBSET Numbers
          BY <2>1, <2>6, LogFacts
        <5> QED
          BY <5>1, NewestBound, LogFacts DEF Trim
      <4>3. IsFiniteSet(AddEvent(k, r)) /\ Cardinality(AddEvent(k, r)) \in Nat
        BY <2>7, NumberSets
      <4> QED
        BY <3>2, <4>1, <4>2, <4>3, LogFacts DEF AddEvent
    <3>12. SizesInv(k)'
      <4>1. ResultsOf(k)' = memResults'[k] /\ EventsOf(k)' = AddEvent(k, r)
        BY <1>0, <2>8 DEF ResultsOf, EventsOf
      <4>2. Slack(ResultSlack)' = 0 /\ Slack(EventSlack)' = 0
        BY <1>0 DEF Slack
      <4> QED
        BY <2>3, <3>11, <4>1, <4>2, LogFacts DEF SizesInv
    <3> QED
      BY <3>10, <3>12
  <2>10. ASSUME NEW q \in EndpointKeys \ {k}, q \notin overlapped
         PROVE  EventsInv(q)' /\ SizesInv(q)'
    <3>1. q \in Keys \ {k} /\ EventsInv(q) /\ SizesInv(q)
      BY <2>10, LogFacts
    <3>2. EventsAfter(outcome', history'[q]) = EventsAfter(outcome, history[q])
      BY <2>4, <2>5, <3>1, EventsUntouched
    <3>3. EventsInv(q)'
      BY <1>0, <2>8, <2>10, <3>1, <3>2 DEF EventsInv, EventsOf
    <3>4. SizesInv(q)'
      BY <1>0, <2>4, <2>8, <2>10, <3>1 DEF SizesInv, ResultsOf, EventsOf, Slack
    <3> QED
      BY <3>3, <3>4
  <2> QED
    BY <1>0, <2>3, <2>8, <2>9, <2>10 DEF MemoryTypeOK
<1>2. ASSUME MemoryInsertSuiteResult
      PROVE  LogInv' /\ MemoryTypeOK'
  <2> DEFINE r == Len(outcome) + 1
  <2>1. PICK success \in BOOLEAN :
          /\ r \in Results /\ outcome' = Append(outcome, success)
          /\ memResults' = [memResults EXCEPT ![SuiteKey] = Trim(MaximumNumberOfResults, @ \cup {r})]
          /\ history' = [history EXCEPT ![SuiteKey] = @ \cup {r}]
          /\ memEvents' = memEvents
    BY <1>2 DEF MemoryInsertSuiteResult
  <2>2. SuiteKey \in Keys
    BY LogFacts
  <2>3. HistoryInv' /\ memResults' \in [Keys -> SUBSET Results]
    BY <1>0, <2>1, <2>2, MemoryInsertion
  <2>4. \A q \in EndpointKeys : history'[q] = history[q] /\ memResults'[q] = memResults[q]
    BY <2>1, LogFacts, KeyAssumption DEF HistoryInv, MemoryTypeOK, TableKeys
  <2>5. \A x \in Recorded : outcome'[x] = outcome[x]
    BY <2>1, OutcomeAppended
  <2>6. ASSUME NEW q \in EndpointKeys, q \notin overlapped
        PROVE  EventsInv(q)' /\ SizesInv(q)'
    <3>1. EventsAfter(outcome', history'[q]) = EventsAfter(outcome, history[q])
      BY <2>4, <2>5, EventsUntouched, LogFacts
    <3>2. EventsInv(q)'
      BY <1>0, <2>1, <2>6, <3>1 DEF EventsInv, EventsOf
    <3>3. SizesInv(q)'
      BY <1>0, <2>1, <2>4, <2>6 DEF SizesInv, ResultsOf, EventsOf, Slack
    <3> QED
      BY <3>2, <3>3
  <2> QED
    BY <1>0, <2>1, <2>3, <2>6 DEF MemoryTypeOK
<1>3. ASSUME MemoryInitialize
      PROVE  LogInv' /\ MemoryTypeOK'
  <2>1. /\ \A k \in Keys : history'[k] = {} /\ memResults'[k] = {}
        /\ \A k \in EndpointKeys : memEvents'[k] = {}
        /\ outcome' = outcome
    BY <1>3 DEF MemoryInitialize
  <2>2. HistoryInv' /\ MemoryTypeOK'
    BY <1>0, <1>3, <2>1 DEF MemoryInitialize, HistoryInv, MemoryTypeOK, Recorded, ResultsOf, Newest
  <2>3. ASSUME NEW k \in EndpointKeys
        PROVE  EventsInv(k)' /\ SizesInv(k)'
    <3>1. EventsOf(k)' = {} /\ ResultsOf(k)' = {} /\ EventsAfter(outcome, history[k])' = {}
      BY <1>0, <2>1, LogFacts DEF EventsOf, ResultsOf, EventsAfter
    <3>2. EventsInv(k)'
      BY <3>1 DEF EventsInv, IsSuffix, Newest
    <3>3. SizesInv(k)'
      BY <1>0, <3>1, FS_EmptySet, LogFacts DEF SizesInv, Slack
    <3> QED
      BY <3>2, <3>3
  <2> QED
    BY <1>0, <2>2, <2>3
<1> QED
  BY <1>0, <1>1, <1>2, <1>3 DEF MemoryNext
-----------------------------------------------------------------------------
(* The SQL store *)

(* What a transaction is at every place of its way through the code.       *)
Transactions ==
  [pc : Places, job : JobNames \cup {"none"}, key : Keys, ran : SUBSET SuiteEndpointKeys,
   found : BOOLEAN, id : 0..MaxInserts, events : SUBSET Numbers, gone : SUBSET Results,
   oldEvents : SUBSET Numbers, left : SUBSET TableKeys, at : TableKeys \cup {SuiteKey},
   status : Statuses, alone : BOOLEAN]

TablesOK ==
  /\ known \subseteq TableKeys \cup {SuiteKey}
  /\ rows \in [TableKeys \cup {SuiteKey} -> SUBSET Results]
  /\ eventRows \in [TableKeys -> SUBSET Numbers]
  /\ \A k \in TableKeys \cup {SuiteKey} : rows[k] # {} => k \in known
  /\ \A k \in TableKeys : eventRows[k] # {} => k \in known
  /\ \A k \in SuiteEndpointKeys : rows[k] \subseteq rows[SuiteKey]
  /\ cache \in [TableKeys -> Statuses]
  /\ overlapped \subseteq EndpointKeys
  /\ unsettled \subseteq EndpointKeys
  /\ tx \in [Processes -> Transactions]

JobInv(p) ==
  /\ tx[p].pc \in {"idle", "selecting", "writing"} => tx[p].id = 0
  /\ tx[p].pc \in {"selecting", "writing"} => Inserting(p)
  /\ tx[p].pc \in {"next", "lookup", "set"} /\ Inserting(p) => tx[p].id # 0
  /\ tx[p].id # 0 => Inserting(p)
  /\ tx[p].id = 0 => tx[p].gone = {} /\ tx[p].events = {} /\ tx[p].oldEvents = {}
  /\ tx[p].job # "endpoint" =>
       tx[p].key = SuiteKey /\ tx[p].events = {} /\ tx[p].oldEvents = {}
  /\ tx[p].job # "suite" => tx[p].ran = {}
  /\ tx[p].found => tx[p].pc # "idle" /\ tx[p].key \in known

(* Where a transaction looks in the cache.                                 *)
RefreshInv(p) ==
  /\ tx[p].job = "endpoint" =>
       /\ tx[p].key \in EndpointKeys /\ tx[p].left \subseteq Prefixed[tx[p].key]
       /\ tx[p].pc \in {"lookup", "set"} => tx[p].at \in Prefixed[tx[p].key]
  /\ tx[p].job = "suite" => tx[p].left = {} /\ tx[p].pc \notin {"lookup", "set"}
  /\ tx[p].pc \in {"lookup", "set"} => tx[p].at \in TableKeys

(* An insertion that is under way has a number of its own and deletes      *)
(* nothing but old results of its own endpoint or suite.                   *)
WriterInv(p) ==
  tx[p].id # 0 =>
    /\ tx[p].id \in Recorded
    /\ \A k \in Keys : tx[p].id \notin history[k]
    /\ tx[p].gone \subseteq history[tx[p].key] \cup {tx[p].id}
    /\ tx[p].gone \cap Newest(MaximumNumberOfResults, history[tx[p].key] \cup {tx[p].id}) = {}
    /\ \A q \in Processes \ {p} : tx[q].id # tx[p].id

Disjoint == \A k, q \in Keys : k # q => history[k] \cap history[q] = {}

(* What was computed from the tables still holds when it is committed, if  *)
(* no other insertion came in between.                                     *)
Writing(p, k) == tx[p].id # 0 /\ tx[p].job = "endpoint" /\ tx[p].key = k

QuietInv(p, k) ==
  Writing(p, k) =>
    /\ \A q \in Processes \ {p} : ~Writing(q, k)
    /\ \A x \in history[k] : x < tx[p].id
    /\ tx[p].gone = OldResults(k, tx[p].id)
    /\ tx[p].events = AddedEvents(outcome, history[k], tx[p].id)
    /\ tx[p].oldEvents = OldEvents(k, tx[p].events)

WritersInv == Disjoint /\ \A p \in Processes : WriterInv(p)
QuietsInv == \A k \in EndpointKeys \ overlapped : \A p \in Processes : QuietInv(p, k)
JobsInv == \A p \in Processes : JobInv(p) /\ RefreshInv(p)

SQLInv == TablesOK /\ JobsInv /\ LogInv /\ WritersInv /\ QuietsInv

(* An insertion alone leaves in the cache what it will have committed; and *)
(* nothing else that is cached, or about to be, differs from the tables    *)
(* unless an insertion that is not alone may have made it so.              *)
AloneInv(p) ==
  /\ Open(p) /\ tx[p].alone => Others(p) = {}
  /\ \A k \in EndpointKeys : Writing(p, k) /\ tx[p].alone =>
       /\ cache[k].exists /\ k \notin tx[p].left => cache[k] = StatusSeenBy(p, k)
       /\ tx[p].pc = "lookup" => ~cache[tx[p].at].exists
       /\ tx[p].pc = "set" /\ tx[p].at = k => tx[p].status = StatusSeenBy(p, k)

Trusted(k) ==
  \A q \in Processes, j \in EndpointKeys :
    Writing(q, j) /\ k \in Prefixed[j] => tx[q].alone /\ j # k

FreshInv(k) ==
  Trusted(k) =>
    /\ cache[k].exists => cache[k] = Shown(k)
    /\ \A p \in Processes : tx[p].pc = "set" /\ tx[p].at = k => tx[p].status = Shown(k)

CacheInv ==
  /\ \A p \in Processes : AloneInv(p)
  /\ \A k \in EndpointKeys \ unsettled : FreshInv(k)

StoresInv ==
  /\ LogInv
  /\ storeType = "memory" => MemoryTypeOK /\ SQLInit
  /\ storeType # "memory" => MemoryInit /\ SQLInv /\ CacheInv

-----------------------------------------------------------------------------
(* Begin fills in a transaction that is otherwise as it was.               *)
Begun(t, place, job, k, ran, left, al) ==
  [t EXCEPT !.pc = place, !.job = job, !.key = k, !.ran = ran, !.left = left, !.alone = al]

(* It remains one.                                                         *)
LEMMA BegunTransaction ==
  ASSUME NEW t \in Transactions, NEW place \in Places, NEW job \in JobNames, NEW k \in Keys,
         NEW ran \in SUBSET SuiteEndpointKeys, NEW left \in SUBSET TableKeys, NEW al \in BOOLEAN
  PROVE  LET u == Begun(t, place, job, k, ran, left, al) IN
         /\ u \in Transactions
         /\ u.pc = place /\ u.job = job /\ u.key = k /\ u.ran = ran /\ u.left = left
         /\ u.id = t.id /\ u.gone = t.gone /\ u.events = t.events
         /\ u.oldEvents = t.oldEvents /\ u.found = t.found
  BY DEF Transactions, Begun

(* What a call asks for (InsertEndpointResult, InsertSuiteResult, and the  *)
(* reading functions of the API).                                          *)
LEMMA CallFacts ==
  ASSUME NEW c \in Calls
  PROVE  /\ c.job \in JobNames /\ c.key \in Keys
         /\ c.ran \in SUBSET SuiteEndpointKeys /\ c.left \in SUBSET TableKeys
         /\ c.job = "endpoint" => c.key \in EndpointKeys /\ c.left = {}
         /\ c.job # "endpoint" => c.key = SuiteKey
         /\ c.job = "suite" => c.left = {}
         /\ c.job # "suite" => c.ran = {}
<1>1. CASE c \in [job : {"endpoint"}, key : EndpointKeys, ran : {{}}, left : {{}}]
  BY <1>1 DEF JobNames, Keys
<1>2. CASE c \in [job : {"suite"}, key : {SuiteKey}, ran : SUBSET SuiteEndpointKeys, left : {{}}]
  BY <1>2 DEF JobNames, Keys
<1>3. CASE c \in {[job |-> "status", key |-> SuiteKey, ran |-> {}, left |-> {k}] : k \in TableKeys}
  BY <1>3 DEF JobNames, Keys
<1>4. CASE c = [job |-> "statuses", key |-> SuiteKey, ran |-> {}, left |-> AllKeys]
  BY <1>4 DEF JobNames, Keys, AllKeys, TableKeys
<1> QED
  BY <1>1, <1>2, <1>3, <1>4 DEF Calls

(* A goroutine without a transaction has no job and has written nothing.   *)
LEMMA IdleFacts ==
  /\ Idle \in Transactions
  /\ Idle.pc = "idle" /\ Idle.job = "none" /\ Idle.key = SuiteKey /\ Idle.ran = {}
  /\ Idle.found = FALSE /\ Idle.id = 0 /\ Idle.events = {} /\ Idle.gone = {}
  /\ Idle.oldEvents = {} /\ Idle.left = {} /\ Idle.alone = TRUE
<1>1. Nothing \in Statuses /\ SuiteKey \in Keys /\ 0 \in 0..MaxInserts
  BY MaximumAssumption DEF Nothing, Statuses, Keys
<1>2. Idle.found \in BOOLEAN /\ Idle.alone \in BOOLEAN /\ Idle.found = FALSE /\ Idle.alone = TRUE
  BY DEF Idle
<1>3. Idle \in Transactions
  BY <1>1 DEF Idle, Transactions, Places
<1> QED
  BY <1>2, <1>3 DEF Idle

(* A goroutine that has ended its transaction holds nothing.               *)
LEMMA IdleJob ==
  ASSUME NEW p \in Processes, tx'[p] = Idle
  PROVE  JobInv(p)' /\ RefreshInv(p)' /\ ~Open(p)'
BY IdleFacts DEF JobInv, RefreshInv, Inserting, Open

(* What one goroutine is doing is not disturbed by what others do.         *)
LEMMA OtherJob ==
  ASSUME NEW p \in Processes, JobInv(p), RefreshInv(p), tx'[p] = tx[p], known \subseteq known'
  PROVE  JobInv(p)' /\ RefreshInv(p)'
BY DEF JobInv, RefreshInv, Inserting

(* What an open transaction sees.                                          *)
LEMMA SeenTypes ==
  ASSUME TablesOK, NEW p \in Processes
  PROVE  /\ \A k \in TableKeys \cup {SuiteKey} : ResultsSeenBy(p, k) \in SUBSET Results
         /\ \A k \in TableKeys : EventsSeenBy(p, k) \in SUBSET Numbers
         /\ \A k \in TableKeys : StatusSeenBy(p, k) \in Statuses
<1>1. tx[p] \in Transactions /\ tx[p].id \in 0..MaxInserts /\ tx[p].events \in SUBSET Numbers
  BY DEF TablesOK, Transactions
<1>2. ASSUME NEW k \in TableKeys \cup {SuiteKey}
      PROVE  ResultsSeenBy(p, k) \in SUBSET Results
  <2>1. Inserted(p, k) \in SUBSET Results
    BY <1>1, MaximumAssumption DEF Inserted, Results
  <2> QED
    BY <2>1 DEF ResultsSeenBy, TablesOK
<1>3. ASSUME NEW k \in TableKeys
      PROVE  EventsSeenBy(p, k) \in SUBSET Numbers
  BY <1>1 DEF EventsSeenBy, TablesOK
<1>4. ASSUME NEW k \in TableKeys
      PROVE  StatusSeenBy(p, k) \in Statuses
  <2>1. Numbers = Results \cup {EventStart}
    BY MaximumAssumption DEF Numbers, Results, EventStart
  <2>2. Newest(MaximumNumberOfResults, ResultsSeenBy(p, k)) \in SUBSET Results
    BY <1>2 DEF Newest
  <2>3. Newest(MaximumNumberOfEvents, EventsSeenBy(p, k)) \in SUBSET (Results \cup {EventStart})
    BY <1>3, <2>1 DEF Newest
  <2> HIDE DEF Newest
  <2> QED
    BY <2>2, <2>3 DEF StatusSeenBy, Statuses
<1> QED
  BY <1>2, <1>3, <1>4

(* What every transaction is and what the tables hold, after every step.   *)
LEMMA JobsStay ==
  ASSUME TablesOK, JobsInv, SQLNext, Len(outcome) \in Nat
  PROVE  TablesOK' /\ JobsInv'
<1> DEFINE D == TableKeys \cup {SuiteKey}
<1>0. ASSUME NEW p \in Processes
      PROVE  JobInv(p) /\ RefreshInv(p) /\ tx[p] \in Transactions
  BY DEF JobsInv, TablesOK
<1>t. /\ UNCHANGED <<known, rows, eventRows, overlapped>>
      /\ cache' \in [TableKeys -> Statuses] /\ unsettled' \subseteq EndpointKeys
      /\ tx' \in [Processes -> Transactions]
      => TablesOK'
  BY DEF TablesOK
<1>c. ASSUME NEW k \in TableKeys
      PROVE  [cache EXCEPT ![k] = Nothing] \in [TableKeys -> Statuses]
  BY DEF TablesOK, Nothing, Statuses
<1>1. ASSUME NEW p \in Processes, Begin(p)
      PROVE  TablesOK' /\ JobsInv'
  <2>1. PICK c \in Calls :
          tx' = [q \in Processes |->
                   IF q = p THEN [Idle EXCEPT !.pc = IF c.job \in {"endpoint", "suite"}
                                                     THEN "selecting" ELSE "next",
                                              !.job = c.job, !.key = c.key, !.ran = c.ran,
                                              !.left = c.left, !.alone = Others(p) = {}]
                   ELSE IF Open(q) THEN [tx[q] EXCEPT !.alone = FALSE]
                   ELSE tx[q]]
    BY <1>1 DEF Begin
  <2>2. (Others(p) = {}) \in BOOLEAN
    OBVIOUS
  <2>3. /\ tx'[p] \in Transactions
        /\ tx'[p].pc = (IF c.job \in {"endpoint", "suite"} THEN "selecting" ELSE "next")
        /\ tx'[p].job = c.job /\ tx'[p].key = c.key /\ tx'[p].ran = c.ran
        /\ tx'[p].left = c.left /\ tx'[p].id = 0 /\ tx'[p].gone = {}
        /\ tx'[p].events = {} /\ tx'[p].oldEvents = {} /\ tx'[p].found = FALSE
    <3>1. tx'[p] = [Idle EXCEPT !.pc = IF c.job \in {"endpoint", "suite"}
                                       THEN "selecting" ELSE "next",
                                !.job = c.job, !.key = c.key, !.ran = c.ran,
                                !.left = c.left, !.alone = Others(p) = {}]
      BY <2>1
    <3>2. Idle \in Transactions
      BY IdleFacts
    <3> DEFINE place == IF c.job \in {"endpoint", "suite"} THEN "selecting" ELSE "next"
               al == Others(p) = {}
    <3>3. place \in Places /\ al \in BOOLEAN
      BY DEF Places
    <3>4. tx'[p] = [Idle EXCEPT !.pc = place, !.job = c.job, !.key = c.key, !.ran = c.ran,
                                !.left = c.left, !.alone = al]
      BY <3>1
    <3> HIDE DEF place, al
    <3>5. /\ tx'[p] \in Transactions
          /\ tx'[p].pc = place /\ tx'[p].job = c.job /\ tx'[p].key = c.key /\ tx'[p].ran = c.ran
          /\ tx'[p].left = c.left /\ tx'[p].id = Idle.id /\ tx'[p].gone = Idle.gone
          /\ tx'[p].events = Idle.events /\ tx'[p].oldEvents = Idle.oldEvents
          /\ tx'[p].found = Idle.found
      <4>1. /\ c.job \in JobNames /\ c.key \in Keys
            /\ c.ran \in SUBSET SuiteEndpointKeys /\ c.left \in SUBSET TableKeys
        BY CallFacts
      <4>2. tx'[p] = Begun(Idle, place, c.job, c.key, c.ran, c.left, al)
        BY <3>4 DEF Begun
      <4> QED
        BY <3>2, <3>3, <4>1, <4>2, BegunTransaction
    <3>6. tx'[p].found = FALSE
      BY <3>5, IdleFacts
    <3> QED
      BY <3>5, <3>6, IdleFacts DEF place
  <2>4. ASSUME NEW q \in Processes \ {p}
        PROVE  /\ tx'[q] = tx[q] \/ tx'[q] = [tx[q] EXCEPT !.alone = FALSE]
               /\ tx'[q] \in Transactions
    <3>1. tx'[q] = tx[q] \/ tx'[q] = [tx[q] EXCEPT !.alone = FALSE]
      BY <2>1
    <3>2. [tx[q] EXCEPT !.alone = FALSE] \in Transactions
      BY <1>0 DEF Transactions
    <3> QED
      BY <1>0, <3>1, <3>2
  <2>5. tx' \in [Processes -> Transactions]
    BY <2>1, <2>3, <2>4
  <2>6. JobInv(p)' /\ RefreshInv(p)'
    BY <2>3, CallFacts DEF JobInv, RefreshInv, Inserting, JobNames
  <2>7. ASSUME NEW q \in Processes \ {p}
        PROVE  JobInv(q)' /\ RefreshInv(q)'
    <3> DEFINE u == [tx[q] EXCEPT !.alone = FALSE]
    <3>0. /\ u.pc = tx[q].pc /\ u.job = tx[q].job /\ u.key = tx[q].key
          /\ u.ran = tx[q].ran /\ u.left = tx[q].left /\ u.at = tx[q].at
          /\ u.id = tx[q].id /\ u.gone = tx[q].gone /\ u.found = tx[q].found
          /\ u.events = tx[q].events /\ u.oldEvents = tx[q].oldEvents
      BY <1>0 DEF Transactions
    <3> HIDE DEF u
    <3>1. /\ tx'[q].pc = tx[q].pc /\ tx'[q].job = tx[q].job /\ tx'[q].key = tx[q].key
          /\ tx'[q].ran = tx[q].ran /\ tx'[q].left = tx[q].left /\ tx'[q].at = tx[q].at
          /\ tx'[q].id = tx[q].id /\ tx'[q].gone = tx[q].gone /\ tx'[q].found = tx[q].found
          /\ tx'[q].events = tx[q].events /\ tx'[q].oldEvents = tx[q].oldEvents
      BY <2>4, <3>0 DEF u
    <3>2. known' = known
      BY <1>1 DEF Begin, tables
    <3> QED
      BY <1>0, <3>1, <3>2 DEF JobInv, RefreshInv, Inserting
  <2>8. TablesOK'
    BY <1>1, <1>t, <2>5 DEF Begin, TablesOK, tables
  <2> QED
    BY <2>6, <2>7, <2>8 DEF JobsInv
(* ... of one process, which changes its own transaction alone.            *)
<1>o. ASSUME NEW p \in Processes, \A q \in Processes \ {p} : tx'[q] = tx[q],
             known \subseteq known', JobInv(p)', RefreshInv(p)'
      PROVE  JobsInv'
  BY <1>0, <1>o, OtherJob DEF JobsInv
<1>2. ASSUME NEW p \in Processes, Step(p)
      PROVE  TablesOK' /\ JobsInv'
  <2> DEFINE t == tx[p]
  <2>0. t \in Transactions /\ JobInv(p) /\ RefreshInv(p) /\ tx \in [Processes -> Transactions]
    BY <1>0 DEF TablesOK
  <2>1. CASE Select(p)
    <3>1. (t.key \in known) \in BOOLEAN
      OBVIOUS
    <3>2. /\ tx' \in [Processes -> Transactions] /\ \A q \in Processes \ {p} : tx'[q] = tx[q]
          /\ tx'[p] = [t EXCEPT !.pc = "writing", !.found = t.key \in known]
      BY <2>0, <2>1, <3>1 DEF Select, Transactions, Places
    <3>3. JobInv(p)' /\ RefreshInv(p)'
      BY <2>0, <2>1, <3>2 DEF Select, JobInv, RefreshInv, Inserting, Transactions, tables
    <3> QED
      BY <1>o, <1>t, <2>1, <3>2, <3>3 DEF Select, tables, TablesOK
  <2>2. CASE RollBack(p) \/ CommitFails(p)
    <3>1. /\ tx' \in [Processes -> Transactions] /\ \A q \in Processes \ {p} : tx'[q] = tx[q]
          /\ tx'[p] = Idle
      BY <2>0, <2>2, IdleFacts DEF RollBack, CommitFails
    <3>2. unsettled' \subseteq EndpointKeys
      <4>1. unsettled \subseteq EndpointKeys
        BY DEF TablesOK
      <4>2. unsettled \cup (Prefixed[t.key] \cap EndpointKeys) \subseteq EndpointKeys
        BY <4>1
      <4> QED
        BY <2>2, <4>1, <4>2 DEF RollBack, CommitFails, Settle
    <3> QED
      BY <1>o, <1>t, <2>2, <3>1, <3>2, IdleJob DEF RollBack, CommitFails, tables, TablesOK
  <2>3. CASE WriteEndpointResult(p)
    <3> DEFINE r == Len(outcome) + 1
    <3>1. PICK success \in BOOLEAN :
            /\ tx[p].pc = "writing" /\ tx[p].job = "endpoint" /\ r \in Results
            /\ tx' = [tx EXCEPT ![p].id = r, ![p].events = NewEvents(t.key, r, success),
                                ![p].pc = "next", ![p].left = Cached(Prefixed[t.key]),
                                ![p].oldEvents = OldEvents(t.key, NewEvents(t.key, r, success)),
                                ![p].gone = OldResults(t.key, r)]
      BY <2>3 DEF WriteEndpointResult
    <3>2. /\ overlapped' \subseteq EndpointKeys /\ known' = known /\ rows' = rows
          /\ eventRows' = eventRows /\ cache' = cache /\ unsettled' = unsettled
      BY <2>0, <2>3 DEF WriteEndpointResult, tables, TablesOK, RefreshInv
    <3>3. t.key \in EndpointKeys /\ t.key \in TableKeys
      BY <2>0, <3>1 DEF RefreshInv, TableKeys
    <3>4. r \in 0..MaxInserts /\ r \in Numbers /\ EventStart \in Numbers /\ r # 0
      BY <3>1, MaximumAssumption DEF Results, Numbers, EventStart
    <3>5. NewEvents(t.key, r, success) \in SUBSET Numbers
      BY <3>4 DEF NewEvents
    <3>6. OldEvents(t.key, NewEvents(t.key, r, success)) \in SUBSET Numbers
      BY <3>3 DEF OldEvents, TablesOK
    <3>7. OldResults(t.key, r) \in SUBSET Results
      BY <3>1, <3>3 DEF OldResults, Excess, TablesOK
    <3>8. Cached(Prefixed[t.key]) \in SUBSET TableKeys /\ Cached(Prefixed[t.key]) \subseteq Prefixed[t.key]
      BY <3>3, PrefixAssumption DEF Cached
    <3>9. /\ tx' \in [Processes -> Transactions] /\ \A q \in Processes \ {p} : tx'[q] = tx[q]
          /\ tx'[p].job = t.job /\ tx'[p].key = t.key /\ tx'[p].ran = t.ran
          /\ tx'[p].found = t.found /\ tx'[p].pc = "next" /\ tx'[p].id = r
          /\ tx'[p].left = Cached(Prefixed[t.key])
      <4> HIDE DEF r
      <4> DEFINE added == NewEvents(t.key, r, success)
                 stale == Cached(Prefixed[t.key])
                 spare == OldEvents(t.key, added)
                 rest == OldResults(t.key, r)
      <4>1. /\ added \in SUBSET Numbers /\ stale \in SUBSET TableKeys
            /\ spare \in SUBSET Numbers /\ rest \in SUBSET Results
        BY <3>5, <3>6, <3>7, <3>8
      <4>2. tx' = [tx EXCEPT ![p].id = r, ![p].events = added, ![p].pc = "next",
                             ![p].left = stale, ![p].oldEvents = spare, ![p].gone = rest]
        BY <3>1
      <4> HIDE DEF added, stale, spare, rest
      <4>3. tx'[p] \in Transactions
        BY <2>0, <3>4, <4>1, <4>2 DEF Transactions, Places
      <4> QED
        BY <2>0, <4>2, <4>3 DEF Transactions, stale
    <3>10. JobInv(p)' /\ RefreshInv(p)'
      <4> HIDE DEF r
      <4>1. t.found => t.key \in known'
        BY <2>0, <3>2 DEF JobInv
      <4>2. t.ran = {}
        BY <2>0, <3>1 DEF JobInv
      <4>3. JobInv(p)'
        BY <3>1, <3>4, <3>9, <4>1, <4>2 DEF JobInv, Inserting
      <4>4. RefreshInv(p)'
        <5>1. tx'[p].key \in EndpointKeys /\ tx'[p].left \subseteq Prefixed[tx'[p].key]
          BY <3>3, <3>8, <3>9
        <5>2. tx'[p].pc = "next"
          BY <3>9
        <5>3. tx'[p].job = "endpoint"
          BY <3>1, <3>9
        <5> QED
          BY <5>1, <5>2, <5>3 DEF RefreshInv
      <4> QED
        BY <4>3, <4>4
    <3> QED
      BY <1>o, <3>2, <3>9, <3>10 DEF TablesOK
  <2>4. CASE WriteSuiteResult(p)
    <3> DEFINE r == Len(outcome) + 1
    <3>1. /\ tx[p].pc = "writing" /\ tx[p].job = "suite" /\ r \in Results
          /\ tx' = [tx EXCEPT ![p].id = r, ![p].pc = "next", ![p].gone = OldSuiteResults(r)]
      BY <2>4 DEF WriteSuiteResult
    <3>2. r \in 0..MaxInserts /\ r # 0
      BY <3>1, MaximumAssumption DEF Results
    <3>3. OldSuiteResults(r) \in SUBSET Results
      BY <3>1 DEF OldSuiteResults, Excess, TablesOK
    <3>4. /\ tx' \in [Processes -> Transactions] /\ \A q \in Processes \ {p} : tx'[q] = tx[q]
          /\ tx'[p] = [t EXCEPT !.id = r, !.pc = "next", !.gone = OldSuiteResults(r)]
      <4> HIDE DEF r
      <4> QED
        BY <2>0, <3>1, <3>2, <3>3 DEF Transactions, Places
    <3>5. JobInv(p)' /\ RefreshInv(p)'
      BY <2>0, <2>4, <3>1, <3>2, <3>4 DEF JobInv, RefreshInv, Inserting, Transactions, WriteSuiteResult, tables
    <3> QED
      BY <1>o, <1>t, <2>4, <3>4, <3>5 DEF TablesOK, WriteSuiteResult, tables
  <2>5. CASE NextKey(p)
    <3>1. PICK k \in t.left :
            /\ tx' = [tx EXCEPT ![p].at = k, ![p].left = @ \ {k}, ![p].pc = "lookup"]
            /\ cache' = IF Inserting(p) THEN [cache EXCEPT ![k] = Nothing] ELSE cache
      BY <2>5 DEF NextKey
    <3>2. k \in TableKeys
      BY <2>0 DEF Transactions
    <3>3. /\ tx' \in [Processes -> Transactions] /\ \A q \in Processes \ {p} : tx'[q] = tx[q]
          /\ tx'[p] = [t EXCEPT !.at = k, !.left = t.left \ {k}, !.pc = "lookup"]
      BY <2>0, <3>1, <3>2 DEF Transactions, Places
    <3>4. JobInv(p)' /\ RefreshInv(p)'
      BY <2>0, <2>5, <3>2, <3>3 DEF JobInv, RefreshInv, Inserting, Transactions, NextKey, tables
    <3>5. cache' \in [TableKeys -> Statuses]
      BY <1>c, <3>1, <3>2 DEF TablesOK
    <3> QED
      BY <1>o, <1>t, <2>5, <3>3, <3>4, <3>5 DEF TablesOK, NextKey, tables
  <2>6. CASE Hit(p)
    <3>1. /\ tx' \in [Processes -> Transactions] /\ \A q \in Processes \ {p} : tx'[q] = tx[q]
          /\ tx'[p] = [t EXCEPT !.pc = "next"]
      BY <2>0, <2>6 DEF Hit, Transactions, Places
    <3>2. JobInv(p)' /\ RefreshInv(p)'
      BY <2>0, <2>6, <3>1 DEF JobInv, RefreshInv, Inserting, Transactions, Hit, tables
    <3> QED
      BY <1>o, <1>t, <2>6, <3>1, <3>2 DEF TablesOK, Hit, tables
  <2>7. CASE NotFound(p)
    <3>1. /\ \A q \in Processes \ {p} : tx'[q] = tx[q]
          /\ tx'[p] = IF t.job = "status" THEN Idle ELSE [t EXCEPT !.pc = "next"]
          /\ tx' = [tx EXCEPT ![p] = IF t.job = "status" THEN Idle ELSE [t EXCEPT !.pc = "next"]]
      BY <2>0, <2>7 DEF NotFound
    <3>2. tx'[p] \in Transactions
      BY <2>0, <3>1, IdleFacts DEF Transactions, Places
    <3>3. tx' \in [Processes -> Transactions]
      BY <2>0, <3>1, <3>2
    <3>4. JobInv(p)' /\ RefreshInv(p)'
      <4>1. CASE t.job = "status"
        BY <3>1, <4>1, IdleJob
      <4>2. CASE t.job # "status"
        BY <2>0, <2>7, <3>1, <4>2 DEF JobInv, RefreshInv, Inserting, Transactions, NotFound, tables
      <4> QED
        BY <4>1, <4>2
    <3> QED
      BY <1>o, <1>t, <2>7, <3>1, <3>3, <3>4 DEF TablesOK, NotFound, tables
  <2>8. CASE Miss(p)
    <3>1. t.at \in TableKeys /\ StatusSeenBy(p, t.at) \in Statuses
      BY <2>0, <2>8, SeenTypes DEF Miss, RefreshInv
    <3>2. /\ tx' \in [Processes -> Transactions] /\ \A q \in Processes \ {p} : tx'[q] = tx[q]
          /\ tx'[p] = [t EXCEPT !.status = StatusSeenBy(p, t.at), !.pc = "set"]
      BY <2>0, <2>8, <3>1 DEF Miss, Transactions, Places
    <3>3. JobInv(p)' /\ RefreshInv(p)'
      BY <2>0, <2>8, <3>2 DEF JobInv, RefreshInv, Inserting, Transactions, Miss, tables
    <3> QED
      BY <1>o, <1>t, <2>8, <3>2, <3>3 DEF TablesOK, Miss, tables
  <2>9. CASE SetCache(p)
    <3>1. Nothing \in Statuses /\ t.status \in Statuses /\ t.at \in TableKeys
      BY <2>0, <2>9 DEF Transactions, Nothing, Statuses, SetCache, RefreshInv
    <3>2. /\ tx' \in [Processes -> Transactions] /\ \A q \in Processes \ {p} : tx'[q] = tx[q]
          /\ tx'[p] = [t EXCEPT !.pc = "next", !.status = Nothing]
      BY <2>0, <2>9, <3>1 DEF SetCache, Transactions, Places
    <3>3. JobInv(p)' /\ RefreshInv(p)'
      BY <2>0, <2>9, <3>2 DEF JobInv, RefreshInv, Inserting, Transactions, SetCache, tables
    <3>4. cache' \in [TableKeys -> Statuses]
      BY <2>9, <3>1 DEF SetCache, TablesOK
    <3> QED
      BY <1>o, <1>t, <2>9, <3>2, <3>3, <3>4 DEF TablesOK, SetCache, tables
  <2>10. CASE Commit(p)
    <3>1. /\ tx' \in [Processes -> Transactions] /\ \A q \in Processes \ {p} : tx'[q] = tx[q]
          /\ tx'[p] = Idle
      BY <2>0, <2>10, IdleFacts DEF Commit
    <3>2. known \subseteq known'
      BY <2>10 DEF Commit
    <3>3. JobsInv'
      BY <1>o, <3>1, <3>2, IdleJob
    <3>4. unsettled' \subseteq EndpointKeys
      <4>1. unsettled \subseteq EndpointKeys
        BY DEF TablesOK
      <4>2. unsettled \cup (Prefixed[t.key] \cap EndpointKeys) \subseteq EndpointKeys
        BY <4>1
      <4> QED
        BY <2>10, <4>1, <4>2 DEF Commit, Settle
    <3>5. /\ rows' = [k \in D |-> ResultsSeenBy(p, k)]
          /\ eventRows' = [k \in TableKeys |-> EventsSeenBy(p, k)]
          /\ known' = known \cup Creating(p) /\ cache' = cache /\ overlapped' = overlapped
      BY <2>10 DEF Commit, TablesOK
    <3>6. /\ rows' \in [D -> SUBSET Results] /\ eventRows' \in [TableKeys -> SUBSET Numbers]
      BY <3>5, SeenTypes
    <3>7. known' \subseteq D
      BY <2>0, <3>5 DEF Creating, TablesOK, Transactions, TableKeys, Keys
    <3>8. \A k \in {t.key} \cup t.ran : t.id # 0 => k \in known'
      BY <2>0, <3>5 DEF Creating, JobInv
    <3>9. \A k \in D : rows'[k] # {} => k \in known'
      BY <3>2, <3>5, <3>8 DEF TablesOK, ResultsSeenBy, Inserted
    <3>10. \A k \in TableKeys : eventRows'[k] # {} => k \in known'
      BY <2>0, <3>2, <3>5, <3>8 DEF TablesOK, EventsSeenBy, JobInv
    <3>11. ASSUME NEW k \in SuiteEndpointKeys
           PROVE  rows'[k] \subseteq rows'[SuiteKey]
      <4>1. rows'[k] = ResultsSeenBy(p, k) /\ rows'[SuiteKey] = ResultsSeenBy(p, SuiteKey)
        BY <3>5 DEF TableKeys
      <4>2. k # t.key
        BY <2>0, KeyAssumption DEF JobInv, RefreshInv, TableKeys
      <4>3. Inserted(p, k) \subseteq Inserted(p, SuiteKey)
        BY <2>0, <4>2 DEF Inserted, JobInv, RefreshInv
      <4> QED
        BY <4>1, <4>3 DEF ResultsSeenBy, TablesOK
    <3>12. cache' \in [TableKeys -> Statuses] /\ overlapped' \subseteq EndpointKeys
      BY <3>5 DEF TablesOK
    <3> QED
      BY <3>1, <3>3, <3>4, <3>6, <3>7, <3>9, <3>10, <3>11, <3>12 DEF TablesOK
  <2> QED
    BY <1>2, <2>1, <2>2, <2>3, <2>4, <2>5, <2>6, <2>7, <2>8, <2>9, <2>10 DEF Step
<1>n. [k \in TableKeys |-> Nothing] \in [TableKeys -> Statuses]
  BY DEF Nothing, Statuses
<1>3. CASE Expire
  <2>1. tx' = tx /\ known' = known
    BY <1>3 DEF Expire, tables
  <2>2. JobsInv'
    BY <1>0, <2>1, OtherJob DEF JobsInv
  <2> QED
    BY <1>3, <1>c, <1>t, <2>2 DEF Expire, tables, TablesOK, Cached
<1>4. CASE Crash
  <2>1. \A p \in Processes : tx'[p] = Idle
    BY <1>4 DEF Crash
  <2>2. JobsInv'
    BY <2>1, IdleJob DEF JobsInv
  <2>3. tx' \in [Processes -> Transactions]
    BY <1>4, IdleFacts DEF Crash
  <2> QED
    BY <1>4, <1>n, <1>t, <2>2, <2>3 DEF Crash, tables
<1>5. CASE SQLInitialize
  <2>1. PICK S \in SUBSET Keys :
          LET keep == KeptSuites(S) \cup KeptEndpoints(S)
          IN /\ known' = known \cap keep
             /\ rows' = [k \in D |-> Cascade(rows, keep, k)]
             /\ eventRows' = [k \in TableKeys |-> Cascade(eventRows, keep, k)]
             /\ overlapped' = overlapped \cap keep
    BY <1>5 DEF SQLInitialize, TablesOK
  <2> DEFINE keep == KeptSuites(S) \cup KeptEndpoints(S)
  <2>2. \A k \in SuiteEndpointKeys : k \in keep <=> SuiteKey \in keep
    BY KeyAssumption DEF KeptSuites, KeptEndpoints, TableKeys
  <2>3. /\ tx' = tx /\ unsettled' = {} /\ cache' = [k \in TableKeys |-> Nothing]
        /\ \A p \in Processes : tx[p].pc = "idle"
    BY <1>5 DEF SQLInitialize, Open
  <2> HIDE DEF keep
  <2>4. /\ known' \subseteq D
        /\ rows' \in [D -> SUBSET Results] /\ eventRows' \in [TableKeys -> SUBSET Numbers]
        /\ \A k \in D : rows'[k] # {} => k \in known'
        /\ \A k \in TableKeys : eventRows'[k] # {} => k \in known'
        /\ \A k \in SuiteEndpointKeys : rows'[k] \subseteq rows'[SuiteKey]
        /\ overlapped' \subseteq EndpointKeys
    BY <2>1, <2>2 DEF keep, TablesOK, Cascade, TableKeys
  <2>5. TablesOK'
    BY <1>n, <2>3, <2>4 DEF TablesOK
  <2>6. JobsInv'
    <3> SUFFICES ASSUME NEW p \in Processes
                 PROVE  JobInv(p)' /\ RefreshInv(p)'
      BY DEF JobsInv
    <3>1. JobInv(p) /\ RefreshInv(p) /\ tx'[p] = tx[p] /\ tx[p].pc = "idle"
      BY <1>0, <2>3
    <3> QED
      BY <3>1 DEF JobInv, RefreshInv, Inserting
  <2> QED
    BY <2>5, <2>6
<1> QED
  BY <1>1, <1>2, <1>3, <1>4, <1>5 DEF SQLNext

-----------------------------------------------------------------------------
(* Steps that touch neither the tables nor what an insertion has written:  *)
(* those that begin, look things up, fill the cache or give up.            *)
SameWrites(p) ==
  /\ tx'[p].id = tx[p].id /\ tx'[p].job = tx[p].job /\ tx'[p].key = tx[p].key
  /\ tx'[p].gone = tx[p].gone /\ tx'[p].events = tx[p].events
  /\ tx'[p].oldEvents = tx[p].oldEvents

(* Such steps keep all that the invariant says of tables and insertions.   *)
LEMMA SilentStep ==
  ASSUME LogInv, WritersInv, QuietsInv,
         UNCHANGED <<storeType, outcome, history, rows, eventRows, memoryVars, overlapped>>,
         \A p \in Processes : tx'[p].id = 0 \/ SameWrites(p)
  PROVE  LogInv' /\ WritersInv' /\ QuietsInv'
<1>1. LogInv'
  BY DEF LogInv, HistoryInv, EventsInv, SizesInv, ResultsOf, EventsOf, Slack, Recorded, memoryVars
<1>2. ASSUME NEW p \in Processes
      PROVE  WriterInv(p)'
  <2> SUFFICES ASSUME tx'[p].id # 0
               PROVE  WriterInv(p)'
    BY DEF WriterInv
  <2>1. WriterInv(p) /\ SameWrites(p)
    BY DEF WritersInv
  <2>2. \A q \in Processes \ {p} : tx'[q].id # tx'[p].id
    BY <2>1 DEF WriterInv, SameWrites
  <2> QED
    BY <2>1, <2>2 DEF WriterInv, SameWrites, Recorded
<1>3. WritersInv'
  BY <1>2 DEF WritersInv, Disjoint
<1>4. ASSUME NEW k \in EndpointKeys \ overlapped, NEW p \in Processes
      PROVE  QuietInv(p, k)'
  <2> SUFFICES ASSUME Writing(p, k)'
               PROVE  QuietInv(p, k)'
    BY DEF QuietInv
  <2>1. QuietInv(p, k) /\ SameWrites(p) /\ Writing(p, k)
    BY DEF QuietsInv, Writing, SameWrites
  <2>2. \A q \in Processes \ {p} : ~Writing(q, k)'
    BY <2>1 DEF QuietInv, SameWrites, Writing
  <2> QED
    BY <2>1, <2>2 DEF QuietInv, SameWrites, OldResults, OldEvents
<1>5. QuietsInv'
  BY <1>4 DEF QuietsInv
<1> QED
  BY <1>1, <1>3, <1>5

(* All steps of the SQL store but the two that write, the commit, the      *)
(* deletion and the reload are of that kind.                               *)
LEMMA QuietSteps ==
  ASSUME TablesOK, JobsInv,
         \/ \E p \in Processes :
              Begin(p) \/ Select(p) \/ RollBack(p) \/ NextKey(p) \/ Hit(p) \/ NotFound(p)
                \/ Miss(p) \/ SetCache(p) \/ CommitFails(p)
         \/ Expire \/ Crash
  PROVE  /\ UNCHANGED <<storeType, outcome, history, rows, eventRows, overlapped>>
         /\ \A p \in Processes : tx'[p].id = 0 \/ SameWrites(p)
<1>0. /\ tx \in [Processes -> Transactions]
      /\ \A p \in Processes : tx[p] \in Transactions
  BY DEF TablesOK
<1>1. ASSUME NEW p \in Processes, Begin(p)
      PROVE  \A q \in Processes : tx'[q].id = 0 \/ SameWrites(q)
  <2> TAKE q \in Processes
  <2>1. CASE q = p
    <3>1. PICK c \in Calls :
            tx'[p] = [Idle EXCEPT !.pc = IF c.job \in {"endpoint", "suite"}
                                         THEN "selecting" ELSE "next",
                                  !.job = c.job, !.key = c.key, !.ran = c.ran,
                                  !.left = c.left, !.alone = Others(p) = {}]
      BY <1>1 DEF Begin
    <3>2. Idle \in Transactions /\ Idle.id = 0
      BY IdleFacts
    <3> HIDE DEF Others
    <3>3. tx'[p].id = Idle.id
      BY <3>1, <3>2 DEF Transactions
    <3> QED
      BY <2>1, <3>2, <3>3
  <2>2. CASE q # p
    <3>1. tx'[q] = tx[q] \/ tx'[q] = [tx[q] EXCEPT !.alone = FALSE]
      BY <1>1, <2>2 DEF Begin
    <3> QED
      BY <1>0, <3>1 DEF SameWrites, Transactions
  <2> QED
    BY <2>1, <2>2
<1>2. ASSUME NEW p \in Processes,
             Select(p) \/ RollBack(p) \/ NextKey(p) \/ Hit(p) \/ NotFound(p)
               \/ Miss(p) \/ SetCache(p) \/ CommitFails(p)
      PROVE  \A q \in Processes : tx'[q].id = 0 \/ SameWrites(q)
  <2> TAKE q \in Processes
  <2>0. tx[q] \in Transactions
    BY <1>0
  <2>1. CASE Select(p)
    BY <1>0, <2>0, <2>1 DEF Select, SameWrites, Transactions
  <2>2. CASE RollBack(p)
    BY <1>0, <2>0, <2>2, IdleFacts DEF RollBack, SameWrites
  <2>3. CASE NextKey(p)
    <3>1. PICK k : tx' = [tx EXCEPT ![p].at = k, ![p].left = @ \ {k}, ![p].pc = "lookup"]
      BY <2>3 DEF NextKey
    <3>2. tx' = [tx EXCEPT ![p] = [tx[p] EXCEPT !.at = k, !.left = tx[p].left \ {k}, !.pc = "lookup"]]
      BY <1>0, <3>1
    <3> QED
      BY <1>0, <2>0, <3>2 DEF SameWrites, Transactions
  <2>4. CASE Hit(p)
    BY <1>0, <2>0, <2>4 DEF Hit, SameWrites, Transactions
  <2>5. CASE NotFound(p)
    <3>1. CASE q = p
      <4>1. tx'[p] = IF tx[p].job = "status" THEN Idle ELSE [tx[p] EXCEPT !.pc = "next"]
        BY <1>0, <2>5 DEF NotFound
      <4> QED
        BY <2>0, <3>1, <4>1, IdleFacts DEF SameWrites, Transactions
    <3>2. CASE q # p
      BY <1>0, <2>5, <3>2 DEF NotFound, SameWrites
    <3> QED
      BY <3>1, <3>2
  <2>6. CASE Miss(p)
    BY <1>0, <2>0, <2>6 DEF Miss, SameWrites, Transactions
  <2>7. CASE SetCache(p)
    BY <1>0, <2>0, <2>7 DEF SetCache, SameWrites, Transactions
  <2>8. CASE CommitFails(p)
    BY <1>0, <2>0, <2>8, IdleFacts DEF CommitFails, SameWrites
  <2> QED
    BY <1>2, <2>1, <2>2, <2>3, <2>4, <2>5, <2>6, <2>7, <2>8
<1>3. Crash => \A p \in Processes : tx'[p].id = 0
  BY IdleFacts DEF Crash
<1>4. Expire => \A p \in Processes : SameWrites(p)
  BY DEF Expire, SameWrites
<1>5. UNCHANGED <<storeType, outcome, history, rows, eventRows, overlapped>>
  BY DEF Begin, Select, RollBack, NextKey, Hit, NotFound, Miss, SetCache, CommitFails,
         Expire, Crash, tables, shared
<1> QED
  BY <1>1, <1>2, <1>3, <1>4, <1>5

-----------------------------------------------------------------------------
(* What is deleted is not among the newest.                                *)
LEMMA OldOnes ==
  ASSUME NEW max, NEW slack, NEW S
  PROVE  Excess(max, slack, S) \subseteq S /\ Excess(max, slack, S) \cap Newest(max, S) = {}
<1>1. {} \subseteq S /\ {} \cap Newest(max, S) = {}
  OBVIOUS
<1>2. (S \ Newest(max, S)) \subseteq S /\ (S \ Newest(max, S)) \cap Newest(max, S) = {}
  OBVIOUS
<1> QED
  BY <1>1, <1>2 DEF Excess

(* The events that a result adds to what was there stay the same when a    *)
(* later result gets its outcome.                                          *)
LEMMA AddedStays ==
  ASSUME HistoryInv, \A x \in Recorded : outcome'[x] = outcome[x], NEW k \in Keys, NEW r \in Recorded
  PROVE  AddedEvents(outcome', history[k], r) = AddedEvents(outcome, history[k], r)
<1>1. history[k] \in SUBSET Numbers /\ history[k] \in SUBSET Recorded
  BY LogFacts DEF HistoryInv
<1>2. history[k] # {} => Latest(history[k]) \in history[k]
  BY <1>1, LatestIsLast
<1> QED
  BY <1>1, <1>2 DEF AddedEvents

(* An insertion of either kind gets the next number and looks for what it  *)
(* deletes.  It disturbs no other one, as long as it is noted where two    *)
(* overlap.                                                                *)
LEMMA NumberTaken ==
  ASSUME SQLInv, storeType # "memory",
         NEW p \in Processes, NEW k \in Keys, NEW success \in BOOLEAN, NEW r \in Results,
         r = Len(outcome) + 1, outcome' = Append(outcome, success),
         UNCHANGED <<storeType, history, rows, eventRows>>, overlapped \subseteq overlapped',
         tx[p].key = k, tx'[p].key = k, tx'[p].id = r,
         tx'[p].gone = Excess(MaximumNumberOfResults, ResultSlack, rows[k] \cup {r}),
         \A q \in Processes \ {p} : tx'[q] = tx[q],
         \A q \in Processes \ {p} : Writing(p, k)' /\ Writing(q, k) => k \in overlapped'
  PROVE  /\ LogInv' /\ WritersInv'
         /\ \A j \in EndpointKeys \ overlapped' : \A q \in Processes \ {p} : QuietInv(q, j)'
<1> USE DEF SQLInv
<1>0. HistoryInv
  BY DEF LogInv
<1>1. /\ outcome' \in Seq(BOOLEAN) /\ Len(outcome') <= MaxInserts
      /\ Recorded' = Recorded \cup {r}
      /\ \A x \in Recorded : outcome'[x] = outcome[x]
  BY <1>0, OutcomeAppended
<1>2. HistoryInv'
  BY <1>0, <1>1 DEF HistoryInv, ResultsOf
<1>3. ASSUME NEW j \in EndpointKeys, j \notin overlapped'
      PROVE  EventsInv(j)' /\ SizesInv(j)'
  <2>1. EventsInv(j) /\ SizesInv(j) /\ j \in Keys
    BY <1>3, LogFacts, <1>0 DEF LogInv
  <2>2. EventsAfter(outcome', history[j]) = EventsAfter(outcome, history[j])
    BY <1>0, <1>1, <2>1, EventsUntouched
  <2> QED
    BY <2>1, <2>2 DEF EventsInv, SizesInv, EventsOf, ResultsOf, Slack
<1>4. LogInv'
  BY <1>2, <1>3 DEF LogInv
<1>5. WriterInv(p)'
  <2> DEFINE g == tx'[p].gone
             s == rows[k]
  <2>1. g \subseteq s \cup {r} /\ g \cap Newest(MaximumNumberOfResults, s \cup {r}) = {}
    BY OldOnes
  <2>2. /\ s \in SUBSET history[k] /\ history[k] \in SUBSET Numbers /\ r \in Numbers
        /\ MaximumNumberOfResults \in Nat
    BY <1>0, LogFacts DEF HistoryInv, ResultsOf
  <2>3. history[k] \cup {r} \in SUBSET Numbers /\ s \cup {r} \in SUBSET (history[k] \cup {r})
    BY <2>2
  <2>4. g \in SUBSET (s \cup {r}) /\ g \in SUBSET (history[k] \cup {r})
    BY <2>1, <2>3
  <2> HIDE DEF s, g
  <2>5. g \cap Newest(MaximumNumberOfResults, history[k] \cup {r}) = {}
    BY <2>1, <2>2, <2>3, <2>4, OldStaysOld
  <2>6. \A q \in Processes \ {p} : tx'[q].id # r
    <3>1. r \notin Recorded /\ r # 0
      BY <1>0, LogFacts
    <3>2. ASSUME NEW q \in Processes \ {p}
          PROVE  tx[q].id = 0 \/ tx[q].id \in Recorded
      BY DEF WritersInv, WriterInv
    <3> HIDE DEF SQLInv
    <3> QED
      BY <3>1, <3>2
  <2>7. \A j \in Keys : r \notin history[j]
    BY <1>0, LogFacts DEF HistoryInv
  <2> QED
    BY <1>1, <2>4, <2>5, <2>6, <2>7 DEF WriterInv, g
<1>6. ASSUME NEW q \in Processes \ {p}
      PROVE  WriterInv(q)'
  <2>1. tx[q].id # 0 => tx[q].id # r
    <3>1. r \notin Recorded
      BY <1>0, LogFacts
    <3> QED
      BY <3>1 DEF WritersInv, WriterInv
  <2>2. WriterInv(q)
    BY DEF WritersInv
  <2> QED
    BY <1>1, <2>1, <2>2 DEF WriterInv
<1>7. WritersInv'
  BY <1>5, <1>6 DEF WritersInv, Disjoint
<1>8. ASSUME NEW j \in EndpointKeys, j \notin overlapped', NEW q \in Processes \ {p}
      PROVE  QuietInv(q, j)'
  <2> SUFFICES ASSUME Writing(q, j)
               PROVE  QuietInv(q, j)'
    BY DEF QuietInv, Writing
  <2>1. QuietInv(q, j) /\ j \in Keys
    BY <1>0, <1>8, LogFacts DEF QuietsInv
  <2>2. ~Writing(p, j)'
    BY <1>8 DEF Writing
  <2>3. \A u \in Processes \ {q} : ~Writing(u, j)'
    BY <2>1, <2>2 DEF QuietInv, Writing
  <2>4. tx[q].id \in Recorded
    BY DEF WritersInv, WriterInv, Writing
  <2>5. AddedEvents(outcome', history[j], tx[q].id) = AddedEvents(outcome, history[j], tx[q].id)
    BY <1>0, <1>1, <2>1, <2>4, AddedStays
  <2> QED
    BY <2>1, <2>3, <2>5 DEF QuietInv, OldResults, OldEvents
<1> QED
  BY <1>4, <1>7, <1>8

(* InsertEndpointResult writes the events that the change of the outcome   *)
(* requires, although it compares with what the tables have kept.          *)
LEMMA EndpointWritten ==
  ASSUME SQLInv, storeType # "memory", NEW p \in Processes, WriteEndpointResult(p)
  PROVE  LogInv' /\ WritersInv' /\ QuietsInv'
<1> USE DEF SQLInv
<1>k. PICK k : k = tx[p].key
  OBVIOUS
<1>r. PICK r : r = Len(outcome) + 1
  OBVIOUS
<1>1. PICK success \in BOOLEAN :
        /\ tx[p].pc = "writing" /\ tx[p].job = "endpoint" /\ r \in Results
        /\ outcome' = Append(outcome, success)
        /\ tx' = [tx EXCEPT ![p].id = r, ![p].events = NewEvents(k, r, success),
                            ![p].pc = "next", ![p].left = Cached(Prefixed[k]),
                            ![p].oldEvents = OldEvents(k, NewEvents(k, r, success)),
                            ![p].gone = OldResults(k, r)]
  BY <1>k, <1>r DEF WriteEndpointResult
<1>2. /\ overlapped' = IF \E q \in Others(p) : tx[q].job = "endpoint" /\ tx[q].key = k
                       THEN overlapped \cup {k} ELSE overlapped
      /\ UNCHANGED <<storeType, history, rows, eventRows>>
  BY <1>k DEF WriteEndpointResult, tables
<1>3. tx \in [Processes -> Transactions] /\ HistoryInv
  BY DEF TablesOK, LogInv
<1>4. k \in EndpointKeys /\ k \in Keys
  BY <1>k, <1>1, <1>3, LogFacts DEF JobsInv, RefreshInv
<1>5. /\ tx'[p].id = r /\ tx'[p].key = k /\ tx'[p].job = "endpoint"
      /\ tx'[p].gone = OldResults(k, r) /\ tx'[p].events = NewEvents(k, r, success)
      /\ tx'[p].oldEvents = OldEvents(k, NewEvents(k, r, success))
      /\ \A q \in Processes \ {p} : tx'[q] = tx[q]
  <2>1. tx[p] \in Transactions
    BY <1>3
  <2> QED
    BY <1>k, <1>1, <1>3, <2>1 DEF Transactions
<1>6. ASSUME NEW q \in Processes \ {p}, Writing(q, k)
      PROVE  k \in overlapped'
  <2>1. tx[q].pc # "idle"
    BY <1>6 DEF JobsInv, JobInv, Writing
  <2> QED
    BY <1>2, <1>6, <2>1 DEF Others, Open, Writing
<1>7. /\ LogInv' /\ WritersInv'
      /\ \A j \in EndpointKeys \ overlapped' : \A q \in Processes \ {p} : QuietInv(q, j)'
  <2>1. /\ r = Len(outcome) + 1 /\ k = tx[p].key /\ overlapped \subseteq overlapped'
        /\ tx'[p].gone = Excess(MaximumNumberOfResults, ResultSlack, rows[k] \cup {r})
    BY <1>k, <1>r, <1>2, <1>5 DEF OldResults
  <2>2. \A q \in Processes \ {p} : Writing(p, k)' /\ Writing(q, k) => k \in overlapped'
    BY <1>6
  <2>3. outcome' = Append(outcome, success) /\ r \in Results
    BY <1>1
  <2> HIDE DEF SQLInv
  <2> QED
    BY <1>2, <1>4, <1>5, <2>1, <2>2, <2>3, NumberTaken
<1>8. ASSUME NEW j \in EndpointKeys, j \notin overlapped'
      PROVE  QuietInv(p, j)'
  <2> SUFFICES ASSUME j = k
               PROVE  QuietInv(p, k)'
    BY <1>5 DEF QuietInv, Writing
  <2> DEFINE h == history[k]
             ev == eventRows[k]
  <2>1. \A q \in Processes \ {p} : ~Writing(q, k)'
    BY <1>5, <1>6, <1>8 DEF Writing
  <2>2. k \notin overlapped
    BY <1>2, <1>8
  <2>3. /\ h \in SUBSET Results /\ h \in SUBSET Numbers /\ \A x \in h : x < r
        /\ rows[k] \in SUBSET h /\ Newest(MaximumNumberOfResults, h) \subseteq rows[k]
    BY <1>r, <1>3, <1>4, LogFacts DEF HistoryInv, ResultsOf
  <2>4. IsSuffix(ev, EventsAfter(outcome, h)) /\ Newest(MaximumNumberOfEvents, EventsAfter(outcome, h)) \subseteq ev
    BY <1>4, <2>2 DEF LogInv, EventsInv, EventsOf
  <2>5. ev = {} <=> h = {}
    BY <1>3, <2>3, <2>4, FirstEvent, LogFacts
  <2>6. h # {} => rows[k] # {} /\ Latest(rows[k]) = Latest(h)
    BY <1>3, <2>3, LatestIsKept, LogFacts
  <2>7. /\ outcome'[r] = success
        /\ h # {} => outcome'[Latest(h)] = outcome[Latest(h)]
    <3>1. h # {} => Latest(h) \in Recorded
      BY <1>3, <1>4, <2>3, LatestIsLast DEF HistoryInv
    <3> QED
      BY <1>r, <1>1, <1>3, <3>1, OutcomeAppended
  <2>8. NewEvents(k, r, success) = AddedEvents(outcome', h, r)
    BY <2>5, <2>6, <2>7 DEF NewEvents, AddedEvents, LastSuccess
  <2> HIDE DEF SQLInv
  <2> QED
    BY <1>2, <1>5, <2>1, <2>3, <2>8 DEF QuietInv, OldResults, OldEvents
<1> QED
  BY <1>7, <1>8 DEF QuietsInv

(* InsertSuiteResult has written its result and deleted the old ones, in   *)
(* its own transaction: the tables have not changed yet.                   *)
LEMMA SuiteWritten ==
  ASSUME SQLInv, storeType # "memory", NEW p \in Processes, WriteSuiteResult(p)
  PROVE  LogInv' /\ WritersInv' /\ QuietsInv'
<1> USE DEF SQLInv
<1> DEFINE r == Len(outcome) + 1
<1>1. PICK success \in BOOLEAN :
        /\ tx[p].pc = "writing" /\ tx[p].job = "suite" /\ r \in Results
        /\ outcome' = Append(outcome, success)
        /\ tx' = [tx EXCEPT ![p].id = r, ![p].pc = "next", ![p].gone = OldSuiteResults(r)]
  BY DEF WriteSuiteResult
<1>2. UNCHANGED <<storeType, history, rows, eventRows, overlapped>>
  BY DEF WriteSuiteResult, tables
<1>3. tx \in [Processes -> Transactions] /\ HistoryInv /\ SuiteKey \in Keys
  BY LogFacts DEF TablesOK, LogInv
<1>4. tx[p].key = SuiteKey
  BY <1>1 DEF JobsInv, JobInv
<1>5. /\ tx'[p].id = r /\ tx'[p].key = SuiteKey /\ tx'[p].job = "suite"
      /\ tx'[p].gone = OldSuiteResults(r) /\ \A q \in Processes \ {p} : tx'[q] = tx[q]
  <2>1. tx[p] \in Transactions
    BY <1>3
  <2> HIDE DEF r
  <2> QED
    BY <1>1, <1>3, <1>4, <2>1 DEF Transactions
<1>6. /\ LogInv' /\ WritersInv'
      /\ \A j \in EndpointKeys \ overlapped' : \A q \in Processes \ {p} : QuietInv(q, j)'
  <2>1. ~Writing(p, SuiteKey)'
    BY <1>5 DEF Writing
  <2>2. /\ r = Len(outcome) + 1 /\ overlapped \subseteq overlapped'
        /\ tx'[p].gone = Excess(MaximumNumberOfResults, ResultSlack, rows[SuiteKey] \cup {r})
    BY <1>2, <1>5 DEF OldSuiteResults
  <2> HIDE DEF SQLInv, r
  <2>3. \A q \in Processes \ {p} : Writing(p, SuiteKey)' /\ Writing(q, SuiteKey) => SuiteKey \in overlapped'
    BY <2>1
  <2> QED
    BY <1>1, <1>2, <1>3, <1>4, <1>5, <2>2, <2>3, NumberTaken
<1>7. \A j \in EndpointKeys : QuietInv(p, j)'
  BY <1>5 DEF QuietInv, Writing
<1> QED
  BY <1>6, <1>7 DEF QuietsInv

-----------------------------------------------------------------------------
(* What an insertion of an endpoint's result commits, if it was alone.     *)
LEMMA EventsCommitted ==
  ASSUME SQLInv, storeType # "memory",
         NEW k \in EndpointKeys \ overlapped, NEW p \in Processes, Writing(p, k),
         NEW r, r = tx[p].id
  PROVE  LET events == (eventRows[k] \ tx[p].oldEvents) \cup tx[p].events
             results == (rows[k] \cup {r}) \ tx[p].gone
         IN /\ IsSuffix(events, EventsAfter(outcome, history[k] \cup {r}))
            /\ Newest(MaximumNumberOfEvents, EventsAfter(outcome, history[k] \cup {r})) \subseteq events
            /\ Cardinality(results) <= MaximumNumberOfResults + ResultSlack
            /\ Cardinality(events) <= MaximumNumberOfEvents + 1 + EventSlack
<1> USE DEF SQLInv
<1> DEFINE h == history[k]
           ev == eventRows[k]
           added == tx[p].events
           old == tx[p].oldEvents
           newRows == (rows[k] \cup {r}) \ tx[p].gone
<1>1. /\ MaximumNumberOfResults \in Nat /\ MaximumNumberOfEvents \in Nat \ {0}
      /\ ResultSlack \in Nat /\ EventSlack \in Nat
  BY MaximumAssumption, SlackAssumption
<1>2. /\ HistoryInv /\ EventsInv(k) /\ SizesInv(k) /\ QuietInv(p, k) /\ k \in Keys
  BY DEF LogInv, QuietsInv, Keys
<1>3. r # 0 /\ r \in Recorded /\ r \in Results /\ r \in Numbers
  <2>1. r # 0 /\ r \in Recorded
    BY DEF WritersInv, WriterInv, Writing
  <2> QED
    BY <1>2, <2>1, LogFacts
<1>4. /\ h \in SUBSET Results /\ h \in SUBSET Numbers /\ \A x \in h : x < r
      /\ added = AddedEvents(outcome, h, r)
      /\ old = {} \/ old = ev \ Newest(MaximumNumberOfEvents, ev \cup added)
  BY <1>2, LogFacts DEF QuietInv, OldEvents
<1>5. /\ IsSuffix(ev, EventsAfter(outcome, h))
      /\ Newest(MaximumNumberOfEvents, EventsAfter(outcome, h)) \subseteq ev
  BY <1>2 DEF EventsInv, EventsOf
<1>6. /\ IsSuffix((ev \ old) \cup added, EventsAfter(outcome, h \cup {r}))
      /\ Newest(MaximumNumberOfEvents, EventsAfter(outcome, h \cup {r})) \subseteq (ev \ old) \cup added
  <2> HIDE DEF SQLInv, h, ev, added, old
  <2> QED
    BY <1>1, <1>3, <1>4, <1>5, EventsStayLatest
<1>7. Cardinality(newRows) <= MaximumNumberOfResults + ResultSlack
  <2> DEFINE S == rows[k] \cup {r}
  <2>1. tx[p].gone = Excess(MaximumNumberOfResults, ResultSlack, S)
    BY <1>2 DEF QuietInv, OldResults
  <2>2. S \in SUBSET Numbers
    BY <1>2, <1>3, <1>4 DEF HistoryInv, ResultsOf
  <2>3. Cardinality(S) \in Nat /\ Cardinality(Newest(MaximumNumberOfResults, S)) <= MaximumNumberOfResults
        /\ Cardinality(Newest(MaximumNumberOfResults, S)) \in Nat
    <3>1. Newest(MaximumNumberOfResults, S) \in SUBSET Numbers
      BY <2>2 DEF Newest
    <3> QED
      BY <1>1, <2>2, <3>1, NumberSets, NewestBound
  <2>4. newRows = IF Cardinality(S) > MaximumNumberOfResults + ResultSlack
                  THEN Newest(MaximumNumberOfResults, S) ELSE S
    <3>1. Newest(MaximumNumberOfResults, S) \subseteq S
      BY DEF Newest
    <3> QED
      BY <2>1, <3>1 DEF Excess
  <2> HIDE DEF SQLInv, S, newRows
  <2>5. CASE Cardinality(S) > MaximumNumberOfResults + ResultSlack
    <3> DEFINE N == Newest(MaximumNumberOfResults, S)
    <3>1. newRows = N /\ Cardinality(N) \in Nat /\ Cardinality(N) <= MaximumNumberOfResults
      BY <2>3, <2>4, <2>5
    <3> HIDE DEF N
    <3> QED
      BY <1>1, <3>1
  <2>6. CASE ~(Cardinality(S) > MaximumNumberOfResults + ResultSlack)
    <3>1. newRows = S
      BY <2>4, <2>6
    <3> QED
      BY <1>1, <2>3, <2>6, <3>1
  <2> QED
    BY <2>5, <2>6
<1>8. Cardinality((ev \ old) \cup added) <= MaximumNumberOfEvents + 1 + EventSlack
  <2>0. /\ ev \in SUBSET Numbers /\ added \in SUBSET Numbers
    <3>1. ev \in SUBSET Numbers
      BY DEF TablesOK, TableKeys
    <3>2. AddedEvents(outcome, h, r) \in SUBSET Numbers
      BY <1>3, <1>4, EventsAfterResult
    <3> QED
      BY <1>4, <3>1, <3>2
  <2>1. Cardinality(ev) \in Nat /\ IsFiniteSet(ev)
    BY <2>0, NumberSets
  <2>2. ev = {} <=> h = {}
    BY <1>1, <1>4, <1>5, FirstEvent
  <2>3. CASE h = {}
    <3>1. (ev \ old) \cup added = {EventStart} \cup {r}
      BY <1>4, <2>2, <2>3 DEF AddedEvents
    <3>2. IsFiniteSet({EventStart}) /\ Cardinality({EventStart}) = 1
      BY FS_Singleton
    <3>3. Cardinality({EventStart} \cup {r}) = 1 \/ Cardinality({EventStart} \cup {r}) = 1 + 1
      BY <3>2, FS_AddElement
    <3> DEFINE all == (ev \ old) \cup added
    <3>4. Cardinality(all) = 1 \/ Cardinality(all) = 1 + 1
      BY <3>1, <3>3
    <3> HIDE DEF all
    <3>5. Cardinality(all) <= MaximumNumberOfEvents + 1 + EventSlack
      BY <1>1, <3>4
    <3> QED
      BY <3>5 DEF all
  <2>4. CASE h # {}
    <3> DEFINE kept == ev \ old
    <3>1. added = {} \/ added = {r}
      BY <1>4, <2>4 DEF AddedEvents
    <3>2. old = OldEvents(k, added)
      BY <1>2 DEF QuietInv
    <3>3. /\ Cardinality(kept) \in Nat /\ IsFiniteSet(kept)
          /\ Cardinality(kept) <= MaximumNumberOfEvents + EventSlack
      <4>1. kept \in SUBSET Numbers
        BY <2>0
      <4>2. Cardinality(kept) \in Nat /\ IsFiniteSet(kept)
        BY <4>1, NumberSets
      <4>3. CASE Cardinality(ev) > MaximumNumberOfEvents + EventSlack
        <5> DEFINE N == Newest(MaximumNumberOfEvents, ev \cup added)
        <5>1. kept \in SUBSET N
          BY <3>2, <4>3 DEF OldEvents
        <5>2. ev \cup added \in SUBSET Numbers
          BY <2>0
        <5>3. N \in SUBSET Numbers
          BY <5>2 DEF Newest
        <5>4. Cardinality(N) <= MaximumNumberOfEvents
          BY <1>1, <5>2, NewestBound
        <5>5. IsFiniteSet(N) /\ Cardinality(N) \in Nat
          BY <5>3, NumberSets
        <5> HIDE DEF N, kept
        <5>6. Cardinality(kept) <= Cardinality(N)
          BY <5>1, <5>5, FS_Subset
        <5> HIDE DEF SQLInv
        <5> QED
          BY <1>1, <4>2, <5>4, <5>5, <5>6
      <4>4. CASE ~(Cardinality(ev) > MaximumNumberOfEvents + EventSlack)
        <5>1. kept = ev
          BY <3>2, <4>4 DEF OldEvents
        <5> HIDE DEF SQLInv, kept
        <5> QED
          BY <1>1, <2>1, <4>2, <4>4, <5>1
      <4> QED
        BY <4>2, <4>3, <4>4
    <3> HIDE DEF kept
    <3>4. Cardinality(kept \cup {r}) = Cardinality(kept) \/ Cardinality(kept \cup {r}) = Cardinality(kept) + 1
      BY <3>3, FS_AddElement
    <3>5. kept \cup {} = kept
      OBVIOUS
    <3> HIDE DEF SQLInv, h, ev, added, old
    <3>6. Cardinality(kept \cup added) <= MaximumNumberOfEvents + 1 + EventSlack
      BY <1>1, <3>1, <3>3, <3>4, <3>5
    <3> QED
      BY <3>6 DEF kept
  <2> QED
    BY <2>3, <2>4
<1> QED
  BY <1>6, <1>7, <1>8

(* A commit adds the result to the history of one endpoint or suite, and   *)
(* nothing changes of what another one shows.                              *)
LEMMA Committed ==
  ASSUME SQLInv, storeType # "memory", NEW p \in Processes, Commit(p),
         NEW k, k = tx[p].key, NEW r, r = tx[p].id, r # 0
  PROVE  /\ k \in Keys /\ r \in Recorded /\ \A j \in Keys : r \notin history[j]
         /\ history' = [history EXCEPT ![k] = @ \cup {r}]
         /\ rows'[k] = (rows[k] \cup {r}) \ tx[p].gone
         /\ \A j \in Keys \ {k} : rows'[j] = rows[j]
         /\ \A j \in TableKeys \ {k} : eventRows'[j] = eventRows[j]
         /\ k \in EndpointKeys => eventRows'[k] = (eventRows[k] \ tx[p].oldEvents) \cup tx[p].events
<1> USE DEF SQLInv
<1>1. /\ HistoryInv /\ JobInv(p) /\ RefreshInv(p) /\ WriterInv(p) /\ tx[p] \in Transactions
  BY DEF LogInv, JobsInv, WritersInv, TablesOK
<1>2. k \in Keys /\ Inserting(p) /\ tx[p].ran \in SUBSET SuiteEndpointKeys
  BY <1>1 DEF JobInv, Transactions
<1>3. /\ r \in Recorded /\ \A j \in Keys : r \notin history[j]
      /\ tx[p].gone \subseteq history[k] \cup {r}
  BY <1>1 DEF WriterInv
<1>4. /\ rows' = [j \in TableKeys \cup {SuiteKey} |-> ResultsSeenBy(p, j)]
      /\ eventRows' = [j \in TableKeys |-> EventsSeenBy(p, j)]
      /\ history' = [history EXCEPT ![k] = @ \cup {r}]
  BY <1>2 DEF Commit, TablesOK
<1>5. Keys \subseteq TableKeys \cup {SuiteKey} /\ EndpointKeys \subseteq TableKeys
  BY DEF Keys, TableKeys
<1>6. rows'[k] = (rows[k] \cup {r}) \ tx[p].gone
  BY <1>2, <1>4, <1>5 DEF ResultsSeenBy, Inserted
<1>7. ASSUME NEW j \in Keys \ {k}
      PROVE  rows'[j] = rows[j]
  <2>1. rows[j] \subseteq history[j] /\ history[j] \cap history[k] = {} /\ r \notin history[j]
    BY <1>1, <1>2, <1>3 DEF HistoryInv, ResultsOf, WritersInv, Disjoint
  <2>2. rows[j] \cap tx[p].gone = {}
    BY <1>3, <2>1
  <2>3. j \notin {k} \cup tx[p].ran
    BY <1>2, KeyAssumption DEF Keys, TableKeys
  <2>4. rows'[j] = (rows[j] \cup {}) \ tx[p].gone
    BY <1>4, <1>5, <2>3 DEF ResultsSeenBy, Inserted
  <2> QED
    BY <2>2, <2>4
<1>8. \A j \in TableKeys \ {k} : eventRows'[j] = eventRows[j]
  BY <1>4 DEF EventsSeenBy
<1>9. k \in EndpointKeys => eventRows'[k] = (eventRows[k] \ tx[p].oldEvents) \cup tx[p].events
  BY <1>4, <1>5 DEF EventsSeenBy
<1> QED
  BY <1>2, <1>3, <1>4, <1>6, <1>7, <1>8, <1>9

(* A commit puts into the tables what the insertion has written, which is  *)
(* what an insertion alone should have written even if others have         *)
(* committed since.                                                        *)
LEMMA CommitStep ==
  ASSUME SQLInv, storeType # "memory", NEW p \in Processes, Commit(p),
         NEW k, k = tx[p].key, NEW r, r = tx[p].id, r # 0
  PROVE  LogInv' /\ WritersInv' /\ QuietsInv'
<1> USE DEF SQLInv
<1>1. /\ k \in Keys /\ r \in Recorded /\ \A j \in Keys : r \notin history[j]
      /\ history' = [history EXCEPT ![k] = @ \cup {r}]
      /\ rows'[k] = (rows[k] \cup {r}) \ tx[p].gone
      /\ \A j \in Keys \ {k} : rows'[j] = rows[j]
      /\ \A j \in TableKeys \ {k} : eventRows'[j] = eventRows[j]
      /\ k \in EndpointKeys => eventRows'[k] = (eventRows[k] \ tx[p].oldEvents) \cup tx[p].events
  BY Committed
<1>2. /\ UNCHANGED <<storeType, outcome, overlapped>>
      /\ tx'[p].id = 0 /\ \A q \in Processes \ {p} : tx'[q] = tx[q]
  BY IdleFacts DEF Commit, TablesOK
<1>3. HistoryInv /\ WriterInv(p) /\ MaximumNumberOfResults \in Nat
  BY LogFacts DEF LogInv, WritersInv
<1>4. /\ history'[k] = history[k] \cup {r} /\ \A j \in Keys \ {k} : history'[j] = history[j]
      /\ history' \in [Keys -> SUBSET Recorded]
  BY <1>1, <1>3 DEF HistoryInv
<1>5. /\ history[k] \in SUBSET Numbers /\ r \in Numbers
      /\ rows[k] \subseteq history[k] /\ Newest(MaximumNumberOfResults, history[k]) \subseteq rows[k]
  BY <1>1, <1>3, LogFacts DEF HistoryInv, ResultsOf
<1>6. HistoryInv'
  <2>1. Newest(MaximumNumberOfResults, history[k] \cup {r})
          \subseteq Newest(MaximumNumberOfResults, history[k]) \cup {r}
    BY <1>3, <1>5, NewestGrows
  <2>2. tx[p].gone \cap Newest(MaximumNumberOfResults, history[k] \cup {r}) = {}
    BY <1>3 DEF WriterInv
  <2>3. Newest(MaximumNumberOfResults, history[k] \cup {r}) \subseteq rows'[k]
    BY <1>1, <1>5, <2>1, <2>2
  <2>4. rows'[k] \subseteq history'[k]
    BY <1>1, <1>4, <1>5
  <2>5. ASSUME NEW j \in Keys
        PROVE  /\ rows'[j] \subseteq history'[j]
               /\ Newest(MaximumNumberOfResults, history'[j]) \subseteq rows'[j]
    <3>1. CASE j = k
      BY <1>4, <2>3, <2>4, <3>1
    <3>2. CASE j # k
      BY <1>1, <1>3, <1>4, <3>2 DEF HistoryInv, ResultsOf
    <3> QED
      BY <3>1, <3>2
  <2> QED
    BY <1>2, <1>3, <1>4, <2>5 DEF HistoryInv, ResultsOf, Recorded
<1>7. ASSUME NEW q \in Processes
      PROVE  WriterInv(q)'
  <2> SUFFICES ASSUME q # p, tx[q].id # 0
               PROVE  WriterInv(q)'
    BY <1>2 DEF WriterInv
  <2> DEFINE j == tx[q].key
             i == tx[q].id
             g == tx[q].gone
  <2>1. tx'[q] = tx[q] /\ WriterInv(q) /\ j \in Keys /\ i # r
    BY <1>2, <1>3 DEF WritersInv, WriterInv, TablesOK, Transactions
  <2>2. \A m \in Keys : i \notin history'[m]
    BY <1>4, <2>1 DEF WriterInv
  <2>3. history[j] \subseteq history'[j] /\ history'[j] \in SUBSET Numbers /\ i \in Numbers
    BY <1>3, <1>4, <1>5, <2>1, LogFacts DEF WriterInv
  <2>4. /\ g \in SUBSET (history[j] \cup {i})
        /\ g \cap Newest(MaximumNumberOfResults, history[j] \cup {i}) = {}
    BY <2>1 DEF WriterInv
  <2>5. g \cap Newest(MaximumNumberOfResults, history'[j] \cup {i}) = {}
    <3> DEFINE T == history[j] \cup {i}
               U == history'[j] \cup {i}
    <3>1. U \in SUBSET Numbers /\ T \in SUBSET U
      BY <2>3
    <3> HIDE DEF T, U, g
    <3>2. g \in SUBSET T /\ g \cap Newest(MaximumNumberOfResults, T) = {}
      BY <2>4 DEF T
    <3>3. g \cap Newest(MaximumNumberOfResults, U) = {}
      BY <1>3, <3>1, <3>2, OldStaysOld
    <3> QED
      BY <3>3 DEF U
  <2>6. \A u \in Processes \ {q} : tx'[u].id # i
    BY <1>2, <2>1 DEF WriterInv
  <2> QED
    BY <1>2, <2>1, <2>2, <2>3, <2>4, <2>5, <2>6 DEF WriterInv, Recorded
<1>8. WritersInv'
  <2>1. Disjoint'
    BY <1>1, <1>4 DEF WritersInv, Disjoint
  <2> QED
    BY <1>7, <2>1 DEF WritersInv
<1>9. ASSUME NEW j \in EndpointKeys, j \notin overlapped
      PROVE  /\ EventsInv(j)' /\ SizesInv(j)'
             /\ \A q \in Processes : QuietInv(q, j)'
  <2>1. j \in Keys /\ j \in TableKeys /\ EventsInv(j) /\ SizesInv(j) /\ storeType' # "memory"
    BY <1>2, <1>9 DEF LogInv, Keys, TableKeys
  <2>2. CASE j # k
    <3>1. rows'[j] = rows[j] /\ eventRows'[j] = eventRows[j] /\ history'[j] = history[j]
      BY <1>1, <1>4, <2>1, <2>2
    <3>2. EventsInv(j)' /\ SizesInv(j)'
      BY <1>2, <2>1, <3>1 DEF EventsInv, SizesInv, EventsOf, ResultsOf, Slack
    <3>3. ASSUME NEW q \in Processes, Writing(q, j)'
          PROVE  QuietInv(q, j)'
      <4>1. q # p /\ tx'[q] = tx[q] /\ Writing(q, j)
        BY <1>2, <3>3 DEF Writing
      <4>2. QuietInv(q, j)
        BY <1>9 DEF QuietsInv
      <4>3. \A u \in Processes \ {q} : ~Writing(u, j)'
        BY <1>2, <4>1, <4>2 DEF QuietInv, Writing
      <4> QED
        BY <1>2, <3>1, <4>1, <4>2, <4>3 DEF QuietInv, OldResults, OldEvents
    <3> QED
      BY <3>2, <3>3 DEF QuietInv
  <2>3. CASE j = k
    <3>1. Writing(p, k)
      <4>1. JobInv(p)
        BY DEF JobsInv
      <4>2. k # SuiteKey
        BY <2>3, KeyAssumption DEF TableKeys
      <4> QED
        BY <4>1, <4>2 DEF JobInv, Writing
    <3>2. QuietInv(p, k)
      BY <1>9, <2>3 DEF QuietsInv
    <3>3. \A q \in Processes : ~Writing(q, k)'
      BY <1>2, <3>1, <3>2 DEF QuietInv, Writing
    <3>4. k \in EndpointKeys \ overlapped
      BY <1>9, <2>3
    <3> DEFINE events == (eventRows[k] \ tx[p].oldEvents) \cup tx[p].events
               results == (rows[k] \cup {r}) \ tx[p].gone
    <3>5. eventRows'[k] = events /\ rows'[k] = results
      BY <1>1, <3>4
    <3> HIDE DEF SQLInv
    <3>6. /\ IsSuffix(events, EventsAfter(outcome, history[k] \cup {r}))
          /\ Newest(MaximumNumberOfEvents, EventsAfter(outcome, history[k] \cup {r})) \subseteq events
          /\ Cardinality(results) <= MaximumNumberOfResults + ResultSlack
          /\ Cardinality(events) <= MaximumNumberOfEvents + 1 + EventSlack
      BY <3>1, <3>4, EventsCommitted
    <3> HIDE DEF events, results
    <3>7. EventsInv(k)' /\ SizesInv(k)'
      BY <1>2, <1>4, <2>1, <3>5, <3>6 DEF EventsInv, SizesInv, EventsOf, ResultsOf, Slack
    <3> QED
      BY <2>3, <3>3, <3>7 DEF QuietInv
  <2> QED
    BY <2>2, <2>3
<1>10. LogInv' /\ QuietsInv'
  BY <1>2, <1>6, <1>9 DEF LogInv, QuietsInv
<1> QED
  BY <1>8, <1>10

(* A commit without an insertion changes nothing.                          *)
LEMMA NothingCommitted ==
  ASSUME TablesOK, JobsInv, NEW p \in Processes, Commit(p), tx[p].id = 0
  PROVE  /\ UNCHANGED <<storeType, outcome, history, rows, eventRows, overlapped>>
         /\ \A q \in Processes : tx'[q].id = 0 \/ SameWrites(q)
<1>1. JobInv(p) /\ RefreshInv(p) /\ tx[p] \in Transactions
  BY DEF JobsInv, TablesOK
<1>2. ~Inserting(p) /\ tx[p].gone = {} /\ tx[p].key = SuiteKey
  BY <1>1 DEF JobInv, Inserting, Commit
<1>3. rows' = [k \in TableKeys \cup {SuiteKey} |-> rows[k]]
  BY <1>2 DEF Commit, TablesOK, ResultsSeenBy, Inserted
<1>4. eventRows' = [k \in TableKeys |-> eventRows[k]]
  BY <1>2, KeyAssumption DEF Commit, EventsSeenBy
<1>5. rows' = rows /\ eventRows' = eventRows
  BY <1>3, <1>4 DEF TablesOK
<1>6. \A q \in Processes : tx'[q].id = 0 \/ SameWrites(q)
  BY IdleFacts DEF Commit, TablesOK, SameWrites
<1> QED
  BY <1>2, <1>5, <1>6 DEF Commit

(* A reload or a restart keeps what is still configured.                   *)
LEMMA Reopened ==
  ASSUME SQLInv, storeType # "memory", SQLInitialize
  PROVE  /\ LogInv' /\ WritersInv' /\ QuietsInv'
         /\ \E S \in SUBSET Keys :
              /\ history' = [k \in Keys |-> IF k \in S THEN {} ELSE history[k]]
              /\ \A k \in Keys : rows'[k] = IF k \in S THEN {} ELSE rows[k]
<1> USE DEF SQLInv
<1>1. PICK S \in SUBSET Keys :
        LET keep == KeptSuites(S) \cup KeptEndpoints(S)
        IN /\ rows' = [k \in TableKeys \cup {SuiteKey} |-> Cascade(rows, keep, k)]
           /\ eventRows' = [k \in TableKeys |-> Cascade(eventRows, keep, k)]
           /\ history' = [k \in Keys |-> IF k \in keep THEN history[k] ELSE {}]
           /\ overlapped' = overlapped \cap keep
  BY DEF SQLInitialize, TablesOK
<1> DEFINE keep == KeptSuites(S) \cup KeptEndpoints(S)
<1> HIDE DEF keep
<1>2. /\ \A k \in Keys : /\ rows'[k] = IF k \in keep THEN rows[k] ELSE {}
                         /\ history'[k] = IF k \in keep THEN history[k] ELSE {}
      /\ \A k \in EndpointKeys : eventRows'[k] = IF k \in keep THEN eventRows[k] ELSE {}
      /\ history' = [k \in Keys |-> IF k \in keep THEN history[k] ELSE {}]
      /\ overlapped' = overlapped \cap keep
  BY <1>1 DEF keep, Cascade, Keys, TableKeys
<1>3. /\ storeType' = storeType /\ outcome' = outcome
      /\ \A p \in Processes : tx'[p].id = 0
  BY DEF SQLInitialize, Open, JobsInv, JobInv
<1>4. HistoryInv'
  <2>1. HistoryInv
    BY DEF LogInv
  <2>2. Newest(MaximumNumberOfResults, {}) = {}
    BY DEF Newest
  <2>3. history' \in [Keys -> SUBSET Recorded]
    BY <1>2, <2>1 DEF HistoryInv
  <2> QED
    BY <1>2, <1>3, <2>1, <2>2, <2>3 DEF HistoryInv, ResultsOf, Recorded
<1>5. WritersInv' /\ QuietsInv'
  <2>1. Disjoint'
    BY <1>2 DEF WritersInv, Disjoint
  <2> QED
    BY <1>3, <2>1 DEF WritersInv, WriterInv, QuietsInv, QuietInv, Writing
<1>6. ASSUME NEW k \in EndpointKeys, k \notin overlapped'
      PROVE  EventsInv(k)' /\ SizesInv(k)'
  <2>1. k \in Keys
    BY DEF Keys
  <2>2. CASE k \in keep
    <3>1. EventsInv(k) /\ SizesInv(k)
      BY <1>2, <1>6, <2>2 DEF LogInv
    <3> QED
      BY <1>2, <1>3, <2>1, <2>2, <3>1 DEF EventsInv, SizesInv, EventsOf, ResultsOf, Slack
  <2>3. CASE k \notin keep
    <3>1. EventsOf(k)' = {} /\ ResultsOf(k)' = {} /\ EventsAfter(outcome, history[k])' = {}
      BY <1>2, <1>3, <2>1, <2>3 DEF EventsOf, ResultsOf, EventsAfter
    <3>2. EventsInv(k)'
      BY <3>1 DEF EventsInv, IsSuffix, Newest
    <3>3. SizesInv(k)'
      <4>1. Slack(ResultSlack)' \in Nat /\ Slack(EventSlack)' \in Nat
        BY SlackAssumption DEF Slack
      <4> QED
        BY <3>1, <4>1, FS_EmptySet, MaximumAssumption DEF SizesInv
    <3> QED
      BY <3>2, <3>3
  <2> QED
    BY <2>2, <2>3
<1>7. LogInv'
  BY <1>4, <1>6 DEF LogInv
<1>8. /\ Keys \ keep \in SUBSET Keys
      /\ history' = [k \in Keys |-> IF k \in Keys \ keep THEN {} ELSE history[k]]
      /\ \A k \in Keys : rows'[k] = IF k \in Keys \ keep THEN {} ELSE rows[k]
  BY <1>2
<1> QED
  BY <1>5, <1>7, <1>8

(* Every step of the SQL store keeps its tables, its transactions and its  *)
(* log.                                                                    *)
LEMMA SQLStep ==
  ASSUME SQLInv, storeType # "memory", SQLNext, UNCHANGED memoryVars
  PROVE  SQLInv' /\ storeType' = storeType
<1>1. TablesOK' /\ JobsInv'
  BY JobsStay, LogFacts DEF SQLInv, LogInv
<1>2. storeType' = storeType
  <2>1. ASSUME NEW p \in Processes
        PROVE  /\ Begin(p) => storeType' = storeType
               /\ Step(p) => storeType' = storeType
    <3>1. Begin(p) => storeType' = storeType
      BY DEF Begin, shared
    <3>2. Select(p) \/ RollBack(p) \/ Hit(p) \/ NotFound(p) \/ Miss(p) \/ CommitFails(p)
            => storeType' = storeType
      BY DEF Select, RollBack, Hit, NotFound, Miss, CommitFails, shared
    <3>3. NextKey(p) \/ SetCache(p) => storeType' = storeType
      BY DEF NextKey, SetCache, shared
    <3>4. WriteEndpointResult(p) \/ WriteSuiteResult(p) \/ Commit(p) => storeType' = storeType
      BY DEF WriteEndpointResult, WriteSuiteResult, Commit
    <3> QED
      BY <3>1, <3>2, <3>3, <3>4 DEF Step
  <2>2. Expire \/ Crash \/ SQLInitialize => storeType' = storeType
    BY DEF Expire, Crash, SQLInitialize, shared
  <2> QED
    BY <2>1, <2>2 DEF SQLNext
<1>3. LogInv' /\ WritersInv' /\ QuietsInv'
  <2>1. CASE \/ \E p \in Processes :
                  Begin(p) \/ Select(p) \/ RollBack(p) \/ NextKey(p) \/ Hit(p) \/ NotFound(p)
                    \/ Miss(p) \/ SetCache(p) \/ CommitFails(p)
             \/ Expire \/ Crash
    BY <2>1, QuietSteps, SilentStep DEF SQLInv
  <2>2. ASSUME NEW p \in Processes, WriteEndpointResult(p)
        PROVE  LogInv' /\ WritersInv' /\ QuietsInv'
    BY <2>2, EndpointWritten
  <2>3. ASSUME NEW p \in Processes, WriteSuiteResult(p)
        PROVE  LogInv' /\ WritersInv' /\ QuietsInv'
    BY <2>3, SuiteWritten
  <2>4. ASSUME NEW p \in Processes, Commit(p)
        PROVE  LogInv' /\ WritersInv' /\ QuietsInv'
    <3>1. CASE tx[p].id = 0
      BY <2>4, <3>1, NothingCommitted, SilentStep DEF SQLInv
    <3>2. CASE tx[p].id # 0
      BY <2>4, <3>2, CommitStep
    <3> QED
      BY <3>1, <3>2
  <2>5. CASE SQLInitialize
    BY <2>5, Reopened
  <2> QED
    BY <2>1, <2>2, <2>3, <2>4, <2>5 DEF SQLNext, Step
<1> QED
  BY <1>1, <1>2, <1>3 DEF SQLInv

-----------------------------------------------------------------------------
(* The cache of the SQL store *)

(* Who does not write to an endpoint sees what is committed.               *)
LEMMA SeenAsShown ==
  ASSUME SQLInv, storeType # "memory",
         NEW p \in Processes, NEW k \in EndpointKeys, ~Writing(p, k)
  PROVE  StatusSeenBy(p, k) = Shown(k)
<1> USE DEF SQLInv
<1>1. /\ HistoryInv /\ JobInv(p) /\ WriterInv(p) /\ tx[p] \in Transactions
      /\ k \in Keys /\ k # SuiteKey /\ k \notin SuiteEndpointKeys /\ SuiteKey \in Keys
  BY KeyAssumption DEF LogInv, JobsInv, WritersInv, TablesOK, Keys, TableKeys
<1>2. ResultsSeenBy(p, k) = rows[k] /\ EventsSeenBy(p, k) = eventRows[k]
  <2>1. CASE tx[p].id = 0
    BY <1>1, <2>1 DEF JobInv, ResultsSeenBy, EventsSeenBy, Inserted
  <2>2. CASE tx[p].id # 0
    <3>1. tx[p].key # k /\ tx[p].key \in Keys
      <4>1. tx[p].key \in Keys /\ (tx[p].job = "endpoint" \/ tx[p].key = SuiteKey)
        BY <1>1 DEF Transactions, JobInv
      <4> QED
        BY <1>1, <2>2, <4>1 DEF Writing
    <3>2. k \notin {tx[p].key} \cup tx[p].ran
      BY <1>1, <3>1 DEF Transactions
    <3>3. rows[k] \cap tx[p].gone = {}
      <4>1. /\ rows[k] \subseteq history[k] /\ history[k] \cap history[tx[p].key] = {}
            /\ tx[p].id \notin history[k] /\ tx[p].gone \subseteq history[tx[p].key] \cup {tx[p].id}
        BY <1>1, <2>2, <3>1 DEF HistoryInv, ResultsOf, WriterInv, WritersInv, Disjoint
      <4> QED
        BY <4>1
    <3> QED
      BY <3>1, <3>2, <3>3 DEF ResultsSeenBy, EventsSeenBy, Inserted
  <2> QED
    BY <2>1, <2>2
<1> QED
  BY <1>2 DEF StatusSeenBy, Shown

(* What is cached is either right or of no use, unless the tables change.  *)
LEMMA FreshStays ==
  ASSUME SQLInv, storeType # "memory", NEW k \in EndpointKeys, FreshInv(k),
         rows'[k] = rows[k], eventRows'[k] = eventRows[k], Trusted(k)' => Trusted(k),
         \/ cache'[k] = cache[k] \/ ~cache'[k].exists
         \/ \E p \in Processes : /\ tx[p].pc = "set" /\ tx[p].at = k
                                 /\ cache'[k] = tx[p].status,
         \A p \in Processes : tx'[p].pc = "set" /\ tx'[p].at = k =>
            \/ tx[p].pc = "set" /\ tx[p].at = k /\ tx'[p].status = tx[p].status
            \/ tx'[p].status = StatusSeenBy(p, k)
  PROVE  FreshInv(k)'
<1> SUFFICES ASSUME Trusted(k)'
             PROVE  FreshInv(k)'
  BY DEF FreshInv
<1>1. /\ cache[k].exists => cache[k] = Shown(k)
      /\ \A p \in Processes : tx[p].pc = "set" /\ tx[p].at = k => tx[p].status = Shown(k)
  BY DEF FreshInv
<1>2. Shown(k)' = Shown(k)
  BY DEF Shown
<1>3. \A p \in Processes : StatusSeenBy(p, k) = Shown(k)
  <2>1. k \in Prefixed[k]
    BY PrefixAssumption
  <2>2. \A p \in Processes : ~Writing(p, k)
    BY <2>1 DEF Trusted
  <2> QED
    BY <2>2, SeenAsShown
<1>4. cache'[k].exists => cache'[k] = Shown(k)
  BY <1>1
<1>5. \A p \in Processes : tx'[p].pc = "set" /\ tx'[p].at = k => tx'[p].status = Shown(k)
  BY <1>1, <1>3
<1> QED
  BY <1>2, <1>4, <1>5 DEF FreshInv

(* A key is trusted afterwards only if it was before, when insertions go   *)
(* on and none is alone that was not.                                      *)
LEMMA TrustedBefore ==
  ASSUME NEW k, Trusted(k)',
         \A q \in Processes, j \in EndpointKeys :
            Writing(q, j) /\ k \in Prefixed[j] =>
              \/ Writing(q, j)' /\ (tx'[q].alone => tx[q].alone)
              \/ tx[q].alone /\ j # k
  PROVE  Trusted(k)
BY DEF Trusted

(* The way of a transaction through the cache does not change what it has  *)
(* written, nor whether it is alone.                                       *)
LEMMA CacheMoves ==
  ASSUME TablesOK, JobsInv, NEW p \in Processes,
         Select(p) \/ NextKey(p) \/ Hit(p) \/ NotFound(p) \/ Miss(p) \/ SetCache(p)
  PROVE  /\ \A q \in Processes \ {p} : tx'[q] = tx[q]
         /\ \/ SameWrites(p) /\ tx'[p].ran = tx[p].ran /\ (tx'[p].alone <=> tx[p].alone)
            \/ tx'[p] = Idle /\ tx[p].job = "status"
         /\ UNCHANGED <<storeType, rows, eventRows, unsettled>>
<1>0. /\ tx \in [Processes -> Transactions] /\ tx[p] \in Transactions
  BY DEF TablesOK
<1> DEFINE Same == SameWrites(p) /\ tx'[p].ran = tx[p].ran /\ (tx'[p].alone <=> tx[p].alone)
<1>s. ASSUME NEW t, tx'[p] = t, t.id = tx[p].id, t.job = tx[p].job, t.key = tx[p].key,
             t.gone = tx[p].gone, t.events = tx[p].events, t.oldEvents = tx[p].oldEvents,
             t.ran = tx[p].ran, t.alone = tx[p].alone
      PROVE  Same
  BY <1>s DEF SameWrites
<1> HIDE DEF Same
<1>1. CASE Select(p)
  <2> DEFINE t == [tx[p] EXCEPT !.pc = "writing", !.found = tx[p].key \in known]
  <2>1. /\ tx'[p] = t /\ \A q \in Processes \ {p} : tx'[q] = tx[q]
        /\ UNCHANGED <<storeType, rows, eventRows, unsettled>>
    BY <1>0, <1>1 DEF Select, tables, shared
  <2>2. /\ t.id = tx[p].id /\ t.job = tx[p].job /\ t.key = tx[p].key
        /\ t.gone = tx[p].gone /\ t.events = tx[p].events /\ t.oldEvents = tx[p].oldEvents
        /\ t.ran = tx[p].ran /\ t.alone = tx[p].alone
    BY <1>0 DEF Transactions
  <2> HIDE DEF t
  <2> QED
    BY <1>s, <2>1, <2>2 DEF Same
<1>2. CASE NextKey(p)
  <2>1. PICK k : tx' = [tx EXCEPT ![p].at = k, ![p].left = @ \ {k}, ![p].pc = "lookup"]
    BY <1>2 DEF NextKey
  <2> DEFINE t == [tx[p] EXCEPT !.at = k, !.left = tx[p].left \ {k}, !.pc = "lookup"]
  <2>2. /\ tx'[p] = t /\ \A q \in Processes \ {p} : tx'[q] = tx[q]
        /\ UNCHANGED <<storeType, rows, eventRows, unsettled>>
    BY <1>0, <1>2, <2>1 DEF NextKey, tables, shared
  <2>3. /\ t.id = tx[p].id /\ t.job = tx[p].job /\ t.key = tx[p].key
        /\ t.gone = tx[p].gone /\ t.events = tx[p].events /\ t.oldEvents = tx[p].oldEvents
        /\ t.ran = tx[p].ran /\ t.alone = tx[p].alone
    BY <1>0 DEF Transactions
  <2> HIDE DEF t
  <2> QED
    BY <1>s, <2>2, <2>3 DEF Same
<1>3. CASE Hit(p) \/ (NotFound(p) /\ tx[p].job # "status")
  <2> DEFINE t == [tx[p] EXCEPT !.pc = "next"]
  <2>1. /\ tx'[p] = t /\ \A q \in Processes \ {p} : tx'[q] = tx[q]
        /\ UNCHANGED <<storeType, rows, eventRows, unsettled>>
    BY <1>0, <1>3 DEF Hit, NotFound, tables, shared
  <2>2. /\ t.id = tx[p].id /\ t.job = tx[p].job /\ t.key = tx[p].key
        /\ t.gone = tx[p].gone /\ t.events = tx[p].events /\ t.oldEvents = tx[p].oldEvents
        /\ t.ran = tx[p].ran /\ t.alone = tx[p].alone
    BY <1>0 DEF Transactions
  <2> HIDE DEF t
  <2> QED
    BY <1>s, <2>1, <2>2 DEF Same
<1>4. CASE NotFound(p) /\ tx[p].job = "status"
  BY <1>0, <1>4 DEF NotFound, tables, shared
<1>5. CASE Miss(p)
  <2> DEFINE t == [tx[p] EXCEPT !.status = StatusSeenBy(p, tx[p].at), !.pc = "set"]
  <2>1. /\ tx'[p] = t /\ \A q \in Processes \ {p} : tx'[q] = tx[q]
        /\ UNCHANGED <<storeType, rows, eventRows, unsettled>>
    BY <1>0, <1>5 DEF Miss, tables, shared
  <2>2. /\ t.id = tx[p].id /\ t.job = tx[p].job /\ t.key = tx[p].key
        /\ t.gone = tx[p].gone /\ t.events = tx[p].events /\ t.oldEvents = tx[p].oldEvents
        /\ t.ran = tx[p].ran /\ t.alone = tx[p].alone
    BY <1>0 DEF Transactions
  <2> HIDE DEF t
  <2> QED
    BY <1>s, <2>1, <2>2 DEF Same
<1>6. CASE SetCache(p)
  <2> DEFINE t == [tx[p] EXCEPT !.pc = "next", !.status = Nothing]
  <2>1. /\ tx'[p] = t /\ \A q \in Processes \ {p} : tx'[q] = tx[q]
        /\ UNCHANGED <<storeType, rows, eventRows, unsettled>>
    BY <1>0, <1>6 DEF SetCache, tables, shared
  <2>2. /\ t.id = tx[p].id /\ t.job = tx[p].job /\ t.key = tx[p].key
        /\ t.gone = tx[p].gone /\ t.events = tx[p].events /\ t.oldEvents = tx[p].oldEvents
        /\ t.ran = tx[p].ran /\ t.alone = tx[p].alone
    BY <1>0 DEF Transactions
  <2> HIDE DEF t
  <2> QED
    BY <1>s, <2>1, <2>2 DEF Same
<1>7. NotFound(p) => (NotFound(p) /\ tx[p].job # "status") \/ (NotFound(p) /\ tx[p].job = "status")
  OBVIOUS
<1> QED
  BY <1>1, <1>2, <1>3, <1>4, <1>5, <1>6, <1>7, Zenon

(* A transaction goes on seeing the same status while neither it nor a     *)
(* commit writes.                                                          *)
LEMMA SeenStays ==
  ASSUME NEW p, SameWrites(p), tx'[p].ran = tx[p].ran, UNCHANGED <<rows, eventRows>>, NEW k
  PROVE  StatusSeenBy(p, k)' = StatusSeenBy(p, k)
BY DEF SameWrites, StatusSeenBy, ResultsSeenBy, EventsSeenBy, Inserted

(* An insertion that is alone deletes what is cached before it looks it    *)
(* up, finds nothing, and caches what it will have committed.              *)
LEMMA AloneStays ==
  ASSUME SQLInv, storeType # "memory", CacheInv, SQLNext, NEW p \in Processes
  PROVE  AloneInv(p)'
<1> USE DEF SQLInv
<1>0. /\ AloneInv(p) /\ JobInv(p) /\ RefreshInv(p) /\ tx \in [Processes -> Transactions]
      /\ tx[p] \in Transactions /\ Idle.pc = "idle" /\ Idle.id = 0
  BY IdleFacts DEF CacheInv, JobsInv, TablesOK
<1>i. tx[p].id # 0 => Open(p)
  BY <1>0 DEF JobInv, Open
<1>1. ASSUME tx'[p].id = 0, tx'[p].pc = "idle" \/ ~tx'[p].alone \/ Others(p)' = {}
      PROVE  AloneInv(p)'
  BY <1>1 DEF AloneInv, Open, Writing
(* Nobody else does anything but begin, which ends the solitude.           *)
<1>2. ASSUME NEW q \in Processes \ {p}, Begin(q)
      PROVE  AloneInv(p)'
  <2>1. tx'[p] = IF Open(p) THEN [tx[p] EXCEPT !.alone = FALSE] ELSE tx[p]
    BY <1>2 DEF Begin
  <2>2. CASE Open(p)
    <3>1. tx'[p].alone = FALSE
      BY <1>0, <2>1, <2>2 DEF Transactions
    <3> QED
      BY <3>1 DEF AloneInv
  <2>3. CASE ~Open(p)
    <3>1. tx'[p] = tx[p] /\ tx[p].pc = "idle" /\ tx[p].id = 0
      BY <1>i, <2>1, <2>3 DEF Open
    <3> QED
      BY <1>1, <3>1
  <2> QED
    BY <2>2, <2>3
<1>3. ASSUME NEW q \in Processes \ {p}, Step(q)
      PROVE  AloneInv(p)'
  <2>1. q \in Others(p)
    BY <1>3 DEF Others, Open, Step, Select, RollBack, WriteEndpointResult, WriteSuiteResult,
                NextKey, Hit, NotFound, Miss, SetCache, Commit, CommitFails
  <2>2. tx'[p] = tx[p]
    <3>1. CASE Select(q) \/ NextKey(q) \/ Hit(q) \/ NotFound(q) \/ Miss(q) \/ SetCache(q)
      BY <3>1, CacheMoves
    <3>2. CASE RollBack(q) \/ CommitFails(q) \/ Commit(q)
      BY <1>0, <3>2 DEF RollBack, CommitFails, Commit
    <3>3. CASE WriteEndpointResult(q)
      BY <1>0, <3>3 DEF WriteEndpointResult
    <3>4. CASE WriteSuiteResult(q)
      BY <1>0, <3>4 DEF WriteSuiteResult
    <3> QED
      BY <1>3, <3>1, <3>2, <3>3, <3>4 DEF Step
  <2>3. ~Open(p) \/ ~tx[p].alone
    BY <1>0, <2>1 DEF AloneInv
  <2>4. CASE tx[p].pc = "idle"
    BY <1>1, <1>i, <2>2, <2>4 DEF Open
  <2>5. CASE ~tx[p].alone
    BY <2>2, <2>5 DEF AloneInv
  <2> QED
    BY <2>3, <2>4, <2>5 DEF Open
<1>4. ASSUME Begin(p)
      PROVE  AloneInv(p)'
  <2>1. PICK c \in Calls :
          tx'[p] = [Idle EXCEPT !.pc = IF c.job \in {"endpoint", "suite"}
                                       THEN "selecting" ELSE "next",
                                !.job = c.job, !.key = c.key, !.ran = c.ran,
                                !.left = c.left, !.alone = Others(p) = {}]
    BY <1>4 DEF Begin
  <2> DEFINE al == Others(p) = {}
             place == IF c.job \in {"endpoint", "suite"} THEN "selecting" ELSE "next"
  <2>2. tx'[p] = [Idle EXCEPT !.pc = place, !.job = c.job, !.key = c.key, !.ran = c.ran,
                              !.left = c.left, !.alone = al]
    BY <2>1
  <2>3. al \in BOOLEAN
    OBVIOUS
  <2>4. Others(p)' = Others(p)
    <3>1. ASSUME NEW q \in Processes \ {p}
          PROVE  tx'[q].pc = tx[q].pc
      <4>1. tx'[q] = tx[q] \/ tx'[q] = [tx[q] EXCEPT !.alone = FALSE]
        BY <1>4 DEF Begin
      <4>2. tx[q] \in Transactions
        BY <1>0
      <4> QED
        BY <4>1, <4>2 DEF Transactions
    <3> QED
      BY <3>1 DEF Others, Open
  <2> HIDE DEF al, place
  <2>5. tx'[p].id = 0 /\ tx'[p].alone = al
    BY <1>0, <2>2, <2>3, IdleFacts DEF Transactions
  <2>6. ~tx'[p].alone \/ al
    BY <2>5
  <2> QED
    BY <1>1, <2>4, <2>5, <2>6 DEF al
<1>o. ASSUME \A q \in Processes \ {p} : tx'[q] = tx[q]
      PROVE  Others(p)' = Others(p)
  BY <1>o DEF Others, Open
<1>5. CASE RollBack(p) \/ CommitFails(p) \/ Commit(p)
  <2>1. tx'[p] = Idle
    BY <1>0, <1>5 DEF RollBack, CommitFails, Commit
  <2> QED
    BY <1>0, <1>1, <2>1
<1>6. CASE WriteEndpointResult(p) \/ WriteSuiteResult(p)
  <2> DEFINE k == tx[p].key
  <2>1. /\ \A q \in Processes \ {p} : tx'[q] = tx[q]
        /\ tx[p].pc = "writing" /\ tx'[p].pc = "next" /\ cache' = cache
        /\ tx'[p].key = tx[p].key /\ tx'[p].job = tx[p].job /\ (tx'[p].alone <=> tx[p].alone)
        /\ tx[p].job = "endpoint" => tx'[p].left = Cached(Prefixed[k])
    <3>1. CASE WriteEndpointResult(p)
      <4>0. PICK success \in BOOLEAN :
              \E r : tx' = [tx EXCEPT ![p].id = r, ![p].events = NewEvents(k, r, success),
                                      ![p].pc = "next", ![p].left = Cached(Prefixed[k]),
                                      ![p].oldEvents = OldEvents(k, NewEvents(k, r, success)),
                                      ![p].gone = OldResults(k, r)]
        BY <3>1 DEF WriteEndpointResult
      <4>1. PICK r :
              tx' = [tx EXCEPT ![p].id = r, ![p].events = NewEvents(k, r, success),
                               ![p].pc = "next", ![p].left = Cached(Prefixed[k]),
                               ![p].oldEvents = OldEvents(k, NewEvents(k, r, success)),
                               ![p].gone = OldResults(k, r)]
        BY <4>0
      <4> DEFINE t == [tx[p] EXCEPT !.id = r, !.events = NewEvents(k, r, success),
                               !.pc = "next", !.left = Cached(Prefixed[k]),
                               !.oldEvents = OldEvents(k, NewEvents(k, r, success)),
                               !.gone = OldResults(k, r)]
      <4>2. tx'[p] = t /\ \A q \in Processes \ {p} : tx'[q] = tx[q]
        BY <1>0, <4>1
      <4>3. /\ t.pc = "next" /\ t.left = Cached(Prefixed[k]) /\ t.key = tx[p].key
            /\ t.job = tx[p].job /\ t.alone = tx[p].alone
        BY <1>0 DEF Transactions
      <4> HIDE DEF t, k
      <4>4. tx[p].pc = "writing" /\ cache' = cache
        BY <3>1 DEF WriteEndpointResult
      <4>5. tx'[p].alone <=> tx[p].alone
        BY <4>2, <4>3
      <4> QED
        BY <4>2, <4>3, <4>4, <4>5
    <3>2. CASE WriteSuiteResult(p)
      <4>1. PICK r : tx' = [tx EXCEPT ![p].id = r, ![p].pc = "next", ![p].gone = OldSuiteResults(r)]
        BY <3>2 DEF WriteSuiteResult
      <4> DEFINE t == [tx[p] EXCEPT !.id = r, !.pc = "next", !.gone = OldSuiteResults(r)]
      <4>2. tx'[p] = t /\ \A q \in Processes \ {p} : tx'[q] = tx[q]
        BY <1>0, <4>1
      <4>3. /\ t.pc = "next" /\ t.key = tx[p].key /\ t.job = tx[p].job /\ t.alone = tx[p].alone
        BY <1>0 DEF Transactions
      <4> HIDE DEF t, k
      <4>4. tx[p].pc = "writing" /\ tx[p].job = "suite" /\ cache' = cache
        BY <3>2 DEF WriteSuiteResult
      <4>5. tx'[p].alone <=> tx[p].alone
        BY <4>2, <4>3
      <4> QED
        BY <4>2, <4>3, <4>4, <4>5
    <3> QED
      BY <1>6, <3>1, <3>2
  <2>2. tx[p].alone => Others(p)' = {}
    BY <1>0, <1>o, <2>1 DEF AloneInv, Open
  <2>3. ASSUME NEW j \in EndpointKeys, Writing(p, j)'
        PROVE  ~(cache'[j].exists /\ j \notin tx'[p].left)
    <3>1. k = j /\ tx'[p].left = Cached(Prefixed[k]) /\ j \in Prefixed[j]
      BY <2>1, <2>3, PrefixAssumption DEF Writing
    <3> QED
      BY <2>1, <3>1 DEF Cached
  <2> QED
    BY <2>1, <2>2, <2>3 DEF AloneInv
<1>7. CASE Select(p) \/ NextKey(p) \/ Hit(p) \/ NotFound(p) \/ Miss(p) \/ SetCache(p)
  <2>1. /\ \A q \in Processes \ {p} : tx'[q] = tx[q]
        /\ UNCHANGED <<storeType, rows, eventRows, unsettled>>
        /\ \/ SameWrites(p) /\ tx'[p].ran = tx[p].ran /\ (tx'[p].alone <=> tx[p].alone)
           \/ tx'[p] = Idle
    BY <1>7, CacheMoves
  <2>2. CASE tx'[p] = Idle
    BY <1>0, <1>1, <2>2
  <2>3. CASE SameWrites(p) /\ tx'[p].ran = tx[p].ran /\ (tx'[p].alone <=> tx[p].alone)
    <3>1. tx[p].alone => Others(p) = {} /\ Others(p)' = {}
      <4>1. Open(p)
        BY <1>7 DEF Open, Select, NextKey, Hit, NotFound, Miss, SetCache
      <4> QED
        BY <1>0, <1>o, <2>1, <4>1 DEF AloneInv
    <3> SUFFICES ASSUME NEW k \in EndpointKeys, Writing(p, k), tx[p].alone
                 PROVE  /\ cache'[k].exists /\ k \notin tx'[p].left => cache'[k] = StatusSeenBy(p, k)
                        /\ tx'[p].pc = "lookup" => ~cache'[tx'[p].at].exists
                        /\ tx'[p].pc = "set" /\ tx'[p].at = k => tx'[p].status = StatusSeenBy(p, k)
      <4>1. \A k : Writing(p, k)' <=> Writing(p, k)
        BY <2>3 DEF Writing, SameWrites
      <4>2. \A k : StatusSeenBy(p, k)' = StatusSeenBy(p, k)
        BY <2>1, <2>3, SeenStays
      <4> QED
        BY <2>3, <3>1, <4>1, <4>2 DEF AloneInv
    <3>2. /\ cache[k].exists /\ k \notin tx[p].left => cache[k] = StatusSeenBy(p, k)
          /\ tx[p].pc = "lookup" => ~cache[tx[p].at].exists
          /\ tx[p].pc = "set" /\ tx[p].at = k => tx[p].status = StatusSeenBy(p, k)
      BY <1>0 DEF AloneInv
    <3>3. Inserting(p) /\ tx[p].pc \in {"next", "lookup", "set"} /\ tx[p].job # "status"
      BY <1>0 DEF Writing, JobInv, Inserting, Transactions, Places
    <3>4. cache \in [TableKeys -> Statuses] /\ k \in TableKeys
      BY DEF TablesOK, TableKeys
    <3>5. CASE NextKey(p)
      <4>1. PICK a \in tx[p].left :
              /\ tx' = [tx EXCEPT ![p].at = a, ![p].left = @ \ {a}, ![p].pc = "lookup"]
              /\ cache' = [cache EXCEPT ![a] = Nothing]
        BY <3>3, <3>5 DEF NextKey
      <4>2. tx'[p].at = a /\ tx'[p].left = tx[p].left \ {a} /\ tx'[p].pc = "lookup"
        BY <1>0, <4>1 DEF Transactions
      <4>3. a \in TableKeys
        BY <1>0 DEF Transactions
      <4>4. cache'[a] = Nothing /\ \A j \in TableKeys \ {a} : cache'[j] = cache[j]
        BY <3>4, <4>1, <4>3
      <4>5. Nothing.exists = FALSE
        BY DEF Nothing
      <4>6. ~cache'[a].exists
        BY <4>4, <4>5
      <4>7. CASE k = a
        BY <4>2, <4>6, <4>7
      <4>8. CASE k # a
        BY <3>2, <3>4, <4>2, <4>4, <4>6, <4>8
      <4> QED
        BY <4>7, <4>8
    <3>6. CASE Select(p) \/ Hit(p) \/ NotFound(p)
      <4>1. ~Select(p) /\ ~Hit(p)
        BY <3>2, <3>3 DEF Select, Hit
      <4>2. tx'[p] = [tx[p] EXCEPT !.pc = "next"] /\ cache' = cache
        BY <1>0, <3>3, <3>6, <4>1 DEF NotFound
      <4>3. tx'[p].pc = "next" /\ tx'[p].left = tx[p].left
        BY <1>0, <4>2 DEF Transactions
      <4> QED
        BY <3>2, <4>2, <4>3
    <3>7. CASE Miss(p)
      <4>1. /\ tx'[p] = [tx[p] EXCEPT !.status = StatusSeenBy(p, tx[p].at), !.pc = "set"]
            /\ cache' = cache
        BY <1>0, <3>7 DEF Miss
      <4>2. /\ tx'[p].pc = "set" /\ tx'[p].left = tx[p].left /\ tx'[p].at = tx[p].at
            /\ tx'[p].status = StatusSeenBy(p, tx[p].at)
        BY <1>0, <4>1 DEF Transactions
      <4> QED
        BY <3>2, <4>1, <4>2
    <3>8. CASE SetCache(p)
      <4>1. /\ tx'[p] = [tx[p] EXCEPT !.pc = "next", !.status = Nothing]
            /\ cache' = [cache EXCEPT ![tx[p].at] = tx[p].status] /\ tx[p].pc = "set"
        BY <1>0, <3>8 DEF SetCache
      <4>2. tx'[p].pc = "next" /\ tx'[p].left = tx[p].left
        BY <1>0, <4>1 DEF Transactions
      <4>3. tx[p].at = k => cache'[k] = tx[p].status
        BY <3>4, <4>1
      <4>4. tx[p].at # k => cache'[k] = cache[k]
        BY <3>4, <4>1
      <4> QED
        BY <3>2, <4>1, <4>2, <4>3, <4>4
    <3> QED
      BY <1>7, <3>5, <3>6, <3>7, <3>8
  <2> QED
    BY <2>1, <2>2, <2>3
<1>8. CASE Expire
  <2>1. PICK a \in TableKeys : cache' = [cache EXCEPT ![a] = Nothing]
    BY <1>8 DEF Expire, Cached
  <2>2. UNCHANGED <<tx, rows, eventRows>>
    BY <1>8 DEF Expire, tables
  <2>3. Nothing.exists = FALSE /\ cache \in [TableKeys -> Statuses]
    BY DEF Nothing, TablesOK
  <2>4. \A j \in TableKeys : cache'[j] = cache[j] \/ cache'[j] = Nothing
    BY <2>1, <2>3
  <2>5. \A j \in TableKeys : cache'[j] = cache[j] \/ ~cache'[j].exists
    BY <2>3, <2>4
  <2>6. Others(p)' = Others(p) /\ Open(p)' = Open(p)
    BY <2>2 DEF Others, Open
  <2>7. \A k : StatusSeenBy(p, k)' = StatusSeenBy(p, k)
    BY <2>2, SeenStays DEF SameWrites
  <2>8. tx[p].pc = "lookup" => tx[p].at \in TableKeys
    BY <1>0 DEF RefreshInv
  <2> QED
    BY <1>0, <2>2, <2>5, <2>6, <2>7, <2>8 DEF AloneInv, Writing, TableKeys
<1>9. CASE Crash
  <2>1. tx'[p] = Idle
    BY <1>9 DEF Crash
  <2> QED
    BY <1>0, <1>1, <2>1
<1>10. CASE SQLInitialize
  <2>1. tx' = tx /\ tx[p].pc = "idle"
    BY <1>10 DEF SQLInitialize, Open
  <2> QED
    BY <1>1, <1>i, <2>1 DEF Open
<1> HIDE DEF SQLInv
<1> QED
  BY <1>2, <1>3, <1>4, <1>5, <1>6, <1>7, <1>8, <1>9, <1>10 DEF SQLNext, Step

(* What is cached of a settled key agrees with the tables after every      *)
(* step, or is about to be deleted by the insertion that has just          *)
(* committed it.                                                           *)
LEMMA FreshStep ==
  ASSUME SQLInv, storeType # "memory", CacheInv, SQLNext, NEW k \in EndpointKeys, k \notin unsettled'
  PROVE  FreshInv(k)'
<1> USE DEF SQLInv
<1>0. /\ tx \in [Processes -> Transactions] /\ \A p \in Processes : tx[p] \in Transactions
      /\ \A p \in Processes : JobInv(p) /\ RefreshInv(p) /\ AloneInv(p)
      /\ cache \in [TableKeys -> Statuses] /\ k \in TableKeys /\ k \in Prefixed[k]
      /\ Idle.pc = "idle" /\ Idle.id = 0 /\ Nothing.exists = FALSE
  BY IdleFacts, PrefixAssumption DEF CacheInv, JobsInv, TablesOK, TableKeys, Nothing
<1>f. k \notin unsettled => FreshInv(k)
  BY DEF CacheInv
<1>w. \A q \in Processes : \A j : Writing(q, j) => tx[q].id # 0 /\ tx[q].job = "endpoint" /\ tx[q].key = j
  BY DEF Writing
<1>1. ASSUME NEW p \in Processes, Begin(p)
      PROVE  FreshInv(k)'
  <2>1. /\ \A q \in Processes \ {p} : tx'[q] = tx[q] \/ tx'[q] = [tx[q] EXCEPT !.alone = FALSE]
        /\ UNCHANGED <<rows, eventRows, cache, unsettled>> /\ tx[p].pc = "idle"
    BY <1>1 DEF Begin, tables
  <2>2. ASSUME NEW q \in Processes \ {p}
        PROVE  /\ tx'[q].id = tx[q].id /\ tx'[q].job = tx[q].job /\ tx'[q].key = tx[q].key
               /\ tx'[q].pc = tx[q].pc /\ tx'[q].at = tx[q].at /\ tx'[q].status = tx[q].status
               /\ tx'[q].alone => tx[q].alone
    <3>1. CASE tx'[q] = tx[q]
      BY <3>1
    <3>2. CASE tx'[q] = [tx[q] EXCEPT !.alone = FALSE]
      <4>1. tx'[q].alone = FALSE
        BY <1>0, <3>2 DEF Transactions
      <4>2. /\ tx'[q].id = tx[q].id /\ tx'[q].job = tx[q].job /\ tx'[q].key = tx[q].key
            /\ tx'[q].pc = tx[q].pc /\ tx'[q].at = tx[q].at /\ tx'[q].status = tx[q].status
        BY <1>0, <3>2 DEF Transactions
      <4> QED
        BY <4>1, <4>2
    <3> QED
      BY <2>1, <3>1, <3>2
  <2>3. tx'[p].pc \in {"selecting", "next"}
    <3>1. PICK c \in Calls :
            tx'[p] = [Idle EXCEPT !.pc = IF c.job \in {"endpoint", "suite"}
                                         THEN "selecting" ELSE "next",
                                  !.job = c.job, !.key = c.key, !.ran = c.ran,
                                  !.left = c.left, !.alone = Others(p) = {}]
      BY <1>1 DEF Begin
    <3>2. Idle \in Transactions
      BY IdleFacts
    <3> HIDE DEF Others
    <3> QED
      BY <3>1, <3>2 DEF Transactions
  <2>4. ASSUME Trusted(k)' PROVE Trusted(k)
    <3>1. tx[p].id = 0
      BY <1>0, <2>1 DEF JobInv
    <3>2. ASSUME NEW q \in Processes, NEW j \in EndpointKeys, Writing(q, j)
          PROVE  Writing(q, j)' /\ (tx'[q].alone => tx[q].alone)
      <4>1. q # p
        BY <3>1, <3>2 DEF Writing
      <4> QED
        BY <2>2, <3>2, <4>1 DEF Writing
    <3> QED
      BY <2>4, <3>2, TrustedBefore
  <2>5. \A q \in Processes : tx'[q].pc = "set" /\ tx'[q].at = k =>
          tx[q].pc = "set" /\ tx[q].at = k /\ tx'[q].status = tx[q].status
    BY <2>2, <2>3
  <2> HIDE DEF SQLInv
  <2> QED
    BY <1>f, <2>1, <2>4, <2>5, FreshStays
<1>2. ASSUME NEW p \in Processes,
             Select(p) \/ NextKey(p) \/ Hit(p) \/ NotFound(p) \/ Miss(p) \/ SetCache(p)
      PROVE  FreshInv(k)'
  <2>1. /\ \A q \in Processes \ {p} : tx'[q] = tx[q]
        /\ \/ SameWrites(p) /\ tx'[p].ran = tx[p].ran /\ (tx'[p].alone <=> tx[p].alone)
           \/ tx'[p] = Idle /\ tx[p].job = "status"
        /\ UNCHANGED <<storeType, rows, eventRows, unsettled>>
    BY <1>2, CacheMoves
  <2>2. ASSUME Trusted(k)' PROVE Trusted(k)
    <3>1. ASSUME NEW q \in Processes, NEW j \in EndpointKeys, Writing(q, j)
          PROVE  Writing(q, j)' /\ (tx'[q].alone => tx[q].alone)
      BY <2>1, <3>1 DEF Writing, SameWrites
    <3> QED
      BY <2>2, <3>1, TrustedBefore
  <2>3. \/ cache'[k] = cache[k] \/ ~cache'[k].exists
        \/ \E q \in Processes : tx[q].pc = "set" /\ tx[q].at = k /\ cache'[k] = tx[q].status
    <3>1. CASE NextKey(p)
      <4>1. PICK a \in tx[p].left :
              cache' = IF Inserting(p) THEN [cache EXCEPT ![a] = Nothing] ELSE cache
        BY <3>1 DEF NextKey
      <4>2. cache'[k] = cache[k] \/ cache'[k] = Nothing
        BY <1>0, <4>1
      <4> QED
        BY <1>0, <4>2
    <3>2. CASE SetCache(p)
      <4>1. tx[p].pc = "set" /\ cache' = [cache EXCEPT ![tx[p].at] = tx[p].status]
        BY <3>2 DEF SetCache
      <4>2. tx[p].at = k => cache'[k] = tx[p].status
        BY <1>0, <4>1
      <4>3. tx[p].at # k => cache'[k] = cache[k]
        BY <1>0, <4>1
      <4> QED
        BY <4>1, <4>2, <4>3
    <3>3. CASE Select(p) \/ Hit(p) \/ NotFound(p) \/ Miss(p)
      BY <3>3 DEF Select, Hit, NotFound, Miss
    <3> QED
      BY <1>2, <3>1, <3>2, <3>3
  <2>4. tx'[p].pc = "set" => tx'[p].at = tx[p].at /\ tx'[p].status = StatusSeenBy(p, tx[p].at)
    <3>1. tx[p] \in Transactions
      BY <1>0
    <3>2. CASE Select(p)
      BY <1>0, <3>1, <3>2 DEF Select, Transactions
    <3>3. CASE NextKey(p)
      BY <1>0, <3>1, <3>3 DEF NextKey, Transactions
    <3>4. CASE Hit(p)
      BY <1>0, <3>1, <3>4 DEF Hit, Transactions
    <3>5. CASE NotFound(p)
      <4>1. tx'[p] = IF tx[p].job = "status" THEN Idle ELSE [tx[p] EXCEPT !.pc = "next"]
        BY <1>0, <3>5 DEF NotFound
      <4> QED
        BY <1>0, <3>1, <4>1 DEF Transactions
    <3>6. CASE Miss(p)
      <4>1. tx'[p] = [tx[p] EXCEPT !.status = StatusSeenBy(p, tx[p].at), !.pc = "set"]
        BY <1>0, <3>6 DEF Miss
      <4> QED
        BY <3>1, <4>1 DEF Transactions
    <3>7. CASE SetCache(p)
      BY <1>0, <3>1, <3>7 DEF SetCache, Transactions
    <3> QED
      BY <1>2, <3>2, <3>3, <3>4, <3>5, <3>6, <3>7
  <2>5. ASSUME NEW q \in Processes, tx'[q].pc = "set", tx'[q].at = k
        PROVE  \/ tx[q].pc = "set" /\ tx[q].at = k /\ tx'[q].status = tx[q].status
               \/ tx'[q].status = StatusSeenBy(q, k)
    BY <2>1, <2>4, <2>5
  <2> HIDE DEF SQLInv
  <2> QED
    BY <1>f, <2>1, <2>2, <2>3, <2>5, FreshStays
(* Insertions that have just got their number.                             *)
<1>3. ASSUME NEW p \in Processes, WriteEndpointResult(p) \/ WriteSuiteResult(p)
      PROVE  FreshInv(k)'
  <2>1. /\ \A q \in Processes \ {p} : tx'[q] = tx[q]
        /\ UNCHANGED <<rows, eventRows, cache, unsettled>> /\ tx[p].pc = "writing"
    <3>1. CASE WriteEndpointResult(p)
      BY <1>0, <3>1 DEF WriteEndpointResult, tables
    <3>2. CASE WriteSuiteResult(p)
      BY <1>0, <3>2 DEF WriteSuiteResult, tables
    <3> QED
      BY <1>3, <3>1, <3>2
  <2>2. tx'[p].pc = "next"
    <3>1. tx[p] \in Transactions
      BY <1>0
    <3>2. CASE WriteSuiteResult(p)
      BY <1>0, <3>1, <3>2 DEF WriteSuiteResult, Transactions
    <3>3. CASE WriteEndpointResult(p)
      BY <1>0, <3>1, <3>3 DEF WriteEndpointResult, Transactions
    <3> QED
      BY <1>3, <3>2, <3>3
  <2>3. ASSUME Trusted(k)' PROVE Trusted(k)
    <3>1. tx[p].id = 0
      BY <1>0, <2>1 DEF JobInv
    <3>2. ASSUME NEW q \in Processes, NEW j \in EndpointKeys, Writing(q, j)
          PROVE  Writing(q, j)' /\ (tx'[q].alone => tx[q].alone)
      <4>1. q # p
        BY <3>1, <3>2 DEF Writing
      <4> QED
        BY <2>1, <3>2, <4>1 DEF Writing
    <3> QED
      BY <2>3, <3>2, TrustedBefore
  <2>4. \A q \in Processes : tx'[q].pc = "set" /\ tx'[q].at = k =>
          tx[q].pc = "set" /\ tx[q].at = k /\ tx'[q].status = tx[q].status
    BY <2>1, <2>2
  <2> HIDE DEF SQLInv
  <2> QED
    BY <1>f, <2>1, <2>3, <2>4, FreshStays
(* The end of a transaction whose own key is another one.                  *)
<1>4. ASSUME NEW p \in Processes, tx'[p] = Idle, \A q \in Processes \ {p} : tx'[q] = tx[q],
             k \notin unsettled, rows'[k] = rows[k], eventRows'[k] = eventRows[k], cache' = cache,
             \A j \in EndpointKeys : Writing(p, j) /\ k \in Prefixed[j] => tx[p].alone /\ j # k
      PROVE  FreshInv(k)'
  <2>1. ASSUME Trusted(k)' PROVE Trusted(k)
    <3>1. ASSUME NEW q \in Processes, NEW j \in EndpointKeys, Writing(q, j), k \in Prefixed[j]
          PROVE  \/ Writing(q, j)' /\ (tx'[q].alone => tx[q].alone)
                 \/ tx[q].alone /\ j # k
      BY <1>4, <3>1 DEF Writing
    <3> QED
      BY <2>1, <3>1, TrustedBefore
  <2>2. \A q \in Processes : tx'[q].pc = "set" /\ tx'[q].at = k =>
          tx[q].pc = "set" /\ tx[q].at = k /\ tx'[q].status = tx[q].status
    BY <1>0, <1>4
  <2> HIDE DEF SQLInv
  <2> QED
    BY <1>f, <1>4, <2>1, <2>2, FreshStays
<1>5. ASSUME NEW p \in Processes, RollBack(p)
      PROVE  FreshInv(k)'
  <2>1. /\ tx'[p] = Idle /\ \A q \in Processes \ {p} : tx'[q] = tx[q]
        /\ UNCHANGED <<rows, eventRows, cache, unsettled>> /\ tx[p].id = 0
    BY <1>0, <1>5 DEF RollBack, tables, JobInv
  <2> QED
    BY <1>4, <1>w, <2>1
<1>6. ASSUME NEW p \in Processes, CommitFails(p)
      PROVE  FreshInv(k)'
  <2>1. /\ tx'[p] = Idle /\ \A q \in Processes \ {p} : tx'[q] = tx[q]
        /\ UNCHANGED <<rows, eventRows, cache>> /\ Settle(p, FALSE)
    BY <1>0, <1>6 DEF CommitFails, tables
  <2>2. CASE tx[p].job # "endpoint"
    BY <1>4, <1>w, <2>1, <2>2 DEF Settle
  <2>3. CASE tx[p].job = "endpoint"
    <3>1. unsettled' = unsettled \cup (Prefixed[tx[p].key] \cap EndpointKeys)
      BY <2>1, <2>3 DEF Settle
    <3>2. k \notin unsettled /\ k \notin Prefixed[tx[p].key]
      BY <3>1
    <3> QED
      BY <1>4, <1>w, <2>1, <3>2
  <2> QED
    BY <2>2, <2>3
<1>7. ASSUME NEW p \in Processes, Commit(p)
      PROVE  FreshInv(k)'
  <2>1. /\ tx'[p] = Idle /\ \A q \in Processes \ {p} : tx'[q] = tx[q]
        /\ cache' = cache /\ Settle(p, TRUE) /\ tx[p].left = {} /\ tx[p].pc = "next"
    BY <1>0, <1>7 DEF Commit
  <2>2. CASE tx[p].id = 0
    <3>1. rows' = rows /\ eventRows' = eventRows
      BY <1>7, <2>2, NothingCommitted
    <3>2. unsettled' = unsettled
      <4>1. tx[p].job # "endpoint" /\ unsettled \ {tx[p].key} = unsettled
        BY <1>0, <2>1, <2>2, KeyAssumption DEF JobInv, Inserting, TablesOK, TableKeys
      <4> QED
        BY <2>1, <4>1 DEF Settle
    <3> QED
      BY <1>4, <1>w, <2>1, <2>2, <3>1, <3>2
  <2>3. CASE tx[p].id # 0 /\ tx[p].key # k
    <3>1. rows'[k] = rows[k] /\ eventRows'[k] = eventRows[k]
      BY <1>0, <1>7, <2>3, Committed DEF Keys
    <3>2. k \notin unsettled /\ (tx[p].job = "endpoint" /\ ~tx[p].alone => k \notin Prefixed[tx[p].key])
      BY <2>1, <2>3 DEF Settle
    <3>3. \A j \in EndpointKeys : Writing(p, j) /\ k \in Prefixed[j] => tx[p].alone /\ j # k
      BY <1>w, <2>3, <3>2
    <3> QED
      BY <1>4, <2>1, <3>1, <3>2, <3>3
  <2>4. CASE tx[p].id # 0 /\ tx[p].key = k
    <3>1. Writing(p, k)
      <4>1. k # SuiteKey
        BY KeyAssumption DEF TableKeys
      <4> QED
        BY <1>0, <2>4, <4>1 DEF JobInv, Writing
    <3>2. tx[p].alone
      BY <1>0, <2>1, <3>1 DEF Settle, Writing
    <3>3. cache[k].exists => cache[k] = StatusSeenBy(p, k)
      BY <1>0, <2>1, <3>1, <3>2 DEF AloneInv
    <3>4. rows'[k] = ResultsSeenBy(p, k) /\ eventRows'[k] = EventsSeenBy(p, k)
      BY <1>0, <1>7 DEF Commit, TablesOK
    <3>5. Shown(k)' = StatusSeenBy(p, k)
      BY <3>4 DEF Shown, StatusSeenBy
    <3>6. \A q \in Processes : tx'[q].pc = "idle"
      <4>1. Others(p) = {}
        BY <1>0, <2>1, <3>2 DEF AloneInv, Open
      <4> QED
        BY <1>0, <2>1, <4>1 DEF Others, Open
    <3> QED
      BY <2>1, <3>3, <3>5, <3>6 DEF FreshInv
  <2> QED
    BY <2>2, <2>3, <2>4
<1>8. CASE Expire
  <2>1. PICK a \in TableKeys : cache' = [cache EXCEPT ![a] = Nothing]
    BY <1>8 DEF Expire, Cached
  <2>2. UNCHANGED <<tx, rows, eventRows, unsettled>>
    BY <1>8 DEF Expire, tables
  <2>3. cache'[k] = cache[k] \/ cache'[k] = Nothing
    BY <1>0, <2>1
  <2>4. cache'[k] = cache[k] \/ ~cache'[k].exists
    BY <1>0, <2>3
  <2>5. Trusted(k)' => Trusted(k)
    BY <2>2 DEF Trusted, Writing
  <2> HIDE DEF SQLInv
  <2> QED
    BY <1>f, <2>2, <2>4, <2>5, FreshStays
<1>9. CASE Crash \/ SQLInitialize
  <2>1. cache'[k] = Nothing /\ \A p \in Processes : tx'[p].pc = "idle"
    BY <1>0, <1>9 DEF Crash, SQLInitialize, Open
  <2>2. ~cache'[k].exists
    BY <1>0, <2>1
  <2> QED
    BY <2>1, <2>2 DEF FreshInv
<1> HIDE DEF SQLInv
<1> QED
  BY <1>1, <1>2, <1>3, <1>5, <1>6, <1>7, <1>8, <1>9 DEF SQLNext, Step

-----------------------------------------------------------------------------
(* The theorems *)

LEMMA FreshStore == ASSUME Init PROVE StoresInv
<1>1. /\ storeType \in {"memory", "sqlite", "postgres"} /\ outcome = <<>>
      /\ history = [k \in Keys |-> {}] /\ MemoryInit /\ SQLInit
  BY DEF Init
<1>2. /\ \A k \in Keys : history[k] = {} /\ ResultsOf(k) = {}
      /\ \A k \in EndpointKeys : EventsOf(k) = {} /\ history[k] = {} /\ ResultsOf(k) = {}
      /\ \A p \in Processes : tx[p] = Idle
  BY <1>1 DEF MemoryInit, SQLInit, ResultsOf, EventsOf, Keys, TableKeys
<1>3. HistoryInv
  <2>1. outcome \in Seq(BOOLEAN) /\ Len(outcome) = 0
    BY <1>1
  <2> QED
    BY <1>1, <1>2, <2>1, MaximumAssumption DEF HistoryInv, Newest
<1>4. ASSUME NEW k \in EndpointKeys
      PROVE  EventsInv(k) /\ SizesInv(k)
  <2>1. EventsAfter(outcome, history[k]) = {}
    BY <1>2 DEF EventsAfter
  <2>2. EventsInv(k)
    BY <1>2, <2>1 DEF EventsInv, IsSuffix, Newest
  <2>3. Slack(ResultSlack) \in Nat /\ Slack(EventSlack) \in Nat
    BY SlackAssumption DEF Slack
  <2> QED
    BY <1>2, <2>2, <2>3, FS_EmptySet, MaximumAssumption DEF SizesInv
<1>5. LogInv
  BY <1>3, <1>4 DEF LogInv
<1>6. MemoryTypeOK
  BY <1>1 DEF MemoryInit, MemoryTypeOK
<1>7. TablesOK
  <2>1. [k \in TableKeys |-> Nothing] \in [TableKeys -> Statuses]
    BY DEF Nothing, Statuses
  <2> QED
    BY <1>1, <2>1, IdleFacts DEF SQLInit, TablesOK, TableKeys
<1>8. \A p \in Processes : tx[p].pc = "idle" /\ tx[p].id = 0
  BY <1>2, IdleFacts
<1>9. JobsInv
  BY <1>2, IdleFacts DEF JobsInv, JobInv, RefreshInv, Inserting
<1>10. WritersInv /\ QuietsInv
  BY <1>2, <1>8 DEF WritersInv, WriterInv, Disjoint, QuietsInv, QuietInv, Writing
<1>11. CacheInv
  <2>1. \A p \in Processes : AloneInv(p)
    BY <1>8 DEF AloneInv, Open, Writing
  <2>2. \A k \in EndpointKeys : ~cache[k].exists
    <3>1. \A k \in EndpointKeys : cache[k] = Nothing /\ Nothing.exists = FALSE
      BY <1>1 DEF SQLInit, Nothing, TableKeys
    <3> QED
      BY <3>1
  <2> QED
    BY <1>8, <2>1, <2>2 DEF CacheInv, FreshInv
<1> QED
  BY <1>1, <1>5, <1>6, <1>7, <1>9, <1>10, <1>11 DEF StoresInv, SQLInv

(* Every step of the store that Initialize has created keeps the           *)
(* invariant, and the store stays the same.                                *)
LEMMA StoresStep == ASSUME StoresInv, [Next]_vars PROVE StoresInv' /\ storeType' = storeType
<1>1. CASE storeType = "memory" /\ MemoryNext /\ UNCHANGED sqlVars
  <2>1. LogInv' /\ MemoryTypeOK' /\ storeType' = storeType
    BY <1>1, MemoryStep DEF StoresInv
  <2>2. SQLInit'
    BY <1>1 DEF StoresInv, SQLInit, sqlVars
  <2> QED
    BY <1>1, <2>1, <2>2 DEF StoresInv
<1>2. CASE storeType # "memory" /\ SQLNext /\ UNCHANGED memoryVars
  <2>1. SQLInv /\ CacheInv /\ MemoryInit
    BY <1>2 DEF StoresInv
  <2>2. SQLInv' /\ storeType' = storeType
    BY <1>2, <2>1, SQLStep
  <2>3. CacheInv'
    <3>1. \A p \in Processes : AloneInv(p)'
      BY <1>2, <2>1, AloneStays
    <3>2. \A k \in EndpointKeys : k \notin unsettled' => FreshInv(k)'
      BY <1>2, <2>1, FreshStep
    <3> QED
      BY <3>1, <3>2 DEF CacheInv
  <2>4. MemoryInit'
    BY <1>2, <2>1 DEF MemoryInit, memoryVars
  <2> QED
    BY <1>2, <2>2, <2>3, <2>4 DEF StoresInv, SQLInv
<1>3. CASE UNCHANGED vars
  <2> USE <1>3 DEF vars, shared, memoryVars, sqlVars
  <2>1. LogInv'
    BY DEF StoresInv, LogInv, HistoryInv, EventsInv, SizesInv, ResultsOf, EventsOf, Slack, Recorded
  <2>2. storeType = "memory" => MemoryTypeOK' /\ SQLInit'
    BY DEF StoresInv, MemoryTypeOK, SQLInit
  <2>3. ASSUME storeType # "memory"
        PROVE  MemoryInit' /\ SQLInv' /\ CacheInv'
    <3>1. MemoryInit /\ TablesOK /\ JobsInv /\ WritersInv /\ QuietsInv /\ CacheInv
      BY <2>3 DEF StoresInv, SQLInv
    <3>2. MemoryInit' /\ TablesOK' /\ JobsInv'
      BY <3>1 DEF MemoryInit, TablesOK, JobsInv, JobInv, RefreshInv, Inserting
    <3>3. WritersInv' /\ QuietsInv'
      <4>1. LogInv /\ \A p \in Processes : SameWrites(p)
        BY DEF StoresInv, SameWrites
      <4> QED
        BY <3>1, <4>1, SilentStep
    <3>4. CacheInv'
      BY <3>1 DEF CacheInv, AloneInv, FreshInv, Trusted, Open, Others, Writing, Shown,
                  StatusSeenBy, ResultsSeenBy, EventsSeenBy, Inserted
    <3> QED
      BY <2>1, <3>2, <3>3, <3>4 DEF SQLInv
  <2> QED
    BY <2>1, <2>2, <2>3 DEF StoresInv
<1> QED
  BY <1>1, <1>2, <1>3 DEF Next

(* What holds of both stores between any two steps.                        *)
THEOREM StoresInvariant == Spec => []StoresInv
<1>1. StoresInv /\ [Next]_vars => StoresInv'
  BY StoresStep
<1> QED
  BY FreshStore, <1>1, PTL DEF Spec

(* What the stores keep is what they are declared to keep.                 *)
THEOREM StoresTyped == Spec => []TypeOK
<1>1. ASSUME StoresInv PROVE TypeOK
  <2>1. Numbers = Results \cup {EventStart} /\ HistoryInv
    BY <1>1, MaximumAssumption DEF StoresInv, LogInv, Numbers, Results, EventStart
  <2>2. /\ outcome \in Seq(BOOLEAN) /\ Len(outcome) <= MaxInserts
        /\ history \in [Keys -> SUBSET Results]
    BY <2>1, LogFacts DEF HistoryInv
  <2>3. MemoryTypeOK /\ TablesOK
    <3>1. CASE storeType = "memory"
      <4>1. MemoryTypeOK /\ SQLInit
        BY <1>1, <3>1 DEF StoresInv
      <4>2. [k \in TableKeys |-> Nothing] \in [TableKeys -> Statuses]
        BY DEF Nothing, Statuses
      <4> QED
        BY <4>1, <4>2, IdleFacts DEF SQLInit, TablesOK, TableKeys
    <3>2. CASE storeType # "memory"
      BY <1>1, <3>2 DEF StoresInv, SQLInv, MemoryInit, MemoryTypeOK
    <3> QED
      BY <3>1, <3>2
  <2>4. ASSUME NEW p \in Processes
        PROVE  /\ DOMAIN tx[p] = DOMAIN Idle /\ tx[p].pc \in Places
               /\ tx[p].job \in JobNames \cup {"none"} /\ tx[p].id \in 0..MaxInserts
               /\ tx[p].left \cup tx[p].ran \subseteq TableKeys
    <3>1. tx[p] \in Transactions
      BY <2>3 DEF TablesOK
    <3>2. DOMAIN tx[p] = DOMAIN Idle
      BY <3>1 DEF Transactions, Idle
    <3> QED
      BY <3>1, <3>2 DEF Transactions, TableKeys
  <2>5. SQLTypeOK
    BY <2>1, <2>3, <2>4 DEF TablesOK, SQLTypeOK
  <2> QED
    BY <2>1, <2>2, <2>3, <2>5 DEF TypeOK, MemoryTypeOK
<1> QED
  BY StoresInvariant, <1>1, PTL

(* sql.go:33-34: neither store keeps more results or events than its       *)
(* maximum and its threshold allow, of any endpoint into which insertions  *)
(* never overlapped.                                                       *)
THEOREM NothingPilesUp == Spec => []Bounded
<1>1. StoresInv => Bounded
  BY DEF StoresInv, LogInv, SizesInv, Bounded
<1> QED
  BY StoresInvariant, <1>1, PTL

(* sql.go:261-266, memory/util.go:88-102: for any maxima and thresholds,   *)
(* the events that are kept tell every change of the outcome back to the   *)
(* oldest of them, although they are made from trimmed results.            *)
THEOREM EventsTellTheChanges == Spec => []EventsAreTheLatestChanges
<1>1. ASSUME StoresInv, NEW k \in EndpointKeys \ overlapped
      PROVE  LET all == IF history[k] = {} THEN {} ELSE {EventStart} \cup Changes(history[k])
             IN /\ EventsOf(k) = Newest(Cardinality(EventsOf(k)), all)
                /\ Newest(MaximumNumberOfEvents, all) \subseteq EventsOf(k)
  <2> DEFINE all == EventsAfter(outcome, history[k])
  <2>1. (IF history[k] = {} THEN {} ELSE {EventStart} \cup Changes(history[k])) = all
    BY ChangesAreChanged DEF EventsAfter
  <2>2. HistoryInv /\ EventsInv(k) /\ k \in Keys
    BY <1>1 DEF StoresInv, LogInv, Keys
  <2>3. all \in SUBSET Numbers
    <3>1. history[k] \in SUBSET Numbers /\ EventStart \in Numbers
      BY <2>2, LogFacts, MaximumAssumption DEF Numbers, EventStart
    <3> QED
      BY <3>1, ChangedSubset DEF EventsAfter
  <2>4. IsSuffix(EventsOf(k), all) /\ Newest(MaximumNumberOfEvents, all) \subseteq EventsOf(k)
    BY <2>2 DEF EventsInv
  <2> HIDE DEF all
  <2>5. EventsOf(k) = Newest(Cardinality(EventsOf(k)), all)
    BY <2>3, <2>4, SuffixIsNewest
  <2> QED
    BY <2>1, <2>4, <2>5
<1>2. StoresInv => EventsAreTheLatestChanges
  BY <1>1 DEF EventsAreTheLatestChanges
<1> QED
  BY StoresInvariant, <1>2, PTL

(* sql.go:60: for any number of goroutines, and with one connection or     *)
(* many, the cached statuses that an insertion alone has left are those    *)
(* that the tables show.                                                   *)
THEOREM CacheShowsTables == Spec => []CacheMatchesTables
<1>1. ASSUME StoresInv, AtRest, NEW k \in Cached(EndpointKeys) \ unsettled
      PROVE  cache[k] = Shown(k)
  <2>1. k \in EndpointKeys /\ k \in TableKeys /\ cache[k].exists
    BY DEF Cached, TableKeys
  <2>2. storeType # "memory"
    <3> SUFFICES ASSUME storeType = "memory" PROVE FALSE
      OBVIOUS
    <3>1. cache[k] = Nothing /\ Nothing.exists = FALSE
      BY <1>1, <2>1 DEF StoresInv, SQLInit, Nothing
    <3> QED
      BY <2>1, <3>1
  <2>3. FreshInv(k) /\ JobsInv
    BY <1>1, <2>1, <2>2 DEF StoresInv, SQLInv, CacheInv
  <2>4. Trusted(k)
    BY <1>1, <2>3 DEF AtRest, Open, JobsInv, JobInv, Trusted, Writing
  <2> QED
    BY <2>1, <2>3, <2>4 DEF FreshInv
<1>2. StoresInv => CacheMatchesTables
  BY <1>1 DEF CacheMatchesTables
<1> QED
  BY StoresInvariant, <1>2, PTL

-----------------------------------------------------------------------------
(* A step that records a result as both stores do.                         *)
LEMMA RecordsOne ==
  ASSUME HistoryInv', NEW k \in Keys, NEW r, r \notin history[k],
         history \in [Keys -> SUBSET Results], history' = [history EXCEPT ![k] = @ \cup {r}],
         ResultsOf(k)' \subseteq ResultsOf(k) \cup {r},
         \A j \in Keys \ {k} : ResultsOf(j)' = ResultsOf(j)
  PROVE  Promise!Next
<1>1. history'[k] = history[k] \cup {r}
  OBVIOUS
<1>2. r \in UNION {history'[q] : q \in Keys}
  BY <1>1
<1>3. Promise!Newest(MaximumNumberOfResults, history'[k]) \subseteq ResultsOf(k)'
  <2>1. Newest(MaximumNumberOfResults, history'[k]) \subseteq ResultsOf(k)'
    BY DEF HistoryInv
  <2>2. Promise!Newest(MaximumNumberOfResults, history'[k]) = Newest(MaximumNumberOfResults, history'[k])
    <3>1. \A S : Promise!Cardinality(S) = Cardinality(S)
      BY DEF Promise!Cardinality, Cardinality
    <3> QED
      BY <3>1 DEF Newest, Promise!Newest
  <2> QED
    BY <2>1, <2>2
<1>4. /\ [j \in Keys |-> ResultsOf(j)'][k] = ResultsOf(k)'
      /\ [j \in Keys |-> ResultsOf(j)][k] = ResultsOf(k)
      /\ \A j \in Keys : /\ [i \in Keys |-> ResultsOf(i)'][j] = ResultsOf(j)'
                         /\ [i \in Keys |-> ResultsOf(i)][j] = ResultsOf(j)
  OBVIOUS
<1>5. Promise!Record(k)
  BY <1>2, <1>3, <1>4 DEF Promise!Record
<1> QED
  BY <1>5 DEF Promise!Next

(* Every step of either store records one result, forgets some keys or     *)
(* changes nothing that StatusHistory speaks of.                           *)
LEMMA PromiseStep ==
  ASSUME StoresInv, StoresInv', [Next]_vars, storeType' = storeType
  PROVE  [Promise!Next]_<<history, [k \in Keys |-> ResultsOf(k)]>>
<1>0. /\ HistoryInv /\ HistoryInv' /\ history \in [Keys -> SUBSET Results]
      /\ Len(outcome) + 1 \notin Recorded /\ \A k \in Keys : history[k] \in SUBSET Recorded
  BY LogFacts DEF StoresInv, LogInv, HistoryInv
<1>s. ASSUME history' = history, \A k \in Keys : ResultsOf(k)' = ResultsOf(k)
      PROVE  UNCHANGED <<history, [k \in Keys |-> ResultsOf(k)]>>
  BY <1>s
<1>f. ASSUME NEW S \in SUBSET Keys,
             history' = [k \in Keys |-> IF k \in S THEN {} ELSE history[k]],
             \A k \in Keys : ResultsOf(k)' = IF k \in S THEN {} ELSE ResultsOf(k)
      PROVE  Promise!Next
  <2>1. /\ [k \in Keys |-> ResultsOf(k)']
             = [k \in Keys |-> IF k \in S THEN {} ELSE [j \in Keys |-> ResultsOf(j)][k]]
    BY <1>f
  <2>2. Promise!Forget(S)
    BY <1>f, <2>1 DEF Promise!Forget
  <2> QED
    BY <2>2 DEF Promise!Next
<1>1. CASE storeType = "memory" /\ MemoryNext /\ UNCHANGED sqlVars
  <2>0. /\ \A k \in Keys : ResultsOf(k) = memResults[k] /\ ResultsOf(k)' = memResults'[k]
        /\ memResults \in [Keys -> SUBSET Results]
    BY <1>1 DEF ResultsOf, StoresInv, MemoryTypeOK
  <2>1. ASSUME NEW k \in Keys, NEW r, r = Len(outcome) + 1,
               history' = [history EXCEPT ![k] = @ \cup {r}],
               memResults' = [memResults EXCEPT ![k] = Trim(MaximumNumberOfResults, @ \cup {r})]
        PROVE  Promise!Next
    <3>1. r \notin history[k]
      BY <1>0, <2>1
    <3>2. memResults'[k] \subseteq memResults[k] \cup {r}
      BY <2>0, <2>1 DEF Trim, Newest
    <3>3. \A j \in Keys \ {k} : memResults'[j] = memResults[j]
      BY <2>0, <2>1
    <3> QED
      <4>1. /\ ResultsOf(k)' \subseteq ResultsOf(k) \cup {r}
            /\ \A j \in Keys \ {k} : ResultsOf(j)' = ResultsOf(j)
        BY <2>0, <3>2, <3>3
      <4> QED
        BY <1>0, <2>1, <3>1, <4>1, RecordsOne
  <2>2. ASSUME NEW k \in EndpointKeys, MemoryInsertEndpointResult(k)
        PROVE  Promise!Next
    BY <2>1, <2>2 DEF MemoryInsertEndpointResult, Keys
  <2>3. CASE MemoryInsertSuiteResult
    BY <2>1, <2>3 DEF MemoryInsertSuiteResult, Keys
  <2>4. CASE MemoryInitialize
    <3>1. /\ Keys \in SUBSET Keys
          /\ history' = [k \in Keys |-> IF k \in Keys THEN {} ELSE history[k]]
          /\ \A k \in Keys : ResultsOf(k)' = IF k \in Keys THEN {} ELSE ResultsOf(k)
      BY <2>0, <2>4 DEF MemoryInitialize
    <3> QED
      BY <1>f, <3>1
  <2> QED
    BY <1>1, <2>2, <2>3, <2>4 DEF MemoryNext
<1>2. CASE storeType # "memory" /\ SQLNext /\ UNCHANGED memoryVars
  <2>0. /\ \A k \in Keys : ResultsOf(k) = rows[k] /\ ResultsOf(k)' = rows'[k]
        /\ SQLInv /\ TablesOK /\ JobsInv
    BY <1>2 DEF ResultsOf, StoresInv, SQLInv
  <2>1. CASE \/ \E p \in Processes :
                  Begin(p) \/ Select(p) \/ RollBack(p) \/ NextKey(p) \/ Hit(p) \/ NotFound(p)
                    \/ Miss(p) \/ SetCache(p) \/ CommitFails(p)
             \/ Expire \/ Crash
    <3>1. UNCHANGED <<storeType, outcome, history, rows, eventRows, overlapped>>
      BY <2>0, <2>1, QuietSteps
    <3> QED
      BY <1>s, <2>0, <3>1
  <2>2. ASSUME NEW p \in Processes, WriteEndpointResult(p) \/ WriteSuiteResult(p)
        PROVE  UNCHANGED <<history, [k \in Keys |-> ResultsOf(k)]>>
    <3>1. history' = history /\ rows' = rows
      BY <2>2 DEF WriteEndpointResult, WriteSuiteResult, tables
    <3> QED
      BY <1>s, <2>0, <3>1
  <2>3. ASSUME NEW p \in Processes, Commit(p)
        PROVE  [Promise!Next]_<<history, [k \in Keys |-> ResultsOf(k)]>>
    <3>1. CASE tx[p].id = 0
      <4>1. history' = history /\ rows' = rows
        BY <2>0, <2>3, <3>1, NothingCommitted
      <4> QED
        BY <1>s, <2>0, <4>1
    <3>2. CASE tx[p].id # 0
      <4>1. PICK k, r : k = tx[p].key /\ r = tx[p].id
        OBVIOUS
      <4>2. /\ k \in Keys /\ \A j \in Keys : r \notin history[j]
            /\ history' = [history EXCEPT ![k] = @ \cup {r}]
            /\ rows'[k] = (rows[k] \cup {r}) \ tx[p].gone
            /\ \A j \in Keys \ {k} : rows'[j] = rows[j]
        BY <1>2, <2>0, <2>3, <3>2, <4>1, Committed
      <4>3. rows'[k] \subseteq rows[k] \cup {r}
        BY <4>2
      <4> QED
        <5>1. /\ ResultsOf(k)' \subseteq ResultsOf(k) \cup {r} /\ r \notin history[k]
              /\ \A j \in Keys \ {k} : ResultsOf(j)' = ResultsOf(j)
          BY <2>0, <4>2, <4>3
        <5> QED
          BY <1>0, <4>2, <5>1, RecordsOne
    <3> QED
      BY <3>1, <3>2
  <2>4. CASE SQLInitialize
    <3>1. PICK S \in SUBSET Keys :
            /\ history' = [k \in Keys |-> IF k \in S THEN {} ELSE history[k]]
            /\ \A k \in Keys : rows'[k] = IF k \in S THEN {} ELSE rows[k]
      BY <1>2, <2>0, <2>4, Reopened
    <3> QED
      BY <1>f, <2>0, <3>1
  <2> QED
    BY <1>2, <2>1, <2>2, <2>3, <2>4 DEF SQLNext, Step
<1>3. CASE UNCHANGED vars
  <2>1. history' = history /\ \A k \in Keys : ResultsOf(k)' = ResultsOf(k)
    BY <1>3 DEF vars, shared, memoryVars, sqlVars, ResultsOf
  <2> QED
    BY <1>s, <2>1
<1> QED
  BY <1>1, <1>2, <1>3 DEF Next

(* sql.go:326, memory/util.go:104: both stores implement StatusHistory:    *)
(* however insertions overlap, fail or die, the newest results are kept    *)
(* and nothing but results.                                                *)
THEOREM ImplementsPromise == Spec => ImplementsStatusHistory
<1>1. Init => Promise!Init
  <2> SUFFICES ASSUME Init PROVE Promise!Init
    OBVIOUS
  <2>1. history = [k \in Keys |-> {}] /\ \A k \in Keys : ResultsOf(k) = {}
    BY DEF Init, MemoryInit, SQLInit, ResultsOf, Keys, TableKeys
  <2> QED
    BY <2>1 DEF Promise!Init
<1>2. StoresInv /\ StoresInv' /\ [Next]_vars
        => [Promise!Next]_<<history, [k \in Keys |-> ResultsOf(k)]>>
  BY StoresStep, PromiseStep
<1> QED
  BY StoresInvariant, <1>1, <1>2, PTL DEF Spec, ImplementsStatusHistory, Promise!Spec
=============================================================================
