-------------------------------- MODULE Stores --------------------------------
(***************************************************************************)
(* The store that Initialize has created, memory or SQL, and what both of  *)
(* them promise.                                                           *)
(***************************************************************************)
EXTENDS MemoryStore, SQLStore

vars == <<shared, memoryVars, sqlVars>>

(* store.Initialize; the type does not change while we look.               *)
Init ==
  /\ storeType \in {"memory", "sqlite", "postgres"}
  /\ outcome = <<>>
  /\ history = [k \in Keys |-> {}]
  /\ MemoryInit /\ SQLInit

Next ==
  \/ storeType = "memory" /\ MemoryNext /\ UNCHANGED sqlVars
  \/ storeType # "memory" /\ SQLNext /\ UNCHANGED memoryVars

Spec == Init /\ [][Next]_vars

(* A transaction that has begun goes on: statements return.                *)
Fairness == \A p \in Processes : WF_vars(storeType # "memory" /\ Step(p) /\ UNCHANGED memoryVars)

FairSpec == Spec /\ Fairness

-----------------------------------------------------------------------------
ResultsOf(k) == IF storeType = "memory" THEN memResults[k] ELSE rows[k]
EventsOf(k) == IF storeType = "memory" THEN memEvents[k] ELSE eventRows[k]
Slack(n) == IF storeType = "memory" THEN 0 ELSE n

TypeOK ==
  /\ outcome \in Seq(BOOLEAN) /\ Len(outcome) <= MaxInserts
  /\ history \in [Keys -> SUBSET Results]
  /\ memResults \in [Keys -> SUBSET Results]
  /\ memEvents \in [EndpointKeys -> SUBSET (Results \cup {EventStart})]
  /\ SQLTypeOK

(* sql.go:326, memory/util.go:104: the newest results are there, however   *)
(* insertions overlap, fail to commit or die, and nothing but results.     *)
Promise == INSTANCE StatusHistory WITH kept <- [k \in Keys |-> ResultsOf(k)]
ImplementsStatusHistory == Promise!Spec

(* sql.go:33-34: both tables are trimmed before they exceed their maxima   *)
(* by more than the thresholds (the events are counted before the one that *)
(* is inserted, and the first two come together).                          *)
Bounded ==
  \A k \in EndpointKeys \ overlapped :
    /\ Cardinality(ResultsOf(k)) <= MaximumNumberOfResults + Slack(ResultSlack)
    /\ Cardinality(EventsOf(k)) <= MaximumNumberOfEvents + 1 + Slack(EventSlack)

(* sql.go:261-266, memory/util.go:88-102: the events tell, without a gap,  *)
(* when the outcome changed, back to the oldest that is kept; although     *)
(* they are made from the newest result and the results are trimmed too.   *)
(* Insertions that overlap can both see the change.                        *)
EventsAreTheLatestChanges ==
  \A k \in EndpointKeys \ overlapped :
    LET all == IF history[k] = {} THEN {} ELSE {EventStart} \cup Changes(history[k])
    IN /\ EventsOf(k) = Newest(Cardinality(EventsOf(k)), all)
       /\ Newest(MaximumNumberOfEvents, all) \subseteq EventsOf(k)

AtRest == \A p \in Processes : ~Open(p)
Shown(k) == [results |-> Newest(MaximumNumberOfResults, rows[k]),
             events |-> Newest(MaximumNumberOfEvents, eventRows[k]),
             exists |-> TRUE]

(* sql.go:60: between transactions, what is cached of an endpoint is what  *)
(* the tables show.  It takes an insertion that overlapped nothing and     *)
(* committed to make it so again after others.                             *)
CacheMatchesTables ==
  AtRest => \A k \in Cached(EndpointKeys) \ unsettled : cache[k] = Shown(k)

(* storage/config.go:31: "pre-emptively caching writes as they happen".    *)
SuiteCacheMatchesTables ==
  AtRest => \A k \in Cached(SuiteEndpointKeys) : cache[k] = Shown(k)

(* Every call returns, although a transaction may wait for another one,    *)
(* and with SQLite there is no second connection to read from.             *)
CallsReturn == \A p \in Processes : []<>(~Open(p))
=============================================================================
