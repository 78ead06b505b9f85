------------------------------- MODULE SQLStore -------------------------------
(***************************************************************************)
(* The SQL store: tables that are trimmed only once they exceed their      *)
(* maximum by a threshold, and the write-through cache of statuses that    *)
(* insertions refresh before they commit.  Each process is a goroutine     *)
(* that inserts or reads in a transaction.  With SQLite there is only one  *)
(* connection (SetMaxOpenConns(1)); with Postgres transactions overlap,    *)
(* and each statement sees what was committed before it (read committed).  *)
(* The statements of an insertion that look at the tables and change them  *)
(* are one step, Write.                                                    *)
(***************************************************************************)
EXTENDS ResultLog

CONSTANTS
  Processes,   \* goroutines of the watchdog and of the web server
  Jobs,        \* Jobs[p]: what process p asks of the store
  ResultSlack, \* resultsAboveMaximumCleanUpThreshold
  EventSlack,  \* eventsAboveMaximumCleanUpThreshold
  Prefixed     \* Prefixed[k]: the keys that start with k

ASSUME SlackAssumption == ResultSlack \in Nat /\ EventSlack \in Nat
ASSUME PrefixAssumption ==
  /\ Prefixed \in [EndpointKeys -> SUBSET TableKeys]
  /\ \A k \in EndpointKeys : k \in Prefixed[k]

JobNames == {"endpoint", "suite", "status", "statuses"}
ASSUME JobAssumption == Jobs \in [Processes -> SUBSET JobNames]

VARIABLES
  known,      \* keys of the rows of endpoints and suites
  rows,       \* rows[k]: endpoint_results of endpoint k, suite_results of the suite
  eventRows,  \* eventRows[k]: endpoint_events of endpoint k
  cache,      \* cache[k]: the cached status of endpoint k, or Nothing
  tx,         \* tx[p]: what process p is doing
  overlapped, \* keys into which two transactions have inserted at once,
  unsettled   \* keys whose last insertion was not alone, or did not commit
              \*   (both are history variables)

tables == <<known, rows, eventRows>>
sqlVars == <<known, rows, eventRows, cache, tx, overlapped, unsettled>>

Nothing == [results |-> {}, events |-> {}, exists |-> FALSE]
Statuses == [results : SUBSET Results, events : SUBSET (Results \cup {EventStart}), exists : BOOLEAN]

Idle == [pc |-> "idle", job |-> "none", key |-> SuiteKey, ran |-> {}, found |-> FALSE,
         id |-> 0, events |-> {}, gone |-> {}, oldEvents |-> {}, left |-> {},
         at |-> SuiteKey, status |-> Nothing, alone |-> TRUE]

Places == {"idle", "selecting", "writing", "next", "lookup", "set"}

SQLTypeOK ==
  /\ known \subseteq TableKeys \cup {SuiteKey}
  /\ rows \in [TableKeys \cup {SuiteKey} -> SUBSET Results]
  /\ eventRows \in [TableKeys -> SUBSET (Results \cup {EventStart})]
  /\ \A k \in DOMAIN rows : rows[k] # {} => k \in known
  /\ \A k \in TableKeys : eventRows[k] # {} => k \in known
  /\ \A k \in SuiteEndpointKeys : rows[k] \subseteq rows[SuiteKey]
  /\ cache \in [TableKeys -> Statuses]
  /\ overlapped \subseteq EndpointKeys
  /\ unsettled \subseteq EndpointKeys
  /\ \A p \in Processes :
       /\ DOMAIN tx[p] = DOMAIN Idle
       /\ tx[p].pc \in Places
       /\ tx[p].job \in JobNames \cup {"none"}
       /\ tx[p].id \in 0..MaxInserts
       /\ tx[p].left \cup tx[p].ran \subseteq TableKeys

SQLInit ==
  /\ known = {}
  /\ rows = [k \in TableKeys \cup {SuiteKey} |-> {}]
  /\ eventRows = [k \in TableKeys |-> {}]
  /\ cache = [k \in TableKeys |-> Nothing]
  /\ tx = [p \in Processes |-> Idle]
  /\ overlapped = {} /\ unsettled = {}

-----------------------------------------------------------------------------
(* Transactions *)

Open(p) == tx[p].pc # "idle"
Others(p) == {q \in Processes \ {p} : Open(q)}
Inserting(p) == tx[p].job \in {"endpoint", "suite"}

Connection(p) == storeType = "sqlite" => Others(p) = {}

(* getAllEndpointKeys: endpoints with a result of their own.               *)
AllKeys == {k \in EndpointKeys : rows[k] # {}}

(* InsertEndpointResult is called for an endpoint, InsertSuiteResult for   *)
(* the suite, of whose endpoints some were skipped; the API asks for the   *)
(* status of one endpoint, or for all.                                     *)
Calls ==
  [job : {"endpoint"}, key : EndpointKeys, ran : {{}}, left : {{}}]
    \cup [job : {"suite"}, key : {SuiteKey}, ran : SUBSET SuiteEndpointKeys, left : {{}}]
    \cup {[job |-> "status", key |-> SuiteKey, ran |-> {}, left |-> {k}] : k \in TableKeys}
    \cup {[job |-> "statuses", key |-> SuiteKey, ran |-> {}, left |-> AllKeys]}

Begin(p) ==
  /\ tx[p].pc = "idle" /\ Connection(p)
  /\ \E c \in {d \in Calls : d.job \in Jobs[p]} :
       LET inserting == c.job \in {"endpoint", "suite"}
       IN /\ inserting => Len(outcome) < MaxInserts
          /\ tx' = [q \in Processes |->
                      IF q = p THEN [Idle EXCEPT !.pc = IF inserting THEN "selecting" ELSE "next",
                                                 !.job = c.job, !.key = c.key, !.ran = c.ran,
                                                 !.left = c.left, !.alone = Others(p) = {}]
                      ELSE IF Open(q) THEN [tx[q] EXCEPT !.alone = FALSE]
                      ELSE tx[q]]
  /\ UNCHANGED <<shared, tables, cache, overlapped, unsettled>>

(* getEndpointID, getSuiteID *)
Select(p) ==
  /\ tx[p].pc = "selecting"
  /\ tx' = [tx EXCEPT ![p].pc = "writing", ![p].found = tx[p].key \in known]
  /\ UNCHANGED <<shared, tables, cache, overlapped, unsettled>>

(* The keys that the open transaction q has inserted, not yet committed.   *)
Creating(q) ==
  IF tx[q].id = 0 THEN {}
  ELSE (IF tx[q].found THEN {} ELSE {tx[q].key}) \cup (tx[q].ran \ known)

(* insertEndpoint, insertSuite: a key is unique, and an insertion waits    *)
(* for the end of another one of the same key.                             *)
Blocked(p) == \E q \in Others(p) : ({tx[p].key} \cup tx[p].ran) \cap Creating(q) # {}
Duplicate(p) == ~tx[p].found /\ tx[p].key \in known

(* A statement fails, as that with a duplicate key does, and the insertion *)
(* gives up.                                                               *)
RollBack(p) ==
  /\ tx[p].pc \in {"selecting", "writing"} /\ ~Blocked(p)
  /\ tx' = [tx EXCEPT ![p] = Idle]
  /\ UNCHANGED <<shared, tables, cache, overlapped, unsettled>>

-----------------------------------------------------------------------------
(* Inserting *)

(* insertEndpointResultWithSuiteID: the row that p has inserted for k.     *)
Inserted(p, k) == IF tx[p].id # 0 /\ k \in {tx[p].key} \cup tx[p].ran THEN {tx[p].id} ELSE {}

(* What p sees of the results and of the events of k: what is committed    *)
(* and what it has inserted itself, less what it has deleted.              *)
ResultsSeenBy(p, k) == (rows[k] \cup Inserted(p, k)) \ tx[p].gone

EventsSeenBy(p, k) ==
  IF k # tx[p].key THEN eventRows[k] ELSE (eventRows[k] \ tx[p].oldEvents) \cup tx[p].events

\* Slip: the oldest results are kept, the newest ones deleted.
ExcessOfNewest(max, slack, S) ==
  IF Cardinality(S) > max + slack THEN Newest(Cardinality(S) - max, S) ELSE {}

\* Slip: off by one at the threshold.
ExcessOffByOne(max, slack, S) ==
  IF Cardinality(S) > max + slack + 1 THEN S \ Newest(max, S) ELSE {}

(* deleteOldEndpointResults and its like: nothing up to the threshold,     *)
(* all but the maximum above it.                                           *)
Excess(max, slack, S) ==
  IF Cardinality(S) > max + slack THEN S \ Newest(max, S) ELSE {}

OldResults(k, r) == Excess(MaximumNumberOfResults, ResultSlack, rows[k] \cup {r})

(* deleteOldSuiteResults                                                   *)
OldSuiteResults(r) == Excess(MaximumNumberOfResults, ResultSlack, rows[SuiteKey] \cup {r})

(* getLastEndpointResultSuccessValue                                       *)
LastSuccess(k) == outcome[Latest(rows[k])]

\* Slip: an event for every failure.
EventsForFailures(k, r, success) ==
  IF eventRows[k] = {} THEN {EventStart, r}
  ELSE IF ~success \/ LastSuccess(k) # success THEN {r} ELSE {}

(* The start and the first event of an endpoint, or one whose outcome      *)
(* differs from that of the last result; none if there is no last result.  *)
NewEvents(k, r, success) ==
  IF eventRows[k] = {} THEN {EventStart, r}
  ELSE IF rows[k] # {} /\ LastSuccess(k) # success THEN {r} ELSE {}

(* The number of events that is compared was read before the insertion,    *)
(* and what is deleted is looked for after it.                             *)
OldEvents(k, added) ==
  IF Cardinality(eventRows[k]) > MaximumNumberOfEvents + EventSlack
  THEN eventRows[k] \ Newest(MaximumNumberOfEvents, eventRows[k] \cup added)
  ELSE {}

Cached(S) == {k \in S : cache[k].exists}

(* In the end it refreshes what is cached of the keys that start with its  *)
(* own.                                                                    *)
WriteEndpointResult(p) ==
  \E success \in BOOLEAN :
    LET k == tx[p].key
        r == Len(outcome) + 1
        events == NewEvents(k, r, success)
    IN /\ tx[p].pc = "writing" /\ tx[p].job = "endpoint"
       /\ ~Blocked(p) /\ ~Duplicate(p)
       /\ r \in Results
       /\ outcome' = Append(outcome, success)
       /\ tx' = [tx EXCEPT ![p].id = r, ![p].events = events, ![p].pc = "next",
                           ![p].left = Cached(Prefixed[k]),
                           ![p].oldEvents = OldEvents(k, events),
                           ![p].gone = OldResults(k, r)]
       /\ overlapped' = IF \E q \in Others(p) : tx[q].job = "endpoint" /\ tx[q].key = k
                        THEN overlapped \cup {k} ELSE overlapped
       /\ UNCHANGED <<storeType, history, tables, cache, unsettled>>

(* The results of the endpoints refer to that of the suite and are deleted *)
(* with it; nothing is cached of a suite, and the cached statuses of its   *)
(* endpoints are not refreshed.                                            *)
WriteSuiteResult(p) ==
  \E success \in BOOLEAN :
    LET r == Len(outcome) + 1
    IN /\ tx[p].pc = "writing" /\ tx[p].job = "suite"
       /\ ~Blocked(p) /\ ~Duplicate(p)
       /\ r \in Results
       /\ outcome' = Append(outcome, success)
       /\ tx' = [tx EXCEPT ![p].id = r, ![p].pc = "next",
                           ![p].gone = OldSuiteResults(r)]
       /\ UNCHANGED <<storeType, history, tables, cache, overlapped, unsettled>>

-----------------------------------------------------------------------------
(* The cache *)

(* A status is what the first page shows, with as many results and events  *)
(* as the maxima.                                                          *)
StatusSeenBy(p, k) ==
  [results |-> Newest(MaximumNumberOfResults, ResultsSeenBy(p, k)),
   events |-> Newest(MaximumNumberOfEvents, EventsSeenBy(p, k)),
   exists |-> TRUE]

\* Slip: what is cached is not deleted before the refresh, which finds it.
NextKeyKeepingCache(p) ==
  /\ tx[p].pc = "next"
  /\ \E k \in tx[p].left :
       tx' = [tx EXCEPT ![p].at = k, ![p].left = @ \ {k}, ![p].pc = "lookup"]
  /\ UNCHANGED <<shared, tables, cache, overlapped, unsettled>>

(* A refresh deletes what is cached before it looks it up; another reader  *)
(* may come in between.                                                    *)
NextKey(p) ==
  /\ tx[p].pc = "next"
  /\ \E k \in tx[p].left :
       /\ tx' = [tx EXCEPT ![p].at = k, ![p].left = @ \ {k}, ![p].pc = "lookup"]
       /\ cache' = IF Inserting(p) THEN [cache EXCEPT ![k] = Nothing] ELSE cache
  /\ UNCHANGED <<shared, tables, overlapped, unsettled>>

(* getEndpointStatusByKey: what is cached is the answer...                 *)
Hit(p) ==
  /\ tx[p].pc = "lookup" /\ cache[tx[p].at].exists
  /\ tx' = [tx EXCEPT ![p].pc = "next"]
  /\ UNCHANGED <<shared, tables, cache, overlapped, unsettled>>

(* ... otherwise the tables are read, if they know the endpoint...         *)
NotFound(p) ==
  /\ tx[p].pc = "lookup" /\ ~cache[tx[p].at].exists
  /\ tx[p].at \notin known \cup Creating(p)
  /\ tx' = [tx EXCEPT ![p] = IF tx[p].job = "status" THEN Idle ELSE [@ EXCEPT !.pc = "next"]]
  /\ UNCHANGED <<shared, tables, cache, overlapped, unsettled>>

\* Slip: the status is read outside the transaction, on another connection.
MissOnAnotherConnection(p) ==
  /\ tx[p].pc = "lookup" /\ ~cache[tx[p].at].exists
  /\ tx[p].at \in known \cup Creating(p)
  /\ storeType # "sqlite"
  /\ tx' = [tx EXCEPT ![p].status = StatusSeenBy(p, tx[p].at), ![p].pc = "set"]
  /\ UNCHANGED <<shared, tables, cache, overlapped, unsettled>>

Miss(p) ==
  /\ tx[p].pc = "lookup" /\ ~cache[tx[p].at].exists
  /\ tx[p].at \in known \cup Creating(p)
  /\ tx' = [tx EXCEPT ![p].status = StatusSeenBy(p, tx[p].at), ![p].pc = "set"]
  /\ UNCHANGED <<shared, tables, cache, overlapped, unsettled>>

(* ... and the answer is cached, in an insertion before it is committed.   *)
SetCache(p) ==
  /\ tx[p].pc = "set"
  /\ cache' = [cache EXCEPT ![tx[p].at] = tx[p].status]
  /\ tx' = [tx EXCEPT ![p].pc = "next", ![p].status = Nothing]
  /\ UNCHANGED <<shared, tables, overlapped, unsettled>>

(* cacheTTL                                                                *)
Expire ==
  /\ \E k \in Cached(TableKeys) : cache' = [cache EXCEPT ![k] = Nothing]
  /\ UNCHANGED <<shared, tables, tx, overlapped, unsettled>>

-----------------------------------------------------------------------------
(* The end of transactions *)

Settle(p, committed) ==
  unsettled' = CASE tx[p].job # "endpoint" -> unsettled
                 [] tx[p].job = "endpoint" /\ committed /\ tx[p].alone -> unsettled \ {tx[p].key}
                 [] OTHER -> unsettled \cup (Prefixed[tx[p].key] \cap EndpointKeys)

Commit(p) ==
  /\ tx[p].pc = "next" /\ tx[p].left = {}
  /\ known' = known \cup Creating(p)
  /\ rows' = [k \in DOMAIN rows |-> ResultsSeenBy(p, k)]
  /\ eventRows' = [k \in TableKeys |-> EventsSeenBy(p, k)]
  /\ history' = IF Inserting(p) THEN [history EXCEPT ![tx[p].key] = @ \cup {tx[p].id}] ELSE history
  /\ Settle(p, TRUE)
  /\ tx' = [tx EXCEPT ![p] = Idle]
  /\ UNCHANGED <<storeType, outcome, cache, overlapped>>

CommitFails(p) ==
  /\ tx[p].pc = "next" /\ tx[p].left = {}
  /\ Settle(p, FALSE)
  /\ tx' = [tx EXCEPT ![p] = Idle]
  /\ UNCHANGED <<shared, tables, cache, overlapped>>

(* The process dies: what was not committed is lost, and the cache.        *)
Crash ==
  /\ tx' = [p \in Processes |-> Idle]
  /\ cache' = [k \in TableKeys |-> Nothing]
  /\ unsettled' = {}
  /\ UNCHANGED <<shared, tables, overlapped>>

(* ON DELETE CASCADE                                                       *)
Cascade(table, keep, k) == IF k \in keep THEN table[k] ELSE {}

(* DeleteAllSuiteStatusesNotInKeys, DeleteAllEndpointStatusesNotInKeys: of *)
(* the configured keys, the suite's and, with those of its endpoints, the  *)
(* endpoints'.                                                             *)
KeptSuites(S) == S \cap {SuiteKey}
KeptEndpoints(S) == (S \cap EndpointKeys) \cup (IF SuiteKey \in S THEN SuiteEndpointKeys ELSE {})

(* main.initializeStorage with the keys of the new configuration: close,   *)
(* open, delete what is no longer configured.  The handlers of the old     *)
(* configuration have ended by then.                                       *)
SQLInitialize ==
  /\ \A p \in Processes : ~Open(p)
  /\ \E S \in SUBSET Keys :
       LET keep == KeptSuites(S) \cup KeptEndpoints(S)
       IN /\ known' = known \cap keep
          /\ rows' = [k \in DOMAIN rows |-> Cascade(rows, keep, k)]
          /\ eventRows' = [k \in TableKeys |-> Cascade(eventRows, keep, k)]
          /\ history' = [k \in Keys |-> IF k \in keep THEN history[k] ELSE {}]
          /\ overlapped' = overlapped \cap keep
  /\ cache' = [k \in TableKeys |-> Nothing]
  /\ unsettled' = {}
  /\ UNCHANGED <<storeType, outcome, tx>>

Step(p) ==
  \/ Select(p) \/ RollBack(p) \/ WriteEndpointResult(p) \/ WriteSuiteResult(p)
  \/ NextKey(p) \/ Hit(p) \/ NotFound(p) \/ Miss(p) \/ SetCache(p)
  \/ Commit(p) \/ CommitFails(p)

SQLNext ==
  \/ \E p \in Processes : Begin(p) \/ Step(p)
  \/ Expire \/ Crash \/ SQLInitialize
=============================================================================
