----------------------------- MODULE MemoryStore -----------------------------
(***************************************************************************)
(* The memory store: the status of every endpoint in a cache, changed      *)
(* under the store's lock and trimmed to the configured maxima by every    *)
(* insertion.                                                              *)
(***************************************************************************)
EXTENDS ResultLog

VARIABLES
  memResults, \* memResults[k]: Status.Results of endpoint or suite k
  memEvents   \* memEvents[k]: Status.Events of endpoint k

memoryVars == <<memResults, memEvents>>

MemoryInit ==
  /\ memResults = [k \in Keys |-> {}]
  /\ memEvents = [k \in EndpointKeys |-> {}]

Trim(n, S) == Newest(n, S)

(* AddResult: the first result is an event, a later one if the outcome     *)
(* differs from that of the newest result.                                 *)
EventNeeded(k, r) ==
  memResults[k] = {} \/ outcome[Latest(memResults[k])] # outcome'[r]

(* The events are trimmed only where one was added to others.              *)
AddEvent(k, r) ==
  IF ~EventNeeded(k, r) THEN memEvents[k]
  ELSE IF memResults[k] = {} THEN {EventStart, r}
  ELSE Trim(MaximumNumberOfEvents, memEvents[k] \cup {r})

MemoryInsertEndpointResult(k) ==
  \E success \in BOOLEAN :
    LET r == Len(outcome) + 1
    IN /\ r \in Results
       /\ outcome' = Append(outcome, success)
       /\ memEvents' = [memEvents EXCEPT ![k] = AddEvent(k, r)]
       /\ memResults' = [memResults EXCEPT ![k] = Trim(MaximumNumberOfResults, @ \cup {r})]
       /\ history' = [history EXCEPT ![k] = @ \cup {r}]
       /\ UNCHANGED storeType

(* The results of the suite's endpoints are part of its own result.        *)
MemoryInsertSuiteResult ==
  \E success \in BOOLEAN :
    LET r == Len(outcome) + 1
    IN /\ r \in Results
       /\ outcome' = Append(outcome, success)
       /\ memResults' = [memResults EXCEPT ![SuiteKey] = Trim(MaximumNumberOfResults, @ \cup {r})]
       /\ history' = [history EXCEPT ![SuiteKey] = @ \cup {r}]
       /\ UNCHANGED <<storeType, memEvents>>

(* A reload or a restart creates a new store, which knows nothing; so do   *)
(* the deletions of initializeStorage that follow.                         *)
MemoryInitialize ==
  /\ memResults' = [k \in Keys |-> {}]
  /\ memEvents' = [k \in EndpointKeys |-> {}]
  /\ history' = [k \in Keys |-> {}]
  /\ UNCHANGED <<storeType, outcome>>

MemoryNext ==
  \/ \E k \in EndpointKeys : MemoryInsertEndpointResult(k)
  \/ MemoryInsertSuiteResult
  \/ MemoryInitialize
=============================================================================
