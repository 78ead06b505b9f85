------------------------------ MODULE ResultLog ------------------------------
(***************************************************************************)
(* What the two stores have in common.  Results are numbered in the order  *)
(* in which they are inserted, over all endpoints and suites; the event    *)
(* that a result causes has the number of the result, and its type is the  *)
(* outcome of the result (NewEventFromResult); the start event is 0.       *)
(***************************************************************************)
EXTENDS Integers, FiniteSets, Sequences

CONSTANTS
  EndpointKeys,      \* keys of endpoints and external endpoints
  SuiteEndpointKeys, \* keys of the endpoints of the suite
  SuiteKey,          \* key of the suite
  MaximumNumberOfResults,
  MaximumNumberOfEvents,
  MaxInserts         \* bound on the number of results

Keys == EndpointKeys \cup {SuiteKey}
TableKeys == EndpointKeys \cup SuiteEndpointKeys

ASSUME KeyAssumption ==
  /\ EndpointKeys \cap SuiteEndpointKeys = {}
  /\ SuiteKey \notin TableKeys
ASSUME MaximumAssumption ==
  /\ MaximumNumberOfResults \in Nat \ {0}
  /\ MaximumNumberOfEvents \in Nat \ {0}
  /\ MaxInserts \in Nat

VARIABLES
  storeType, \* which store Initialize has created
  outcome,   \* outcome[r]: Result.Success of result r
  history    \* history[k]: every result of k since k is known to the store
             \*   (a history variable: no action reads it)

shared == <<storeType, outcome, history>>

Results == 1..MaxInserts
EventStart == 0

Newest(n, S) == {x \in S : Cardinality({y \in S : y > x}) < n}
Latest(S) == CHOOSE x \in S : \A y \in S : y <= x

(* Of the results, those whose outcome differs from the one before.        *)
Changes(S) ==
  {r \in S : LET before == {q \in S : q < r}
             IN before = {} \/ outcome[Latest(before)] # outcome[r]}
=============================================================================
