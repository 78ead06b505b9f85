---------------------------- MODULE StatusHistory ----------------------------
(***************************************************************************)
(* What a store promises those who ask for the status of an endpoint or of *)
(* a suite: of all the results that were inserted, numbered in order, at   *)
(* least the newest MaximumNumberOfResults can be shown, and nothing that  *)
(* was not inserted.  How many more are kept is up to the store.           *)
(***************************************************************************)
EXTENDS Integers, FiniteSets

CONSTANTS
  Keys,                   \* of endpoints and suites
  MaximumNumberOfResults

VARIABLES
  history, \* history[k]: every result of k since k is known to the store
  kept     \* kept[k]: those that the store still has

Newest(n, S) == {x \in S : Cardinality({y \in S : y > x}) < n}

Init ==
  /\ history = [k \in Keys |-> {}]
  /\ kept = [k \in Keys |-> {}]

(* A result of k is inserted; older ones may go.                           *)
Record(k) ==
  \E r \in UNION {history'[q] : q \in Keys} :
    /\ r \notin history[k]
    /\ history' = [history EXCEPT ![k] = @ \cup {r}]
    /\ kept'[k] \subseteq kept[k] \cup {r}
    /\ Newest(MaximumNumberOfResults, history'[k]) \subseteq kept'[k]
    /\ \A q \in Keys \ {k} : kept'[q] = kept[q]

(* The endpoint or suite is no longer configured, or the store is new.     *)
Forget(S) ==
  /\ history' = [k \in Keys |-> IF k \in S THEN {} ELSE history[k]]
  /\ kept' = [k \in Keys |-> IF k \in S THEN {} ELSE kept[k]]

Next == (\E k \in Keys : Record(k)) \/ (\E S \in SUBSET Keys : Forget(S))

Spec == Init /\ [][Next]_<<history, kept>>
=============================================================================
