------------------------------- MODULE MCStores -------------------------------
(* An endpoint whose key is a prefix of that of a suite's endpoint.         *)
EXTENDS Stores

CONSTANTS core, coreDb, suite

OneEndpoint == {core}
OneSuiteEndpoint == {coreDb}
PrefixOfBoth == [k \in OneEndpoint |-> {core, coreDb}]

\* 1: the watchdog, 2: the web server, which accepts pushes and answers.
WatchdogAndServer == <<{"endpoint", "suite"}, {"endpoint", "status", "statuses"}>>
=============================================================================
