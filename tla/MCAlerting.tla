----------------------------- MODULE MCAlerting -----------------------------
(* One endpoint with one or two alerts, checked on the state of the code.  *)
EXTENDS Alerting, SmallEndpoints
=============================================================================
