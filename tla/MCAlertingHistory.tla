------------------------- MODULE MCAlertingHistory --------------------------
(* One endpoint with two alerts, checked against what really happened.     *)
EXTENDS AlertingHistory, SmallEndpoints
=============================================================================
