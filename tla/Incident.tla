------------------------------ MODULE Incident ------------------------------
(***************************************************************************)
(* What alerting promises the people who receive the alerts of one         *)
(* endpoint.  Each alert has at most one open incident.  An incident is    *)
(* announced when it opens, reminders are only sent while it is open, and  *)
(* a resolution is only reported for an incident that was announced and    *)
(* has been closed.  A restart may forget incidents (their alert may no    *)
(* longer be configured, or was not persisted in time) but never invents   *)
(* one.                                                                    *)
(***************************************************************************)
CONSTANT Alerts

VARIABLES
  open,  \* the alerts whose incident is open
  mail   \* mail[a]: the last notification about a that was delivered

vars == <<open, mail>>

Notifications == {"none", "triggered", "reminder", "resolved"}

Init == /\ open = {}
        /\ mail = [a \in Alerts |-> "none"]

Announce(a) == /\ a \notin open
               /\ open' = open \cup {a}
               /\ mail' = [mail EXCEPT ![a] = "triggered"]

Remind(a) == /\ a \in open
             /\ mail' = [mail EXCEPT ![a] = "reminder"]
             /\ UNCHANGED open

Close(a) == /\ a \in open
            /\ open' = open \ {a}
            /\ UNCHANGED mail

ReportResolved(a) == /\ a \notin open
                     /\ mail[a] \in {"triggered", "reminder"}
                     /\ mail' = [mail EXCEPT ![a] = "resolved"]
                     /\ UNCHANGED open

Forget == /\ open' \in SUBSET open
          /\ UNCHANGED mail

Next == \/ \E a \in Alerts : Announce(a) \/ Remind(a) \/ Close(a) \/ ReportResolved(a)
        \/ Forget

Spec == Init /\ [][Next]_vars
=============================================================================
