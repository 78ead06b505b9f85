-------------------------- MODULE AlertingHistory ---------------------------
(***************************************************************************)
(* Alerting with three history variables, which no action of the code      *)
(* reads: how long the current run of failed and of successful results     *)
(* really is, and how long ago each alert was last announced or reminded.  *)
(* They are kept until the process dies for the first time: a restart      *)
(* forgets the time of the last reminder and mixes up the counters, and    *)
(* nothing that is said of them below holds any longer.                    *)
(***************************************************************************)
EXTENDS Alerting

VARIABLES
  failRun,  \* consecutive failed results handled since the last success
  okRun,    \* consecutive successful results since the last failure
  quiet     \* quiet[a]: time since a was last announced or reminded

history == <<failRun, okRun, quiet>>
hvars == <<vars, history>>

FirstLife == crashes = 0
HInit == /\ Init
         /\ failRun = 0 /\ okRun = 0
         /\ quiet = [a \in Alerts |-> AgeCap]

HFail == Fail /\ IF FirstLife THEN failRun' = Bump(failRun) /\ okRun' = 0 /\ UNCHANGED quiet
                 ELSE UNCHANGED history
HSucceed == Succeed /\ IF FirstLife THEN okRun' = Bump(okRun) /\ failRun' = 0 /\ UNCHANGED quiet
                       ELSE UNCHANGED history
HSend == SendSucceeds /\ IF FirstLife THEN quiet' = [quiet EXCEPT ![cur] = 0] /\ UNCHANGED <<failRun, okRun>>
                         ELSE UNCHANGED history
HTick == /\ Tick \/ \E a \in Alerts : FirstLife /\ quiet[a] < AgeCap /\ UNCHANGED vars
         /\ quiet' = [a \in Alerts |-> Older(quiet[a])]
         /\ UNCHANGED <<failRun, okRun>>
HOther == /\ \/ SkipTrigger \/ SendFails \/ PersistTriggered \/ EndTrigger
             \/ ResolveStep \/ Restart
          /\ UNCHANGED history
HCrash == /\ Crash
          /\ failRun' = 0 /\ okRun' = 0 /\ quiet' = [a \in Alerts |-> AgeCap]

HNext == HFail \/ HSucceed \/ HSend \/ HTick \/ HOther \/ HCrash
HSpec == HInit /\ [][HNext]_hvars

-----------------------------------------------------------------------------
(* alert.go:35 and README.md:830: an alert is announced only after         *)
(* FailureThreshold failed results in a row.                               *)
AnnouncedOnThreshold ==
  [][\A a \in Alerts :
       (FirstLife /\ pc = "triggering" /\ ~triggered[a] /\ triggered'[a]) => failRun >= FailureThreshold[a]]_hvars

(* alert.go:38 and README.md:831: an incident is marked as resolved only   *)
(* after SuccessThreshold successful results in a row...                   *)
ResolvedOnThreshold ==
  [][\A a \in Alerts :
       (crashes' = 0 /\ pc = "resolving" /\ triggered[a] /\ ~triggered'[a]) => okRun >= SuccessThreshold[a]]_hvars

(* ... and it never stays open past them.                                  *)
NotOverdue ==
  FirstLife /\ pc = "idle" => \A a \in Alerts : triggered[a] => okRun < SuccessThreshold[a]

(* README.md:832: two notifications about the same ongoing incident are at *)
(* least the minimum reminder interval apart.                              *)
RemindersSpaced ==
  [][\A a \in Alerts :
       (FirstLife /\ pc = "triggering" /\ pc' = "persisting" /\ cur = a /\ triggered[a])
         => quiet[a] >= ReminderInterval[a]]_hvars
=============================================================================
