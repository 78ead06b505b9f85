------------------------------- MODULE MCParts -------------------------------
(* The parts of the system that can be looked at by themselves, each of    *)
(* them with its own instance: part says which one a behaviour is about,   *)
(* the others stay as they are.                                            *)
EXTENDS MCSuite, Providers, Uptime, Maintenance, Paging, Evaluation, Tunnels, Connectivity

CONSTANTS c1, c2

BothChecks == {c1, c2}

VARIABLE part

Parts == {"suite", "providers", "uptime", "maintenance", "paging", "evaluation", "tunnels", "connectivity"}

PartsInit ==
  /\ part \in Parts
  /\ Init
  /\ IF part = "providers" THEN ProvidersInit ELSE ProvidersIdle
  /\ IF part = "uptime" THEN UptimeInit ELSE UptimeIdle
  /\ IF part = "maintenance" THEN MaintenanceInit ELSE MaintenanceIdle
  /\ IF part = "paging" THEN PagingInit ELSE PagingIdle
  /\ IF part = "evaluation" THEN EvaluationInit ELSE EvaluationIdle
  /\ IF part = "tunnels" THEN TunnelsInit ELSE TunnelsIdle
  /\ IF part = "connectivity" THEN ConnectivityInit ELSE ConnectivityIdle

PartsNext ==
  \/ part = "suite" /\ Next
     /\ UNCHANGED <<part, providerVars, uptimeVars, maintenanceVars, pagingVars, evaluationVars, tunnelVars, connectivityVars>>
  \/ part = "providers" /\ ProvidersNext
     /\ UNCHANGED <<part, vars, uptimeVars, maintenanceVars, pagingVars, evaluationVars, tunnelVars, connectivityVars>>
  \/ part = "uptime" /\ UptimeNext
     /\ UNCHANGED <<part, vars, providerVars, maintenanceVars, pagingVars, evaluationVars, tunnelVars, connectivityVars>>
  \/ part = "maintenance" /\ MaintenanceNext
     /\ UNCHANGED <<part, vars, providerVars, uptimeVars, pagingVars, evaluationVars, tunnelVars, connectivityVars>>
  \/ part = "paging" /\ PagingNext
     /\ UNCHANGED <<part, vars, providerVars, uptimeVars, maintenanceVars, evaluationVars, tunnelVars, connectivityVars>>
  \/ part = "evaluation" /\ EvaluationNext
     /\ UNCHANGED <<part, vars, providerVars, uptimeVars, maintenanceVars, pagingVars, tunnelVars, connectivityVars>>
  \/ part = "tunnels" /\ TunnelsNext
     /\ UNCHANGED <<part, vars, providerVars, uptimeVars, maintenanceVars, pagingVars, evaluationVars, connectivityVars>>
  \/ part = "connectivity" /\ ConnectivityNext
     /\ UNCHANGED <<part, vars, providerVars, uptimeVars, maintenanceVars, pagingVars, evaluationVars, tunnelVars>>

PartsSpec ==
  PartsInit /\ [][PartsNext]_<<part, vars, providerVars, uptimeVars, maintenanceVars, pagingVars,
                               evaluationVars, tunnelVars, connectivityVars>>
=============================================================================
