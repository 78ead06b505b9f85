---------------------------- MODULE MCMaintenance ----------------------------
(* The maintenance window of one endpoint, of any type.                    *)
EXTENDS Maintenance

MaintenanceSpec == MaintenanceInit /\ [][MaintenanceNext]_maintenanceVars
=============================================================================
