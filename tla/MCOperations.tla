----------------------------- MODULE MCOperations -----------------------------
(***************************************************************************)
(* What runs around the requests: server processes, the reload of their    *)
(* configuration, their logs, backups and restores, the commands that      *)
(* install the service.  These share no state here, so each behaviour      *)
(* moves one of them, chosen by part in the initial state.                 *)
(***************************************************************************)
EXTENDS ServerLifecycle, ConfigReload, Logger, Backup, Restore, ServiceManager

VARIABLE part

CONSTANT Parts

MCManagers == {"systemd", "openrc", "sysv", "runit", "rcd", "launchd"}
MCFileOrder == <<"server", "audit">>

OperationsInit ==
  /\ part \in Parts
  /\ SrvInit /\ CfgInit /\ LogInit /\ BackupInit /\ RestoreInit /\ ServiceInit
  /\ part = "service" \/ manager = "systemd"

OperationsNext ==
  /\ UNCHANGED part
  /\ \/ part = "server" /\ SrvNext /\ UNCHANGED <<cfgVars, logVars, backupVars, restoreVars, serviceVars>>
     \/ part = "reload" /\ CfgNext /\ UNCHANGED <<srvVars, logVars, backupVars, restoreVars, serviceVars>>
     \/ part = "logger" /\ LogNext /\ UNCHANGED <<srvVars, cfgVars, backupVars, restoreVars, serviceVars>>
     \/ part = "backup" /\ BackupNext /\ UNCHANGED <<srvVars, cfgVars, logVars, restoreVars, serviceVars>>
     \/ part = "restore" /\ RestoreNext /\ UNCHANGED <<srvVars, cfgVars, logVars, backupVars, serviceVars>>
     \/ part = "service" /\ ServiceNext
        /\ UNCHANGED <<srvVars, cfgVars, logVars, backupVars, restoreVars>>

OperationsSpec ==
  OperationsInit /\ [][OperationsNext]_<<part, srvVars, cfgVars, logVars, backupVars, restoreVars, serviceVars>>

\* The components keep to the shape of their data; a retention never marks a file
\* that no backup has begun (Start, applyConfigChanges, Rotate, ApplyRetentionPolicy,
\* Restore).
OperationsTypeOK == SrvTypeOK /\ CfgTypeOK /\ LogTypeOK /\ BackupTypeOK /\ RestoreTypeOK /\ ServiceTypeOK
=============================================================================
