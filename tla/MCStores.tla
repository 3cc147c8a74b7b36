------------------------------ MODULE MCStores ------------------------------
(* TLC instance of what is kept beside the database: the active trip and   *)
(* the offline shell in the browser, the captured files, their backups and *)
(* the restore drill.  A behaviour is one of a single part, the others     *)
(* stay as they begin.                                                     *)
EXTENDS TripStore, ShellCache, CaptureBackup, RestoreDrill

VARIABLE part

storesVars == <<part, tripVars, shellVars, captureBackupVars, restoreVars>>

StoresInit ==
  /\ part \in {"trip", "shell", "captures", "restore"}
  /\ TripInit /\ ShellInit /\ CaptureBackupInit /\ RestoreInit
  /\ part # "trip" => stored = Empty

StoresNext ==
  /\ UNCHANGED part
  /\ \/ part = "trip" /\ TripNext /\ UNCHANGED <<shellVars, captureBackupVars, restoreVars>>
     \/ part = "shell" /\ ShellNext /\ UNCHANGED <<tripVars, captureBackupVars, restoreVars>>
     \/ part = "captures" /\ CaptureBackupNext /\ UNCHANGED <<tripVars, shellVars, restoreVars>>
     \/ part = "restore" /\ RestoreNext /\ UNCHANGED <<tripVars, shellVars, captureBackupVars>>

StoresSpec == StoresInit /\ [][StoresNext]_storesVars
=============================================================================
