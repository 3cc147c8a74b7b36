---------------------------- MODULE RestoreDrill ----------------------------
(***************************************************************************)
(* Restore drill (verifyRestore of deploy/backup/toolkit.mjs): loads a     *)
(* published backup, in one transaction, into a database that must be      *)
(* empty, and records evidence of it.  The backups are those whose         *)
(* manifest is published, each whole (CaptureBackup); the drills run on a  *)
(* host of their own, one after the other or at once.                      *)
(***************************************************************************)
EXTENDS Naturals

CONSTANTS
  Backup,           \* published backups
  RestoreRun,       \* attempts at a restore
  MaxRestoreFaults  \* bound: killed restores

ASSUME RestoreAssumption == MaxRestoreFaults \in Nat

VARIABLES
  restore,          \* step of each restore and the backup it restores
  restoreLock,      \* .restore.lock: free, held, or left by a dead process
  tx,               \* how far the restore's transaction is
  target,           \* what the restore's database shows
  restoreEvidence,  \* evidence of restores
  restoreFaults     \* bound

restoreVars == <<restore, restoreLock, tx, target, restoreEvidence, restoreFaults>>

Nothing == <<>>
RestoreStep == {"new", "locked", "probed", "fetched", "load", "commit", "proof", "ended"}
TxState == {"none", "begun", "some", "all", "sent", "committed"}

RestoreTypeOK ==
  /\ \A s \in RestoreRun : restore[s].step \in RestoreStep
  /\ tx \in [RestoreRun -> TxState]
  /\ restoreLock \in {"free", "held", "stale"}
  /\ target = Nothing \/ target \in Backup \X {"part", "whole"}
  /\ restoreEvidence \subseteq RestoreRun \X Backup
  /\ restoreFaults \in 0..MaxRestoreFaults

RestoreInit ==
  /\ restore = [s \in RestoreRun |-> [step |-> "new"]]
  /\ restoreLock = "free" /\ tx = [s \in RestoreRun |-> "none"]
  /\ target = Nothing /\ restoreEvidence = {}
  /\ restoreFaults = 0

-----------------------------------------------------------------------------
(* A ...Mutant is a deliberate error in the definition after it.           *)
Restoring(s) == restore[s].step \notin {"new", "ended"}
Reaches(s, step) == restore' = [restore EXCEPT ![s].step = step]
Advances(s, state) == tx' = [tx EXCEPT ![s] = state]
NotLoading == UNCHANGED <<tx, target>>
NoKill == UNCHANGED restoreFaults
NotRestored == UNCHANGED <<restoreLock, restoreEvidence>>

(* The operator gives a manifest, and pins it.                             *)
StartRestore(s) ==
  /\ restore[s].step = "new"
  /\ \E k \in Backup :
       restore' = [restore EXCEPT ![s] =
         [step |-> IF restoreLock = "free" THEN "locked" ELSE "ended", of |-> k]]
  /\ restoreLock' = IF restoreLock = "free" THEN "held" ELSE restoreLock
  /\ UNCHANGED restoreEvidence /\ NotLoading /\ NoKill

(* The database is empty, and not the one the backup was made from.        *)
ProbeTarget(s) ==
  /\ restore[s].step = "locked" /\ target = Nothing
  /\ Reaches(s, "probed")
  /\ NotLoading /\ NotRestored /\ NoKill

(* Both files are there, and hold what the manifest says.                  *)
FetchBackup(s) ==
  /\ restore[s].step = "probed"
  /\ Reaches(s, "fetched")
  /\ NotLoading /\ NotRestored /\ NoKill

(* The session that will load looks again before it begins.                *)
BeginLoad(s) ==
  /\ restore[s].step = "fetched" /\ target = Nothing
  /\ Reaches(s, "load") /\ Advances(s, "begun")
  /\ UNCHANGED target /\ NotRestored /\ NoKill

(* What is loaded shows when the transaction commits.  A second load of    *)
(* the same relations waits for the first one, or fails on what it left.   *)
OutsideTransactionMutant(s, part) == <<restore[s].of, part>>
ShownWhileLoading(s, part) == target

LoadSome(s) ==
  /\ tx[s] \in {"begun", "some"} /\ restore[s].step = "load"
  /\ tx[s] = "begun" =>
       target = Nothing /\ \A u \in RestoreRun : tx[u] \notin {"some", "all", "sent"}
  /\ Advances(s, IF tx[s] = "begun" THEN "some" ELSE "all")
  /\ target' = ShownWhileLoading(s, IF tx[s] = "begun" THEN "part" ELSE "whole")
  /\ UNCHANGED restore /\ NotRestored /\ NoKill

SendCommit(s) ==
  /\ restore[s].step = "load" /\ tx[s] = "all"
  /\ Reaches(s, "commit") /\ Advances(s, "sent")
  /\ UNCHANGED target /\ NotRestored /\ NoKill

(* The server commits, whether or not anyone still waits for it,           *)
CommitLoad(s) ==
  /\ tx[s] = "sent"
  /\ Advances(s, "committed") /\ target' = <<restore[s].of, "whole">>
  /\ UNCHANGED restore /\ NotRestored /\ NoKill

(* or rolls back when its client is gone.                                  *)
RollBack(s) ==
  /\ tx[s] \in {"begun", "some", "all", "sent"} /\ restore[s].step = "ended"
  /\ Advances(s, "none")
  /\ UNCHANGED <<restore, target>> /\ NotRestored /\ NoKill

CommitAnswered(s) ==
  /\ restore[s].step = "commit" /\ tx[s] = "committed"
  /\ Reaches(s, "proof")
  /\ NotLoading /\ NotRestored /\ NoKill

(* Identity, ledgers, relations and captures are read back from the        *)
(* database and compared with the manifest.                                *)
RecordRestore(s) ==
  /\ restore[s].step = "proof"
  /\ target = <<restore[s].of, "whole">>
  /\ restoreEvidence' = restoreEvidence \cup {<<s, restore[s].of>>}
  /\ Reaches(s, "ended") /\ restoreLock' = "free"
  /\ NotLoading /\ NoKill

FailRestore(s) ==
  /\ Restoring(s)
  /\ Reaches(s, "ended") /\ restoreLock' = "free"
  /\ UNCHANGED restoreEvidence /\ NotLoading /\ NoKill

KillRestore(s) ==
  /\ restoreFaults < MaxRestoreFaults /\ restoreFaults' = restoreFaults + 1
  /\ Restoring(s)
  /\ Reaches(s, "ended") /\ restoreLock' = "stale"
  /\ UNCHANGED restoreEvidence /\ NotLoading

ClearRestoreLock ==
  /\ restoreLock = "stale" /\ restoreLock' = "free"
  /\ UNCHANGED <<restore, restoreEvidence>> /\ NotLoading /\ NoKill

RestoreNext ==
  \/ ClearRestoreLock
  \/ \E s \in RestoreRun :
       \/ StartRestore(s) \/ ProbeTarget(s) \/ FetchBackup(s) \/ BeginLoad(s)
       \/ LoadSome(s) \/ SendCommit(s) \/ CommitLoad(s) \/ RollBack(s)
       \/ CommitAnswered(s) \/ RecordRestore(s) \/ FailRestore(s) \/ KillRestore(s)

RestoreSpec == RestoreInit /\ [][RestoreNext]_restoreVars

-----------------------------------------------------------------------------
(* The restored database shows nothing or one whole backup, through failed *)
(* and killed restores, their lingering sessions and commits that nobody   *)
(* heard of, and evidence of a restore names the backup that is in it.     *)
RestoresAreWhole ==
  /\ target # Nothing => target[2] = "whole"
  /\ \A e \in restoreEvidence : target = <<e[2], "whole">>
=============================================================================
