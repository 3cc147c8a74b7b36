--------------------------- MODULE CaptureBackup ----------------------------
(***************************************************************************)
(* Backup (createBackup of deploy/backup/toolkit.mjs, and                  *)
(* deploy/backup/private-capture-archive.mjs) beside the writers of        *)
(* captures.  A backup takes the database at one snapshot and then, while  *)
(* writers go on, the captured files that the snapshot lists; it publishes *)
(* both with a manifest that goes last.                                    *)
(***************************************************************************)
EXTENDS CaptureStore, Sequences

CONSTANT BackupRun

VARIABLES
  backup,           \* step of each backup; what it has read and built
  backupLock,       \* .backup.lock: free, held, or left by a dead process
  published,        \* off-host objects
  backupEvidence    \* files of the evidence directory

backupVars == <<backup, backupLock, published, backupEvidence>>
captureBackupVars == <<captureVars, backupVars>>

Uploads == <<"dump", "captures", "checksums", "manifest">>
LockState == {"free", "held", "stale"}
BackupStep == {"new", "locked", "dump", "scan", "stream", "rescan", "upload", "evidence", "ended"}

CaptureBackupTypeOK ==
  /\ CaptureTypeOK
  /\ \A r \in BackupRun :
       /\ backup[r].step \in BackupStep
       /\ backup[r].dump \subseteq Blob /\ backup[r].bundle \subseteq Blob
       /\ backup[r].seen \subseteq Blob /\ backup[r].scanned \subseteq Publication
  /\ backupLock \in LockState
  /\ published \subseteq BackupRun \X {Uploads[i] : i \in 1..Len(Uploads)}
  /\ backupEvidence \subseteq BackupRun \X {"checksums", "manifest"}

NewBackup == [step |-> "new", dump |-> {}, bundle |-> {}, seen |-> {}, scanned |-> {}]

CaptureBackupInit ==
  /\ CaptureInit
  /\ backup = [r \in BackupRun |-> NewBackup]
  /\ backupLock = "free" /\ published = {} /\ backupEvidence = {}

-----------------------------------------------------------------------------
(* createBackup().  A ...Mutant is a deliberate error in the definition    *)
(* after it.                                                               *)
BackingUp(r) == backup[r].step \notin {"new", "ended"}

(* What was built is only looked at again when a manifest names it.        *)
Ended(b, named) == IF named THEN [b EXCEPT !.step = "ended"] ELSE [NewBackup EXCEPT !.step = "ended"]
Finishes(r, named) == backup' = [backup EXCEPT ![r] = Ended(@, named)]
Becomes(r, step) == backup' = [backup EXCEPT ![r].step = step]
StoreUnread == UNCHANGED captureVars
NothingPublished == UNCHANGED <<published, backupEvidence>>

StartBackup(r) ==
  /\ backup[r].step = "new"
  /\ IF backupLock = "free"
       THEN Becomes(r, "locked") /\ backupLock' = "held"
       ELSE Finishes(r, FALSE) /\ UNCHANGED backupLock
  /\ NothingPublished /\ StoreUnread

(* The rows of the exported snapshot, and later the dump made from it.     *)
OpenSnapshot(r) ==
  /\ backup[r].step = "locked"
  /\ backup' = [backup EXCEPT ![r].step = "dump", ![r].dump = rows]
  /\ UNCHANGED backupLock /\ NothingPublished /\ StoreUnread

RunDump(r) ==
  /\ backup[r].step = "dump"
  /\ Becomes(r, "scan")
  /\ UNCHANGED backupLock /\ NothingPublished /\ StoreUnread

(* A directory can be scanned when it holds nothing but finished files.    *)
Orderly(p) == \A t \in Temps : t[1][1] # p

ScanDirectory(r) ==
  /\ backup[r].step = "scan"
  /\ \E p \in Publication \ backup[r].scanned :
       /\ Orderly(p)
       /\ touched' = touched \ {p}
       /\ backup' = [backup EXCEPT
            ![r].scanned = @ \cup {p},
            ![r].seen = @ \cup {b \in Blob : b[1] = p /\ final[b] # "none"}]
  /\ UNCHANGED <<allowed, capture, final, litter, rows, lost, captureFaults>>
  /\ UNCHANGED backupLock /\ NothingPublished

(* bindPrivateCaptureDatabaseLedger(): every row of the dump has its file. *)
SkipMissingMutant(r) == TRUE
Binds(r) == backup[r].dump \subseteq backup[r].seen

BindLedger(r) ==
  /\ backup[r].step = "scan" /\ backup[r].scanned = Publication
  /\ Binds(r)
  /\ backup' = [backup EXCEPT ![r].step = "stream", ![r].scanned = {}, ![r].seen = {},
                              ![r].bundle = backup[r].dump \cap backup[r].seen]
  /\ UNCHANGED backupLock /\ NothingPublished /\ StoreUnread

StreamBundle(r) ==
  /\ backup[r].step = "stream"
  /\ \A b \in backup[r].bundle : final[b] # "none"
  /\ Becomes(r, "rescan")
  /\ UNCHANGED backupLock /\ NothingPublished /\ StoreUnread

(* The second scan must find what the first has found.                     *)
RescanDirectory(r) ==
  /\ backup[r].step = "rescan"
  /\ \E p \in Publication \ backup[r].scanned :
       /\ Orderly(p) /\ p \notin touched
       /\ backup' = [backup EXCEPT
            ![r].scanned = @ \cup {p},
            ![r].step = IF backup[r].scanned \cup {p} = Publication THEN "upload" ELSE "rescan"]
  /\ UNCHANGED backupLock /\ NothingPublished /\ StoreUnread

(* One object after the other, the manifest last.                          *)
NextUpload(r) ==
  CHOOSE i \in 1..Len(Uploads) :
    /\ <<r, Uploads[i]>> \notin published
    /\ \A j \in 1..(i - 1) : <<r, Uploads[j]>> \in published

Upload(r) ==
  /\ backup[r].step = "upload"
  /\ LET object == Uploads[NextUpload(r)] IN
       /\ published' = published \cup {<<r, object>>}
       /\ Becomes(r, IF object = "manifest" THEN "evidence" ELSE "upload")
  /\ UNCHANGED <<backupLock, backupEvidence>> /\ StoreUnread

(* An upload that fails may have put its object.                           *)
UploadFails(r) ==
  /\ backup[r].step = "upload"
  /\ published' = published \cup {<<r, Uploads[NextUpload(r)]>>}
  /\ Finishes(r, <<r, "manifest">> \in published') /\ backupLock' = "free"
  /\ UNCHANGED backupEvidence /\ StoreUnread

RecordBackup(r) ==
  /\ backup[r].step = "evidence"
  /\ IF <<r, "checksums">> \notin backupEvidence
       THEN /\ backupEvidence' = backupEvidence \cup {<<r, "checksums">>}
            /\ UNCHANGED <<backup, backupLock>>
       ELSE /\ backupEvidence' = backupEvidence \cup {<<r, "manifest">>}
            /\ Finishes(r, TRUE) /\ backupLock' = "free"
  /\ UNCHANGED published /\ StoreUnread

FailBackup(r) ==
  /\ BackingUp(r)
  /\ Finishes(r, <<r, "manifest">> \in published) /\ backupLock' = "free"
  /\ NothingPublished /\ StoreUnread

KillBackup(r) ==
  /\ CaptureFault /\ BackingUp(r)
  /\ Finishes(r, <<r, "manifest">> \in published) /\ backupLock' = "stale"
  /\ NothingPublished
  /\ UNCHANGED <<allowed, capture, rows>> /\ StoreSame

(* The operator removes the lock of a process that is gone.                *)
ClearBackupLock ==
  /\ backupLock = "stale" /\ backupLock' = "free"
  /\ UNCHANGED backup /\ NothingPublished /\ StoreUnread

-----------------------------------------------------------------------------
(* Power is lost on the host that runs the writers and the backups.        *)
HostLosesPower ==
  /\ LosePower
  /\ backup' = [r \in BackupRun |->
       IF BackingUp(r) THEN Ended(backup[r], <<r, "manifest">> \in published) ELSE backup[r]]
  /\ backupLock' = IF backupLock = "held" THEN "stale" ELSE backupLock
  /\ NothingPublished

CaptureBackupNext ==
  \/ CaptureStepOrFault /\ UNCHANGED backupVars
  \/ HostLosesPower \/ ClearBackupLock
  \/ \E r \in BackupRun :
       \/ StartBackup(r) \/ OpenSnapshot(r) \/ RunDump(r) \/ ScanDirectory(r) \/ BindLedger(r)
       \/ StreamBundle(r) \/ RescanDirectory(r) \/ Upload(r) \/ UploadFails(r)
       \/ RecordBackup(r) \/ FailBackup(r) \/ KillBackup(r)

CaptureBackupSpec == CaptureBackupInit /\ [][CaptureBackupNext]_captureBackupVars

-----------------------------------------------------------------------------
(* A backup whose manifest is published, by a run that ended well or not,  *)
(* has its other objects beside it, its bundle holds exactly the files of  *)
(* the captures that its dump lists, and each of them was safe on disk:    *)
(* whatever the writers did while it was made.                             *)
PublishedBackupIsWhole ==
  \A r \in BackupRun : <<r, "manifest">> \in published =>
    /\ \A i \in 1..Len(Uploads) : <<r, Uploads[i]>> \in published
    /\ backup[r].bundle = backup[r].dump
    /\ \A b \in backup[r].bundle \ lost : final[b] = "durable"
=============================================================================
