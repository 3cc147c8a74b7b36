----------------------------- MODULE HostProofs -----------------------------
(* Theorems about CaptureStore with CaptureBackup, about RestoreDrill and  *)
(* about Deployment, for any writers, backups, drills, captures, attempts  *)
(* and any number of faults.                                               *)
(*                                                                         *)
(* The captures: a file that was safe once stays so unless it is removed   *)
(* by hand (FilesStaySafe), and a writer gets to the database only with a  *)
(* safe file (WritersHaveSafeFiles).  The backups: a dump lists rows that  *)
(* stay, a bundle is its dump from the binding of the ledger on, and the   *)
(* manifest is published last.  The drills: at most one transaction has    *)
(* written and is not over, and none once the target shows something       *)
(* (OneLoads).  The deployments: the records that make a verdict final     *)
(* (VerdictInv), and what runs at each step of an operation on a host      *)
(* without faults (RunningInv).                                            *)
EXTENDS CaptureBackup, RestoreDrill, Deployment, TLAPS

-----------------------------------------------------------------------------
(* A restore's transaction has written to the target and is not over.      *)
Writing(s) == tx[s] \in {"some", "all", "sent"}

(* The restores that have written and are not over: there is at most one,  *)
(* and as long as there is one, the target shows nothing.                  *)
OneLoads ==
  \A s \in RestoreRun : Writing(s) =>
    /\ target = Nothing
    /\ \A u \in RestoreRun : Writing(u) => u = s

(* The inductive invariant of the drills. *)
RestoreInv ==
  /\ tx \in [RestoreRun -> TxState]
  /\ OneLoads
  /\ RestoresAreWhole

(* Nothing is loaded at first. *)
LEMMA RestoreStarts == RestoreInit => RestoreInv
  BY DEF RestoreInit, RestoreInv, OneLoads, Writing, RestoresAreWhole, TxState

(* A step that no transaction takes part in. *)
LEMMA TxStays ==
  ASSUME RestoreInv, UNCHANGED <<tx, target, restoreEvidence>>
  PROVE  RestoreInv'
  BY DEF RestoreInv, OneLoads, Writing, RestoresAreWhole

(* A transaction that moves on without showing anything: it had written    *)
(* already, or does not write yet, or is over.                             *)
LEMMA TxAdvances ==
  ASSUME RestoreInv, NEW s \in RestoreRun, NEW state \in TxState,
         state \in {"some", "all", "sent"} =>
           Writing(s) \/ (target = Nothing /\ \A u \in RestoreRun : ~Writing(u)),
         Advances(s, state), UNCHANGED <<target, restoreEvidence>>
  PROVE  RestoreInv'
<1>1. /\ tx' \in [RestoreRun -> TxState]
      /\ \A u \in RestoreRun : tx'[u] = IF u = s THEN state ELSE tx[u]
  BY DEF RestoreInv, Advances
<1>2. \A u \in RestoreRun : Writing(u)' =>
        Writing(u) \/ (u = s /\ target = Nothing /\ \A v \in RestoreRun : ~Writing(v))
  BY <1>1 DEF Writing
<1>3. OneLoads'
  BY <1>2 DEF RestoreInv, OneLoads
<1> QED
  BY <1>1, <1>3 DEF RestoreInv, RestoresAreWhole

(* Every step of a drill keeps its invariant. *)
LEMMA RestoreKeeps ==
  RestoreInv /\ [RestoreNext]_restoreVars => RestoreInv'
<1> SUFFICES ASSUME RestoreInv, [RestoreNext]_restoreVars PROVE RestoreInv'
  OBVIOUS
<1>1. CASE UNCHANGED restoreVars \/ ClearRestoreLock
  BY <1>1, TxStays DEF restoreVars, ClearRestoreLock, NotLoading
<1>2. ASSUME NEW s \in RestoreRun,
             StartRestore(s) \/ ProbeTarget(s) \/ FetchBackup(s) \/ CommitAnswered(s)
               \/ FailRestore(s) \/ KillRestore(s)
      PROVE  RestoreInv'
  BY <1>2, TxStays DEF StartRestore, ProbeTarget, FetchBackup, CommitAnswered, FailRestore,
     KillRestore, NotLoading, NotRestored
<1>3. ASSUME NEW s \in RestoreRun, BeginLoad(s) PROVE RestoreInv'
  BY <1>3, TxAdvances, "begun" \in TxState DEF BeginLoad, NotRestored, TxState
<1>4. ASSUME NEW s \in RestoreRun, LoadSome(s) PROVE RestoreInv'
  <2> DEFINE state == IF tx[s] = "begun" THEN "some" ELSE "all"
  <2>1. /\ state \in TxState
        /\ Advances(s, state) /\ UNCHANGED <<target, restoreEvidence>>
    BY <1>4 DEF LoadSome, ShownWhileLoading, NotRestored, TxState
  <2>2. Writing(s) \/ (target = Nothing /\ \A u \in RestoreRun : ~Writing(u))
    BY <1>4 DEF LoadSome, Writing
  <2> HIDE DEF state
  <2> QED
    BY <2>1, <2>2, TxAdvances
<1>5. ASSUME NEW s \in RestoreRun, SendCommit(s) PROVE RestoreInv'
  <2>1. Writing(s) /\ Advances(s, "sent") /\ UNCHANGED <<target, restoreEvidence>>
    BY <1>5 DEF SendCommit, Writing, NotRestored
  <2> QED
    BY <2>1, TxAdvances, "sent" \in TxState DEF TxState
<1>6. ASSUME NEW s \in RestoreRun, CommitLoad(s) PROVE RestoreInv'
  <2>1. /\ target = Nothing /\ target' = <<restore[s].of, "whole">>
        /\ \A u \in RestoreRun \ {s} : ~Writing(u)
        /\ UNCHANGED restoreEvidence
    BY <1>6 DEF CommitLoad, RestoreInv, OneLoads, Writing, NotRestored
  <2>2. /\ tx' \in [RestoreRun -> TxState]
        /\ \A u \in RestoreRun : ~Writing(u)'
    BY <1>6, <2>1 DEF CommitLoad, Advances, RestoreInv, TxState, Writing
  <2>3. restoreEvidence = {}
    <3> SUFFICES ASSUME NEW e \in restoreEvidence PROVE FALSE
      OBVIOUS
    <3>1. target = <<e[2], "whole">>
      BY DEF RestoreInv, RestoresAreWhole
    <3> QED
      BY <2>1, <3>1 DEF Nothing
  <2> QED
    BY <2>1, <2>2, <2>3 DEF RestoreInv, OneLoads, RestoresAreWhole
<1>7. ASSUME NEW s \in RestoreRun, RollBack(s) PROVE RestoreInv'
  BY <1>7, TxAdvances, "none" \in TxState DEF RollBack, NotRestored, TxState
<1>8. ASSUME NEW s \in RestoreRun, RecordRestore(s) PROVE RestoreInv'
  <2>1. /\ UNCHANGED <<tx, target>>
        /\ target = <<restore[s].of, "whole">>
        /\ restoreEvidence' = restoreEvidence \cup {<<s, restore[s].of>>}
    BY <1>8 DEF RecordRestore, NotLoading
  <2>2. <<s, restore[s].of>>[2] = restore[s].of
    OBVIOUS
  <2>3. \A e \in restoreEvidence' : target = <<e[2], "whole">>
    BY <2>1, <2>2 DEF RestoreInv, RestoresAreWhole
  <2> QED
    BY <2>1, <2>3 DEF RestoreInv, OneLoads, Writing, RestoresAreWhole
<1> QED
  BY <1>1, <1>2, <1>3, <1>4, <1>5, <1>6, <1>7, <1>8 DEF RestoreNext

(* For any backups and any number of drills: the restored database shows nothing
   or one whole backup, and all evidence names that one, whatever transaction of
   a killed drill lingers or commits unheard. *)
THEOREM DrillsRestoreWhole == RestoreSpec => []RestoresAreWhole
<1>1. RestoreInv => RestoresAreWhole
  BY DEF RestoreInv
<1> QED
  BY RestoreStarts, RestoreKeeps, <1>1, PTL DEF RestoreSpec

-----------------------------------------------------------------------------
Held == [step : {"idle"}] \cup [step : CaptureStep \ {"idle"}, blob : Blob]

CaptureTypes ==
  /\ capture \in [CaptureWriter -> Held]
  /\ final \in [Blob -> FileState]
  /\ rows \subseteq Blob

(* A file that a power loss leaves alone, or that was removed by hand.     *)
Safe(b) == final[b] = "durable" \/ b \in lost

(* A writer about to record its capture has a safe file. *)
WritersHaveSafeFiles ==
  \A w \in CaptureWriter : capture[w].step = "record" => Safe(capture[w].blob)

CaptureInv == CaptureTypes /\ WritersHaveSafeFiles /\ RecordedCapturesSurvive

(* What every step does to the files and the rows.                         *)
FilesStaySafe == \A b \in Blob : Safe(b) => Safe(b)'
RowsAreOfWriters ==
  \A b \in rows' \ rows :
    \E w \in CaptureWriter : capture[w].step = "record" /\ b = capture[w].blob
WritersFindSafeFiles ==
  \A w \in CaptureWriter : capture'[w].step = "record" =>
    \/ capture[w].step = "record" /\ capture'[w].blob = capture[w].blob
    \/ Safe(capture[w].blob)'

(* A writer that is not idle holds a capture. *)
LEMMA BlobOf ==
  ASSUME CaptureTypes, NEW w \in CaptureWriter, capture[w].step # "idle"
  PROVE  capture[w].blob \in Blob
  BY DEF CaptureTypes, Held

(* What every step does to the files and the rows is enough for the invariant. *)
LEMMA CaptureReassembles ==
  ASSUME CaptureInv, CaptureTypes', FilesStaySafe, RowsAreOfWriters, WritersFindSafeFiles
  PROVE  CaptureInv'
<1>1. WritersHaveSafeFiles'
  <2> SUFFICES ASSUME NEW w \in CaptureWriter, capture'[w].step = "record"
               PROVE  Safe(capture[w].blob)'
    BY DEF WritersHaveSafeFiles
  <2>1. CASE capture[w].step = "record" /\ capture'[w].blob = capture[w].blob
    BY <2>1, BlobOf DEF CaptureInv, WritersHaveSafeFiles, FilesStaySafe
  <2> QED
    BY <2>1 DEF WritersFindSafeFiles
<1>2. RecordedCapturesSurvive'
  <2> SUFFICES ASSUME NEW b \in rows' PROVE Safe(b)'
    BY DEF RecordedCapturesSurvive, Safe
  <2>1. Safe(b)
    BY DEF RowsAreOfWriters, CaptureInv, WritersHaveSafeFiles, RecordedCapturesSurvive, Safe
  <2>2. b \in Blob
    BY DEF CaptureTypes
  <2> QED
    BY <2>1, <2>2 DEF FilesStaySafe
<1> QED
  BY <1>1, <1>2 DEF CaptureInv

(* A writer that goes on, or gives its capture up.                         *)
LEMMA WriterMoves ==
  ASSUME CaptureTypes, NEW w \in CaptureWriter
  PROVE  /\ \A step \in CaptureStep \ {"idle"} : capture[w].step # "idle" /\ Goes(w, step) =>
              /\ capture' \in [CaptureWriter -> Held]
              /\ \A v \in CaptureWriter \ {w} : capture'[v] = capture[v]
              /\ capture'[w].step = step /\ capture'[w].blob = capture[w].blob
         /\ Gives(w) =>
              /\ capture' \in [CaptureWriter -> Held]
              /\ \A v \in CaptureWriter \ {w} : capture'[v] = capture[v]
              /\ capture'[w].step = "idle"
<1>1. ASSUME NEW step \in CaptureStep \ {"idle"}, capture[w].step # "idle", Goes(w, step)
      PROVE  /\ capture' \in [CaptureWriter -> Held]
             /\ \A v \in CaptureWriter \ {w} : capture'[v] = capture[v]
             /\ capture'[w].step = step /\ capture'[w].blob = capture[w].blob
  <2>1. capture[w] \in [step : CaptureStep \ {"idle"}, blob : Blob]
    BY <1>1 DEF CaptureTypes, Held
  <2>2. [capture[w] EXCEPT !.step = step] \in [step : CaptureStep \ {"idle"}, blob : Blob]
    BY <2>1
  <2>3. capture' = [capture EXCEPT ![w] = [capture[w] EXCEPT !.step = step]]
    BY <1>1 DEF Goes
  <2> QED
    BY <2>1, <2>2, <2>3 DEF CaptureTypes, Held
<1>2. NoCapture \in Held
  BY DEF NoCapture, Held
<1>3. Gives(w) =>
        /\ capture' \in [CaptureWriter -> Held]
        /\ \A v \in CaptureWriter \ {w} : capture'[v] = capture[v]
        /\ capture'[w].step = "idle"
  BY <1>2 DEF CaptureTypes, Gives, NoCapture
<1> QED
  BY <1>1, <1>3

(* A file that a writer makes or confirms.                                 *)
LEMMA FileIsSet ==
  ASSUME CaptureTypes, NEW b \in Blob, NEW state \in FileState, SetFinal(b, state),
         final[b] = "durable" => state = "durable", UNCHANGED lost
  PROVE  /\ final' \in [Blob -> FileState] /\ FilesStaySafe
         /\ final'[b] = state
  BY DEF CaptureTypes, SetFinal, FilesStaySafe, Safe

(* putIfAbsent, record_official_offer_capture_v1 and the faults but a loss of
   power. *)
LEMMA CaptureStepKeeps ==
  ASSUME CaptureInv, CaptureStepOrFault
  PROVE  CaptureInv'
<1> USE DEF CaptureInv
<1>1. CASE WithdrawPermission
  BY <1>1 DEF WithdrawPermission, StoreSame, CaptureTypes, WritersHaveSafeFiles,
     RecordedCapturesSurvive, Safe
<1>2. CASE LoseFile
  <2>1. PICK b \in Blob : SetFinal(b, "none") /\ lost' = lost \cup {b}
    BY <1>2 DEF LoseFile
  <2>2. UNCHANGED <<capture, rows>>
    BY <1>2 DEF LoseFile
  <2>3. CaptureTypes'
    BY <2>1, <2>2 DEF CaptureTypes, SetFinal, FileState
  <2>4. FilesStaySafe
    BY <2>1 DEF FilesStaySafe, Safe, SetFinal, CaptureTypes
  <2> QED
    BY <2>2, <2>3, <2>4, CaptureReassembles DEF RowsAreOfWriters, WritersFindSafeFiles
<1>3. ASSUME NEW w \in CaptureWriter, StartCapture(w) PROVE CaptureInv'
  <2>1. PICK b \in Blob : capture' = [capture EXCEPT ![w] = [step |-> "edition", blob |-> b]]
    BY <1>3 DEF StartCapture
  <2>2. [step |-> "edition", blob |-> b] \in Held
    BY DEF Held, CaptureStep
  <2>3. UNCHANGED <<final, lost, rows>>
    BY <1>3 DEF StartCapture, StoreSame
  <2>4. CaptureTypes' /\ WritersFindSafeFiles
    BY <2>1, <2>2, <2>3 DEF CaptureTypes, WritersFindSafeFiles
  <2> QED
    BY <2>3, <2>4, CaptureReassembles DEF FilesStaySafe, Safe, RowsAreOfWriters
<1>4. ASSUME NEW w \in CaptureWriter,
             \/ RecordEdition(w) \/ WriteTemporary(w) \/ UnlinkTemporary(w)
             \/ RefuseExisting(w) \/ AbandonCapture(w) \/ KillWriter(w)
      PROVE  CaptureInv'
  <2>1. UNCHANGED <<final, lost, rows>>
    BY <1>4 DEF RecordEdition, WriteTemporary, UnlinkTemporary, RefuseExisting,
       AbandonCapture, KillWriter, StoreSame
  <2>2. \/ capture[w].step # "idle" /\ \E step \in {"look", "link", "sync"} : Goes(w, step)
        \/ Gives(w)
    BY <1>4 DEF RecordEdition, WriteTemporary, UnlinkTemporary, RefuseExisting,
       AbandonCapture, KillWriter
  <2>3. CaptureTypes' /\ WritersFindSafeFiles
    BY <2>1, <2>2, WriterMoves DEF CaptureTypes, WritersFindSafeFiles, CaptureStep
  <2> QED
    BY <2>1, <2>3, CaptureReassembles DEF FilesStaySafe, Safe, RowsAreOfWriters
<1>5. ASSUME NEW w \in CaptureWriter, UseExisting(w) PROVE CaptureInv'
  <2>1. /\ capture[w].step # "idle" /\ Goes(w, "record")
        /\ SetFinal(capture[w].blob, "durable")
        /\ UNCHANGED <<lost, rows>>
    BY <1>5 DEF UseExisting, Verified
  <2>2. capture[w].blob \in Blob
    BY <2>1, BlobOf
  <2>3. final' \in [Blob -> FileState] /\ FilesStaySafe /\ final'[capture[w].blob] = "durable"
    BY <2>1, <2>2, FileIsSet, "durable" \in FileState DEF FileState
  <2>4. CaptureTypes' /\ WritersFindSafeFiles
    BY <2>1, <2>3, WriterMoves DEF CaptureTypes, WritersFindSafeFiles, CaptureStep, Safe
  <2> QED
    BY <2>1, <2>3, <2>4, CaptureReassembles DEF RowsAreOfWriters
<1>6. ASSUME NEW w \in CaptureWriter, LinkFinal(w) PROVE CaptureInv'
  <2>1. /\ capture[w].step # "idle" /\ \E step \in {"unlink", "compete"} : Goes(w, step)
        /\ UNCHANGED <<lost, rows>>
        /\ \/ final[capture[w].blob] = "none" /\ SetFinal(capture[w].blob, "linked")
           \/ UNCHANGED final
    BY <1>6 DEF LinkFinal
  <2>2. capture[w].blob \in Blob
    BY <2>1, BlobOf
  <2>3. final' \in [Blob -> FileState] /\ FilesStaySafe
    BY <2>1, <2>2, FileIsSet, "linked" \in FileState
       DEF FileState, CaptureTypes, FilesStaySafe, Safe
  <2>4. CaptureTypes' /\ WritersFindSafeFiles
    BY <2>1, <2>3, WriterMoves DEF CaptureTypes, WritersFindSafeFiles, CaptureStep
  <2> QED
    BY <2>1, <2>3, <2>4, CaptureReassembles DEF RowsAreOfWriters
<1>7. ASSUME NEW w \in CaptureWriter, SyncHierarchy(w) PROVE CaptureInv'
  <2> DEFINE state == IF final[capture[w].blob] = "none" THEN "none" ELSE "durable"
  <2>1. /\ capture[w].step # "idle" /\ Goes(w, "check")
        /\ SetFinal(capture[w].blob, state)
        /\ UNCHANGED <<lost, rows>>
    BY <1>7 DEF SyncHierarchy
  <2>2. capture[w].blob \in Blob
    BY <2>1, BlobOf
  <2>3. state \in FileState /\ (final[capture[w].blob] = "durable" => state = "durable")
    BY DEF FileState
  <2> HIDE DEF state
  <2>4. final' \in [Blob -> FileState] /\ FilesStaySafe
    BY <2>1, <2>2, <2>3, FileIsSet
  <2>5. CaptureTypes' /\ WritersFindSafeFiles
    BY <2>1, <2>4, WriterMoves DEF CaptureTypes, WritersFindSafeFiles, CaptureStep
  <2> QED
    BY <2>1, <2>4, <2>5, CaptureReassembles DEF RowsAreOfWriters
<1>8. ASSUME NEW w \in CaptureWriter, RecordCapture(w) PROVE CaptureInv'
  <2>1. /\ capture[w].step = "record" /\ Gives(w)
        /\ rows' = rows \cup {capture[w].blob}
        /\ UNCHANGED <<final, lost>>
    BY <1>8 DEF RecordCapture, StoreSame
  <2>2. capture[w].blob \in Blob
    BY <2>1, BlobOf
  <2>3. CaptureTypes' /\ WritersFindSafeFiles
    BY <2>1, <2>2, WriterMoves DEF CaptureTypes, WritersFindSafeFiles
  <2> QED
    BY <2>1, <2>3, CaptureReassembles DEF FilesStaySafe, Safe, RowsAreOfWriters
<1> QED
  BY <1>1, <1>2, <1>3, <1>4, <1>5, <1>6, <1>7, <1>8 DEF CaptureStepOrFault

(* A loss of power takes what no sync has confirmed. *)
LEMMA PowerLossKeeps ==
  ASSUME CaptureInv, LosePower
  PROVE  CaptureInv'
<1>1. PICK gone \in SUBSET {b \in Blob : final[b] = "linked"} :
        final' = [b \in Blob |->
          IF b \in gone THEN "none" ELSE IF final[b] = "none" THEN "none" ELSE "durable"]
  BY DEF LosePower
<1>2. /\ capture' = [w \in CaptureWriter |-> NoCapture]
      /\ UNCHANGED <<lost, rows>>
  BY DEF LosePower
<1>3. CaptureTypes' /\ WritersFindSafeFiles
  BY <1>1, <1>2 DEF CaptureInv, CaptureTypes, FileState, Held, NoCapture, WritersFindSafeFiles
<1>4. FilesStaySafe
  BY <1>1, <1>2 DEF FilesStaySafe, Safe
<1> QED
  BY <1>2, <1>3, <1>4, CaptureReassembles DEF RowsAreOfWriters

(* What a backup does leaves the store as it is, but for what it notes of  *)
(* the directories.                                                        *)
LEMMA StoreIsKept ==
  ASSUME CaptureInv, UNCHANGED <<capture, final, lost, rows>>
  PROVE  CaptureInv'
  BY DEF CaptureInv, CaptureTypes, WritersHaveSafeFiles, RecordedCapturesSurvive, Safe

-----------------------------------------------------------------------------
BackupRecord ==
  [step : BackupStep, dump : SUBSET Blob, bundle : SUBSET Blob, seen : SUBSET Blob,
   scanned : SUBSET Publication]

BackupTypes == backup \in [BackupRun -> BackupRecord]

(* The objects of a run whose manifest is published.                       *)
AllPublished(r) == \A i \in 1..Len(Uploads) : <<r, Uploads[i]>> \in published

(* What a dump lists stays in the database; a bundle is what its dump lists;
   the manifest is published when everything else is. *)
DumpsAreOfRows == \A r \in BackupRun : backup[r].dump \subseteq rows
BundlesAreDumps ==
  \A r \in BackupRun :
    backup[r].step \in {"stream", "rescan", "upload", "evidence"}
      => backup[r].bundle = backup[r].dump
ManifestIsLast ==
  \A r \in BackupRun : <<r, "manifest">> \in published =>
    /\ backup[r].step \in {"evidence", "ended"}
    /\ backup[r].bundle = backup[r].dump
    /\ AllPublished(r)

BackupInv == BackupTypes /\ DumpsAreOfRows /\ BundlesAreDumps /\ ManifestIsLast

(* There is a next object as long as the manifest is not published, and    *)
(* what precedes it is.                                                    *)
LEMMA NextUploadIs ==
  ASSUME NEW r \in BackupRun, <<r, "manifest">> \notin published
  PROVE  /\ NextUpload(r) \in 1..4
         /\ <<r, Uploads[NextUpload(r)]>> \notin published
         /\ \A j \in 1..(NextUpload(r) - 1) : <<r, Uploads[j]>> \in published
<1> DEFINE First(i) ==
      /\ <<r, Uploads[i]>> \notin published
      /\ \A j \in 1..(i - 1) : <<r, Uploads[j]>> \in published
<1>1. /\ Len(Uploads) = 4 /\ Uploads[4] = "manifest"
  BY DEF Uploads
<1>2. \E i \in 1..4 : First(i)
  <2>1. CASE <<r, Uploads[1]>> \notin published
    <3>1. First(1)
      BY <2>1
    <3> QED
      BY <3>1
  <2>2. CASE <<r, Uploads[1]>> \in published /\ <<r, Uploads[2]>> \notin published
    <3>1. First(2)
      BY <2>2
    <3> QED
      BY <3>1
  <2>3. CASE /\ <<r, Uploads[1]>> \in published /\ <<r, Uploads[2]>> \in published
             /\ <<r, Uploads[3]>> \notin published
    <3>1. First(3)
      BY <2>3
    <3> QED
      BY <3>1
  <2>4. CASE /\ <<r, Uploads[1]>> \in published /\ <<r, Uploads[2]>> \in published
             /\ <<r, Uploads[3]>> \in published
    <3>1. First(4)
      BY <2>4, <1>1
    <3> QED
      BY <3>1
  <2> QED
    BY <2>1, <2>2, <2>3, <2>4
<1>3. NextUpload(r) = CHOOSE i \in 1..4 : First(i)
  BY <1>1 DEF NextUpload
<1> HIDE DEF First
<1>4. NextUpload(r) \in 1..4 /\ First(NextUpload(r))
  BY <1>2, <1>3
<1> QED
  BY <1>4 DEF First

(* What the end of a run leaves of it.                                     *)
LEMMA EndedRuns ==
  ASSUME NEW b \in BackupRecord, NEW named \in BOOLEAN
  PROVE  /\ Ended(b, named) \in BackupRecord
         /\ Ended(b, named).step = "ended"
         /\ Ended(b, named).dump \subseteq b.dump
         /\ named => Ended(b, named).dump = b.dump /\ Ended(b, named).bundle = b.bundle
<1>1. NewBackup \in BackupRecord
  BY DEF NewBackup, BackupRecord, BackupStep
<1>2. /\ [b EXCEPT !.step = "ended"] \in BackupRecord
      /\ [NewBackup EXCEPT !.step = "ended"] \in BackupRecord
  BY <1>1 DEF BackupRecord, BackupStep
<1>3. [NewBackup EXCEPT !.step = "ended"].dump = {}
  BY DEF NewBackup
<1>4. CASE named
  BY <1>2, <1>4 DEF Ended, BackupRecord
<1>5. CASE ~named
  BY <1>2, <1>3, <1>5 DEF Ended, BackupRecord, NewBackup
<1> QED
  BY <1>4, <1>5

(* A run of its own goes on to the record k.                               *)
RunFits(r, k) ==
  /\ k \in BackupRecord
  /\ k.dump \subseteq rows
  /\ k.step \in {"stream", "rescan", "upload", "evidence"} => k.bundle = k.dump
  /\ <<r, "manifest">> \in published' =>
       /\ k.step \in {"evidence", "ended"}
       /\ k.bundle = k.dump
       /\ AllPublished(r)'

(* One run goes on, and the manifest of no other is published. *)
LEMMA RunGoesOn ==
  ASSUME BackupInv, NEW r \in BackupRun, NEW k, RunFits(r, k),
         backup' = [backup EXCEPT ![r] = k],
         published \subseteq published', UNCHANGED rows,
         \A q \in BackupRun \ {r} : <<q, "manifest">> \in published' => <<q, "manifest">> \in published
  PROVE  BackupInv'
<1>1. /\ BackupTypes'
      /\ \A q \in BackupRun : backup'[q] = IF q = r THEN k ELSE backup[q]
  BY DEF BackupInv, BackupTypes, RunFits
<1>2. DumpsAreOfRows' /\ BundlesAreDumps'
  BY <1>1 DEF BackupInv, DumpsAreOfRows, BundlesAreDumps, RunFits
<1>3. ManifestIsLast'
  BY <1>1 DEF BackupInv, ManifestIsLast, RunFits, AllPublished
<1> QED
  BY <1>1, <1>2, <1>3 DEF BackupInv

(* Nothing that a run is judged by changes, but there may be more rows.    *)
LEMMA RunsStay ==
  ASSUME BackupInv, UNCHANGED <<backup, published>>, rows \subseteq rows'
  PROVE  BackupInv'
  BY DEF BackupInv, BackupTypes, DumpsAreOfRows, BundlesAreDumps, ManifestIsLast, AllPublished

(* A run ends well or not: what a published manifest names stays as it was. *)
LEMMA RunFinishes ==
  ASSUME BackupInv, NEW r \in BackupRun,
         Finishes(r, <<r, "manifest">> \in published'),
         <<r, "manifest">> \in published' => backup[r].bundle = backup[r].dump /\ AllPublished(r)',
         published \subseteq published', UNCHANGED rows,
         \A q \in BackupRun \ {r} : <<q, "manifest">> \in published' => <<q, "manifest">> \in published
  PROVE  BackupInv'
<1> DEFINE named == <<r, "manifest">> \in published'
           k == Ended(backup[r], named)
<1>1. backup[r] \in BackupRecord /\ named \in BOOLEAN /\ backup[r].dump \subseteq rows
  BY DEF BackupInv, BackupTypes, DumpsAreOfRows
<1>2. backup' = [backup EXCEPT ![r] = k]
  BY DEF Finishes
<1>3. /\ k \in BackupRecord /\ k.step = "ended" /\ k.dump \subseteq backup[r].dump
      /\ named => k.dump = backup[r].dump /\ k.bundle = backup[r].bundle
  BY <1>1, EndedRuns
<1> HIDE DEF k
<1>4. RunFits(r, k)
  BY <1>1, <1>3 DEF RunFits
<1> QED
  BY <1>2, <1>4, RunGoesOn

(* A run that only takes its next step.                                    *)
LEMMA RunTakesStep ==
  ASSUME BackupInv, NEW r \in BackupRun, NEW step \in BackupStep,
         Becomes(r, step), UNCHANGED <<published, rows>>,
         backup[r].step \notin {"evidence", "ended"},
         step \in {"stream", "rescan", "upload", "evidence"} =>
           backup[r].step \in {"stream", "rescan", "upload", "evidence"}
  PROVE  BackupInv'
<1> DEFINE k == [backup[r] EXCEPT !.step = step]
<1>1. backup[r] \in BackupRecord
  BY DEF BackupInv, BackupTypes
<1>2. /\ k \in BackupRecord /\ k.step = step
      /\ k.dump = backup[r].dump /\ k.bundle = backup[r].bundle
  BY <1>1 DEF BackupRecord
<1>3. backup' = [backup EXCEPT ![r] = k]
  BY DEF Becomes
<1> HIDE DEF k
<1>4. RunFits(r, k)
  BY <1>2 DEF RunFits, BackupInv, DumpsAreOfRows, BundlesAreDumps, ManifestIsLast
<1> QED
  BY <1>3, <1>4, RunGoesOn

(* publication_captures is append-only. *)
LEMMA CaptureStepGrowsRows == CaptureStepOrFault \/ LosePower => rows \subseteq rows'
  BY DEF CaptureStepOrFault, LosePower, WithdrawPermission, LoseFile, StartCapture, RecordEdition,
     UseExisting, RefuseExisting, WriteTemporary, LinkFinal, UnlinkTemporary, SyncHierarchy,
     AbandonCapture, RecordCapture, KillWriter

(* Every step of createBackup. *)
LEMMA OneRunKeeps ==
  ASSUME CaptureInv, BackupInv, NEW r \in BackupRun,
         \/ StartBackup(r) \/ OpenSnapshot(r) \/ RunDump(r) \/ ScanDirectory(r) \/ BindLedger(r)
         \/ StreamBundle(r) \/ RescanDirectory(r) \/ Upload(r) \/ UploadFails(r)
         \/ RecordBackup(r) \/ FailBackup(r) \/ KillBackup(r)
  PROVE  CaptureInv' /\ BackupInv'
<1>1. UNCHANGED <<capture, final, lost, rows>>
  BY DEF StartBackup, OpenSnapshot, RunDump, ScanDirectory, BindLedger, StreamBundle,
     RescanDirectory, Upload, UploadFails, RecordBackup, FailBackup, KillBackup,
     StoreUnread, StoreSame, captureVars
<1>2. CaptureInv'
  BY <1>1, StoreIsKept
<1>3. backup[r] \in BackupRecord
  BY DEF BackupInv, BackupTypes
<1>4. /\ backup[r].dump \subseteq rows
      /\ <<r, "manifest">> \in published =>
           backup[r].step \in {"evidence", "ended"} /\ backup[r].bundle = backup[r].dump
           /\ AllPublished(r)
  BY DEF BackupInv, DumpsAreOfRows, ManifestIsLast
<1>5. ASSUME BackingUp(r), Finishes(r, <<r, "manifest">> \in published), NothingPublished
      PROVE  BackupInv'
  BY <1>1, <1>4, <1>5, RunFinishes DEF NothingPublished, AllPublished
<1>6. CASE FailBackup(r) \/ KillBackup(r)
  BY <1>2, <1>5, <1>6 DEF FailBackup, KillBackup
<1>7. CASE StartBackup(r)
  <2>1. backup[r].step = "new" /\ UNCHANGED published
    BY <1>7 DEF StartBackup, NothingPublished
  <2>2. CASE Becomes(r, "locked")
    BY <1>1, <1>2, <2>1, <2>2, RunTakesStep, "locked" \in BackupStep DEF BackupStep
  <2>3. CASE Finishes(r, FALSE)
    <3>1. <<r, "manifest">> \notin published'
      BY <1>4, <2>1
    <3>2. Finishes(r, <<r, "manifest">> \in published')
      BY <2>3, <3>1 DEF Finishes, Ended
    <3> QED
      BY <1>1, <1>2, <2>1, <3>1, <3>2, RunFinishes
  <2> QED
    BY <1>7, <2>2, <2>3 DEF StartBackup
<1>8. CASE OpenSnapshot(r)
  <2> DEFINE k == [backup[r] EXCEPT !.step = "dump", !.dump = rows]
  <2>1. backup' = [backup EXCEPT ![r] = k] /\ UNCHANGED published /\ backup[r].step = "locked"
    BY <1>8 DEF OpenSnapshot, NothingPublished
  <2>2. k \in BackupRecord /\ k.step = "dump" /\ k.dump = rows
    BY <1>3 DEF BackupRecord, BackupStep, CaptureInv, CaptureTypes
  <2> HIDE DEF k
  <2>3. RunFits(r, k)
    BY <1>4, <2>1, <2>2 DEF RunFits
  <2> QED
    BY <1>1, <1>2, <2>1, <2>3, RunGoesOn
<1>9. CASE RunDump(r) \/ StreamBundle(r)
  <2>1. /\ \/ backup[r].step = "dump" /\ Becomes(r, "scan")
           \/ backup[r].step = "stream" /\ Becomes(r, "rescan")
        /\ UNCHANGED published
    BY <1>9 DEF RunDump, StreamBundle, NothingPublished
  <2>2. "scan" \in BackupStep /\ "rescan" \in BackupStep
    BY DEF BackupStep
  <2> QED
    BY <1>1, <1>2, <2>1, <2>2, RunTakesStep
<1>10. CASE ScanDirectory(r)
  <2>1. PICK p \in Publication :
          backup' = [backup EXCEPT
            ![r].scanned = @ \cup {p},
            ![r].seen = @ \cup {b \in Blob : b[1] = p /\ final[b] # "none"}]
    BY <1>10 DEF ScanDirectory
  <2> DEFINE k == [backup[r] EXCEPT !.scanned = @ \cup {p},
                     !.seen = @ \cup {b \in Blob : b[1] = p /\ final[b] # "none"}]
  <2>2. backup' = [backup EXCEPT ![r] = k] /\ UNCHANGED published /\ backup[r].step = "scan"
    BY <1>10, <2>1 DEF ScanDirectory, NothingPublished
  <2>3. k \in BackupRecord /\ k.step = "scan" /\ k.dump = backup[r].dump
    BY <1>3, <2>2 DEF BackupRecord
  <2> HIDE DEF k
  <2>4. RunFits(r, k)
    BY <1>1, <1>4, <2>2, <2>3 DEF RunFits
  <2> QED
    BY <1>1, <1>2, <2>2, <2>4, RunGoesOn
<1>11. CASE BindLedger(r)
  <2> DEFINE k == [backup[r] EXCEPT !.step = "stream", !.scanned = {}, !.seen = {},
                     !.bundle = backup[r].dump \cap backup[r].seen]
  <2>1. backup' = [backup EXCEPT ![r] = k] /\ UNCHANGED published /\ backup[r].step = "scan"
    BY <1>11 DEF BindLedger, NothingPublished
  <2>2. /\ k \in BackupRecord /\ k.step = "stream" /\ k.dump = backup[r].dump
        /\ k.bundle = backup[r].dump \cap backup[r].seen
    BY <1>3 DEF BackupRecord, BackupStep
  <2>3. backup[r].dump \subseteq backup[r].seen
    BY <1>11 DEF BindLedger, Binds
  <2> HIDE DEF k
  <2>4. RunFits(r, k)
    BY <1>4, <2>1, <2>2, <2>3 DEF RunFits
  <2> QED
    BY <1>1, <1>2, <2>1, <2>4, RunGoesOn
<1>12. CASE RescanDirectory(r)
  <2>1. PICK p \in Publication, step \in {"upload", "rescan"} :
          backup' = [backup EXCEPT ![r].scanned = @ \cup {p}, ![r].step = step]
    BY <1>12 DEF RescanDirectory
  <2> DEFINE k == [backup[r] EXCEPT !.scanned = @ \cup {p}, !.step = step]
  <2>2. backup' = [backup EXCEPT ![r] = k] /\ UNCHANGED published /\ backup[r].step = "rescan"
    BY <1>12, <2>1 DEF RescanDirectory, NothingPublished
  <2>3. /\ k \in BackupRecord /\ k.step = step
        /\ k.dump = backup[r].dump /\ k.bundle = backup[r].bundle
    BY <1>3, <2>2 DEF BackupRecord, BackupStep
  <2> HIDE DEF k
  <2>4. RunFits(r, k)
    BY <1>1, <1>4, <2>2, <2>3 DEF RunFits, BackupInv, BundlesAreDumps
  <2> QED
    BY <1>1, <1>2, <2>2, <2>4, RunGoesOn
<1>13. CASE Upload(r) \/ UploadFails(r)
  <2> DEFINE i == NextUpload(r)
  <2>1. backup[r].step = "upload" /\ published' = published \cup {<<r, Uploads[i]>>}
    BY <1>13 DEF Upload, UploadFails
  <2>2. /\ i \in 1..4
        /\ <<r, Uploads[i]>> \notin published
        /\ \A j \in 1..(i - 1) : <<r, Uploads[j]>> \in published
    BY <1>4, <2>1, NextUploadIs
  <2>3. backup[r].bundle = backup[r].dump
    BY <2>1 DEF BackupInv, BundlesAreDumps
  <2> HIDE DEF i
  <2>4. (<<r, "manifest">> \in published') = (Uploads[i] = "manifest")
    BY <1>4, <2>1
  <2>5. Uploads[i] = "manifest" => AllPublished(r)'
    <3>1. /\ Len(Uploads) = 4 /\ Uploads[1] = "dump" /\ Uploads[2] = "captures"
          /\ Uploads[3] = "checksums" /\ Uploads[4] = "manifest"
      BY DEF Uploads
    <3>2. Uploads[i] = "manifest" => i = 4
      BY <2>2, <3>1
    <3>3. i = 4 => \A j \in 1..4 : <<r, Uploads[j]>> \in published'
      BY <2>1, <2>2
    <3> QED
      BY <3>1, <3>2, <3>3 DEF AllPublished
  <2>6. /\ published \subseteq published'
        /\ \A q \in BackupRun \ {r} :
             <<q, "manifest">> \in published' => <<q, "manifest">> \in published
    BY <2>1
  <2>7. CASE UploadFails(r)
    <3>1. Finishes(r, <<r, "manifest">> \in published')
      BY <2>7 DEF UploadFails
    <3> QED
      BY <1>1, <1>2, <2>3, <2>4, <2>5, <2>6, <3>1, RunFinishes
  <2>8. CASE Upload(r)
    <3> DEFINE step == IF Uploads[i] = "manifest" THEN "evidence" ELSE "upload"
               k == [backup[r] EXCEPT !.step = step]
    <3>1. backup' = [backup EXCEPT ![r] = k]
      BY <2>8 DEF Upload, Becomes, i
    <3>2. /\ k \in BackupRecord /\ k.step = step
          /\ k.dump = backup[r].dump /\ k.bundle = backup[r].bundle
      BY <1>3 DEF BackupRecord, BackupStep
    <3> HIDE DEF k
    <3>3. RunFits(r, k)
      BY <1>1, <1>4, <2>3, <2>4, <2>5, <3>2 DEF RunFits
    <3> QED
      BY <1>1, <1>2, <2>6, <3>1, <3>3, RunGoesOn
  <2> QED
    BY <1>13, <2>7, <2>8
<1>14. CASE RecordBackup(r)
  <2>1. CASE UNCHANGED <<backup, published>>
    BY <1>1, <1>2, <2>1, RunsStay
  <2>2. CASE Finishes(r, TRUE) /\ UNCHANGED published /\ backup[r].step = "evidence"
    <3> DEFINE k == Ended(backup[r], TRUE)
    <3>1. /\ k \in BackupRecord /\ k.step = "ended"
          /\ k.dump = backup[r].dump /\ k.bundle = backup[r].bundle
      BY <1>3, EndedRuns
    <3>2. backup' = [backup EXCEPT ![r] = k]
      BY <2>2 DEF Finishes
    <3> HIDE DEF k
    <3>3. RunFits(r, k)
      BY <1>4, <2>2, <3>1 DEF RunFits, AllPublished
    <3> QED
      BY <1>1, <1>2, <2>2, <3>2, <3>3, RunGoesOn
  <2> QED
    BY <1>14, <2>1, <2>2 DEF RecordBackup
<1> QED
  BY <1>6, <1>7, <1>8, <1>9, <1>10, <1>11, <1>12, <1>13, <1>14

(* A loss of power ends the runs under way. *)
LEMMA HostKeeps ==
  ASSUME CaptureInv, BackupInv, HostLosesPower
  PROVE  CaptureInv' /\ BackupInv'
<1>1. CaptureInv' /\ UNCHANGED <<rows, published>>
  BY PowerLossKeeps DEF HostLosesPower, LosePower, NothingPublished
<1>2. \A r \in BackupRun :
        /\ backup'[r] \in BackupRecord
        /\ backup'[r].dump \subseteq backup[r].dump
        /\ \/ backup'[r] = backup[r]
           \/ backup'[r].step = "ended"
              /\ (<<r, "manifest">> \in published =>
                    backup'[r].dump = backup[r].dump /\ backup'[r].bundle = backup[r].bundle)
  <2> SUFFICES ASSUME NEW r \in BackupRun
               PROVE  /\ backup'[r] \in BackupRecord
                      /\ backup'[r].dump \subseteq backup[r].dump
                      /\ \/ backup'[r] = backup[r]
                         \/ backup'[r].step = "ended"
                            /\ (<<r, "manifest">> \in published =>
                                  /\ backup'[r].dump = backup[r].dump
                                  /\ backup'[r].bundle = backup[r].bundle)
    OBVIOUS
  <2> DEFINE named == <<r, "manifest">> \in published
             k == Ended(backup[r], named)
  <2>1. backup[r] \in BackupRecord /\ named \in BOOLEAN
    BY DEF BackupInv, BackupTypes
  <2>2. /\ k \in BackupRecord /\ k.step = "ended" /\ k.dump \subseteq backup[r].dump
        /\ named => k.dump = backup[r].dump /\ k.bundle = backup[r].bundle
    BY <2>1, EndedRuns
  <2>3. backup'[r] = IF BackingUp(r) THEN k ELSE backup[r]
    BY DEF HostLosesPower
  <2> HIDE DEF k
  <2> QED
    BY <2>1, <2>2, <2>3
<1>3. BackupTypes'
  BY <1>2 DEF BackupTypes, HostLosesPower
<1>4. DumpsAreOfRows' /\ BundlesAreDumps'
  BY <1>1, <1>2 DEF BackupInv, DumpsAreOfRows, BundlesAreDumps
<1>5. ManifestIsLast'
  BY <1>1, <1>2 DEF BackupInv, ManifestIsLast, AllPublished
<1> QED
  BY <1>1, <1>3, <1>4, <1>5 DEF BackupInv

CaptureBackupInv == CaptureInv /\ BackupInv

(* No capture, no row and no backup at first. *)
LEMMA CaptureBackupStarts == CaptureBackupInit => CaptureBackupInv
<1> SUFFICES ASSUME CaptureBackupInit PROVE CaptureBackupInv
  OBVIOUS
<1>1. CaptureInv
  BY DEF CaptureBackupInit, CaptureInit, CaptureInv, CaptureTypes, Held, NoCapture, FileState,
     WritersHaveSafeFiles, RecordedCapturesSurvive
<1>2. NewBackup \in BackupRecord /\ NewBackup.step = "new" /\ NewBackup.dump = {}
  BY DEF NewBackup, BackupRecord, BackupStep
<1>3. BackupInv
  BY <1>2 DEF CaptureBackupInit, BackupInv, BackupTypes, DumpsAreOfRows, BundlesAreDumps,
     ManifestIsLast
<1> QED
  BY <1>1, <1>3 DEF CaptureBackupInv

(* Every step of the writers and the backups keeps the invariant. *)
LEMMA CaptureBackupKeeps ==
  CaptureBackupInv /\ [CaptureBackupNext]_captureBackupVars => CaptureBackupInv'
<1> SUFFICES ASSUME CaptureInv, BackupInv, [CaptureBackupNext]_captureBackupVars
             PROVE  CaptureInv' /\ BackupInv'
  BY DEF CaptureBackupInv
<1>1. CASE UNCHANGED captureBackupVars \/ ClearBackupLock
  <2>1. UNCHANGED <<capture, final, lost, rows, backup, published>>
    BY <1>1 DEF captureBackupVars, captureVars, backupVars, ClearBackupLock, NothingPublished,
       StoreUnread
  <2> QED
    BY <2>1, StoreIsKept, RunsStay
<1>2. CASE CaptureStepOrFault /\ UNCHANGED backupVars
  BY <1>2, CaptureStepKeeps, CaptureStepGrowsRows, RunsStay DEF backupVars
<1>3. CASE HostLosesPower
  BY <1>3, HostKeeps
<1>4. ASSUME NEW r \in BackupRun,
             \/ StartBackup(r) \/ OpenSnapshot(r) \/ RunDump(r) \/ ScanDirectory(r)
             \/ BindLedger(r) \/ StreamBundle(r) \/ RescanDirectory(r) \/ Upload(r)
             \/ UploadFails(r) \/ RecordBackup(r) \/ FailBackup(r) \/ KillBackup(r)
      PROVE  CaptureInv' /\ BackupInv'
  BY <1>4, OneRunKeeps
<1> QED
  BY <1>1, <1>2, <1>3, <1>4 DEF CaptureBackupNext

(* For any writers, publications and contents and any number of faults: a capture
   that the database lists has its file in a state that a power loss leaves alone,
   unless somebody removed it, also when the writer that made the file was cut off
   before it synced anything (putIfAbsent's verifyExisting). *)
THEOREM CapturesSurvive == CaptureBackupSpec => []RecordedCapturesSurvive
<1>1. CaptureBackupInv => RecordedCapturesSurvive
  BY DEF CaptureBackupInv, CaptureInv
<1> QED
  BY CaptureBackupStarts, CaptureBackupKeeps, <1>1, PTL DEF CaptureBackupSpec

(* For any writers and any number of runs of createBackup: where a manifest is
   published, the other objects are, and the bundle beside it holds exactly the
   captures that its dump lists, each of them safe on disk. *)
THEOREM BackupsAreWhole == CaptureBackupSpec => []PublishedBackupIsWhole
<1>1. CaptureBackupInv => PublishedBackupIsWhole
  BY DEF CaptureBackupInv, CaptureInv, RecordedCapturesSurvive, BackupInv, DumpsAreOfRows,
     ManifestIsLast, AllPublished, PublishedBackupIsWhole
<1> QED
  BY CaptureBackupStarts, CaptureBackupKeeps, <1>1, PTL DEF CaptureBackupSpec

-----------------------------------------------------------------------------
(* The workflow run of an attempt has gone past its capture. *)
Begun(a) == runner[a] \notin {"unused", "captured"}

(* The types, that a deploy or a resolver is of an attempt that has begun, and *)
(* that a watchdog is.                                                         *)
DeployTypes ==
    /\ DeployTypeOK
    /\ op.kind \in {"deploy"} \cup Resolvers =>
          op.attempt \in DeployAttempts /\ Begun(op.attempt)
    /\ \A a \in DeployAttempts : watchdog[a] # "none" => Begun(a)

(* Why an attempt has one verdict: the receipt of an acceptance outlasts its    *)
(* pending record (unless it is damaged, which no resolver overrules), a pending *)
(* record does not outlive a rejection, and who holds the lock to roll back an   *)
(* attempt found it pending and undecided.                                       *)
VerdictInv ==
    /\ \A a \in DeployAttempts :
          /\ verdict[a] = "accepted" /\ pending = a => accepted \in {a, Malformed}
          /\ verdict[a] = "rejected" => pending # a
          /\ accepted = a => verdict[a] = "accepted"
          /\ ~Begun(a) => verdict[a] = "none"
    /\ op.kind = "deploy" => verdict[op.attempt] = "none"
    /\ op.kind \in Resolvers => pending = op.attempt /\ verdict[op.attempt] # "accepted"

(* What runs while an operation is under way on a host without faults, by the *)
(* step that it has reached.                                                   *)
DeployRuns(a) ==
    /\ files.current = previous[a]
    /\ op.step \in {"admitted", "quiesced", "migrated"} => Running \subseteq {previous[a]}
    /\ op.step \in {"verified", "pending", "leased", "watched"} => Running \subseteq {candidate[a]}

ResolverRuns(a) ==
    /\ op.to = previous[a]
    /\ op.step = "armed" => Running \subseteq {candidate[a], previous[a]}
    /\ op.step = "closed" => Running = {}
    /\ op.step = "restored" => Running \subseteq {op.to}

RollbackRuns ==
    /\ op.step = "admitted" => Running \subseteq {files.current}
    /\ op.step = "restored" => Running \subseteq {op.to}

(* A free lock means that only the committed revision runs, whatever is        *)
(* pending; an operation starts from that and ends in it.                      *)
RunningInv ==
    /\ \A a \in DeployAttempts : runner[a] # "unused" => candidate[a] # previous[a]
    /\ hostFaults = 0 =>
          /\ lock # "orphaned"
          /\ lock = "free" => Running \subseteq {files.current}
          /\ op.kind = "deploy" => DeployRuns(op.attempt)
          /\ op.kind \in Resolvers => ResolverRuns(op.attempt)
          /\ op.kind = "rollback" => RollbackRuns

DeployInv == DeployTypes /\ VerdictInv /\ RunningInv

-----------------------------------------------------------------------------

(* What the assumption says of the ranges. *)
LEMMA DeployRanges ==
    /\ 0 \notin DeployAttempts /\ NoAttempt \notin DeployAttempts /\ Malformed \notin DeployAttempts
    /\ NoAttempt # Malformed
    /\ MaxHostFaults \in Nat /\ MaxRollbacks \in Nat
    /\ 0 \in Revisions /\ Down \in TypeRevision /\ Down \notin Revisions
    /\ \A r \in Revisions : r \in TypeRevision
    /\ NoAttempt \in Records /\ Malformed \in Records /\ \A a \in DeployAttempts : a \in Records
BY DeploymentAssumption DEF NoAttempt, Malformed, Revisions, TypeRevision, Down, Records

(* What the lock holder's record, the containers and the state files become. *)
LEMMA NoOperationShape == NoOperation \in Operations /\ NoOperation.kind = "none"
BY DeployRanges DEF NoOperation, Operations, Steps

LEMMA OperationShape ==
    ASSUME NEW k \in {"deploy", "rollback"} \cup Resolvers, NEW a \in DeployAttempts \cup {0},
           NEW r \in Revisions, NEW s \in {"admitted", "armed"}
    PROVE  /\ Operation(k, a, r, s) \in Operations
           /\ Operation(k, a, r, s).kind = k /\ Operation(k, a, r, s).attempt = a
           /\ Operation(k, a, r, s).to = r /\ Operation(k, a, r, s).step = s
BY DeployRanges DEF Operation, Operations, Steps, Resolvers

LEMMA StepNames ==
    {"none", "admitted", "quiesced", "migrated", "started", "verified", "pending", "leased",
     "watched", "armed", "closed", "restored"} \subseteq Steps
BY DEF Steps

LEMMA GotoKeeps ==
    ASSUME op \in Operations, NEW s \in Steps, OpGoto(s)
    PROVE  /\ op' \in Operations /\ op'.kind = op.kind /\ op'.attempt = op.attempt /\ op'.to = op.to
           /\ op'.step = s /\ lock' = lock
BY DEF Operations, OpGoto

LEMMA FleetShape ==
    ASSUME up \in Containers
    PROVE  /\ up.app \in TypeRevision /\ up.private \in TypeRevision
           /\ \A r \in TypeRevision : /\ Both(r) \in Containers /\ Both(r).app = r /\ Both(r).private = r
                                      /\ [app |-> r, private |-> Down] \in Containers
           /\ [up EXCEPT !.private = Down] \in Containers
           /\ [up EXCEPT !.private = Down].app = up.app /\ [up EXCEPT !.private = Down].private = Down
           /\ \A revs \in SUBSET Revisions : Without(revs) \in Containers
BY DeployRanges DEF Both, Containers, Without

LEMMA RecordedShape ==
    ASSUME files \in StateFiles
    PROVE  /\ files.current \in Revisions /\ files.image \in Revisions
           /\ files.high \in Revisions /\ files.marker \in Revisions
           /\ \A r \in Revisions, high \in Revisions, n \in 0..4 : Recorded(r, high, n) \in StateFiles
           /\ \A r \in Revisions, high \in Revisions :
                 /\ Recorded(r, high, 4).current = r /\ Recorded(r, high, 4).image = r
                 /\ Recorded(r, high, 4).high = high /\ Recorded(r, high, 4).marker = r
BY DEF StateFiles, Recorded

(* The exit of a resolver. *)
LEMMA ResolverEndKeeps ==
    ASSUME DeployTypes, NEW a \in DeployAttempts, NEW k \in Resolvers, Begun(a), ResolverEnds(a, k)
    PROVE  /\ runner' \in [DeployAttempts -> {"unused", "captured", "deploying", "probing", "finalizing",
                                              "rejecting", "ended"}]
           /\ watchdog' \in [DeployAttempts -> {"none", "watching", "rejecting", "ended"}]
           /\ leases' \subseteq DeployAttempts
           /\ \A b \in DeployAttempts : /\ Begun(b) => Begun(b)'
                                        /\ watchdog'[b] # "none" => watchdog[b] # "none" \/ b = a
BY DEF DeployTypes, DeployTypeOK, ResolverEnds, Begun

(* What the primitives do to what runs and to what is committed. *)
LEMMA RunningOfBoth ==
    ASSUME NEW r, up' = Both(r)
    PROVE  Running' \subseteq {r} /\ (r = Down => Running' = {})
BY DEF Running, Both

LEMMA RunningWithout ==
    ASSUME NEW revs, up' = Without(revs)
    PROVE  Running' \subseteq Running \ revs
BY DEF Running, Without

LEMMA RecordedCurrent ==
    ASSUME NEW r, NEW high, files' = Recorded(r, high, 4)
    PROVE  files'.current = r
BY DEF Recorded

(* Faults are counted, and never forgotten. *)
LEMMA FaultsAreCounted ==
    ASSUME DeployTypes, HostFault
    PROVE  hostFaults' # 0
BY DEF HostFault, DeployTypes, DeployTypeOK

LEMMA FaultsAreMonotonic ==
  ASSUME DeployTypes, DeployNext, hostFaults' = 0
  PROVE  hostFaults = 0
<1>0. hostFaults \in Nat
  BY DeployRanges DEF DeployTypes, DeployTypeOK
<1>1. hostFaults' = hostFaults \/ HostFault
  BY DEF DeployNext, HolderStep, RunnerStep, DeployScriptStep, ResolverStep, WatchdogResolves,
     DeployStep,
     CaptureRollbackGuard, AdmitDeploy, VerifyAndProbe, Accept, AcceptFails, RunnerLost, Quiesce, Migrate,
     StartCandidate, VerifyCurrentDeployment, RecordPending, RecordLease, LaunchWatchdog, CommitCandidate,
     DeployFails, RejectCloses, RejectRestores, RejectFails, RejectCommits, RollbackStarts, RollbackCommits,
     RollbackFails, Retire, DeadlinePasses, ResolveAtOnce, RejectPending, AcceptKilled, WatchdogDies,
     DeployCleanupFails, RollbackAdmitted, HardKill, DamageRecord, ClearStaleLock
<1>. QED
  BY <1>0, <1>1 DEF HostFault

(* The initial states. *)
LEMMA DeployTypesInitially == ASSUME DeployInit PROVE DeployTypes
BY DeployRanges, NoOperationShape
   DEF DeployInit, DeployTypes, Begun, DeployTypeOK, Both, Containers, StateFiles, Records,
       Resolvers

LEMMA DeployInvInitially == ASSUME DeployInit PROVE DeployInv
<1>1. DeployTypes
  BY DeployTypesInitially
<1>2. VerdictInv
  BY DeployRanges DEF DeployInit, VerdictInv, Begun, NoOperation, Resolvers
<1>3. RunningInv
  BY DeployRanges DEF DeployInit, RunningInv, Running, Both, NoOperation, Resolvers
<1>. QED
  BY <1>1, <1>2, <1>3 DEF DeployInv

(* Every step keeps the types. *)
LEMMA DeployTypesGoOn ==
  ASSUME DeployTypes, [DeployNext]_deployVars
  PROVE  DeployTypes'
<1> USE DeployRanges
<1>1. op \in Operations /\ up \in Containers /\ files \in StateFiles
  BY DEF DeployTypes, DeployTypeOK, Begun
<1>2. /\ op.kind \in {"none", "deploy", "rollback"} \cup Resolvers
      /\ op.attempt \in DeployAttempts \cup {0} /\ op.to \in Revisions /\ op.step \in Steps
  BY <1>1 DEF Operations
<1>3. \A a \in DeployAttempts : candidate[a] \in Revisions /\ previous[a] \in Revisions
  BY DEF DeployTypes, DeployTypeOK, Begun
<1>4. ASSUME NEW a \in DeployAttempts, CaptureRollbackGuard(a)
      PROVE  DeployTypes'
  BY <1>4
     DEF CaptureRollbackGuard, DeployTypes, DeployTypeOK, Begun, hostVars, attemptVars,
         Resolvers, StateLoads
<1>5. ASSUME NEW a \in DeployAttempts, AdmitDeploy(a)
      PROVE  DeployTypes'
  <2>1. CASE lock = "free" /\ DeployAdmissible(a)
    <3>1. /\ op' \in Operations /\ op'.kind = "deploy" /\ op'.attempt = a
          /\ lock' = "held"
      BY <1>5, <1>3, <2>1, OperationShape DEF AdmitDeploy
    <3>2. runner' = [runner EXCEPT ![a] = "deploying"]
      BY <1>5, <2>1 DEF AdmitDeploy
    <3>. QED
      BY <1>5, <3>1, <3>2 DEF AdmitDeploy, DeployTypes, DeployTypeOK, Begun, hostVars
  <2>2. CASE ~(lock = "free" /\ DeployAdmissible(a))
    BY <1>5, <2>2 DEF AdmitDeploy, DeployTypes, DeployTypeOK, Begun, hostVars, Resolvers
  <2>. QED
    BY <2>1, <2>2
<1>6. ASSUME NEW a \in DeployAttempts, VerifyAndProbe(a)
      PROVE  DeployTypes'
  BY <1>6 DEF VerifyAndProbe, DeployTypes, DeployTypeOK, Begun, hostVars, attemptVars, Resolvers
<1>7. ASSUME NEW a \in DeployAttempts, Accept(a)
      PROVE  DeployTypes'
  BY <1>7 DEF Accept, DeployTypes, DeployTypeOK, Begun, hostVars, attemptVars, Resolvers
<1>8. ASSUME NEW a \in DeployAttempts, AcceptFails(a)
      PROVE  DeployTypes'
  BY <1>8 DEF AcceptFails, DeployTypes, DeployTypeOK, Begun, hostVars, attemptVars, Resolvers
<1>9. ASSUME NEW a \in DeployAttempts, RunnerLost(a)
      PROVE  DeployTypes'
  BY <1>9 DEF RunnerLost, DeployTypes, DeployTypeOK, Begun, hostVars, attemptVars, Resolvers
<1>10. ASSUME NEW a \in DeployAttempts, Quiesce(a)
      PROVE  DeployTypes'
  <2>1. /\ op' \in Operations /\ op'.kind = op.kind /\ op'.attempt = op.attempt
       /\ lock' = lock
    BY <1>10, <1>1, GotoKeeps, StepNames DEF Quiesce, DeployStep, OpAt
  <2>2. up' \in Containers
    BY <1>10, <1>1, <1>2, <1>3, FleetShape DEF Quiesce
  <2>. QED
    BY <1>10, <2>1, <2>2
       DEF Quiesce, DeployTypes, DeployTypeOK, Begun, hostVars, attemptVars, Resolvers,
           DeployStep
<1>11. ASSUME NEW a \in DeployAttempts, Migrate(a)
      PROVE  DeployTypes'
  <2>1. /\ op' \in Operations /\ op'.kind = op.kind /\ op'.attempt = op.attempt
       /\ lock' = lock
    BY <1>11, <1>1, GotoKeeps, StepNames DEF Migrate, DeployStep, OpAt
  <2>. QED
    BY <1>11, <2>1
       DEF Migrate, DeployTypes, DeployTypeOK, Begun, hostVars, attemptVars, Resolvers,
           DeployStep
<1>12. ASSUME NEW a \in DeployAttempts, StartCandidate(a)
      PROVE  DeployTypes'
  <2>1. /\ op' \in Operations /\ op'.kind = op.kind /\ op'.attempt = op.attempt
       /\ lock' = lock
    BY <1>12, <1>1, GotoKeeps, StepNames DEF StartCandidate, DeployStep, OpAt
  <2>2. up' \in Containers
    BY <1>12, <1>1, <1>2, <1>3, FleetShape DEF StartCandidate, Containers
  <2>. QED
    BY <1>12, <2>1, <2>2
       DEF StartCandidate, DeployTypes, DeployTypeOK, Begun, hostVars, attemptVars, Resolvers,
           DeployStep
<1>13. ASSUME NEW a \in DeployAttempts, VerifyCurrentDeployment(a)
      PROVE  DeployTypes'
  <2>1. /\ op' \in Operations /\ op'.kind = op.kind /\ op'.attempt = op.attempt
       /\ lock' = lock
    BY <1>13, <1>1, GotoKeeps, StepNames DEF VerifyCurrentDeployment, DeployStep, OpAt
  <2>. QED
    BY <1>13, <2>1
       DEF VerifyCurrentDeployment, DeployTypes, DeployTypeOK, Begun, hostVars, attemptVars,
           Resolvers, DeployStep
<1>14. ASSUME NEW a \in DeployAttempts, RecordPending(a)
      PROVE  DeployTypes'
  <2>1. /\ op' \in Operations /\ op'.kind = op.kind /\ op'.attempt = op.attempt
       /\ lock' = lock
    BY <1>14, <1>1, GotoKeeps, StepNames DEF RecordPending, DeployStep, OpAt
  <2>. QED
    BY <1>14, <2>1
       DEF RecordPending, DeployTypes, DeployTypeOK, Begun, hostVars, attemptVars, Resolvers,
           DeployStep
<1>15. ASSUME NEW a \in DeployAttempts, RecordLease(a)
      PROVE  DeployTypes'
  <2>1. /\ op' \in Operations /\ op'.kind = op.kind /\ op'.attempt = op.attempt
       /\ lock' = lock
    BY <1>15, <1>1, GotoKeeps, StepNames DEF RecordLease, DeployStep, OpAt
  <2>. QED
    BY <1>15, <2>1
       DEF RecordLease, DeployTypes, DeployTypeOK, Begun, hostVars, attemptVars, Resolvers,
           DeployStep
<1>16. ASSUME NEW a \in DeployAttempts, LaunchWatchdog(a)
      PROVE  DeployTypes'
  <2>1. op.kind = "deploy" /\ op.attempt = a /\ Begun(a)
    BY <1>16 DEF LaunchWatchdog, DeployStep, OpAt, DeployTypes
  <2>2. /\ op' \in Operations /\ op'.kind = op.kind /\ op'.attempt = op.attempt
        /\ lock' = lock
    BY <1>16, <1>1, GotoKeeps, StepNames DEF LaunchWatchdog, DeployStep, OpAt
  <2>. QED
    BY <1>16, <2>1, <2>2 DEF LaunchWatchdog, DeployStep, DeployTypes, DeployTypeOK, Begun, hostVars
<1>17. ASSUME NEW a \in DeployAttempts, CommitCandidate(a)
      PROVE  DeployTypes'
  <2>1. op' \in Operations /\ op'.kind = "none" /\ lock' = "free"
    BY <1>17, NoOperationShape DEF CommitCandidate, Release
  <2>2. files' \in StateFiles
    BY <1>17, <1>1, <1>2, <1>3, RecordedShape DEF CommitCandidate
  <2>. QED
    BY <1>17, <2>1, <2>2
       DEF CommitCandidate, DeployTypes, DeployTypeOK, Begun, hostVars, attemptVars, Resolvers
<1>18. ASSUME NEW a \in DeployAttempts, DeployFails(a)
      PROVE  DeployTypes'
  <2>1. op' \in Operations /\ op'.kind = "none" /\ lock' = "free"
    BY <1>18, NoOperationShape DEF DeployFails, Release
  <2>2. ClosedOrPublicOnly(previous[a]) \subseteq Containers
    BY <1>1, <1>3, FleetShape DEF ClosedOrPublicOnly
  <2>3. RuntimesAfterExit(a) \subseteq Containers
    BY <1>1, <2>2, FleetShape DEF RuntimesAfterExit
  <2>4. up' \in Containers
    BY <1>18, <2>3 DEF DeployFails
  <2>. QED
    BY <1>18, <2>1, <2>4 DEF DeployFails, DeployTypes, DeployTypeOK, Begun, Resolvers
<1>19. ASSUME NEW a \in DeployAttempts, NEW k \in Resolvers, RejectCloses(a, k)
      PROVE  DeployTypes'
  <2>1. Begun(a)
    BY <1>19 DEF RejectCloses, OpAt, DeployTypes, Resolvers
  <2>2. up' \in Containers
    BY <1>19, <1>1, <1>3, FleetShape DEF RejectCloses, CloseApplicationRuntimes
  <2>3. CASE RuntimesKnown(a)
    <3>1. OpGoto("closed") /\ UNCHANGED <<leases, runner, watchdog>>
      BY <1>19, <2>3 DEF RejectCloses
    <3>2. op' \in Operations /\ op'.kind = op.kind /\ op'.attempt = op.attempt /\ lock' = lock
      BY <1>1, <3>1, GotoKeeps, StepNames
    <3>. QED
      BY <1>19, <2>2, <3>1, <3>2 DEF RejectCloses, DeployTypes, DeployTypeOK, Begun
  <2>4. CASE ~RuntimesKnown(a)
    <3>1. Release /\ ResolverEnds(a, k)
      BY <1>19, <2>4 DEF RejectCloses
    <3>2. op' \in Operations /\ op'.kind = "none" /\ lock' = "free"
      BY <3>1, NoOperationShape DEF Release
    <3>. QED
      BY <1>19, <2>1, <2>2, <3>1, <3>2, ResolverEndKeeps
         DEF RejectCloses, DeployTypes, DeployTypeOK, Resolvers
  <2>. QED
    BY <2>3, <2>4
<1>20. ASSUME NEW a \in DeployAttempts, NEW k \in Resolvers, RejectRestores(a, k)
      PROVE  DeployTypes'
  <2>1. /\ op' \in Operations /\ op'.kind = op.kind /\ op'.attempt = op.attempt
       /\ lock' = lock
    BY <1>20, <1>1, GotoKeeps, StepNames DEF RejectRestores, OpAt
  <2>2. up' \in Containers
    BY <1>20, <1>1, <1>2, <1>3, FleetShape DEF RejectRestores
  <2>. QED
    BY <1>20, <2>1, <2>2
       DEF RejectRestores, DeployTypes, DeployTypeOK, Begun, hostVars, attemptVars, Resolvers
<1>21. ASSUME NEW a \in DeployAttempts, NEW k \in Resolvers, RejectFails(a, k)
      PROVE  DeployTypes'
  <2>1. Begun(a)
    BY <1>21 DEF RejectFails, OpAt, DeployTypes, Resolvers
  <2>2. op' \in Operations /\ op'.kind = "none" /\ lock' = "free"
    BY <1>21, NoOperationShape DEF RejectFails, Release
  <2>3. up' \in Containers
    BY <1>21, <1>1, <1>3, FleetShape DEF RejectFails, CloseApplicationRuntimes
  <2>. QED
    BY <1>21, <2>1, <2>2, <2>3, ResolverEndKeeps
       DEF RejectFails, DeployTypes, DeployTypeOK, Resolvers
<1>22. ASSUME NEW a \in DeployAttempts, NEW k \in Resolvers, RejectCommits(a, k)
      PROVE  DeployTypes'
  <2>1. Begun(a)
    BY <1>22 DEF RejectCommits, OpAt, DeployTypes, Resolvers
  <2>2. op' \in Operations /\ op'.kind = "none" /\ lock' = "free"
    BY <1>22, NoOperationShape DEF RejectCommits, Release
  <2>3. files' \in StateFiles
    BY <1>22, <1>1, <1>2, RecordedShape DEF RejectCommits
  <2>. QED
    BY <1>22, <2>1, <2>2, <2>3, ResolverEndKeeps
       DEF RejectCommits, DeployTypes, DeployTypeOK, Resolvers
<1>23. ASSUME RollbackStarts
      PROVE  DeployTypes'
  <2>1. /\ op' \in Operations /\ op'.kind = op.kind /\ op'.attempt = op.attempt
       /\ lock' = lock
    BY <1>23, <1>1, GotoKeeps, StepNames DEF RollbackStarts, OpAt
  <2>2. up' \in Containers
    BY <1>23, <1>1, <1>2, <1>3, FleetShape DEF RollbackStarts
  <2>. QED
    BY <1>23, <2>1, <2>2
       DEF RollbackStarts, DeployTypes, DeployTypeOK, Begun, hostVars, attemptVars, Resolvers
<1>24. ASSUME RollbackCommits
      PROVE  DeployTypes'
  <2>1. op' \in Operations /\ op'.kind = "none" /\ lock' = "free"
    BY <1>24, NoOperationShape DEF RollbackCommits, Release
  <2>2. files' \in StateFiles
    BY <1>24, <1>1, <1>2, <1>3, RecordedShape DEF RollbackCommits
  <2>. QED
    BY <1>24, <2>1, <2>2
       DEF RollbackCommits, DeployTypes, DeployTypeOK, Begun, hostVars, attemptVars, Resolvers
<1>25. ASSUME RollbackFails
      PROVE  DeployTypes'
  <2>1. op' \in Operations /\ op'.kind = "none" /\ lock' = "free"
    BY <1>25, NoOperationShape DEF RollbackFails, Release
  <2>2. Both(files.current) \in Containers /\ Both(Down) \in Containers
    BY <1>1, FleetShape, RecordedShape
  <2>3. up' \in Containers
    BY <1>25, <2>2 DEF RollbackFails, DeployTypes, DeployTypeOK
  <2>. QED
    BY <1>25, <2>1, <2>3 DEF RollbackFails, DeployTypes, DeployTypeOK, Begun, attemptVars, Resolvers
<1>26. ASSUME NEW a \in DeployAttempts, Retire(a)
      PROVE  DeployTypes'
  BY <1>26 DEF Retire, DeployTypes, DeployTypeOK, Begun, hostVars, attemptVars, Resolvers
<1>27. ASSUME NEW a \in DeployAttempts, DeadlinePasses(a)
      PROVE  DeployTypes'
  BY <1>27 DEF DeadlinePasses, DeployTypes, DeployTypeOK, Begun, hostVars, attemptVars, Resolvers
<1>28. ASSUME NEW a \in DeployAttempts, NEW k \in Resolvers, ResolveAtOnce(a, k)
      PROVE  DeployTypes'
  <2>1. Begun(a)
    BY <1>28 DEF ResolveAtOnce, Asks, Begun, DeployTypes
  <2>2. up' \in Containers
    BY <1>28, <1>1, <1>3, FleetShape
       DEF ResolveAtOnce, AfterCapabilityLoss, RemoveUncommittedCandidate, CloseApplicationRuntimes
  <2>3. pending' \in Records
    BY <1>28 DEF ResolveAtOnce, DeployTypes, DeployTypeOK
  <2>. QED
    BY <1>28, <2>1, <2>2, <2>3, ResolverEndKeeps DEF ResolveAtOnce, DeployTypes, DeployTypeOK
<1>29. ASSUME NEW a \in DeployAttempts, NEW k \in Resolvers, RejectPending(a, k)
      PROVE  DeployTypes'
  <2>1. Begun(a)
    BY <1>29 DEF RejectPending, Asks, DeployTypes, Begun
  <2>2. CASE Armed(a) /\ Preflight(a)
    <3>1. op' = Operation(k, a, previous[a], "armed") /\ lock' = "held"
      BY <1>29, <2>2 DEF RejectPending
    <3>2. op' \in Operations /\ op'.kind = k /\ op'.attempt = a
      <4>1. previous[a] \in Revisions
        BY <1>3
      <4>2. k \in {"deploy", "rollback"} \cup Resolvers /\ a \in DeployAttempts \cup {0}
        OBVIOUS
      <4>3. LET o == Operation(k, a, previous[a], "armed")
            IN  o \in Operations /\ o.kind = k /\ o.attempt = a
        BY <4>1, <4>2, OperationShape
      <4>. QED
        BY <3>1, <4>3
    <3>. QED
      BY <1>29, <2>1, <2>2, <3>1, <3>2
         DEF RejectPending, DeployTypes, DeployTypeOK, Begun, Resolvers
  <2>3. CASE ~(Armed(a) /\ Preflight(a))
    <3>1. up' \in Containers
      BY <1>29, <1>1, <1>3, <2>3, FleetShape DEF RejectPending, CloseApplicationRuntimes
    <3>2. ResolverEnds(a, k) /\ UNCHANGED <<lock, op>>
      BY <1>29, <2>3 DEF RejectPending
    <3>. QED
      BY <1>29, <2>1, <3>1, <3>2, ResolverEndKeeps DEF RejectPending, DeployTypes, DeployTypeOK
  <2>. QED
    BY <2>2, <2>3
<1>30. ASSUME NEW a \in DeployAttempts, AcceptKilled(a)
      PROVE  DeployTypes'
  BY <1>30
     DEF AcceptKilled, DeployTypes, DeployTypeOK, Begun, hostVars, attemptVars, Resolvers,
         HostFault
<1>31. ASSUME NEW a \in DeployAttempts, WatchdogDies(a)
      PROVE  DeployTypes'
  BY <1>31
     DEF WatchdogDies, DeployTypes, DeployTypeOK, Begun, hostVars, attemptVars, Resolvers,
         HostFault
<1>32. ASSUME NEW a \in DeployAttempts, DeployCleanupFails(a)
      PROVE  DeployTypes'
  <2>1. op' \in Operations /\ op'.kind = "none" /\ lock' = "free"
    BY <1>32, NoOperationShape DEF DeployCleanupFails, Release
  <2>. QED
    BY <1>32, <2>1
       DEF DeployCleanupFails, DeployTypes, DeployTypeOK, Begun, hostVars, attemptVars,
           Resolvers, HostFault
<1>33. ASSUME NEW r \in Revisions, RollbackAdmitted(r)
      PROVE  DeployTypes'
  <2>1. op' \in Operations /\ op'.kind = "rollback" /\ lock' = "held"
    BY <1>33, OperationShape DEF RollbackAdmitted
  <2>. QED
    BY <1>33, <2>1
       DEF RollbackAdmitted, DeployTypes, DeployTypeOK, Begun, hostVars, attemptVars, Resolvers
<1>34. ASSUME HardKill
      PROVE  DeployTypes'
  <2>1. op' \in Operations /\ op'.kind = "none" /\ lock' = "orphaned"
    BY <1>34, NoOperationShape DEF HardKill
  <2>2. files' \in StateFiles /\ verified' \subseteq Revisions
    BY <1>34, <1>1, <1>2, RecordedShape
       DEF HardKill, HighAfterCommit, DeployTypes, DeployTypeOK, Begun
  <2>3. runner' \in [DeployAttempts -> {"unused", "captured", "deploying", "probing", "finalizing",
                                       "rejecting", "ended"}]
    BY <1>34 DEF HardKill, DeployTypes, DeployTypeOK, Begun
  <2>4. watchdog' \in [DeployAttempts -> {"none", "watching", "rejecting", "ended"}]
    BY <1>34 DEF HardKill, DeployTypes, DeployTypeOK, Begun
  <2>5. \A a \in DeployAttempts : runner[a] \notin {"unused", "captured"} =>
          runner'[a] \notin {"unused", "captured"}
    BY <1>34 DEF HardKill, DeployTypes, DeployTypeOK, Begun
  <2>6. \A a \in DeployAttempts : watchdog'[a] # "none" =>
          watchdog[a] # "none" \/ runner[a] \notin {"unused", "captured"}
    BY <1>34 DEF HardKill, DeployTypes, DeployTypeOK, Begun, Resolvers
  <2>. QED
    BY <1>34, <2>1, <2>2, <2>3, <2>4, <2>5, <2>6
       DEF HardKill, HostFault, DeployTypes, DeployTypeOK, Begun, Resolvers
<1>35. ASSUME DamageRecord
      PROVE  DeployTypes'
  BY <1>35
     DEF DamageRecord, DeployTypes, DeployTypeOK, Begun, hostVars, attemptVars, Resolvers,
         HostFault
<1>36. ASSUME ClearStaleLock
      PROVE  DeployTypes'
  BY <1>36 DEF ClearStaleLock, DeployTypes, DeployTypeOK, Begun, hostVars, attemptVars, Resolvers
<1>37. CASE UNCHANGED deployVars
  BY <1>37 DEF DeployTypes, DeployTypeOK, Begun, deployVars, hostVars, attemptVars
<1>. QED
  BY <1>4, <1>5, <1>6, <1>7, <1>8, <1>9, <1>10, <1>11, <1>12, <1>13, <1>14, <1>15, <1>16, <1>17,
     <1>18, <1>19, <1>20, <1>21, <1>22, <1>23, <1>24, <1>25, <1>26, <1>27, <1>28, <1>29, <1>30,
     <1>31, <1>32, <1>33, <1>34, <1>35, <1>36, <1>37
     DEF DeployNext, HolderStep, RunnerStep, DeployScriptStep, ResolverStep, WatchdogResolves, Resolvers

(* Every step keeps what verdicts rest on. *)
LEMMA VerdictsGoOn ==
  ASSUME DeployTypes, VerdictInv, [DeployNext]_deployVars
  PROVE  VerdictInv'
<1> USE DeployRanges
<1>1. op \in Operations
  BY DEF DeployTypes, DeployTypeOK
<1>2. op.kind \in {"none", "deploy", "rollback"} \cup Resolvers /\ op.attempt \in DeployAttempts \cup {0}
  BY <1>1 DEF Operations
<1>3. ASSUME NEW a \in DeployAttempts, CaptureRollbackGuard(a)
      PROVE  VerdictInv'
  BY <1>3
     DEF CaptureRollbackGuard, VerdictInv, Begun, DeployTypes, DeployTypeOK, Resolvers,
         hostVars, attemptVars
<1>4. ASSUME NEW a \in DeployAttempts, AdmitDeploy(a)
      PROVE  VerdictInv'
  <2>1. verdict[a] = "none"
    BY <1>4 DEF AdmitDeploy, VerdictInv, Begun
  <2>2. CASE lock = "free" /\ DeployAdmissible(a)
    <3>1. candidate[a] \in Revisions
      BY DEF DeployTypes, DeployTypeOK
    <3>2. op'.kind = "deploy" /\ op'.attempt = a
      BY <1>4, <2>2, <3>1, OperationShape DEF AdmitDeploy
    <3>. QED
      BY <1>4, <2>1, <2>2, <3>2
         DEF AdmitDeploy, VerdictInv, Begun, DeployTypes, DeployTypeOK, Resolvers, hostVars
  <2>3. CASE ~(lock = "free" /\ DeployAdmissible(a))
    BY <1>4, <2>3 DEF AdmitDeploy, VerdictInv, Begun, DeployTypes, DeployTypeOK, hostVars
  <2>. QED
    BY <2>2, <2>3
<1>5. ASSUME NEW a \in DeployAttempts, VerifyAndProbe(a)
      PROVE  VerdictInv'
  BY <1>5
     DEF VerifyAndProbe, VerdictInv, Begun, DeployTypes, DeployTypeOK, Resolvers, hostVars,
         attemptVars
<1>6. ASSUME NEW a \in DeployAttempts, Accept(a)
      PROVE  VerdictInv'
  BY <1>6 DEF Accept, VerdictInv, Begun, DeployTypes, DeployTypeOK, Resolvers, hostVars, attemptVars
<1>7. ASSUME NEW a \in DeployAttempts, AcceptFails(a)
      PROVE  VerdictInv'
  BY <1>7
     DEF AcceptFails, VerdictInv, Begun, DeployTypes, DeployTypeOK, Resolvers, hostVars,
         attemptVars
<1>8. ASSUME NEW a \in DeployAttempts, RunnerLost(a)
      PROVE  VerdictInv'
  BY <1>8
     DEF RunnerLost, VerdictInv, Begun, DeployTypes, DeployTypeOK, Resolvers, hostVars,
         attemptVars
<1>9. ASSUME NEW a \in DeployAttempts, Quiesce(a)
      PROVE  VerdictInv'
  <2>1. op'.kind = op.kind /\ op'.attempt = op.attempt
    BY <1>9, <1>1, GotoKeeps, StepNames DEF Quiesce, DeployStep, OpAt
  <2>. QED
    BY <1>9, <2>1
       DEF Quiesce, DeployStep, OpAt, VerdictInv, Begun, DeployTypes, DeployTypeOK, Resolvers,
           hostVars, attemptVars
<1>10. ASSUME NEW a \in DeployAttempts, Migrate(a)
      PROVE  VerdictInv'
  <2>1. op'.kind = op.kind /\ op'.attempt = op.attempt
    BY <1>10, <1>1, GotoKeeps, StepNames DEF Migrate, DeployStep, OpAt
  <2>. QED
    BY <1>10, <2>1
       DEF Migrate, DeployStep, OpAt, VerdictInv, Begun, DeployTypes, DeployTypeOK, Resolvers,
           hostVars, attemptVars
<1>11. ASSUME NEW a \in DeployAttempts, StartCandidate(a)
      PROVE  VerdictInv'
  <2>1. op'.kind = op.kind /\ op'.attempt = op.attempt
    BY <1>11, <1>1, GotoKeeps, StepNames DEF StartCandidate, DeployStep, OpAt
  <2>. QED
    BY <1>11, <2>1
       DEF StartCandidate, DeployStep, OpAt, VerdictInv, Begun, DeployTypes, DeployTypeOK,
           Resolvers, hostVars, attemptVars
<1>12. ASSUME NEW a \in DeployAttempts, VerifyCurrentDeployment(a)
      PROVE  VerdictInv'
  <2>1. op'.kind = op.kind /\ op'.attempt = op.attempt
    BY <1>12, <1>1, GotoKeeps, StepNames DEF VerifyCurrentDeployment, DeployStep, OpAt
  <2>. QED
    BY <1>12, <2>1
       DEF VerifyCurrentDeployment, DeployStep, OpAt, VerdictInv, Begun, DeployTypes,
           DeployTypeOK, Resolvers, hostVars, attemptVars
<1>13. ASSUME NEW a \in DeployAttempts, RecordPending(a)
      PROVE  VerdictInv'
  <2>1. op'.kind = op.kind /\ op'.attempt = op.attempt
    BY <1>13, <1>1, GotoKeeps, StepNames DEF RecordPending, DeployStep, OpAt
  <2>. QED
    BY <1>13, <2>1
       DEF RecordPending, DeployStep, OpAt, VerdictInv, Begun, DeployTypes, DeployTypeOK,
           Resolvers, hostVars, attemptVars
<1>14. ASSUME NEW a \in DeployAttempts, RecordLease(a)
      PROVE  VerdictInv'
  <2>1. op'.kind = op.kind /\ op'.attempt = op.attempt
    BY <1>14, <1>1, GotoKeeps, StepNames DEF RecordLease, DeployStep, OpAt
  <2>. QED
    BY <1>14, <2>1
       DEF RecordLease, DeployStep, OpAt, VerdictInv, Begun, DeployTypes, DeployTypeOK,
           Resolvers, hostVars, attemptVars
<1>15. ASSUME NEW a \in DeployAttempts, LaunchWatchdog(a)
      PROVE  VerdictInv'
  <2>1. op'.kind = op.kind /\ op'.attempt = op.attempt
    BY <1>15, <1>1, GotoKeeps, StepNames DEF LaunchWatchdog, DeployStep, OpAt
  <2>. QED
    BY <1>15, <2>1
       DEF LaunchWatchdog, DeployStep, OpAt, VerdictInv, Begun, DeployTypes, DeployTypeOK,
           Resolvers, hostVars, attemptVars
<1>16. ASSUME NEW a \in DeployAttempts, CommitCandidate(a)
      PROVE  VerdictInv'
  <2>1. op'.kind = "none"
    BY <1>16, NoOperationShape DEF CommitCandidate, Release
  <2>. QED
    BY <1>16, <2>1
       DEF CommitCandidate, OpAt, VerdictInv, Begun, DeployTypes, DeployTypeOK, Resolvers,
           hostVars, attemptVars
<1>17. ASSUME NEW a \in DeployAttempts, DeployFails(a)
      PROVE  VerdictInv'
  <2>1. op'.kind = "none"
    BY <1>17, NoOperationShape DEF DeployFails, Release
  <2>. QED
    BY <1>17, <2>1
       DEF DeployFails, VerdictInv, Begun, DeployTypes, DeployTypeOK, Resolvers, hostVars,
           attemptVars
<1>18. ASSUME NEW a \in DeployAttempts, NEW k \in Resolvers, RejectCloses(a, k)
      PROVE  VerdictInv'
  <2>1. Begun(a)
    BY <1>18 DEF RejectCloses, OpAt, DeployTypes, Resolvers
  <2>2. \/ op'.kind = op.kind /\ op'.attempt = op.attempt
        \/ op'.kind = "none"
    BY <1>18, <1>1, GotoKeeps, StepNames, NoOperationShape DEF RejectCloses, Release
  <2>3. \A b \in DeployAttempts : Begun(b) => Begun(b)'
    BY <1>18, <2>1, ResolverEndKeeps DEF RejectCloses, Begun
  <2>4. \A b \in DeployAttempts : Begun(b)' => Begun(b)
    BY <1>18, <2>1 DEF RejectCloses, ResolverEnds, Begun, DeployTypes, DeployTypeOK
  <2>. QED
    BY <1>18, <2>2, <2>3, <2>4 DEF RejectCloses, VerdictInv, Resolvers
<1>19. ASSUME NEW a \in DeployAttempts, NEW k \in Resolvers, RejectRestores(a, k)
      PROVE  VerdictInv'
  <2>1. op'.kind = op.kind /\ op'.attempt = op.attempt
    BY <1>19, <1>1, GotoKeeps, StepNames DEF RejectRestores, OpAt
  <2>. QED
    BY <1>19, <2>1
       DEF RejectRestores, OpAt, VerdictInv, Begun, DeployTypes, DeployTypeOK, Resolvers,
           hostVars, attemptVars
<1>20. ASSUME NEW a \in DeployAttempts, NEW k \in Resolvers, RejectFails(a, k)
      PROVE  VerdictInv'
  <2>1. op'.kind = "none"
    BY <1>20, NoOperationShape DEF RejectFails, Release
  <2>. QED
    BY <1>20, <2>1
       DEF RejectFails, OpAt, ResolverEnds, VerdictInv, Begun, DeployTypes, DeployTypeOK,
           Resolvers, hostVars, attemptVars
<1>21. ASSUME NEW a \in DeployAttempts, NEW k \in Resolvers, RejectCommits(a, k)
      PROVE  VerdictInv'
  <2>1. op'.kind = "none"
    BY <1>21, NoOperationShape DEF RejectCommits, Release
  <2>. QED
    BY <1>21, <2>1
       DEF RejectCommits, OpAt, ResolverEnds, VerdictInv, Begun, DeployTypes, DeployTypeOK,
           Resolvers, hostVars, attemptVars
<1>22. ASSUME RollbackStarts
      PROVE  VerdictInv'
  <2>1. op'.kind = op.kind /\ op'.attempt = op.attempt
    BY <1>22, <1>1, GotoKeeps, StepNames DEF RollbackStarts, OpAt
  <2>. QED
    BY <1>22, <2>1
       DEF RollbackStarts, OpAt, VerdictInv, Begun, DeployTypes, DeployTypeOK, Resolvers,
           hostVars, attemptVars
<1>23. ASSUME RollbackCommits
      PROVE  VerdictInv'
  <2>1. op'.kind = "none"
    BY <1>23, NoOperationShape DEF RollbackCommits, Release
  <2>. QED
    BY <1>23, <2>1
       DEF RollbackCommits, OpAt, VerdictInv, Begun, DeployTypes, DeployTypeOK, Resolvers,
           hostVars, attemptVars
<1>24. ASSUME RollbackFails
      PROVE  VerdictInv'
  <2>1. op'.kind = "none"
    BY <1>24, NoOperationShape DEF RollbackFails, Release
  <2>. QED
    BY <1>24, <2>1
       DEF RollbackFails, VerdictInv, Begun, DeployTypes, DeployTypeOK, Resolvers, hostVars,
           attemptVars
<1>25. ASSUME NEW a \in DeployAttempts, Retire(a)
      PROVE  VerdictInv'
  BY <1>25
     DEF Retire, VerdictInv, Begun, DeployTypes, DeployTypeOK, Resolvers, hostVars, attemptVars
<1>26. ASSUME NEW a \in DeployAttempts, DeadlinePasses(a)
      PROVE  VerdictInv'
  BY <1>26
     DEF DeadlinePasses, VerdictInv, Begun, DeployTypes, DeployTypeOK, Resolvers, hostVars,
         attemptVars
<1>27. ASSUME NEW a \in DeployAttempts, NEW k \in Resolvers, ResolveAtOnce(a, k)
      PROVE  VerdictInv'
  BY <1>27
     DEF ResolveAtOnce, ResolverEnds, Asks, VerdictInv, Begun, DeployTypes, DeployTypeOK,
         Resolvers, hostVars, attemptVars
<1>28. ASSUME NEW a \in DeployAttempts, NEW k \in Resolvers, RejectPending(a, k)
      PROVE  VerdictInv'
  <2>1. Begun(a)
    BY <1>28 DEF RejectPending, Asks, Begun, DeployTypes
  <2>2. verdict[a] # "accepted"
    BY <1>28 DEF RejectPending, VerdictInv
  <2>3. CASE Armed(a) /\ Preflight(a)
    <3>1. op' = Operation(k, a, previous[a], "armed") /\ previous[a] \in Revisions
      BY <1>28, <2>3 DEF RejectPending, DeployTypes, DeployTypeOK
    <3>2. k \in {"deploy", "rollback"} \cup Resolvers /\ a \in DeployAttempts \cup {0}
      OBVIOUS
    <3>3. Operation(k, a, previous[a], "armed").kind = k /\ Operation(k, a, previous[a], "armed").attempt = a
      BY <3>1, <3>2, OperationShape
    <3>4. op'.kind = k /\ op'.attempt = a
      BY <3>1, <3>3
    <3>. QED
      BY <1>28, <2>2, <2>3, <3>4 DEF RejectPending, VerdictInv, Begun, Resolvers
  <2>4. CASE ~(Armed(a) /\ Preflight(a))
    BY <1>28, <2>1, <2>4
       DEF RejectPending, ResolverEnds, VerdictInv, Begun, DeployTypes, DeployTypeOK
  <2>. QED
    BY <2>3, <2>4
<1>29. ASSUME NEW a \in DeployAttempts, AcceptKilled(a)
      PROVE  VerdictInv'
  <2>1. op.kind = "none" /\ Begun(a)
    BY <1>29 DEF AcceptKilled, Begun, DeployTypes, DeployTypeOK
  <2>2. pending = a
    BY <1>29 DEF AcceptKilled, AcceptFresh
  <2>. QED
    BY <1>29, <2>1, <2>2 DEF AcceptKilled, VerdictInv, Begun, DeployTypes, DeployTypeOK, Resolvers
<1>30. ASSUME NEW a \in DeployAttempts, WatchdogDies(a)
      PROVE  VerdictInv'
  BY <1>30
     DEF WatchdogDies, VerdictInv, Begun, DeployTypes, DeployTypeOK, Resolvers, hostVars,
         attemptVars
<1>31. ASSUME NEW a \in DeployAttempts, DeployCleanupFails(a)
      PROVE  VerdictInv'
  <2>1. op'.kind = "none"
    BY <1>31, NoOperationShape DEF DeployCleanupFails, Release
  <2>. QED
    BY <1>31, <2>1
       DEF DeployCleanupFails, VerdictInv, Begun, DeployTypes, DeployTypeOK, Resolvers,
           hostVars, attemptVars
<1>32. ASSUME NEW r \in Revisions, RollbackAdmitted(r)
      PROVE  VerdictInv'
  <2>1. op'.kind = "rollback"
    BY <1>32, OperationShape DEF RollbackAdmitted
  <2>. QED
    BY <1>32, <2>1 DEF RollbackAdmitted, VerdictInv, Begun, Resolvers, hostVars, attemptVars
<1>33. ASSUME HardKill
      PROVE  VerdictInv'
  <2>1. op'.kind = "none"
    BY <1>33, NoOperationShape DEF HardKill
  <2>. QED
    BY <1>33, <2>1
       DEF HardKill, VerdictInv, Begun, DeployTypes, DeployTypeOK, Resolvers, hostVars,
           attemptVars
<1>34. ASSUME DamageRecord
      PROVE  VerdictInv'
  BY <1>34
     DEF DamageRecord, VerdictInv, Begun, DeployTypes, DeployTypeOK, Resolvers, hostVars,
         attemptVars
<1>35. ASSUME ClearStaleLock
      PROVE  VerdictInv'
  BY <1>35
     DEF ClearStaleLock, VerdictInv, Begun, DeployTypes, DeployTypeOK, Resolvers, hostVars,
         attemptVars
<1>36. CASE UNCHANGED deployVars
  BY <1>36 DEF deployVars, VerdictInv, Begun, hostVars, attemptVars
<1>. QED
  BY <1>3, <1>4, <1>5, <1>6, <1>7, <1>8, <1>9, <1>10, <1>11, <1>12, <1>13, <1>14, <1>15, <1>16,
     <1>17, <1>18, <1>19, <1>20, <1>21, <1>22, <1>23, <1>24, <1>25, <1>26, <1>27, <1>28, <1>29,
     <1>30, <1>31, <1>32, <1>33, <1>34, <1>35, <1>36
     DEF DeployNext, HolderStep, RunnerStep, DeployScriptStep, ResolverStep, WatchdogResolves, Resolvers

(* Every step keeps what runs in line with who holds the lock. *)
LEMMA RunningGoesOn ==
  ASSUME DeployTypes, RunningInv, [DeployNext]_deployVars
  PROVE  RunningInv'
<1> USE DeployRanges
<1>1. op \in Operations
  BY DEF DeployTypes, DeployTypeOK
<1>2. op.kind \in {"none", "deploy", "rollback"} \cup Resolvers /\ op.attempt \in DeployAttempts \cup {0}
  BY <1>1 DEF Operations
<1>3. ASSUME NEW a \in DeployAttempts, CaptureRollbackGuard(a)
      PROVE  RunningInv'
  <2>1. PICK r \in Revisions \ {0, files.current} : candidate' = [candidate EXCEPT ![a] = r]
    BY <1>3 DEF CaptureRollbackGuard
  <2>2. candidate'[a] # previous'[a]
    BY <1>3, <2>1 DEF CaptureRollbackGuard, DeployTypes, DeployTypeOK
  <2>3. op.kind \in {"deploy"} \cup Resolvers => op.attempt # a
    BY <1>3 DEF CaptureRollbackGuard, DeployTypes, Begun
  <2>4. \A b \in DeployAttempts \ {a} : UNCHANGED <<runner[b], candidate[b], previous[b]>>
    BY <1>3, <2>1 DEF CaptureRollbackGuard, DeployTypes, DeployTypeOK
  <2>5. UNCHANGED <<files, up, lock, op, hostFaults>>
    BY <1>3 DEF CaptureRollbackGuard, hostVars
  <2>6. op.kind \in {"deploy"} \cup Resolvers =>
          UNCHANGED <<candidate[op.attempt], previous[op.attempt]>>
    BY <2>3, <2>4, <2>5 DEF DeployTypes
  <2>. QED
    BY <2>2, <2>4, <2>5, <2>6 DEF RunningInv, DeployRuns, ResolverRuns, RollbackRuns, Running
<1>4. ASSUME NEW a \in DeployAttempts, AdmitDeploy(a)
      PROVE  RunningInv'
  <2>1. \A b \in DeployAttempts : runner'[b] # "unused" => candidate[b] # previous[b]
    BY <1>4 DEF AdmitDeploy, RunningInv, DeployTypes, DeployTypeOK
  <2>2. UNCHANGED <<files, up, candidate, previous, hostFaults>>
    BY <1>4 DEF AdmitDeploy, hostVars
  <2>3. CASE lock = "free" /\ DeployAdmissible(a)
    <3>1. candidate[a] \in Revisions
      BY DEF DeployTypes, DeployTypeOK
    <3>2. op'.kind = "deploy" /\ op'.attempt = a /\ op'.step = "admitted" /\ lock' = "held"
      BY <1>4, <2>3, <3>1, OperationShape DEF AdmitDeploy
    <3>3. files.current = previous[a]
      BY <2>3 DEF DeployAdmissible, CurrentMatches
    <3>. QED
      BY <2>1, <2>2, <2>3, <3>2, <3>3 DEF RunningInv, DeployRuns, Running, Resolvers
  <2>4. CASE ~(lock = "free" /\ DeployAdmissible(a))
    <3>1. UNCHANGED <<lock, op>>
      BY <1>4, <2>4 DEF AdmitDeploy
    <3>. QED
      BY <2>1, <2>2, <3>1 DEF RunningInv, DeployRuns, ResolverRuns, RollbackRuns, Running
  <2>. QED
    BY <2>3, <2>4
<1>5. ASSUME NEW a \in DeployAttempts, VerifyAndProbe(a)
      PROVE  RunningInv'
  BY <1>5
     DEF VerifyAndProbe, RunningInv, DeployRuns, ResolverRuns, RollbackRuns, Running, Begun,
         DeployTypes, DeployTypeOK, Resolvers, hostVars, attemptVars
<1>6. ASSUME NEW a \in DeployAttempts, Accept(a)
      PROVE  RunningInv'
  BY <1>6
     DEF Accept, RunningInv, DeployRuns, ResolverRuns, RollbackRuns, Running, Begun,
         DeployTypes, DeployTypeOK, Resolvers, hostVars, attemptVars
<1>7. ASSUME NEW a \in DeployAttempts, AcceptFails(a)
      PROVE  RunningInv'
  BY <1>7
     DEF AcceptFails, RunningInv, DeployRuns, ResolverRuns, RollbackRuns, Running, Begun,
         DeployTypes, DeployTypeOK, Resolvers, hostVars, attemptVars
<1>8. ASSUME NEW a \in DeployAttempts, RunnerLost(a)
      PROVE  RunningInv'
  BY <1>8
     DEF RunnerLost, RunningInv, DeployRuns, ResolverRuns, RollbackRuns, Running, Begun,
         DeployTypes, DeployTypeOK, Resolvers, hostVars, attemptVars
<1>9. ASSUME NEW a \in DeployAttempts, Quiesce(a)
      PROVE  RunningInv'
  <2>1. op'.kind = op.kind /\ op'.attempt = op.attempt /\ op'.to = op.to
       /\ op'.step = "quiesced" /\ lock' = lock
    BY <1>9, <1>1, GotoKeeps, StepNames DEF Quiesce, DeployStep, OpAt
  <2>. QED
    BY <1>9, <2>1
       DEF Quiesce, DeployStep, OpAt, RunningInv, DeployRuns, ResolverRuns, RollbackRuns,
           Running, Begun, DeployTypes, DeployTypeOK, Resolvers, hostVars, attemptVars
<1>10. ASSUME NEW a \in DeployAttempts, Migrate(a)
      PROVE  RunningInv'
  <2>1. op'.kind = op.kind /\ op'.attempt = op.attempt /\ op'.to = op.to
       /\ op'.step = "migrated" /\ lock' = lock
    BY <1>10, <1>1, GotoKeeps, StepNames DEF Migrate, DeployStep, OpAt
  <2>. QED
    BY <1>10, <2>1
       DEF Migrate, DeployStep, OpAt, RunningInv, DeployRuns, ResolverRuns, RollbackRuns,
           Running, Begun, DeployTypes, DeployTypeOK, Resolvers, hostVars, attemptVars
<1>11. ASSUME NEW a \in DeployAttempts, StartCandidate(a)
      PROVE  RunningInv'
  <2>1. op'.kind = op.kind /\ op'.attempt = op.attempt /\ op'.to = op.to
       /\ op'.step = "started" /\ lock' = lock
    BY <1>11, <1>1, GotoKeeps, StepNames DEF StartCandidate, DeployStep, OpAt
  <2>. QED
    BY <1>11, <2>1
       DEF StartCandidate, DeployStep, OpAt, RunningInv, DeployRuns, ResolverRuns, RollbackRuns,
           Running, Begun, DeployTypes, DeployTypeOK, Resolvers, hostVars, attemptVars
<1>12. ASSUME NEW a \in DeployAttempts, VerifyCurrentDeployment(a)
      PROVE  RunningInv'
  <2>1. /\ op'.kind = op.kind /\ op'.attempt = op.attempt /\ op'.to = op.to
        /\ op'.step = "verified" /\ lock' = lock
    BY <1>12, <1>1, GotoKeeps, StepNames DEF VerifyCurrentDeployment, DeployStep, OpAt
  <2>2. Running \subseteq {candidate[a]} /\ op.kind = "deploy" /\ op.attempt = a
    BY <1>12 DEF VerifyCurrentDeployment, DeployStep, OpAt, Running, Both
  <2>3. UNCHANGED <<files, up, runner, candidate, previous, hostFaults>>
    BY <1>12 DEF VerifyCurrentDeployment, DeployStep, hostVars
  <2>. QED
    BY <2>1, <2>2, <2>3 DEF RunningInv, DeployRuns, Running, Resolvers, DeployTypes, DeployTypeOK
<1>13. ASSUME NEW a \in DeployAttempts, RecordPending(a)
      PROVE  RunningInv'
  <2>1. op'.kind = op.kind /\ op'.attempt = op.attempt /\ op'.to = op.to
       /\ op'.step = "pending" /\ lock' = lock
    BY <1>13, <1>1, GotoKeeps, StepNames DEF RecordPending, DeployStep, OpAt
  <2>. QED
    BY <1>13, <2>1
       DEF RecordPending, DeployStep, OpAt, RunningInv, DeployRuns, ResolverRuns, RollbackRuns,
           Running, Begun, DeployTypes, DeployTypeOK, Resolvers, hostVars, attemptVars
<1>14. ASSUME NEW a \in DeployAttempts, RecordLease(a)
      PROVE  RunningInv'
  <2>1. op'.kind = op.kind /\ op'.attempt = op.attempt /\ op'.to = op.to
       /\ op'.step = "leased" /\ lock' = lock
    BY <1>14, <1>1, GotoKeeps, StepNames DEF RecordLease, DeployStep, OpAt
  <2>. QED
    BY <1>14, <2>1
       DEF RecordLease, DeployStep, OpAt, RunningInv, DeployRuns, ResolverRuns, RollbackRuns,
           Running, Begun, DeployTypes, DeployTypeOK, Resolvers, hostVars, attemptVars
<1>15. ASSUME NEW a \in DeployAttempts, LaunchWatchdog(a)
      PROVE  RunningInv'
  <2>1. op'.kind = op.kind /\ op'.attempt = op.attempt /\ op'.to = op.to
       /\ op'.step = "watched" /\ lock' = lock
    BY <1>15, <1>1, GotoKeeps, StepNames DEF LaunchWatchdog, DeployStep, OpAt
  <2>. QED
    BY <1>15, <2>1
       DEF LaunchWatchdog, DeployStep, OpAt, RunningInv, DeployRuns, ResolverRuns, RollbackRuns,
           Running, Begun, DeployTypes, DeployTypeOK, Resolvers, hostVars, attemptVars
<1>16. ASSUME NEW a \in DeployAttempts, CommitCandidate(a)
      PROVE  RunningInv'
  <2>1. op'.kind = "none" /\ lock' = "free"
    BY <1>16, NoOperationShape DEF CommitCandidate, Release
  <2>2. files'.current = candidate[a] /\ UNCHANGED <<up, candidate, previous, hostFaults>>
    BY <1>16, RecordedCurrent DEF CommitCandidate
  <2>3. \A b \in DeployAttempts : runner'[b] # "unused" => candidate[b] # previous[b]
    BY <1>16 DEF CommitCandidate, RunningInv, DeployTypes, DeployTypeOK
  <2>4. hostFaults = 0 => Running \subseteq {candidate[a]}
    BY <1>16 DEF CommitCandidate, OpAt, RunningInv, DeployRuns
  <2>. QED
    BY <2>1, <2>2, <2>3, <2>4 DEF RunningInv, Running, Resolvers
<1>17. ASSUME NEW a \in DeployAttempts, DeployFails(a)
      PROVE  RunningInv'
  <2>1. op'.kind = "none" /\ lock' = "free"
    BY <1>17, NoOperationShape DEF DeployFails, Release
  <2>2. UNCHANGED <<files, candidate, previous, hostFaults>>
    BY <1>17 DEF DeployFails
  <2>3. \A b \in DeployAttempts : runner'[b] # "unused" => candidate[b] # previous[b]
    BY <1>17 DEF DeployFails, RunningInv, DeployTypes, DeployTypeOK, Begun
  <2>4. ASSUME hostFaults = 0
        PROVE  Running' \subseteq {files.current}
    <3>1. op.kind = "deploy" /\ op.attempt = a /\ files.current = previous[a]
      BY <1>17, <2>4 DEF DeployFails, RunningInv, DeployRuns
    <3>2. CASE op.step = "admitted"
      <4>1. up' \in {up, [up EXCEPT !.private = Down]} /\ Running \subseteq {previous[a]}
        BY <1>17, <2>4, <3>1, <3>2 DEF DeployFails, RuntimesAfterExit, RunningInv, DeployRuns
      <4>2. up'.app = up.app /\ up'.private \in {up.private, Down}
        BY <4>1, FleetShape DEF DeployTypes, DeployTypeOK
      <4>. QED
        BY <3>1, <4>1, <4>2 DEF Running
    <3>3. CASE op.step \in {"quiesced", "migrated"}
      <4>1. up' = up /\ Running \subseteq {previous[a]}
        BY <1>17, <2>4, <3>1, <3>3 DEF DeployFails, RuntimesAfterExit, RunningInv, DeployRuns
      <4>. QED
        BY <3>1, <4>1 DEF Running
    <3>4. CASE op.step \notin {"admitted", "quiesced", "migrated"}
      <4>1. up' \in ClosedOrPublicOnly(previous[a])
        BY <1>17, <3>4 DEF DeployFails, RuntimesAfterExit
      <4>. QED
        BY <3>1, <4>1 DEF ClosedOrPublicOnly, Both, Running
    <3>. QED
      BY <3>2, <3>3, <3>4
  <2>. QED
    BY <2>1, <2>2, <2>3, <2>4 DEF RunningInv, Resolvers
<1>18. ASSUME NEW a \in DeployAttempts, NEW k \in Resolvers, RejectCloses(a, k)
      PROVE  RunningInv'
  <2>1. op.kind = k /\ op.attempt = a /\ op.step = "armed"
    BY <1>18 DEF RejectCloses, OpAt
  <2>2. UNCHANGED <<files, candidate, previous, hostFaults>>
    BY <1>18 DEF RejectCloses
  <2>3. \A b \in DeployAttempts : runner'[b] # "unused" => candidate[b] # previous[b]
    BY <1>18, <2>1 DEF RejectCloses, ResolverEnds, RunningInv, DeployTypes, DeployTypeOK, Begun
  <2>4. hostFaults = 0 => Running' = {} /\ op.to = previous[a]
    BY <1>18, <2>1, RunningWithout
       DEF RejectCloses, CloseApplicationRuntimes, RunningInv, ResolverRuns
  <2>5. CASE RuntimesKnown(a)
    <3>1. OpGoto("closed")
      BY <1>18, <2>5 DEF RejectCloses
    <3>2. /\ op'.kind = op.kind /\ op'.attempt = op.attempt /\ op'.to = op.to
          /\ op'.step = "closed" /\ lock' = lock
      BY <1>1, <3>1, GotoKeeps, StepNames
    <3>. QED
      BY <2>1, <2>2, <2>3, <2>4, <3>2
         DEF RunningInv, ResolverRuns, Resolvers, DeployTypes, DeployTypeOK
  <2>6. CASE ~RuntimesKnown(a)
    <3>1. op'.kind = "none" /\ lock' = "free"
      BY <1>18, <2>6, NoOperationShape DEF RejectCloses, Release
    <3>. QED
      BY <2>2, <2>3, <2>4, <3>1 DEF RunningInv, Resolvers
  <2>. QED
    BY <2>5, <2>6
<1>19. ASSUME NEW a \in DeployAttempts, NEW k \in Resolvers, RejectRestores(a, k)
      PROVE  RunningInv'
  <2>1. /\ op'.kind = op.kind /\ op'.attempt = op.attempt /\ op'.to = op.to
        /\ op'.step = "restored" /\ lock' = lock
    BY <1>19, <1>1, GotoKeeps, StepNames DEF RejectRestores, OpAt
  <2>2. UNCHANGED <<files, runner, candidate, previous, hostFaults>> /\ op.kind = k /\ op.attempt = a
    BY <1>19 DEF RejectRestores, OpAt, attemptVars
  <2>3. Running' \subseteq {op.to}
    BY <1>19, RunningOfBoth DEF RejectRestores
  <2>. QED
    BY <2>1, <2>2, <2>3 DEF RunningInv, ResolverRuns, Resolvers, DeployTypes, DeployTypeOK
<1>20. ASSUME NEW a \in DeployAttempts, NEW k \in Resolvers, RejectFails(a, k)
      PROVE  RunningInv'
  <2>1. op'.kind = "none" /\ lock' = "free"
    BY <1>20, NoOperationShape DEF RejectFails, Release
  <2>2. op.kind = k /\ op.attempt = a /\ op.step \in {"armed", "closed", "restored"}
    BY <1>20 DEF RejectFails, OpAt
  <2>3. UNCHANGED <<files, candidate, previous, hostFaults>>
    BY <1>20 DEF RejectFails
  <2>4. \A b \in DeployAttempts : runner'[b] # "unused" => candidate[b] # previous[b]
    BY <1>20, <2>2 DEF RejectFails, ResolverEnds, RunningInv, DeployTypes, DeployTypeOK, Begun
  <2>5. hostFaults = 0 => Running \subseteq {candidate[a], previous[a]}
    BY <2>2 DEF RunningInv, ResolverRuns
  <2>6. hostFaults = 0 => Running' = {}
    BY <1>20, <2>5, RunningWithout DEF RejectFails, CloseApplicationRuntimes
  <2>. QED
    BY <2>1, <2>3, <2>4, <2>6 DEF RunningInv, Resolvers
<1>21. ASSUME NEW a \in DeployAttempts, NEW k \in Resolvers, RejectCommits(a, k)
      PROVE  RunningInv'
  <2>1. op'.kind = "none" /\ lock' = "free"
    BY <1>21, NoOperationShape DEF RejectCommits, Release
  <2>2. op.kind = k /\ op.attempt = a /\ op.step = "restored"
    BY <1>21 DEF RejectCommits, OpAt
  <2>3. files'.current = op.to /\ UNCHANGED <<up, candidate, previous, hostFaults>>
    BY <1>21, RecordedCurrent DEF RejectCommits
  <2>4. \A b \in DeployAttempts : runner'[b] # "unused" => candidate[b] # previous[b]
    BY <1>21, <2>2 DEF RejectCommits, ResolverEnds, RunningInv, DeployTypes, DeployTypeOK, Begun
  <2>5. hostFaults = 0 => Running \subseteq {op.to}
    BY <2>2 DEF RunningInv, ResolverRuns
  <2>. QED
    BY <2>1, <2>3, <2>4, <2>5 DEF RunningInv, Running, Resolvers
<1>22. ASSUME RollbackStarts
      PROVE  RunningInv'
  <2>1. /\ op'.kind = "rollback" /\ op'.to = op.to /\ op'.step = "restored" /\ lock' = lock
    BY <1>22, <1>1, GotoKeeps, StepNames DEF RollbackStarts, OpAt
  <2>2. UNCHANGED <<files, runner, candidate, previous, hostFaults>> /\ op.kind = "rollback"
    BY <1>22 DEF RollbackStarts, OpAt, attemptVars
  <2>3. Running' \subseteq {op.to}
    BY <1>22, RunningOfBoth DEF RollbackStarts
  <2>. QED
    BY <2>1, <2>2, <2>3 DEF RunningInv, RollbackRuns, Resolvers, DeployTypes, DeployTypeOK
<1>23. ASSUME RollbackCommits
      PROVE  RunningInv'
  <2>1. op'.kind = "none" /\ lock' = "free"
    BY <1>23, NoOperationShape DEF RollbackCommits, Release
  <2>2. op.kind = "rollback" /\ op.step = "restored"
    BY <1>23 DEF RollbackCommits, OpAt
  <2>3. files'.current = op.to /\ UNCHANGED <<up, runner, candidate, previous, hostFaults>>
    BY <1>23, RecordedCurrent DEF RollbackCommits, attemptVars
  <2>. QED
    BY <2>1, <2>2, <2>3 DEF RunningInv, RollbackRuns, Running, Resolvers
<1>24. ASSUME RollbackFails
      PROVE  RunningInv'
  <2>1. op'.kind = "none" /\ lock' = "free"
    BY <1>24, NoOperationShape DEF RollbackFails, Release
  <2>2. UNCHANGED <<files, runner, candidate, previous, hostFaults>>
    BY <1>24 DEF RollbackFails, attemptVars
  <2>3. CASE op.step = "admitted" /\ UNCHANGED up
    BY <1>24, <2>1, <2>2, <2>3 DEF RollbackFails, RunningInv, RollbackRuns, Running, Resolvers
  <2>4. CASE up' \in {Both(files.current), Both(Down)}
    <3>1. Running' \subseteq {files.current}
      BY <2>4, RunningOfBoth
    <3>. QED
      BY <2>1, <2>2, <3>1 DEF RunningInv, Resolvers
  <2>. QED
    BY <1>24, <2>3, <2>4 DEF RollbackFails
<1>25. ASSUME NEW a \in DeployAttempts, Retire(a)
      PROVE  RunningInv'
  BY <1>25
     DEF Retire, RunningInv, DeployRuns, ResolverRuns, RollbackRuns, Running, Begun,
         DeployTypes, DeployTypeOK, Resolvers, hostVars, attemptVars
<1>26. ASSUME NEW a \in DeployAttempts, DeadlinePasses(a)
      PROVE  RunningInv'
  BY <1>26
     DEF DeadlinePasses, RunningInv, DeployRuns, ResolverRuns, RollbackRuns, Running, Begun,
         DeployTypes, DeployTypeOK, Resolvers, hostVars, attemptVars
<1>27. ASSUME NEW a \in DeployAttempts, NEW k \in Resolvers, ResolveAtOnce(a, k)
      PROVE  RunningInv'
  <2>1. UNCHANGED <<files, candidate, previous, hostFaults, lock, op>> /\ lock = "free"
    BY <1>27 DEF ResolveAtOnce
  <2>2. \A b \in DeployAttempts : runner'[b] # "unused" => candidate[b] # previous[b]
    BY <1>27 DEF ResolveAtOnce, Asks, ResolverEnds, RunningInv, DeployTypes, DeployTypeOK, Begun
  <2>3. Running' \subseteq Running
    <3>1. up' \in {up, CloseApplicationRuntimes(a), RemoveUncommittedCandidate(a)}
      BY <1>27 DEF ResolveAtOnce, AfterCapabilityLoss
    <3>. QED
      BY <3>1, RunningWithout DEF CloseApplicationRuntimes, RemoveUncommittedCandidate, Running
  <2>4. op.kind = "none"
    BY <2>1 DEF DeployTypes, DeployTypeOK
  <2>. QED
    BY <2>1, <2>2, <2>3, <2>4 DEF RunningInv, Resolvers
<1>28. ASSUME NEW a \in DeployAttempts, NEW k \in Resolvers, RejectPending(a, k)
      PROVE  RunningInv'
  <2>1. /\ UNCHANGED <<files, candidate, previous, hostFaults>> /\ lock = "free"
        /\ Begun(a) /\ previous[a] \in Revisions
    BY <1>28 DEF RejectPending, Asks, Begun, DeployTypes, DeployTypeOK
  <2>2. CASE Armed(a) /\ Preflight(a)
    <3>1. op' = Operation(k, a, previous[a], "armed") /\ lock' = "held" /\ UNCHANGED <<up, runner>>
      BY <1>28, <2>2 DEF RejectPending
    <3>2. k \in {"deploy", "rollback"} \cup Resolvers /\ a \in DeployAttempts \cup {0}
      OBVIOUS
    <3>3. LET o == Operation(k, a, previous[a], "armed")
          IN  o.kind = k /\ o.attempt = a /\ o.to = previous[a] /\ o.step = "armed"
      BY <2>1, <3>2, OperationShape
    <3>4. op'.kind = k /\ op'.attempt = a /\ op'.to = previous[a] /\ op'.step = "armed"
      BY <3>1, <3>3
    <3>5. files.current \in {candidate[a], previous[a]}
      BY <2>2 DEF Armed, CurrentMatches
    <3>6. hostFaults = 0 => Running \subseteq {candidate[a], previous[a]}
      BY <2>1, <3>5 DEF RunningInv
    <3>. QED
      BY <2>1, <3>1, <3>4, <3>6 DEF RunningInv, ResolverRuns, Running, Resolvers
  <2>3. CASE ~(Armed(a) /\ Preflight(a))
    <3>1. UNCHANGED <<lock, op>> /\ up' \in {up, CloseApplicationRuntimes(a)} /\ ResolverEnds(a, k)
      BY <1>28, <2>3 DEF RejectPending
    <3>2. \A b \in DeployAttempts : runner'[b] # "unused" => candidate[b] # previous[b]
      BY <2>1, <3>1 DEF ResolverEnds, RunningInv, DeployTypes, DeployTypeOK, Begun
    <3>3. Running' \subseteq Running
      BY <3>1, RunningWithout DEF CloseApplicationRuntimes, Running
    <3>4. op.kind = "none"
      BY <2>1 DEF DeployTypes, DeployTypeOK
    <3>. QED
      BY <2>1, <3>1, <3>2, <3>3, <3>4 DEF RunningInv, Resolvers
  <2>. QED
    BY <2>2, <2>3
<1>29. ASSUME NEW a \in DeployAttempts, AcceptKilled(a)
      PROVE  RunningInv'
  <2>1. hostFaults' # 0
    BY <1>29, FaultsAreCounted DEF AcceptKilled
  <2>2. \A b \in DeployAttempts : runner'[b] # "unused" => candidate'[b] # previous'[b]
    BY <1>29 DEF AcceptKilled, RunningInv, DeployTypes, DeployTypeOK
  <2>. QED
    BY <2>1, <2>2 DEF RunningInv
<1>30. ASSUME NEW a \in DeployAttempts, WatchdogDies(a)
      PROVE  RunningInv'
  <2>1. UNCHANGED <<files, up, lock, op, runner, candidate, previous>>
    BY <1>30 DEF WatchdogDies, hostVars
  <2>2. hostFaults' # 0 \/ hostFaults' = hostFaults
    BY <1>30, FaultsAreCounted DEF WatchdogDies
  <2>. QED
    BY <2>1, <2>2 DEF RunningInv, DeployRuns, ResolverRuns, RollbackRuns, Running
<1>31. ASSUME NEW a \in DeployAttempts, DeployCleanupFails(a)
      PROVE  RunningInv'
  <2>1. hostFaults' # 0
    BY <1>31, FaultsAreCounted DEF DeployCleanupFails
  <2>2. \A b \in DeployAttempts : runner'[b] # "unused" => candidate'[b] # previous'[b]
    BY <1>31 DEF DeployCleanupFails, RunningInv, DeployTypes, DeployTypeOK, Begun
  <2>. QED
    BY <2>1, <2>2 DEF RunningInv
<1>32. ASSUME NEW r \in Revisions, RollbackAdmitted(r)
      PROVE  RunningInv'
  <2>1. op'.kind = "rollback" /\ op'.step = "admitted"
    BY <1>32, OperationShape DEF RollbackAdmitted
  <2>2. lock = "free" /\ lock' = "held" /\ UNCHANGED <<files, up, runner, candidate, previous, hostFaults>>
    BY <1>32 DEF RollbackAdmitted, hostVars, attemptVars
  <2>. QED
    BY <2>1, <2>2 DEF RunningInv, RollbackRuns, Running, Resolvers
<1>33. ASSUME HardKill
      PROVE  RunningInv'
  <2>1. hostFaults' # 0
    BY <1>33, FaultsAreCounted DEF HardKill
  <2>2. \A b \in DeployAttempts : runner'[b] # "unused" => candidate'[b] # previous'[b]
    BY <1>33 DEF HardKill, RunningInv, DeployTypes, DeployTypeOK, Begun, Resolvers
  <2>. QED
    BY <2>1, <2>2 DEF RunningInv
<1>34. ASSUME DamageRecord
      PROVE  RunningInv'
  <2>1. hostFaults' # 0
    BY <1>34, FaultsAreCounted DEF DamageRecord
  <2>. QED
    BY <1>34, <2>1 DEF DamageRecord, RunningInv, attemptVars
<1>35. ASSUME ClearStaleLock
      PROVE  RunningInv'
  BY <1>35
     DEF ClearStaleLock, RunningInv, DeployRuns, ResolverRuns, RollbackRuns, Running, Begun,
         DeployTypes, DeployTypeOK, Resolvers, hostVars, attemptVars
<1>36. CASE UNCHANGED deployVars
  BY <1>36
     DEF deployVars, RunningInv, DeployRuns, ResolverRuns, RollbackRuns, Running, hostVars,
         attemptVars
<1>. QED
  BY <1>3, <1>4, <1>5, <1>6, <1>7, <1>8, <1>9, <1>10, <1>11, <1>12, <1>13, <1>14, <1>15, <1>16,
     <1>17, <1>18, <1>19, <1>20, <1>21, <1>22, <1>23, <1>24, <1>25, <1>26, <1>27, <1>28, <1>29,
     <1>30, <1>31, <1>32, <1>33, <1>34, <1>35, <1>36
     DEF DeployNext, HolderStep, RunnerStep, DeployScriptStep, ResolverStep, WatchdogResolves, Resolvers

(* Verdicts are given by an acceptance and at the end of a rejection. *)
LEMMA VerdictsAreDecided ==
  ASSUME DeployNext
  PROVE  \/ verdict' = verdict
         \/ \E a \in DeployAttempts : Accept(a) \/ AcceptKilled(a)
         \/ \E a \in DeployAttempts, k \in Resolvers : RejectCommits(a, k)
<1>1. ASSUME NEW a \in DeployAttempts, RunnerStep(a), ~Accept(a)
      PROVE  verdict' = verdict
  BY <1>1 DEF RunnerStep, CaptureRollbackGuard, AdmitDeploy, VerifyAndProbe, AcceptFails, RunnerLost
<1>2. ASSUME NEW a \in DeployAttempts, DeployScriptStep(a)
      PROVE  verdict' = verdict
  BY <1>2
     DEF DeployScriptStep, DeployStep, Quiesce, Migrate, StartCandidate,
         VerifyCurrentDeployment,
              RecordPending, RecordLease, LaunchWatchdog, CommitCandidate, DeployFails
<1>3. ASSUME NEW a \in DeployAttempts, NEW k \in Resolvers, ResolverStep(a, k), ~RejectCommits(a, k)
      PROVE  verdict' = verdict
  BY <1>3 DEF ResolverStep, RejectCloses, RejectRestores, RejectFails, attemptVars
<1>4. ASSUME NEW a \in DeployAttempts, NEW k \in Resolvers, ResolveAtOnce(a, k) \/ RejectPending(a, k)
      PROVE  verdict' = verdict
  BY <1>4 DEF ResolveAtOnce, RejectPending
<1>5. ASSUME NEW a \in DeployAttempts,
             Retire(a) \/ DeadlinePasses(a) \/ WatchdogDies(a) \/ DeployCleanupFails(a)
      PROVE  verdict' = verdict
  BY <1>5 DEF Retire, DeadlinePasses, WatchdogDies, DeployCleanupFails
<1>6. ASSUME \/ RollbackStarts \/ RollbackCommits \/ RollbackFails
             \/ HardKill \/ DamageRecord \/ ClearStaleLock
             \/ \E r \in Revisions : RollbackAdmitted(r)
      PROVE  verdict' = verdict
  BY <1>6
     DEF RollbackStarts, RollbackCommits, RollbackFails, HardKill, DamageRecord, ClearStaleLock,
              RollbackAdmitted, attemptVars
<1>. QED
  BY <1>1, <1>2, <1>3, <1>4, <1>5, <1>6 DEF DeployNext, HolderStep, WatchdogResolves, Resolvers

(* Neither decides an attempt again. *)
LEMMA DecidedOnce ==
  ASSUME DeployTypes, VerdictInv, DeployNext, NEW a \in DeployAttempts, verdict[a] # "none"
  PROVE  verdict'[a] = verdict[a]
<1>1. CASE verdict' = verdict
  BY <1>1
<1>2. ASSUME NEW b \in DeployAttempts, Accept(b) \/ AcceptKilled(b)
      PROVE  verdict'[a] = verdict[a]
  <2>1. verdict' = [verdict EXCEPT ![b] = "accepted"]
    BY <1>2 DEF Accept, AcceptKilled
  <2>2. verdict[b] # "rejected"
    BY <1>2 DEF Accept, AcceptKilled, AcceptIdempotent, AcceptFresh, VerdictInv
  <2>. QED
    BY <2>1, <2>2 DEF DeployTypes, DeployTypeOK
<1>3. ASSUME NEW b \in DeployAttempts, NEW k \in Resolvers, RejectCommits(b, k)
      PROVE  verdict'[a] = verdict[a]
  <2>1. verdict' = [verdict EXCEPT ![b] = "rejected"] /\ op.kind = k /\ op.attempt = b
    BY <1>3 DEF RejectCommits, OpAt
  <2>2. verdict[b] # "accepted"
    BY <2>1 DEF VerdictInv
  <2>. QED
    BY <2>1, <2>2 DEF DeployTypes, DeployTypeOK
<1>. QED
  BY <1>1, <1>2, <1>3, VerdictsAreDecided

(* With the lock free, only a resolver that decides at once changes the files  *)
(* or what runs.                                                                *)
LEMMA FreeLockChanges ==
  ASSUME DeployTypes, DeployNext, lock = "free"
  PROVE  \/ UNCHANGED <<files, up>>
         \/ \E a \in DeployAttempts, k \in Resolvers : ResolveAtOnce(a, k) \/ RejectPending(a, k)
<1> op.kind = "none"
  BY DEF DeployTypes, DeployTypeOK
<1>1. ASSUME HolderStep
      PROVE  FALSE
  BY <1>1 DEF HolderStep, DeployScriptStep, ResolverStep, DeployStep, OpAt, Quiesce, Migrate,
     StartCandidate, VerifyCurrentDeployment, RecordPending, RecordLease, LaunchWatchdog, CommitCandidate,
     DeployFails, RejectCloses, RejectRestores, RejectFails, RejectCommits, RollbackStarts,
     RollbackCommits, RollbackFails, Resolvers
<1>2. ASSUME NEW a \in DeployAttempts, RunnerStep(a)
      PROVE  UNCHANGED <<files, up>>
  BY <1>2
     DEF RunnerStep, CaptureRollbackGuard, AdmitDeploy, VerifyAndProbe, Accept, AcceptFails,
         RunnerLost,
              hostVars
<1>3. ASSUME NEW a \in DeployAttempts,
             Retire(a) \/ DeadlinePasses(a) \/ WatchdogDies(a) \/ DeployCleanupFails(a) \/ AcceptKilled(a)
      PROVE  UNCHANGED <<files, up>>
  BY <1>3 DEF Retire, DeadlinePasses, WatchdogDies, DeployCleanupFails, AcceptKilled, hostVars
<1>4. ASSUME \/ HardKill \/ DamageRecord \/ ClearStaleLock
             \/ \E r \in Revisions : RollbackAdmitted(r)
      PROVE  UNCHANGED <<files, up>>
  BY <1>4 DEF HardKill, DamageRecord, ClearStaleLock, RollbackAdmitted, hostVars
<1>. QED
  BY <1>1, <1>2, <1>3, <1>4 DEF DeployNext, WatchdogResolves, Resolvers

(* An uncommitted candidate has no container when the lock is free. *)
LEMMA NothingToRemove ==
  ASSUME DeployTypes, RunningInv, hostFaults = 0, lock = "free", NEW a \in DeployAttempts,
         runner[a] # "unused", CurrentMatches(previous[a])
  PROVE  RemoveUncommittedCandidate(a) = up
<1>1. Running \subseteq {previous[a]} /\ candidate[a] # previous[a] /\ candidate[a] # Down
  BY DeployRanges DEF RunningInv, CurrentMatches, DeployTypes, DeployTypeOK
<1>2. up.app # candidate[a] /\ up.private # candidate[a]
  BY <1>1 DEF Running
<1>. QED
  BY <1>2 DEF RemoveUncommittedCandidate, Without, DeployTypes, DeployTypeOK, Containers

(* What a superseded resolver changes is its own committed candidate's. *)
LEMMA SupersededKeeps ==
  ASSUME DeployInv, DeployNext, hostFaults' = 0, NEW a \in DeployAttempts, ResolverActs(a), pending # a
  PROVE  OwnsHighWater(a)
<1> USE DEF DeployInv
<1>1. hostFaults = 0
  BY FaultsAreMonotonic
<1>2. PICK k \in Resolvers : Asks(a, k) /\ lock = "free" /\ ~Asks(a, k)'
  BY DEF ResolverActs, VerdictInv
<1>3. PICK b \in DeployAttempts, j \in Resolvers : ResolveAtOnce(b, j) \/ RejectPending(b, j)
  BY <1>2, FreeLockChanges DEF ResolverActs
<1>4. b = a
  <2> SUFFICES ASSUME b # a PROVE FALSE
    OBVIOUS
  <2>1. runner'[a] = runner[a] /\ watchdog'[a] = watchdog[a]
    BY <1>3 DEF ResolveAtOnce, RejectPending, ResolverEnds, DeployTypes, DeployTypeOK
  <2>. QED
    BY <1>2, <2>1 DEF Asks
<1>5. ResolveAtOnce(a, j)
  BY <1>3, <1>4 DEF RejectPending
<1>6. up' # up /\ up' = AfterCapabilityLoss(a)
  BY <1>5 DEF ResolveAtOnce, ResolverActs
<1>7. runner[a] # "unused"
  BY <1>2 DEF Asks, DeployTypes, Begun
<1>. QED
  BY <1>1, <1>2, <1>6, <1>7, NothingToRemove DEF AfterCapabilityLoss

LEMMA DeployInvHolds == DeploySpec => DeployInit /\ [][DeployNext]_deployVars /\ []DeployInv
<1>1. DeploySpec => DeployInit /\ [][DeployNext]_deployVars
  BY DEF DeploySpec
<1>2. DeployInit => DeployInv
  BY DeployInvInitially
<1>3. DeployInv /\ [DeployNext]_deployVars => DeployInv'
  BY DeployTypesGoOn, VerdictsGoOn, RunningGoesOn DEF DeployInv
<1>. QED
  BY <1>1, <1>2, <1>3, PTL

(* The variables of the deployment have their types, and the lock is held      *)
(* exactly while an operation is under way.                                     *)
THEOREM DeploymentTypes == DeploySpec => []DeployTypeOK
<1>1. DeployInv => DeployTypeOK
  BY DEF DeployInv, DeployTypes
<1>. QED
  BY <1>1, DeployInvHolds, PTL

(* On a host without faults, when no operation is under way and nothing is     *)
(* pending, nothing runs but the committed revision, whatever deploys, rejects  *)
(* and rollbacks failed before.                                                 *)
THEOREM OnlyTheCommittedRuns == DeploySpec => []RunningIsCommitted
<1>1. DeployInv => RunningIsCommitted
  BY DEF DeployInv, RunningInv, RunningIsCommitted
<1>. QED
  BY <1>1, DeployInvHolds, PTL

(* An attempt is accepted or rejected once, in whatever order the workflow's   *)
(* acceptance, its lost answer, the deadline and the watchdog come, and whatever *)
(* is killed or damaged.                                                         *)
THEOREM AttemptsAreDecidedOnce == DeploySpec => OneVerdict
<1>1. DeployInv /\ [DeployNext]_deployVars
        => [\A a \in DeployAttempts : verdict[a] # "none" => verdict'[a] = verdict[a]]_deployVars
  BY DecidedOnce DEF DeployInv
<1>. QED
  BY <1>1, DeployInvHolds, PTL DEF OneVerdict

(* A resolver that finds another attempt in the place of its own, or none,      *)
(* takes nothing down and commits nothing, unless its candidate is what is       *)
(* committed and owns the high-water mark.                                       *)
THEOREM SupersededResolversLeaveAlone == DeploySpec => SupersededLeavesAlone
<1>1. DeployInv /\ [DeployNext]_deployVars
        => [\A a \in DeployAttempts :
              hostFaults' = 0 /\ ResolverActs(a) /\ pending # a => OwnsHighWater(a)]_deployVars
  BY SupersededKeeps
<1>. QED
  BY <1>1, DeployInvHolds, PTL DEF SupersededLeavesAlone

=============================================================================
