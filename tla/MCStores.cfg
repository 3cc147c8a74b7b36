SPECIFICATION StoresSpec
CONSTANTS
  \* TripStore
  Tab = {a, b}
  Trip = {t1, t2}
  NoTrip = none
  Item = {i1, i2}
  Corrupting = TRUE
  \* ShellCache
  ShellBuild = {A, B}
  NWorker = 2
  MaxDeploys = 1
  MaxShellFaults = 1
  \* CaptureStore, CaptureBackup
  Publication = {P}
  Checksum = {x, y}
  CaptureWriter = {w1, w2}
  MaxCaptureFaults = 1
  BackupRun = {k1}
  \* RestoreDrill
  Backup = {d1, d2}
  RestoreRun = {v1, v2, v3}
  MaxRestoreFaults = 2
INVARIANTS
  NoTickIsLost
  OfflineProofHolds
  RetiredCachesAreGone
  RecordedCapturesSurvive
  PublishedBackupIsWhole
  RestoresAreWhole
PROPERTIES
  TripsDoNotReturn
CHECK_DEADLOCK FALSE
