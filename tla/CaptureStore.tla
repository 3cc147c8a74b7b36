---------------------------- MODULE CaptureStore ----------------------------
(***************************************************************************)
(* Captures of official offers: the pipeline that stores a captured file   *)
(* under its checksum and then records it in the database                  *)
(* (apps/worker/src/official-offer-foundation.ts), and the private blob    *)
(* store it writes to (apps/worker/src/private-offer-blob-store.ts).       *)
(*                                                                         *)
(* Two writers may hold the same capture.  A file appears in steps: a      *)
(* temporary name, a second link under the final name, the removal of the  *)
(* temporary one, the sync of the directories.  A writer may be ended, and *)
(* the host may lose power, between any two; what no sync has confirmed    *)
(* may then be gone.                                                       *)
(***************************************************************************)
EXTENDS Naturals, FiniteSets

CONSTANTS
  Publication,   \* publications, each with a directory of its own
  Checksum,      \* contents of captured files
  CaptureWriter, \* worker processes
  MaxCaptureFaults  \* bound: ended writers, power losses, withdrawn permissions

ASSUME CaptureAssumption == MaxCaptureFaults \in Nat

Blob == Publication \X Checksum

VARIABLES
  allowed,       \* whether the source grants captures
  capture,       \* step and capture of each writer
  final,         \* the file under the final name: none, linked, durable
  litter,        \* temporary names that no writer will remove
  rows,          \* publication_captures
  lost,          \* files removed by hand
  touched,       \* directories changed since a backup last looked
  captureFaults  \* bound

captureVars == <<allowed, capture, final, litter, rows, lost, touched, captureFaults>>

(* The final name, and a temporary name that links to the same file.       *)
FileState == {"none", "linked", "durable"}
TempKind == {"loose", "linked"}
CaptureStep == {"idle", "edition", "look", "link", "unlink", "sync", "check", "compete", "record"}
NoCapture == [step |-> "idle"]

CaptureTypeOK ==
  /\ allowed \in BOOLEAN
  /\ \A w \in CaptureWriter : capture[w].step \in CaptureStep
  /\ final \in [Blob -> FileState]
  /\ litter \subseteq Blob \X TempKind
  /\ rows \subseteq Blob /\ lost \subseteq Blob
  /\ touched \subseteq Publication
  /\ captureFaults \in 0..MaxCaptureFaults

CaptureInit ==
  /\ allowed = TRUE
  /\ capture = [w \in CaptureWriter |-> NoCapture]
  /\ final = [b \in Blob |-> "none"]
  /\ litter = {} /\ rows = {} /\ lost = {}
  /\ touched = Publication
  /\ captureFaults = 0

-----------------------------------------------------------------------------
(* A ...Mutant is a deliberate error in the definition after it.           *)
Temp(w) ==
  IF capture[w].step \in {"link", "compete"} THEN {<<capture[w].blob, "loose">>}
  ELSE IF capture[w].step = "unlink" THEN {<<capture[w].blob, "linked">>}
  ELSE {}
Temps == litter \cup UNION {Temp(w) : w \in CaptureWriter}

(* nlink = 1                                                               *)
SingleLink(b) == <<b, "linked">> \notin Temps

Goes(w, step) == capture' = [capture EXCEPT ![w].step = step]
Gives(w) == capture' = [capture EXCEPT ![w] = NoCapture]
SetFinal(b, state) == final' = [final EXCEPT ![b] = state]
Touch(b) == touched' = touched \cup {b[1]}
StoreSame == UNCHANGED <<final, litter, lost, touched>>
Else == UNCHANGED <<allowed, captureFaults>>

(* assertAuthorized(): discover for the edition, capture for what follows. *)
StartCapture(w) ==
  /\ capture[w].step = "idle" /\ allowed
  /\ \E b \in Blob : capture' = [capture EXCEPT ![w] = [step |-> "edition", blob |-> b]]
  /\ StoreSame /\ UNCHANGED rows /\ Else

RecordEdition(w) ==
  /\ capture[w].step = "edition" /\ allowed
  /\ Goes(w, "look")
  /\ StoreSame /\ UNCHANGED rows /\ Else

-----------------------------------------------------------------------------
(* putIfAbsent()                                                           *)

(* verifyExisting() of a good file syncs its directories, whoever made it. *)
UnsyncedMutant(b) == final[b]
Verified(b) == "durable"

UseExisting(w) ==
  LET b == capture[w].blob IN
  /\ \/ capture[w].step \in {"look", "compete"} /\ final[b] # "none"
     \/ capture[w].step = "check"
  /\ final[b] # "none" /\ SingleLink(b)
  /\ SetFinal(b, Verified(b))
  /\ Goes(w, "record")
  /\ IF capture[w].step = "compete" THEN Touch(b) ELSE UNCHANGED touched
  /\ UNCHANGED <<litter, lost, rows>> /\ Else

(* A file with a second link is refused; a competing publication is given  *)
(* a few turns to remove it.                                               *)
RefuseExisting(w) ==
  LET b == capture[w].blob IN
  /\ capture[w].step \in {"look", "check", "compete"}
  /\ IF final[b] = "none" THEN capture[w].step # "look" ELSE ~SingleLink(b)
  /\ Gives(w)
  /\ IF capture[w].step = "compete" THEN Touch(b) ELSE UNCHANGED touched
  /\ UNCHANGED <<final, litter, lost, rows>> /\ Else

(* publish(): written, synced, made read-only and synced under a temporary *)
(* name.                                                                   *)
WriteTemporary(w) ==
  /\ capture[w].step = "look" /\ final[capture[w].blob] = "none"
  /\ Goes(w, "link")
  /\ Touch(capture[w].blob)
  /\ UNCHANGED <<final, litter, lost, rows>> /\ Else

LinkFinal(w) ==
  LET b == capture[w].blob IN
  /\ capture[w].step = "link"
  /\ IF final[b] = "none"
       THEN SetFinal(b, "linked") /\ Goes(w, "unlink") /\ Touch(b)
       ELSE Goes(w, "compete") /\ UNCHANGED <<final, touched>>
  /\ UNCHANGED <<litter, lost, rows>> /\ Else

UnlinkTemporary(w) ==
  /\ capture[w].step = "unlink"
  /\ Goes(w, "sync")
  /\ Touch(capture[w].blob)
  /\ UNCHANGED <<final, litter, lost, rows>> /\ Else

SyncHierarchy(w) ==
  LET b == capture[w].blob IN
  /\ capture[w].step = "sync"
  /\ SetFinal(b, IF final[b] = "none" THEN "none" ELSE "durable")
  /\ Goes(w, "check")
  /\ UNCHANGED <<litter, lost, touched, rows>> /\ Else

(* The signal, or a failed call: the temporary name is removed.  Nothing   *)
(* looks at the signal between the link and the sync.                      *)
AbandonCapture(w) ==
  /\ capture[w].step \in {"edition", "look", "link", "compete", "check", "record"}
  /\ Gives(w)
  /\ IF Temp(w) # {} THEN Touch(capture[w].blob) ELSE UNCHANGED touched
  /\ UNCHANGED <<final, litter, lost, rows>> /\ Else

-----------------------------------------------------------------------------
(* record_official_offer_capture_v1, under a permission that still holds;  *)
(* its answer may be lost, which changes nothing for the writer's job.     *)
RecordCapture(w) ==
  /\ capture[w].step = "record" /\ allowed
  /\ rows' = rows \cup {capture[w].blob}
  /\ Gives(w)
  /\ StoreSame /\ Else

-----------------------------------------------------------------------------
(* Faults.                                                                 *)
CaptureFault == captureFaults < MaxCaptureFaults /\ captureFaults' = captureFaults + 1

WithdrawPermission ==
  /\ CaptureFault /\ allowed /\ allowed' = FALSE
  /\ UNCHANGED <<capture, rows>> /\ StoreSame

(* The process ends: its temporary name stays.                             *)
KillWriter(w) ==
  /\ CaptureFault /\ capture[w].step # "idle"
  /\ litter' = litter \cup Temp(w)
  /\ Gives(w)
  /\ UNCHANGED <<allowed, final, lost, touched, rows>>

(* Power is lost: of the names that were not synced, any may be gone.      *)
LosePower ==
  /\ CaptureFault
  /\ capture' = [w \in CaptureWriter |-> NoCapture]
  /\ \E gone \in SUBSET {b \in Blob : final[b] = "linked"}, kept \in SUBSET Temps :
       /\ final' = [b \in Blob |->
            IF b \in gone THEN "none" ELSE IF final[b] = "none" THEN "none" ELSE "durable"]
       /\ litter' = {<<t[1], IF t[1] \in gone THEN "loose" ELSE t[2]>> : t \in kept}
       /\ touched' = touched \cup {b[1] : b \in gone \cup {t[1] : t \in Temps}}
  /\ UNCHANGED <<allowed, lost, rows>>

(* A file is removed by hand.                                              *)
LoseFile ==
  /\ CaptureFault
  /\ \E b \in Blob :
       /\ final[b] # "none" /\ SingleLink(b)
       /\ SetFinal(b, "none") /\ lost' = lost \cup {b} /\ Touch(b)
  /\ UNCHANGED <<allowed, capture, litter, rows>>

(* Every step but the loss of power, which ends more than the writers.     *)
CaptureStepOrFault ==
  \/ WithdrawPermission \/ LoseFile
  \/ \E w \in CaptureWriter :
       \/ StartCapture(w) \/ RecordEdition(w) \/ UseExisting(w) \/ RefuseExisting(w)
       \/ WriteTemporary(w) \/ LinkFinal(w) \/ UnlinkTemporary(w) \/ SyncHierarchy(w)
       \/ AbandonCapture(w) \/ RecordCapture(w) \/ KillWriter(w)

-----------------------------------------------------------------------------
(* A capture that the database lists has its file, in a state that a power *)
(* loss leaves alone, even when another writer made the file and was cut   *)
(* off before it synced anything; only a removal by hand takes it away.    *)
RecordedCapturesSurvive == \A b \in rows \ lost : final[b] = "durable"
=============================================================================
