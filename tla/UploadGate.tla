----------------------------- MODULE UploadGate ----------------------------
(***************************************************************************)
(* Files on the form of a work, and the gate that keeps the form from      *)
(* being saved while they are uploaded (uploader.js, browse_everything.js, *)
(* save_work/uploaded_files.es6, save_work/save_work_control.es6).  The    *)
(* form is otherwise valid; the upload plugin is third-party code.         *)
(***************************************************************************)
EXTENDS Integers, FiniteSets

CONSTANT Files \* the files the reader may choose, here or in the cloud

ASSUME FilesAssumption == IsFiniteSet(Files)

VARIABLES
  phase,             \* phase[f]: how far the file is
  uploadsInProgress, \* the counter of UploadedFiles
  saveEnabled,       \* the save button
  sentFiles,         \* the files the saved form names
  lostUploads,       \* history: files that were being uploaded at that time
  clouds             \* history: how often files were added from the cloud

gateVars == <<phase, uploadsInProgress, saveEnabled, sentFiles, lostUploads,
              clouds>>

\* named: its name is posted, for an id; uploading: counted, and being sent;
\* listed: a field of the form names it; failed: a row with an error, counted.
Phases == {"absent", "named", "rejected", "uploading", "listed", "failed",
           "deleted", "saved"}

GateTypeOK ==
  /\ phase \in [Files -> Phases]
  /\ uploadsInProgress \in Int
  /\ saveEnabled \in BOOLEAN /\ clouds \in Nat
  /\ sentFiles \subseteq Files /\ lostUploads \subseteq Files

GateInit ==
  /\ phase = [f \in Files |-> "absent"]
  /\ uploadsInProgress = 0
  /\ saveEnabled = TRUE
  /\ sentFiles = {} /\ lostUploads = {}
  /\ clouds = 0

In(p) == {f \in Files : phase[f] = p}
-----------------------------------------------------------------------------
\* formStateChanged, run by the plugin's events.
FormStateChanged == saveEnabled' = (uploadsInProgress' <= 0)

\* The add option of the uploader posts the name before anything else.
ChooseFile(f) ==
  /\ phase[f] = "absent"
  /\ phase' = [phase EXCEPT ![f] = "named"]
  /\ UNCHANGED <<uploadsInProgress, saveEnabled, sentFiles, lostUploads, clouds>>

\* The name is answered: the plugin's own add, which counts the file and starts
\* sending it, unless it refuses its type or size.
StartUpload(f) ==
  /\ phase[f] = "named"
  /\ phase' = [phase EXCEPT ![f] = "uploading"]
  /\ uploadsInProgress' = uploadsInProgress + 1
  /\ FormStateChanged
  /\ UNCHANGED <<sentFiles, lostUploads, clouds>>

\* The plugin refuses it, or the post of the name fails, which nothing handles.
RejectFile(f) ==
  /\ phase[f] = "named"
  /\ phase' = [phase EXCEPT ![f] = "rejected"]
  /\ UNCHANGED <<uploadsInProgress, saveEnabled, sentFiles, lostUploads, clouds>>

\* fileuploadcompleted.
CompleteUpload(f) ==
  /\ phase[f] = "uploading"
  /\ phase' = [phase EXCEPT ![f] = "listed"]
  /\ uploadsInProgress' = uploadsInProgress - 1
  /\ FormStateChanged
  /\ UNCHANGED <<sentFiles, lostUploads, clouds>>

\* The upload fails or is cancelled: UploadedFiles does not listen to that.
FailUpload(f) ==
  /\ phase[f] = "uploading"
  /\ phase' = [phase EXCEPT ![f] = "failed"]
  /\ UNCHANGED <<uploadsInProgress, saveEnabled, sentFiles, lostUploads, clouds>>

\* Files chosen in the cloud are passed to the plugin's done, once for all of
\* them: they were never added, but are completed.
AddFromCloud(fs) ==
  /\ fs # {} /\ fs \subseteq In("absent")
  /\ phase' = [f \in Files |-> IF f \in fs THEN "listed" ELSE phase[f]]
  /\ uploadsInProgress' = uploadsInProgress - 1
  /\ clouds' = clouds + 1
  /\ FormStateChanged
  /\ UNCHANGED <<sentFiles, lostUploads>>

\* Mutant: a deleted file is counted off, although its upload was already.
DeleteFileCounted(f) ==
  /\ phase[f] = "listed"
  /\ phase' = [phase EXCEPT ![f] = "deleted"]
  /\ uploadsInProgress' = uploadsInProgress - 1
  /\ FormStateChanged
  /\ UNCHANGED <<sentFiles, lostUploads, clouds>>

\* The delete button of a listed file; fileuploaddestroyed.
DeleteFile(f) ==
  /\ phase[f] = "listed"
  /\ phase' = [phase EXCEPT ![f] = "deleted"]
  /\ UNCHANGED <<uploadsInProgress, sentFiles, lostUploads, clouds>>
  /\ FormStateChanged

\* A submit by the button or the return key: preventSubmitIfUploading.  The form
\* names what is listed; the page, and what it was uploading, is left.
SubmitWork ==
  /\ uploadsInProgress <= 0 /\ In("saved") = {}
  /\ sentFiles' = In("listed")
  /\ lostUploads' = In("uploading")
  /\ phase' = [f \in Files |-> "saved"]
  /\ saveEnabled' = FALSE
  /\ UNCHANGED <<uploadsInProgress, clouds>>

GateNext ==
  \/ \E f \in Files : ChooseFile(f)
  \/ \E f \in Files : StartUpload(f)
  \/ \E f \in Files : RejectFile(f)
  \/ \E f \in Files : CompleteUpload(f)
  \/ \E f \in Files : FailUpload(f)
  \/ \E fs \in SUBSET Files : AddFromCloud(fs)
  \/ \E f \in Files : DeleteFile(f)
  \/ SubmitWork

GateSpec == GateInit /\ [][GateNext]_gateVars
-----------------------------------------------------------------------------
(* Properties.                                                             *)

\* A form is never saved while one of its files is being uploaded, whatever
\* completed, failed or was deleted before: unless files were added from the
\* cloud, each choice of which lets the counter miss one upload.  It says nothing
\* of a file of which only the name was posted: the gate does not count it yet,
\* and it is left behind.
NoUploadIsLost == Cardinality(lostUploads) <= clouds
=============================================================================
