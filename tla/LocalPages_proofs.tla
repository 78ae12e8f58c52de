------------------------- MODULE LocalPages_proofs -------------------------
(***************************************************************************)
(* The pages whose state is their own: the selection of works, the tabs    *)
(* with forms, the menu of the dashboard and the uploads of a form, for    *)
(* any documents, tabs, windows, sections and files.                       *)
(***************************************************************************)
EXTENDS BatchSelection, NavSafety, Sidebar, UploadGate, FiniteSetTheorems, TLAPS

(***************************************************************************)
(* BatchSelection: while the browser asks, the form names everything that  *)
(* is checked, and what else it names was named when an earlier deletion   *)
(* was cancelled: ids are only added by a click that is followed by the    *)
(* question, during which no box changes.                                  *)
(***************************************************************************)

\* While the reader is asked nothing is posted, and the form names what is
\* checked, and what it named when a deletion was cancelled.
FormNamesSelected ==
  /\ confirming => /\ posted = {}
                   /\ checked \subseteq formIds
                   /\ formIds \subseteq checked \cup abandoned
  /\ ~confirming /\ posted = {} => formIds = abandoned

SelectInv == SelectTypeOK /\ FormNamesSelected /\ OnlyAbandonedBesidesSelected
-----------------------------------------------------------------------------
LEMMA SelectInitially == SelectInit => SelectInv
  BY DEF SelectInit, SelectInv, SelectTypeOK, FormNamesSelected,
         OnlyAbandonedBesidesSelected

LEMMA SelectInductive ==
  ASSUME SelectInv, [SelectNext]_selectVars
  PROVE  SelectInv'
<1> USE DEF SelectInv, SelectTypeOK, FormNamesSelected,
              OnlyAbandonedBesidesSelected
<1> USE DEF ToggleButtons, ToggleMenu, Attentive
<1>1. ASSUME NEW doc \in Docs, ClickBox(doc)
      PROVE  SelectInv'
  BY <1>1 DEF ClickBox
<1>2. CASE ClickCheckAll
  BY <1>2 DEF ClickCheckAll, CheckAllPage
<1>3. ASSUME NEW state \in BOOLEAN, SelectPage(state)
      PROVE  SelectInv'
  BY <1>3 DEF SelectPage, CheckAllPage
<1>4. CASE ClickDelete
  BY <1>4 DEF ClickDelete
<1>5. CASE AcceptDelete
  BY <1>5 DEF AcceptDelete
<1>6. CASE CancelDelete
  BY <1>6 DEF CancelDelete
<1>7. CASE LeaveForNewPage
  BY <1>7 DEF LeaveForNewPage
<1>8. CASE UNCHANGED selectVars
  BY <1>8 DEF selectVars
<1> QED
  BY <1>1, <1>2, <1>3, <1>4, <1>5, <1>6, <1>7, <1>8 DEF SelectNext

\* Whatever was checked, cancelled and checked again before: a deletion deletes
\* everything selected, and besides that only what an earlier cancelled deletion
\* on the same page had selected (batch_select.es6, data-confirm).
THEOREM DeletesSelectedAndAbandoned ==
  SelectSpec => []OnlyAbandonedBesidesSelected
<1>1. SelectInv => OnlyAbandonedBesidesSelected
  BY DEF SelectInv
<1> QED
  BY <1>1, SelectInitially, SelectInductive, PTL DEF SelectSpec
-----------------------------------------------------------------------------
(***************************************************************************)
(* NavSafety: one flag stands for all forms of the page; it is enough      *)
(* because at most one tab has edits that could be lost, the active one,   *)
(* and while it has them the page is dirty or will be when the field loses *)
(* the focus.                                                              *)
(***************************************************************************)

\* The forms whose edits the page does not keep in sight.
Unguarded(t) == t \notin Tracked \/ t \notin ResetsOf[t] \/ t \in slipped

\* Edits that are guarded are those of the active tab, and the flag is set or a
\* change event is due.
EditsAreGuarded ==
  \A t \in edited : Unguarded(t) \/ (t = active /\ (dirty \/ typing))

\* While the modal is shown it is about the active tab, and the page is dirty.
ModalIsCurrent == asking => dirty /\ leaving = active /\ newTab \in Tabs

NavInv == NavTypeOK /\ EditsAreGuarded /\ ModalIsCurrent
-----------------------------------------------------------------------------
LEMMA NavInitially == NavInit => NavInv
  BY TabsAssumption
  DEF NavInit, NavInv, NavTypeOK, EditsAreGuarded, ModalIsCurrent

LEMMA NavInductive ==
  ASSUME NavInv, [NavNext]_navVars
  PROVE  NavInv'
<1> USE TabsAssumption
    DEF NavInv, NavTypeOK, EditsAreGuarded, ModalIsCurrent, Unguarded
<1>1. CASE TypeInField
  BY <1>1 DEF TypeInField
<1>2. CASE LeaveField
  BY <1>2 DEF LeaveField, ChangeOnBlur, NavSafetyOn
<1>3. ASSUME NEW t \in Tabs, ClickTab(t)
      PROVE  NavInv'
  BY <1>3 DEF ClickTab, ChangeOnBlur, NavSafetyOn, ShowTab
<1>4. ASSUME NEW t \in Tabs, GoBack(t)
      PROVE  NavInv'
  BY <1>4 DEF GoBack, ShowTab
<1>5. CASE Dismiss
  BY <1>5 DEF Dismiss, NavSafetyOff
<1>6. CASE Acknowledge
  BY <1>6 DEF Acknowledge
<1>7. ASSUME NEW t \in Tabs, SaveTab(t)
      PROVE  NavInv'
  BY <1>7 DEF SaveTab
<1>8. CASE UNCHANGED navVars
  BY <1>8 DEF navVars
<1> QED
  BY <1>1, <1>2, <1>3, <1>4, <1>5, <1>6, <1>7, <1>8 DEF NavNext

\* Whichever way the reader moves between the tabs (nav_safety.js, tabs.js), a
\* tab out of sight has no unsaved edits, but for the three exceptions that
\* UnsavedEditsAreInSight names.
THEOREM EditsStayInSight == NavSpec => []UnsavedEditsAreInSight
<1>1. NavInv => UnsavedEditsAreInSight
  BY DEF NavInv, EditsAreGuarded, Unguarded, UnsavedEditsAreInSight
<1> QED
  BY <1>1, NavInitially, NavInductive, PTL DEF NavSpec
-----------------------------------------------------------------------------
(***************************************************************************)
(* Sidebar: a press flips what is kept and what its window shows, so two   *)
(* that agree go on agreeing; a press that flips only one is recorded.     *)
(***************************************************************************)

SidebarInv == SidebarTypeOK /\ KeptFollowsMenu

LEMMA SidebarInitially == SidebarInit => SidebarInv
  BY DEF SidebarInit, SidebarInv, SidebarTypeOK, KeptFollowsMenu

LEMMA SidebarInductive ==
  ASSUME SidebarInv, [SidebarNext]_sidebarVars
  PROVE  SidebarInv'
<1> USE DEF SidebarInv, SidebarTypeOK, KeptFollowsMenu
<1>1. ASSUME NEW w \in Windows, NEW own \in SUBSET Sections, LoadMenu(w, own)
      PROVE  SidebarInv'
  BY <1>1, SectionsAssumption DEF LoadMenu, GetStatus
<1>2. ASSUME NEW w \in Windows, NEW s \in Sections, PressSection(w, s)
      PROVE  SidebarInv'
  <2>1. CASE s \in sliding[w]
    BY <1>2, <2>1 DEF PressSection, ToggleCollapse, Collapse
  <2>2. CASE s \notin sliding[w]
    BY <1>2, <2>2 DEF PressSection, ToggleCollapse, Collapse
  <2> QED
    BY <2>1, <2>2
<1>3. ASSUME NEW w \in Windows, NEW s \in Sections, EndSlide(w, s)
      PROVE  SidebarInv'
  BY <1>3 DEF EndSlide
<1>4. CASE UNCHANGED sidebarVars
  BY <1>4 DEF sidebarVars
<1> QED
  BY <1>1, <1>2, <1>3, <1>4 DEF SidebarNext

\* A section of the menu that agreed with what localStorage keeps when its page
\* was loaded goes on agreeing with it (collapse.js), for any windows and
\* sections, but for the presses KeptFollowsMenu excepts.
THEOREM MenuIsKept == SidebarSpec => []KeptFollowsMenu
<1>1. SidebarInv => KeptFollowsMenu
  BY DEF SidebarInv
<1> QED
  BY <1>1, SidebarInitially, SidebarInductive, PTL DEF SidebarSpec

(***************************************************************************)
(* UploadGate: files are counted when their upload starts and counted off  *)
(* when it is completed, but not when it fails, and files from the cloud   *)
(* are counted off without having been counted: the uploads that run or    *)
(* have failed are as many as the counter says and the choices in the      *)
(* cloud hide.                                                             *)
(***************************************************************************)

\* The files that were counted and not counted off.
Counted == In("uploading") \cup In("failed")

Count(p) == IF p \in {"uploading", "failed"} THEN 1 ELSE 0

\* Until the form is saved, they are what the counter says and the cloud hides.
CounterCounts ==
  In("saved") = {} => Cardinality(Counted) = uploadsInProgress + clouds

\* Files are saved all together.
SavedTogether == In("saved") = {} \/ In("saved") = Files

GateInv == GateTypeOK /\ CounterCounts /\ SavedTogether /\ NoUploadIsLost
LEMMA SetsAreFinite ==
  ASSUME NEW S, S \subseteq Files
  PROVE  IsFiniteSet(S) /\ Cardinality(S) \in Nat
BY FilesAssumption, FS_Subset, FS_CardinalityType

\* A file changes its phase before the form is saved; the counter follows.
LEMMA PhaseStep ==
  ASSUME GateInv, NEW f \in Files, NEW p \in Phases \ {"saved"},
         phase[f] # "saved",
         phase' = [phase EXCEPT ![f] = p],
         saveEnabled' \in BOOLEAN,
         UNCHANGED <<sentFiles, lostUploads, clouds>>,
         uploadsInProgress' = uploadsInProgress + Count(p) - Count(phase[f])
  PROVE  GateInv'
<1> USE DEF Count
<1>1. /\ phase \in [Files -> Phases] /\ uploadsInProgress \in Int
      /\ clouds \in Nat
      /\ sentFiles \subseteq Files /\ lostUploads \subseteq Files
  BY DEF GateInv, GateTypeOK
<1>2. GateTypeOK'
  <2>1. phase' \in [Files -> Phases]
    BY <1>1
  <2>2. uploadsInProgress' \in Int
    BY <1>1
  <2> QED
    BY <1>1, <2>1, <2>2 DEF GateTypeOK
<1>3. In("saved") = {}
  BY <1>1 DEF GateInv, SavedTogether, In
<1>4. In("saved")' = {}
  BY <1>1, <1>3 DEF In
<1>5. Counted \subseteq Files /\ (f \in Counted <=> phase[f] \in {"uploading", "failed"})
  BY DEF Counted, In
<1>6. IsFiniteSet(Counted) /\ Cardinality(Counted) \in Nat
  BY <1>5, SetsAreFinite
<1>7. Cardinality(Counted) = uploadsInProgress + clouds
  BY <1>3 DEF GateInv, CounterCounts
<1>8. Counted' = IF p \in {"uploading", "failed"}
                 THEN Counted \cup {f} ELSE Counted \ {f}
  BY <1>1 DEF Counted, In
<1>9. CounterCounts'
  <2>1. CASE p \in {"uploading", "failed"} /\ f \notin Counted
    <3>1. Cardinality(Counted') = Cardinality(Counted) + 1
      BY <1>6, <1>8, <2>1, FS_AddElement
    <3> QED
      BY <1>1, <1>5, <1>7, <2>1, <3>1 DEF CounterCounts
  <2>2. CASE p \notin {"uploading", "failed"} /\ f \in Counted
    <3>1. Cardinality(Counted') = Cardinality(Counted) - 1
      BY <1>6, <1>8, <2>2, FS_RemoveElement
    <3> QED
      BY <1>1, <1>5, <1>7, <2>2, <3>1 DEF CounterCounts
  <2>3. CASE p \in {"uploading", "failed"} <=> f \in Counted
    <3>1. Counted' = Counted
      BY <1>8, <2>3
    <3> QED
      BY <1>1, <1>5, <1>7, <2>3, <3>1 DEF CounterCounts
  <2> QED
    BY <2>1, <2>2, <2>3
<1>10. SavedTogether' /\ NoUploadIsLost'
  BY <1>4 DEF GateInv, SavedTogether, NoUploadIsLost
<1> QED
  BY <1>2, <1>9, <1>10 DEF GateInv

\* Files from the cloud: the counter loses what the cloud gains.
LEMMA CloudStep ==
  ASSUME GateInv, NEW fs \in SUBSET Files, AddFromCloud(fs)
  PROVE  GateInv'
<1>1. /\ phase \in [Files -> Phases] /\ uploadsInProgress \in Int
      /\ clouds \in Nat
      /\ sentFiles \subseteq Files /\ lostUploads \subseteq Files
  BY DEF GateInv, GateTypeOK
<1>2. /\ fs # {} /\ fs \subseteq In("absent")
      /\ phase' = [f \in Files |-> IF f \in fs THEN "listed" ELSE phase[f]]
      /\ uploadsInProgress' = uploadsInProgress - 1
      /\ clouds' = clouds + 1
      /\ saveEnabled' = (uploadsInProgress' <= 0)
      /\ UNCHANGED <<sentFiles, lostUploads>>
  BY DEF AddFromCloud, FormStateChanged
<1>3. GateTypeOK'
  <2>1. phase' \in [Files -> Phases]
    BY <1>1, <1>2 DEF Phases
  <2>2. uploadsInProgress' \in Int /\ clouds' \in Nat /\ saveEnabled' \in BOOLEAN
    BY <1>1, <1>2
  <2> QED
    BY <1>1, <1>2, <2>1, <2>2 DEF GateTypeOK
<1>4. In("saved") = {} /\ In("saved")' = {}
  BY <1>1, <1>2 DEF GateInv, SavedTogether, In
<1>5. Counted' = Counted
  BY <1>1, <1>2 DEF Counted, In
<1>6. CounterCounts'
  BY <1>1, <1>2, <1>4, <1>5 DEF GateInv, CounterCounts
<1>7. NoUploadIsLost'
  BY <1>1, <1>2, SetsAreFinite DEF GateInv, NoUploadIsLost
<1> QED
  BY <1>3, <1>4, <1>6, <1>7 DEF GateInv, SavedTogether

\* The form is saved only when the counter is not positive: what still runs is
\* no more than the cloud hides.
LEMMA SubmitStep ==
  ASSUME GateInv, SubmitWork
  PROVE  GateInv'
<1>1. /\ phase \in [Files -> Phases] /\ uploadsInProgress \in Int
      /\ clouds \in Nat
  BY DEF GateInv, GateTypeOK
<1>2. /\ uploadsInProgress <= 0 /\ In("saved") = {}
      /\ sentFiles' = In("listed") /\ lostUploads' = In("uploading")
      /\ phase' = [f \in Files |-> "saved"]
      /\ saveEnabled' = FALSE
      /\ UNCHANGED <<uploadsInProgress, clouds>>
  BY DEF SubmitWork
<1>3. GateTypeOK'
  BY <1>1, <1>2 DEF GateTypeOK, Phases, In
<1>4. In("saved")' = Files /\ Counted' = {}
  BY <1>2 DEF In, Counted
<1>5. /\ In("uploading") \subseteq Counted /\ Counted \subseteq Files
      /\ Cardinality(Counted) = uploadsInProgress + clouds
  BY <1>2 DEF Counted, In, GateInv, CounterCounts
<1>6. CounterCounts'
  <2>1. Files = {} => Counted = {}
    BY <1>5
  <2> QED
    BY <1>2, <1>4, <1>5, <2>1 DEF CounterCounts
<1>7. /\ Cardinality(In("uploading")) <= Cardinality(Counted)
      /\ Cardinality(In("uploading")) \in Nat
  BY <1>5, SetsAreFinite, FS_Subset
<1>8. NoUploadIsLost'
  BY <1>1, <1>2, <1>5, <1>7 DEF NoUploadIsLost
<1> QED
  BY <1>3, <1>4, <1>6, <1>8 DEF GateInv, SavedTogether

LEMMA GateInitially == GateInit => GateInv
<1> SUFFICES ASSUME GateInit
             PROVE  GateInv
  OBVIOUS
<1>1. Counted = {} /\ In("saved") = {} /\ Cardinality({}) = 0
  BY FS_EmptySet DEF GateInit, Counted, In
<1> QED
  BY <1>1
  DEF GateInit, GateInv, GateTypeOK, Phases, CounterCounts, SavedTogether,
      NoUploadIsLost

LEMMA GateInductive ==
  ASSUME GateInv, [GateNext]_gateVars
  PROVE  GateInv'
<1>0. GateTypeOK
  BY DEF GateInv
<1> USE DEF FormStateChanged
<1>1. ASSUME NEW f \in Files, ChooseFile(f)
      PROVE  GateInv'
  <2>1. /\ phase[f] = "absent" /\ phase' = [phase EXCEPT ![f] = "named"]
        /\ UNCHANGED <<sentFiles, lostUploads, clouds>>
        /\ "named" \in Phases \ {"saved"}
    BY <1>1 DEF ChooseFile, Phases
  <2>2. saveEnabled' \in BOOLEAN
    BY <1>0, <1>1 DEF ChooseFile, GateTypeOK
  <2>3. uploadsInProgress' = uploadsInProgress + Count("named") - Count("absent")
    BY <1>0, <1>1 DEF ChooseFile, GateTypeOK, Count
  <2> QED
    BY <2>1, <2>2, <2>3, PhaseStep
<1>2. ASSUME NEW f \in Files, StartUpload(f)
      PROVE  GateInv'
  <2>1. /\ phase[f] = "named" /\ phase' = [phase EXCEPT ![f] = "uploading"]
        /\ UNCHANGED <<sentFiles, lostUploads, clouds>>
        /\ "uploading" \in Phases \ {"saved"}
    BY <1>2 DEF StartUpload, Phases
  <2>2. saveEnabled' \in BOOLEAN
    BY <1>0, <1>2 DEF StartUpload, GateTypeOK
  <2>3. uploadsInProgress' = uploadsInProgress + Count("uploading") - Count("named")
    BY <1>0, <1>2 DEF StartUpload, GateTypeOK, Count
  <2> QED
    BY <2>1, <2>2, <2>3, PhaseStep
<1>3. ASSUME NEW f \in Files, RejectFile(f)
      PROVE  GateInv'
  <2>1. /\ phase[f] = "named" /\ phase' = [phase EXCEPT ![f] = "rejected"]
        /\ UNCHANGED <<sentFiles, lostUploads, clouds>>
        /\ "rejected" \in Phases \ {"saved"}
    BY <1>3 DEF RejectFile, Phases
  <2>2. saveEnabled' \in BOOLEAN
    BY <1>0, <1>3 DEF RejectFile, GateTypeOK
  <2>3. uploadsInProgress' = uploadsInProgress + Count("rejected") - Count("named")
    BY <1>0, <1>3 DEF RejectFile, GateTypeOK, Count
  <2> QED
    BY <2>1, <2>2, <2>3, PhaseStep
<1>4. ASSUME NEW f \in Files, CompleteUpload(f)
      PROVE  GateInv'
  <2>1. /\ phase[f] = "uploading" /\ phase' = [phase EXCEPT ![f] = "listed"]
        /\ UNCHANGED <<sentFiles, lostUploads, clouds>>
        /\ "listed" \in Phases \ {"saved"}
    BY <1>4 DEF CompleteUpload, Phases
  <2>2. saveEnabled' \in BOOLEAN
    BY <1>0, <1>4 DEF CompleteUpload, GateTypeOK
  <2>3. uploadsInProgress' = uploadsInProgress + Count("listed") - Count("uploading")
    BY <1>0, <1>4 DEF CompleteUpload, GateTypeOK, Count
  <2> QED
    BY <2>1, <2>2, <2>3, PhaseStep
<1>5. ASSUME NEW f \in Files, FailUpload(f)
      PROVE  GateInv'
  <2>1. /\ phase[f] = "uploading" /\ phase' = [phase EXCEPT ![f] = "failed"]
        /\ UNCHANGED <<sentFiles, lostUploads, clouds>>
        /\ "failed" \in Phases \ {"saved"}
    BY <1>5 DEF FailUpload, Phases
  <2>2. saveEnabled' \in BOOLEAN
    BY <1>0, <1>5 DEF FailUpload, GateTypeOK
  <2>3. uploadsInProgress' = uploadsInProgress + Count("failed") - Count("uploading")
    BY <1>0, <1>5 DEF FailUpload, GateTypeOK, Count
  <2> QED
    BY <2>1, <2>2, <2>3, PhaseStep
<1>6. ASSUME NEW fs \in SUBSET Files, AddFromCloud(fs)
      PROVE  GateInv'
  BY <1>6, CloudStep
<1>7. ASSUME NEW f \in Files, DeleteFile(f)
      PROVE  GateInv'
  <2>1. /\ phase[f] = "listed" /\ phase' = [phase EXCEPT ![f] = "deleted"]
        /\ UNCHANGED <<sentFiles, lostUploads, clouds>>
        /\ "deleted" \in Phases \ {"saved"}
    BY <1>7 DEF DeleteFile, Phases
  <2>2. saveEnabled' \in BOOLEAN
    BY <1>0, <1>7 DEF DeleteFile, GateTypeOK
  <2>3. uploadsInProgress' = uploadsInProgress + Count("deleted") - Count("listed")
    BY <1>0, <1>7 DEF DeleteFile, GateTypeOK, Count
  <2> QED
    BY <2>1, <2>2, <2>3, PhaseStep
<1>8. CASE SubmitWork
  BY <1>8, SubmitStep
<1>9. CASE UNCHANGED gateVars
  BY <1>9
  DEF gateVars, GateInv, GateTypeOK, CounterCounts, SavedTogether,
      NoUploadIsLost, Counted, In
<1> QED
  BY <1>1, <1>2, <1>3, <1>4, <1>5, <1>6, <1>7, <1>8, <1>9 DEF GateNext

\* Whatever was completed, failed or deleted before, for any files: saving the
\* form (save_work_control.es6) loses at most one running upload for each choice
\* in the cloud (uploaded_files.es6, browse_everything.js), and none without.
THEOREM SavingLosesNoUpload == GateSpec => []NoUploadIsLost
<1>1. GateInv => NoUploadIsLost
  BY DEF GateInv
<1> QED
  BY <1>1, GateInitially, GateInductive, PTL DEF GateSpec
=============================================================================
