--------------------------- MODULE BatchSelection --------------------------
(***************************************************************************)
(* Selecting works on a dashboard page and deleting the selected ones      *)
(* (app/assets/javascripts/hyrax/batch_select_all.js, batch_select.es6,    *)
(* the form of batch_edits/_delete_selected.html.erb).                     *)
(***************************************************************************)
EXTENDS FiniteSets

CONSTANT Docs \* the documents listed, each with a check box

ASSUME DocsAssumption == Docs # {} /\ IsFiniteSet(Docs)

VARIABLES
  checked,    \* the boxes that are checked
  checkAll,   \* the property of #check_all
  pageTicked, \* the state of the menu item "select page"
  noneTicked, \* the state of the menu item "select none"
  toggles,    \* the batch buttons are shown
  formIds,    \* the hidden fields in the form that deletes
  confirming, \* the browser asks whether to delete
  posted,     \* the ids of the delete request; the page is left
  abandoned   \* history: ids in the form when a deletion was cancelled

selectVars == <<checked, checkAll, pageTicked, noneTicked, toggles, formIds,
                confirming, posted, abandoned>>

SelectTypeOK ==
  /\ checked \subseteq Docs
  /\ {checkAll, pageTicked, noneTicked, toggles, confirming} \subseteq BOOLEAN
  /\ formIds \subseteq Docs
  /\ posted \subseteq Docs
  /\ abandoned \subseteq formIds

\* toggleButtons: the page never sets batch_part_on_other_page, so the buttons
\* are hidden when nothing is checked.
ToggleButtons == toggles' = (checked' # {})

ToggleMenu(page, none) == pageTicked' = page /\ noneTicked' = none

\* The page ends its onLoad in select_page(false).
SelectInit ==
  /\ checked = {}
  /\ checkAll = FALSE
  /\ pageTicked = FALSE
  /\ noneTicked = TRUE
  /\ toggles = FALSE
  /\ formIds = {}
  /\ confirming = FALSE
  /\ posted = {}
  /\ abandoned = {}

Attentive == ~confirming /\ posted = {}

\* A click on a box: the browser flips it, then the three handlers run.  The
\* last one sets the attribute of #check_all, which no longer changes its
\* property once select_page has set that.
ClickBox(d) ==
  /\ Attentive
  /\ checked' = IF d \in checked THEN checked \ {d} ELSE checked \cup {d}
  /\ ToggleButtons
  /\ ToggleMenu(Cardinality(checked') = Cardinality(Docs), checked' = {})
  /\ UNCHANGED <<checkAll, formIds, confirming, posted, abandoned>>

\* check_all_page, with #check_all already at its new state.
CheckAllPage(state) ==
  /\ checkAll' = state
  /\ checked' = IF state THEN Docs ELSE {}
  /\ ToggleButtons
  /\ ToggleMenu(state, ~state)

\* A click on #check_all flips it; the menu items set it through select_page.
ClickCheckAll ==
  /\ Attentive
  /\ CheckAllPage(~checkAll)
  /\ UNCHANGED <<formIds, confirming, posted, abandoned>>

SelectPage(state) ==
  /\ Attentive
  /\ CheckAllPage(state)
  /\ UNCHANGED <<formIds, confirming, posted, abandoned>>

\* Mutant: ids are appended only while the form has none.
ClickDeleteOnce ==
  /\ Attentive
  /\ toggles
  /\ formIds' = IF formIds = {} THEN checked ELSE formIds
  /\ confirming' = TRUE
  /\ UNCHANGED <<checked, checkAll, pageTicked, noneTicked, toggles, posted,
                 abandoned>>

\* "Delete Selected": the click handler of batch_select appends the checked ids
\* the form does not have yet, and removes none; then data-confirm asks.
ClickDelete ==
  /\ Attentive
  /\ toggles
  /\ formIds' = formIds \cup checked
  /\ confirming' = TRUE
  /\ UNCHANGED <<checked, checkAll, pageTicked, noneTicked, toggles, posted,
                 abandoned>>

AcceptDelete ==
  /\ confirming
  /\ confirming' = FALSE
  /\ posted' = formIds
  /\ UNCHANGED <<checked, checkAll, pageTicked, noneTicked, toggles, formIds,
                 abandoned>>

CancelDelete ==
  /\ confirming
  /\ confirming' = FALSE
  /\ abandoned' = formIds
  /\ UNCHANGED <<checked, checkAll, pageTicked, noneTicked, toggles, formIds,
                 posted>>

\* The request deletes the works and answers with a new page.
LeaveForNewPage ==
  /\ posted # {}
  /\ checked' = {} /\ checkAll' = FALSE
  /\ ToggleMenu(FALSE, TRUE)
  /\ toggles' = FALSE
  /\ formIds' = {} /\ posted' = {} /\ abandoned' = {}
  /\ UNCHANGED confirming

SelectNext ==
  \/ \E d \in Docs : ClickBox(d)
  \/ ClickCheckAll
  \/ \E state \in BOOLEAN : SelectPage(state)
  \/ ClickDelete
  \/ AcceptDelete
  \/ CancelDelete
  \/ LeaveForNewPage

SelectSpec == SelectInit /\ [][SelectNext]_selectVars
-----------------------------------------------------------------------------
(* Properties.                                                             *)

\* "Delete Selected" (config/locales/hyrax.en.yml) deletes what is selected.
OnlySelectedAreDeleted == posted # {} => posted = checked

\* What it deletes: everything selected, and besides that only what was selected
\* when an earlier deletion on the same page was cancelled.
OnlyAbandonedBesidesSelected ==
  posted # {} => /\ checked \subseteq posted
                 /\ posted \subseteq checked \cup abandoned
=============================================================================
