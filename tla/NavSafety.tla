----------------------------- MODULE NavSafety -----------------------------
(***************************************************************************)
(* Tabs of forms with a warning before unsaved edits are left              *)
(* (app/assets/javascripts/hyrax/nav_safety.js, tabs.js): one flag for the *)
(* page, set by the change events of the forms that ask for it, holds a    *)
(* tab back; the reader may stay, or go on and have a form reset.          *)
(***************************************************************************)
EXTENDS FiniteSets

CONSTANTS
  Tabs,
  NoTab,
  FirstTab, \* the tab the page opens with
  Tracked,  \* the tabs whose form has class nav-safety
  ResetsOf  \* ResetsOf[t]: the tabs whose fields belong to the form that is
            \* reset when t is left: the first on the page that has the id of
            \* the first form of t

ASSUME TabsAssumption ==
  /\ FirstTab \in Tabs /\ NoTab \notin Tabs /\ Tracked \subseteq Tabs
  /\ ResetsOf \in [Tabs -> SUBSET Tabs]

VARIABLES
  active,  \* the tab on the screen
  hash,    \* the tab in the address
  edited,  \* tabs with fields that differ from what was loaded
  typing,  \* the field being typed in has not fired its change event
  dirty,   \* the attribute dirtyData of the modal
  asking,  \* the modal is shown
  leaving, \* the modal's form_id, as the tab whose form it is
  newTab,  \* the modal's new_tab
  slipped  \* history: tabs left while a change event was due

navVars == <<active, hash, edited, typing, dirty, asking, leaving, newTab,
             slipped>>

NavTypeOK ==
  /\ active \in Tabs /\ hash \in Tabs
  /\ edited \subseteq Tabs /\ slipped \subseteq Tabs
  /\ {typing, dirty, asking} \subseteq BOOLEAN
  /\ {leaving, newTab} \subseteq Tabs \cup {NoTab}

NavInit ==
  /\ active = FirstTab
  /\ hash = FirstTab
  /\ edited = {}
  /\ typing = FALSE
  /\ dirty = FALSE
  /\ asking = FALSE
  /\ leaving = NoTab
  /\ newTab = NoTab
  /\ slipped = {}
-----------------------------------------------------------------------------
\* tab('show'): the handler of show.bs.tab prevents it while the page is dirty,
\* and asks.
ShowTab(t, isDirty) ==
  IF t = active
  THEN UNCHANGED <<active, asking, leaving, newTab>>
  ELSE IF isDirty
  THEN /\ asking' = TRUE
       /\ leaving' = active
       /\ newTab' = t
       /\ UNCHANGED active
  ELSE /\ active' = t
       /\ UNCHANGED <<asking, leaving, newTab>>

\* A field of the active tab is typed in.
TypeInField ==
  /\ ~asking
  /\ typing' = TRUE
  /\ edited' = edited \cup {active}
  /\ UNCHANGED <<active, hash, dirty, asking, leaving, newTab, slipped>>

NavSafetyOn  == dirty' = TRUE
NavSafetyOff == dirty' = FALSE

\* The field loses the focus: its form has a change event, or tinymce's editor
\* passes one on.
ChangeOnBlur ==
  /\ IF typing /\ active \in Tracked THEN NavSafetyOn ELSE UNCHANGED dirty
  /\ typing' = FALSE

LeaveField ==
  /\ typing
  /\ ChangeOnBlur
  /\ UNCHANGED <<active, hash, edited, asking, leaving, newTab, slipped>>

\* A click on a tab: the address changes, whether the tab will be shown or not.
ClickTab(t) ==
  /\ ~asking
  /\ ChangeOnBlur
  /\ hash' = t
  /\ ShowTab(t, dirty')
  /\ UNCHANGED <<edited, slipped>>

\* The reader goes back or forward to an address, by the keyboard: tabNavigation.
GoBack(t) ==
  /\ hash' = t
  /\ ShowTab(t, dirty)
  /\ slipped' = IF typing /\ active' # active THEN slipped \cup {active}
                ELSE slipped
  /\ typing' = (typing /\ active' = active)
  /\ UNCHANGED <<edited, dirty>>

\* Mutant: the form is left as it is.
DismissNotReset ==
  /\ asking
  /\ asking' = FALSE
  /\ dirty' = FALSE
  /\ hash' = newTab
  /\ active' = newTab
  /\ typing' = FALSE
  /\ UNCHANGED <<edited, leaving, newTab, slipped>>

\* "OK": nav_safety_off, the form is reset, and the page goes to the new tab,
\* which tabNavigation shows.
Dismiss ==
  /\ asking
  /\ asking' = FALSE
  /\ NavSafetyOff
  /\ edited' = edited \ ResetsOf[leaving]
  /\ hash' = newTab
  /\ active' = newTab
  /\ typing' = FALSE
  /\ UNCHANGED <<leaving, newTab, slipped>>

\* "Cancel": stay.
Acknowledge ==
  /\ asking
  /\ asking' = FALSE
  /\ UNCHANGED <<active, hash, edited, typing, dirty, leaving, newTab, slipped>>

\* The form of the active tab is saved, which loads the page again; it opens
\* with the tab of the address it was sent to.
SaveTab(t) ==
  /\ ~asking
  /\ active' = t /\ hash' = t
  /\ edited' = {} /\ slipped' = {}
  /\ typing' = FALSE /\ dirty' = FALSE
  /\ leaving' = NoTab /\ newTab' = NoTab
  /\ UNCHANGED asking

NavNext ==
  \/ TypeInField
  \/ LeaveField
  \/ \E t \in Tabs : ClickTab(t)
  \/ \E t \in Tabs : GoBack(t)
  \/ Dismiss
  \/ Acknowledge
  \/ \E t \in Tabs : SaveTab(t)

NavSpec == NavInit /\ [][NavNext]_navVars
-----------------------------------------------------------------------------
(* Properties.                                                             *)

\* Whichever way the reader moves between the tabs, a tab out of sight has no
\* unsaved edits: they were either discarded or kept on the screen.  Excepted
\* are the forms that do not ask for it, those whose id is that of another form
\* (which is reset in their place), and an edit whose change event was still due
\* when the reader went back.
UnsavedEditsAreInSight ==
  \A t \in edited \ {active} :
    t \notin Tracked \/ t \notin ResetsOf[t] \/ t \in slipped
=============================================================================
