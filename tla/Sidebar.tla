------------------------------ MODULE Sidebar ------------------------------
(***************************************************************************)
(* The dashboard's menu (app/assets/javascripts/hyrax/collapse.js,         *)
(* CollapsableSectionPresenter).  A press on a section does two things     *)
(* that know nothing of each other: toggleCollapse flips what the browser  *)
(* keeps for it, and Bootstrap flips what the window shows, unless the     *)
(* section is still sliding.                                               *)
(***************************************************************************)
EXTENDS Naturals, FiniteSets

CONSTANTS
  Windows,  \* the windows of the browser, which share what it keeps
  Sections, \* the sections of the menu that collapse
  KeptOf    \* those localStorage has an entry for: activity and settings

ASSUME SectionsAssumption == KeptOf \subseteq Sections

VARIABLES
  unCollapsed, \* the sections kept as 'un-collapsed'
  opened,      \* opened[w]: the sections open in w (class show)
  sliding,     \* sliding[w]: those Bootstrap is opening or closing
  inClass,     \* inClass[w]: those with the class in
  disturbed    \* history: disturbed[w]: those that differed from what was kept
               \* when the page was loaded, or were pressed since while they
               \* were sliding, or in another window

sidebarVars == <<unCollapsed, opened, sliding, inClass, disturbed>>

SidebarTypeOK ==
  /\ unCollapsed \subseteq KeptOf
  /\ {opened, sliding, inClass, disturbed} \subseteq [Windows -> SUBSET Sections]

\* The windows are open and show no page with a menu; nothing was kept, which is
\* read like 'collapsed' (getCollapsedActivity, getCollapsedSettings).
SidebarInit ==
  /\ unCollapsed = {}
  /\ opened = [w \in Windows |-> {}]
  /\ sliding = [w \in Windows |-> {}]
  /\ inClass = [w \in Windows |-> {}]
  /\ disturbed = [w \in Windows |-> {}]
-----------------------------------------------------------------------------
\* getStatusActivity and getStatusSettings set the class by which Bootstrap 3
\* shows a section; Bootstrap 4 does not look at it.
GetStatus(w) == inClass' = [inClass EXCEPT ![w] = unCollapsed]

\* A page is loaded: the server has opened the section it belongs to, if any.
LoadMenu(w, own) ==
  /\ Cardinality(own) <= 1
  /\ opened' = [opened EXCEPT ![w] = own]
  /\ sliding' = [sliding EXCEPT ![w] = {}]
  /\ GetStatus(w)
  /\ disturbed' = [disturbed EXCEPT ![w] = {s \in KeptOf : (s \in own) # (s \in unCollapsed)}]
  /\ UNCHANGED unCollapsed

\* Mutant: one entry is kept for all the sections.
ToggleCollapseShared(s) ==
  unCollapsed' = IF s \notin KeptOf THEN unCollapsed
                 ELSE IF unCollapsed # {} THEN {} ELSE KeptOf

\* toggleCollapse: what is kept is flipped, whatever the window shows.
ToggleCollapse(s) ==
  unCollapsed' = IF s \notin KeptOf THEN unCollapsed
                 ELSE IF s \in unCollapsed THEN unCollapsed \ {s}
                 ELSE unCollapsed \cup {s}

\* Bootstrap's own handler.
Collapse(w, s) ==
  IF s \in sliding[w]
  THEN UNCHANGED <<opened, sliding>>
  ELSE /\ opened' = [opened EXCEPT ![w] = IF s \in @ THEN @ \ {s} ELSE @ \cup {s}]
       /\ sliding' = [sliding EXCEPT ![w] = @ \cup {s}]

PressSection(w, s) ==
  /\ ToggleCollapse(s)
  /\ Collapse(w, s)
  /\ disturbed' = [v \in Windows |-> IF v # w \/ s \in sliding[w]
                                     THEN disturbed[v] \cup {s} ELSE disturbed[v]]
  /\ UNCHANGED inClass

EndSlide(w, s) ==
  /\ s \in sliding[w]
  /\ sliding' = [sliding EXCEPT ![w] = @ \ {s}]
  /\ UNCHANGED <<unCollapsed, opened, inClass, disturbed>>

SidebarNext ==
  \/ \E w \in Windows, own \in SUBSET Sections : LoadMenu(w, own)
  \/ \E w \in Windows, s \in Sections : PressSection(w, s)
  \/ \E w \in Windows, s \in Sections : EndSlide(w, s)

SidebarSpec == SidebarInit /\ [][SidebarNext]_sidebarVars
-----------------------------------------------------------------------------
(* Properties.                                                             *)

\* A section that agreed with what is kept when its page was loaded goes on
\* agreeing with it, however sections are pressed in turn: unless it is pressed
\* while it slides, or in another window.
KeptFollowsMenu ==
  \A w \in Windows, s \in KeptOf :
    s \notin disturbed[w] => (s \in opened[w] <=> s \in unCollapsed)
=============================================================================
