---------------------------- MODULE Pages_proofs ---------------------------
(***************************************************************************)
(* What is proved of each page holds of the browser that opens them: a     *)
(* step of the browser is, for every page, a step of its own or one that   *)
(* leaves it alone.  The invariants of the pages, side by side, are one.   *)
(***************************************************************************)
EXTENDS Pages, BatchEdit_proofs, LocalPages_proofs, ServerPages_proofs

\* The invariants of the pages, side by side.
PagesInv ==
  /\ page \in pageNames
  /\ EditInv
  /\ ModalInv
  /\ GateInv
  /\ SelectInv
  /\ NavInv
  /\ SidebarInv
  /\ StarInv
  /\ ProxyInv
  /\ LinkInv
  /\ RecordInv
  /\ LinksInv
  /\ FeatInv
  /\ RowInv
-----------------------------------------------------------------------------
LEMMA PagesStep ==
  ASSUME [PagesNext]_pagesVars
  PROVE  /\ [EditNext]_editVars
         /\ [ModalNext]_modalVars
         /\ [GateNext]_gateVars
         /\ [SelectNext]_selectVars
         /\ [NavNext]_navVars
         /\ [SidebarNext]_sidebarVars
         /\ [TrophyNext]_trophyVars
         /\ [ProxyNext]_proxyVars
         /\ [LinkNext]_linkVars
         /\ [RecordNext]_recordVars
         /\ [LinksNext]_linksVars
         /\ [FeatNext]_featVars
         /\ [RowNext]_rowVars
<1>1. CASE EditPage
  BY <1>1 DEF EditPage
<1>2. CASE SelectionPage
  BY <1>2 DEF SelectionPage
<1>3. CASE CollectionsPage
  BY <1>3 DEF CollectionsPage
<1>4. CASE TabsPage
  BY <1>4 DEF TabsPage
<1>5. CASE UploadsPage
  BY <1>5 DEF UploadsPage
<1>6. CASE SidebarPage
  BY <1>6 DEF SidebarPage
<1>7. CASE TrophiesPage
  BY <1>7 DEF TrophiesPage
<1>8. CASE ProxiesPage
  BY <1>8 DEF ProxiesPage
<1>9. CASE LinksPage
  BY <1>9 DEF LinksPage
<1>10. CASE RecordPage
  BY <1>10 DEF RecordPage
<1>11. CASE FeatureLinksPage
  BY <1>11 DEF FeatureLinksPage
<1>12. CASE FeaturedPage
  BY <1>12 DEF FeaturedPage
<1>13. CASE RowsPage
  BY <1>13 DEF RowsPage
<1>14. CASE UNCHANGED pagesVars
  BY <1>14 DEF pagesVars
<1> QED
  BY <1>1, <1>2, <1>3, <1>4, <1>5, <1>6, <1>7, <1>8, <1>9, <1>10, <1>11, <1>12,
     <1>13, <1>14
  DEF PagesNext

LEMMA PagesInitially == PagesInit => PagesInv
<1>1. PagesInit => EditInit /\ ModalInit /\ GateInit /\ SelectInit /\ NavInit
                   /\ SidebarInit /\ TrophyInit /\ ProxyInit /\ LinkInit
                   /\ RecordInit /\ LinksInit /\ FeatInit
                   /\ RowInit /\ page \in pageNames
  BY DEF PagesInit
<1> QED
  BY <1>1, EditInitially, ModalInitially, GateInitially, SelectInitially,
     NavInitially, SidebarInitially, StarInitially, ProxyInitially,
     LinkInitially, RecordInitially, LinksInitially, FeatInitially, RowInitially
  DEF PagesInv

LEMMA PagesInductive ==
  ASSUME PagesInv, [PagesNext]_pagesVars
  PROVE  PagesInv'
<1>1. EditInv'
  BY PagesStep, EditInductive DEF PagesInv
<1>2. ModalInv'
  BY PagesStep, ModalInductive DEF PagesInv
<1>3. GateInv'
  BY PagesStep, GateInductive DEF PagesInv
<1>4. SelectInv'
  BY PagesStep, SelectInductive DEF PagesInv
<1>5. NavInv'
  BY PagesStep, NavInductive DEF PagesInv
<1>6. SidebarInv'
  BY PagesStep, SidebarInductive DEF PagesInv
<1>7. StarInv'
  BY PagesStep, StarInductive DEF PagesInv
<1>8. ProxyInv'
  BY PagesStep, ProxyInductive DEF PagesInv
<1>9. LinkInv'
  BY PagesStep, LinkInductive DEF PagesInv
<1>10. RecordInv'
  BY PagesStep, RecordInductive DEF PagesInv
<1>11. LinksInv'
  BY PagesStep, LinksInductive DEF PagesInv
<1>12. FeatInv'
  BY PagesStep, FeatInductive DEF PagesInv
<1>13. RowInv'
  BY PagesStep, RowInductive DEF PagesInv
<1>14. page' = page
  <2>1. PagesNext => page' = page
    BY DEF PagesNext, EditPage, SelectionPage, CollectionsPage, TabsPage,
       UploadsPage, SidebarPage, TrophiesPage, ProxiesPage, LinksPage,
       RecordPage, FeatureLinksPage, FeaturedPage, RowsPage
  <2> QED
    BY <2>1 DEF pagesVars
<1> QED
  BY <1>1, <1>2, <1>3, <1>4, <1>5, <1>6, <1>7, <1>8, <1>9, <1>10, <1>11, <1>12,
     <1>13, <1>14
  DEF PagesInv

LEMMA PagesAreInOrder == PagesSpec => []PagesInv
  BY PagesInitially, PagesInductive, PTL DEF PagesSpec

\* The browser keeps the types of the state of every page.
THEOREM PagesKeepTheirTypes == PagesSpec => []PagesTypeOK
<1>1. PagesInv => PagesTypeOK
  BY DEF PagesInv, PagesTypeOK, EditInv, ModalInv, GateInv, SelectInv, NavInv,
     SidebarInv, StarInv, ProxyInv, LinkInv, RecordInv, LinksInv, FeatInv, RowInv
<1> QED
  BY <1>1, PagesAreInOrder, PTL

\* In the specification that is model-checked: one request at a time, nothing
\* called saved that is not, no form forgotten (batch_edit.js); deletions of what
\* is selected or was abandoned (batch_select.es6); requests that pass their
\* guard, once (collections.js); edits in sight (nav_safety.js); uploads not lost
\* (uploaded_files.es6); the menu kept (collapse.js).
THEOREM PagesKeepTheirPromises ==
  PagesSpec => [](/\ OneRequestInFlight
                  /\ SavedIsStored
                  /\ DisabledFormsWait
                  /\ OnlyAbandonedBesidesSelected
                  /\ PostsPassTheirGuard
                  /\ OneDeletionPerModal
                  /\ UnsavedEditsAreInSight
                  /\ NoUploadIsLost
                  /\ KeptFollowsMenu)
<1> DEFINE Promises ==
             /\ OneRequestInFlight
             /\ SavedIsStored
             /\ DisabledFormsWait
             /\ OnlyAbandonedBesidesSelected
             /\ PostsPassTheirGuard
             /\ OneDeletionPerModal
             /\ UnsavedEditsAreInSight
             /\ NoUploadIsLost
             /\ KeptFollowsMenu
<1>1. NavInv => UnsavedEditsAreInSight
  BY DEF NavInv, EditsAreGuarded, Unguarded, UnsavedEditsAreInSight
<1>2. PagesInv => Promises
  BY <1>1 DEF PagesInv, EditInv, SelectInv, ModalInv, GateInv, SidebarInv
<1> HIDE DEF Promises
<1>3. PagesSpec => []Promises
  BY <1>2, PagesAreInOrder, PTL
<1> QED
  BY <1>3 DEF Promises

\* There too, every page that shows what the server has shows it when it rests:
\* the stars (trophy.js), the proxies (proxy_rights.js), the links
\* (single_use_links_manager.js, featured_works.js) and the list of the featured
\* works, but for what the answer to a request told that was handled and whose
\* answer was lost, and the other exceptions that each invariant names; and no
\* record is created that duplicates another unseen (compound_metadata.js).
THEOREM PagesShowTheServer ==
  PagesSpec => [](/\ StarsFollowTrophies
                  /\ RowsAreProxies
                  /\ TableFollowsLinks
                  /\ LinksFollowRows
                  /\ ListFollowsFeatured
                  /\ NoSilentDuplicate)
<1> DEFINE Promises ==
             /\ StarsFollowTrophies
             /\ RowsAreProxies
             /\ TableFollowsLinks
             /\ LinksFollowRows
             /\ ListFollowsFeatured
             /\ NoSilentDuplicate
<1>1. RecordInv => NoSilentDuplicate
  BY DEF RecordInv, NoSilentDuplicate
<1>2. LinksInv => LinksFollowRows
  BY DEF LinksInv
<1>3. PagesInv => Promises
  BY <1>1, <1>2, StarsSettle, RowsSettle, TableSettles, ListSettles DEF PagesInv
<1> HIDE DEF Promises
<1>4. PagesSpec => []Promises
  BY <1>3, PagesAreInOrder, PTL
<1> QED
  BY <1>4 DEF Promises

\* And the order that featured works were given is the one that is shown after
\* it was saved, if no row is posted whose removal was stored and not answered
\* (featured_works.js).
THEOREM PagesKeepTheOrder == PagesSpec => SavedOrderIsShown
<1>1. PagesInv /\ [PagesNext]_pagesVars => [OrderStays]_featVars
  BY SaveShowsOrder DEF PagesInv
<1>2. PagesSpec => [][OrderStays]_featVars
  BY <1>1, PagesAreInOrder, PTL DEF PagesSpec
<1> QED
  BY <1>2 DEF SavedOrderIsShown, OrderStays

\* And the form of redirects or of a compound field is the list of rows that
\* its user sees, whatever was added, removed and posted (redirects.js,
\* compound_metadata.js and the populators).
THEOREM PagesFormIsRowList == PagesSpec => FormIsRowList
<1>1. PagesInit => Shown!ListInit
  BY RowInitially DEF PagesInit
<1>2. PagesInv /\ [PagesNext]_pagesVars => [Shown!ListNext]_(Shown!listVars)
  BY PagesStep, RowInductive DEF PagesInv
<1>3. PagesSpec => Shown!ListSpec
  BY <1>1, <1>2, PagesAreInOrder, PTL DEF PagesSpec, Shown!ListSpec
<1> QED
  BY <1>3 DEF FormIsRowList
=============================================================================
