-------------------------------- MODULE Pages -------------------------------
(***************************************************************************)
(* The browser: it has one of the pages open that the modules below        *)
(* describe.  Their scripts are concatenated into one (hyrax.js), but on a *)
(* page only the handlers for what it shows are bound.  The scripts share  *)
(* no state but one implicit global: featured_works.js and trophy.js both  *)
(* set anchor, and no page has something for both.                         *)
(***************************************************************************)
EXTENDS BatchEdit, BatchSelection, CollectionModals, FeaturedWorks, Trophies,
        SingleUseLinks, ProxyRights, NavSafety, LinkedRecord, FormRows,
        UploadGate, Sidebar, FeatureLinks

VARIABLE page \* the page that is open

pageNames ==
  {"batchEdit", "batchSelection", "collections", "featuredWorks",
   "trophies", "singleUseLinks", "proxyRights", "tabs",
   "linkedRecord", "rows", "uploads", "sidebar", "featureLinks"}

pagesVars == <<page, editVars, selectVars, modalVars, featVars,
               trophyVars, linkVars, proxyVars, navVars,
               recordVars, rowVars, gateVars, sidebarVars, linksVars>>

PagesInit ==
  /\ page \in pageNames
  /\ EditInit
  /\ SelectInit
  /\ ModalInit
  /\ FeatInit
  /\ TrophyInit
  /\ LinkInit
  /\ ProxyInit
  /\ NavInit
  /\ RecordInit
  /\ RowInit
  /\ GateInit
  /\ SidebarInit
  /\ LinksInit
  \* What differs at the start of a page is left open only where it matters.
  /\ page # "collections" => place = "list"
  /\ page # "featuredWorks" => rendered = CHOOSE order \in SetToSeqs(Works) : TRUE
  /\ page # "trophies" => onProfile = FALSE /\ trophies = {}
  /\ page # "proxyRights" => proxies = {}
  /\ page # "rows" => aliases = FALSE
  /\ page # "featureLinks" => others = 0 /\ copies = 0
-----------------------------------------------------------------------------
EditPage ==
  /\ page = "batchEdit"
  /\ EditNext
  /\ UNCHANGED <<page, selectVars, modalVars, featVars, trophyVars, linkVars,
                 proxyVars, navVars, recordVars, rowVars, gateVars,
                 sidebarVars, linksVars>>

SelectionPage ==
  /\ page = "batchSelection"
  /\ SelectNext
  /\ UNCHANGED <<page, editVars, modalVars, featVars, trophyVars, linkVars,
                 proxyVars, navVars, recordVars, rowVars, gateVars,
                 sidebarVars, linksVars>>

CollectionsPage ==
  /\ page = "collections"
  /\ ModalNext
  /\ UNCHANGED <<page, editVars, selectVars, featVars, trophyVars, linkVars,
                 proxyVars, navVars, recordVars, rowVars, gateVars,
                 sidebarVars, linksVars>>

FeaturedPage ==
  /\ page = "featuredWorks"
  /\ FeatNext
  /\ UNCHANGED <<page, editVars, selectVars, modalVars, trophyVars, linkVars,
                 proxyVars, navVars, recordVars, rowVars, gateVars,
                 sidebarVars, linksVars>>

TrophiesPage ==
  /\ page = "trophies"
  /\ TrophyNext
  /\ UNCHANGED <<page, editVars, selectVars, modalVars, featVars, linkVars,
                 proxyVars, navVars, recordVars, rowVars, gateVars,
                 sidebarVars, linksVars>>

LinksPage ==
  /\ page = "singleUseLinks"
  /\ LinkNext
  /\ UNCHANGED <<page, editVars, selectVars, modalVars, featVars, trophyVars,
                 proxyVars, navVars, recordVars, rowVars, gateVars,
                 sidebarVars, linksVars>>

ProxiesPage ==
  /\ page = "proxyRights"
  /\ ProxyNext
  /\ UNCHANGED <<page, editVars, selectVars, modalVars, featVars, trophyVars,
                 linkVars, navVars, recordVars, rowVars, gateVars,
                 sidebarVars, linksVars>>

TabsPage ==
  /\ page = "tabs"
  /\ NavNext
  /\ UNCHANGED <<page, editVars, selectVars, modalVars, featVars, trophyVars,
                 linkVars, proxyVars, recordVars, rowVars, gateVars,
                 sidebarVars, linksVars>>

RecordPage ==
  /\ page = "linkedRecord"
  /\ RecordNext
  /\ UNCHANGED <<page, editVars, selectVars, modalVars, featVars, trophyVars,
                 linkVars, proxyVars, navVars, rowVars, gateVars,
                 sidebarVars, linksVars>>

RowsPage ==
  /\ page = "rows"
  /\ RowNext
  /\ UNCHANGED <<page, editVars, selectVars, modalVars, featVars, trophyVars,
                 linkVars, proxyVars, navVars, recordVars, gateVars,
                 sidebarVars, linksVars>>

UploadsPage ==
  /\ page = "uploads"
  /\ GateNext
  /\ UNCHANGED <<page, editVars, selectVars, modalVars, featVars, trophyVars,
                 linkVars, proxyVars, navVars, recordVars, rowVars,
                 sidebarVars, linksVars>>

SidebarPage ==
  /\ page = "sidebar"
  /\ SidebarNext
  /\ UNCHANGED <<page, editVars, selectVars, modalVars, featVars, trophyVars,
                 linkVars, proxyVars, navVars, recordVars, rowVars, gateVars,
                 linksVars>>

FeatureLinksPage ==
  /\ page = "featureLinks"
  /\ LinksNext
  /\ UNCHANGED <<page, editVars, selectVars, modalVars, featVars, trophyVars,
                 linkVars, proxyVars, navVars, recordVars, rowVars, gateVars,
                 sidebarVars>>

PagesNext ==
  \/ EditPage
  \/ SelectionPage
  \/ CollectionsPage
  \/ FeaturedPage
  \/ TrophiesPage
  \/ LinksPage
  \/ ProxiesPage
  \/ TabsPage
  \/ RecordPage
  \/ RowsPage
  \/ UploadsPage
  \/ SidebarPage
  \/ FeatureLinksPage

\* Only the batch edit page is asked to come to an end; its fairness is that of
\* the browser's timers and of connections that succeed or fail.
PagesSpec == PagesInit /\ [][PagesNext]_pagesVars /\ EditFairness
-----------------------------------------------------------------------------
\* The types of the variables of every page.
PagesTypeOK ==
  /\ page \in pageNames
  /\ EditTypeOK /\ SelectTypeOK /\ ModalTypeOK /\ FeatTypeOK /\ TrophyTypeOK
  /\ LinkTypeOK /\ ProxyTypeOK /\ NavTypeOK /\ RecordTypeOK /\ RowTypeOK
  /\ GateTypeOK /\ SidebarTypeOK /\ LinksTypeOK
=============================================================================
