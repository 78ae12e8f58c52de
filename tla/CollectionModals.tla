-------------------------- MODULE CollectionModals -------------------------
(***************************************************************************)
(* The modals of the collection lists and of the page of a collection      *)
(* (app/assets/javascripts/hyrax/collections.js).  There is one modal of a *)
(* kind on a page: opening it for a row writes the row's url into its data *)
(* attributes, its button posts to the url it reads with jQuery's data().  *)
(***************************************************************************)
EXTENDS Naturals, Sequences

CONSTANTS
  Rows,       \* the collections and admin sets of the page
  NoRow,
  Nestable,   \* rows whose type may be nested
  Accessible, \* rows the user may edit and delete
  AdminSets,  \* rows that are admin sets
  WithItems,  \* rows that have members
  MaxPosts    \* bound: requests sent from the modals

ASSUME RowsAssumption ==
  /\ NoRow \notin Rows
  /\ Nestable \subseteq Rows /\ Accessible \subseteq Rows
  /\ AdminSets \subseteq Rows /\ WithItems \subseteq Rows

Deleting == {"delete", "deleteEmpty"}
Removing == {"removeParent", "removeChild"}
Shared   == Deleting \cup Removing \cup {"add"} \* one modal for all rows
Modals   == Shared \cup {"addChild"}            \* and one modal for each row

VARIABLES
  place,    \* a list of collections, or the page of one
  cached,   \* cached[m]: the row whose url data() has kept for m
  shown,    \* the modal on the screen, and the row it was opened for
  disabled, \* the modals whose button is disabled
  loads,    \* how often the page was loaded
  posts     \* the requests sent from the modals, in order

modalVars == <<place, cached, shown, disabled, loads, posts>>

Nothing == [modal |-> "none", row |-> NoRow]
Denied  == [modal |-> "denied", row |-> NoRow]

\* A request for row, sent while the screen showed meant.
Post == [modal : Modals, row : Rows, meant : Rows, page : Nat,
         state : {"sent", "done", "failed"}]

ModalTypeOK ==
  /\ place \in {"list", "collection"}
  /\ cached \in [Shared -> Rows \cup {NoRow}]
  /\ shown \in [modal : Modals \cup {"none", "denied", "deleteSelected"},
                row : Rows \cup {NoRow}]
  /\ disabled \subseteq Modals
  /\ loads \in Nat
  /\ posts \in Seq(Post)

\* The rows whose url a modal may be given.
Permitted(m) ==
  CASE m = "add"         -> Nestable \cap Accessible
    [] m = "delete"      -> (Accessible \cap WithItems) \ AdminSets
    [] m = "deleteEmpty" -> Accessible \ WithItems
    [] m \in Removing    -> Accessible
    [] OTHER             -> Rows

ModalInit ==
  /\ place \in {"list", "collection"}
  /\ cached = [m \in Shared |-> NoRow]
  /\ shown = Nothing
  /\ disabled = {"add"}
  /\ loads = 0
  /\ posts = <<>>
-----------------------------------------------------------------------------
\* addDataAttributesToModal and modal('show').  Bootstrap's modal reads all of
\* the data of its element when it is shown; jQuery takes an attribute the
\* first time it is read, keeps that value, and does not look at it again.
OpenFor(m, r) ==
  /\ cached' = IF cached[m] = NoRow THEN [cached EXCEPT ![m] = r] ELSE cached
  /\ shown' = [modal |-> m, row |-> r]

Deny == shown' = Denied /\ UNCHANGED cached

\* handleAddToCollection: the button waits for a choice of parent.
AddToCollection(r) ==
  /\ shown = Nothing
  /\ IF r \in Nestable /\ r \in Accessible
     THEN OpenFor("add", r) /\ disabled' = disabled \cup {"add"}
     ELSE Deny /\ UNCHANGED disabled
  /\ UNCHANGED <<place, loads, posts>>

\* The select of a .disable-unless-selected modal changes.
SelectParent(chosen) ==
  /\ shown.modal = "add"
  /\ disabled' = IF chosen THEN disabled \ {"add"} ELSE disabled \cup {"add"}
  /\ UNCHANGED <<place, cached, shown, loads, posts>>

\* What handleDeleteCollection opens for a row.
DeleteModal(r) == IF r \in WithItems THEN "delete" ELSE "deleteEmpty"

\* Mutant: an admin set with works in it is not refused.
DeleteCollectionOfAnyKind(r) ==
  /\ place = "list"
  /\ shown = Nothing
  /\ IF r \notin Accessible THEN Deny ELSE OpenFor(DeleteModal(r), r)
  /\ UNCHANGED <<place, disabled, loads, posts>>

DeleteCollection(r) ==
  /\ place = "list"
  /\ shown = Nothing
  /\ IF r \notin Accessible \/ (r \in WithItems /\ r \in AdminSets)
     THEN Deny
     ELSE OpenFor(DeleteModal(r), r)
  /\ UNCHANGED <<place, disabled, loads, posts>>

\* What the two buttons that remove have in common: the view gives a button that
\* only denies to those who may not edit the row.
RemoveFrom(m, r) ==
  /\ place = "collection"
  /\ r \notin AdminSets
  /\ shown = Nothing
  /\ IF r \in Accessible THEN OpenFor(m, r) ELSE Deny
  /\ UNCHANGED <<place, disabled, loads, posts>>

\* A button of the list of parents, and of the list of subcollections.
RemoveParent(r) == RemoveFrom("removeParent", r)
RemoveSubcollection(r) == RemoveFrom("removeChild", r)

\* The modal that adds a subcollection belongs to its row.
AddSubcollection(r) ==
  /\ place = "collection"
  /\ r \notin AdminSets
  /\ shown = Nothing
  /\ shown' = [modal |-> "addChild", row |-> r]
  /\ UNCHANGED <<place, cached, disabled, loads, posts>>

\* The button that deletes the collections whose boxes are checked.
DeleteSelectedCollections(selection) ==
  /\ place = "list"
  /\ shown = Nothing
  /\ selection # {}
  /\ shown' = IF selection \subseteq Accessible
              THEN [modal |-> "deleteSelected", row |-> NoRow]
              ELSE Denied
  /\ UNCHANGED <<place, cached, disabled, loads, posts>>

CloseModal ==
  /\ shown # Nothing
  /\ shown' = Nothing
  /\ UNCHANGED <<place, cached, disabled, loads, posts>>

\* The url a modal's button posts to: data() answers with what it has kept for
\* a shared one, the others have it on the button.
UrlOf(m) == IF m \in Shared THEN cached[m] ELSE shown.row

\* submitModalAjax, for a press on the enabled button of the modal shown.
SubmitModalAjax ==
  /\ shown.modal \in Modals \ disabled
  /\ Len(posts) < MaxPosts
  /\ posts' = Append(posts, [modal |-> shown.modal, row |-> UrlOf(shown.modal),
                             meant |-> shown.row, page |-> loads, state |-> "sent"])
  /\ UNCHANGED <<place, cached, shown, loads>>

\* handleModalDeleteCollection: the button is disabled, and never enabled again.
SubmitDelete ==
  /\ shown.modal \in Deleting
  /\ SubmitModalAjax
  /\ disabled' = disabled \cup {shown.modal}

\* The button of both modals that remove.
SubmitRemove ==
  /\ shown.modal \in Removing
  /\ SubmitModalAjax
  /\ disabled' = disabled \cup {shown.modal}

\* The buttons that add stay enabled.
SubmitAdd      == shown.modal = "add" /\ SubmitModalAjax /\ UNCHANGED disabled
SubmitAddChild == shown.modal = "addChild" /\ SubmitModalAjax /\ UNCHANGED disabled

\* The server redirects: the page is replaced.
PostDone(i) ==
  /\ posts[i].state = "sent"
  /\ posts' = [posts EXCEPT ![i].state = "done"]
  /\ cached' = [m \in Shared |-> NoRow]
  /\ shown' = Nothing
  /\ disabled' = {"add"}
  /\ loads' = loads + 1
  /\ UNCHANGED place

\* An alert is put into the modal.
PostFailed(i) ==
  /\ posts[i].state = "sent"
  /\ posts' = [posts EXCEPT ![i].state = "failed"]
  /\ UNCHANGED <<place, cached, shown, disabled, loads>>

ModalNext ==
  \/ \E r \in Rows : AddToCollection(r)
  \/ \E chosen \in BOOLEAN : SelectParent(chosen)
  \/ \E r \in Rows : DeleteCollection(r)
  \/ \E r \in Rows : RemoveParent(r)
  \/ \E r \in Rows : RemoveSubcollection(r)
  \/ \E r \in Rows : AddSubcollection(r)
  \/ \E selection \in SUBSET Rows : DeleteSelectedCollections(selection)
  \/ CloseModal
  \/ SubmitDelete
  \/ SubmitRemove
  \/ SubmitAdd
  \/ SubmitAddChild
  \/ \E i \in 1 .. Len(posts) : PostDone(i)
  \/ \E i \in 1 .. Len(posts) : PostFailed(i)

ModalSpec == ModalInit /\ [][ModalNext]_modalVars
-----------------------------------------------------------------------------
(* Properties.                                                             *)

\* "Sync collection data attributes to the singular instance of the modal so it
\* knows what data to post" (collections.js:54): a request is for the row its
\* modal was opened for.
PostsForTheRowShown == \A i \in 1 .. Len(posts) : posts[i].row = posts[i].meant

\* Whatever data() has kept: a request is for a row that is not refused its
\* modal, so an admin set with works in it is not deleted through the modal of
\* another, and no row with items through the modal that says it has none.
PostsPassTheirGuard ==
  \A i \in 1 .. Len(posts) : posts[i].row \in Permitted(posts[i].modal)

\* A modal that deletes or removes sends one request from a page: a wrong one
\* is not repeated by trying again.
OneDeletionPerModal ==
  \A i, j \in 1 .. Len(posts) :
    /\ posts[i].modal = posts[j].modal
    /\ posts[i].modal \in Deleting \cup Removing
    /\ posts[i].page = posts[j].page
    => i = j
=============================================================================
