------------------------- MODULE ServerPages_proofs -------------------------
(***************************************************************************)
(* The pages whose requests a server answers, each for any of its rows and *)
(* any number of requests: the modals of the collections, the stars of the *)
(* works, the proxies of a user, the single use links of a work, the form  *)
(* of a linked record, the links that feature a work, the list of the      *)
(* featured works, and the forms that are posted with the rows they show.  *)
(* The promise of a page is kept by an invariant that says what each       *)
(* request under way will find and what its answer will do.                *)
(***************************************************************************)
EXTENDS CollectionModals, Trophies, ProxyRights, SingleUseLinks, LinkedRecord,
        FeatureLinks, FeaturedWorks, FormRows, SequenceTheorems,
        FiniteSetTheorems, TLAPS
-----------------------------------------------------------------------------
(* The modals of the collections. Two things hold although a modal goes on *)
(* posting for the row it was first opened for. What data() has kept for a *)
(* modal once passed the guard of that modal, and the guard does not       *)
(* depend on when it is asked; and the button of a modal that deletes or   *)
(* removes is disabled from its request on, until the page is loaded       *)
(* again.                                                                  *)

\* What is kept for a modal is a row it may be opened for.
KeptRowsPermitted ==
  \A m \in Shared : cached[m] = NoRow \/ cached[m] \in Permitted(m)

\* A modal on the screen has a row to post for.
ShownHasRow ==
  /\ shown.modal \in Shared => cached[shown.modal] # NoRow
  /\ shown.modal \in Modals => shown.row \in Rows

\* A modal whose request was sent from this page is disabled, if it deletes or
\* removes; no request is from a later page.
SpentIsDisabled ==
  \A i \in 1 .. Len(posts) :
    /\ posts[i].page <= loads
    /\ posts[i].page = loads /\ posts[i].modal \in Deleting \cup Removing
         => posts[i].modal \in disabled

ModalInv ==
  /\ ModalTypeOK
  /\ KeptRowsPermitted
  /\ ShownHasRow
  /\ SpentIsDisabled
  /\ PostsPassTheirGuard
  /\ OneDeletionPerModal
-----------------------------------------------------------------------------
LEMMA ModalsDiffer ==
  /\ Deleting \cup Removing \subseteq Shared
  /\ Shared \subseteq Modals
  /\ "add" \notin Deleting \cup Removing /\ "addChild" \notin Shared
  /\ "addChild" \in Modals
  /\ {"none", "denied", "deleteSelected"} \cap Modals = {}
BY DEF Deleting, Removing, Shared, Modals

\* A step that sends and answers nothing, and disables no less than before.
LEMMA QuietStep ==
  ASSUME ModalInv, ModalTypeOK',
         UNCHANGED <<loads, posts>>,
         disabled \cap (Deleting \cup Removing) \subseteq disabled',
         KeptRowsPermitted', ShownHasRow'
  PROVE  ModalInv'
<1>1. SpentIsDisabled'
  BY DEF ModalInv, SpentIsDisabled
<1>2. PostsPassTheirGuard' /\ OneDeletionPerModal'
  BY DEF ModalInv, PostsPassTheirGuard, OneDeletionPerModal, Permitted
<1> QED
  BY <1>1, <1>2 DEF ModalInv

\* Opening a modal for a row that passes its guard.
LEMMA OpenForKeeps ==
  ASSUME ModalInv, NEW m \in Shared, NEW r \in Permitted(m), OpenFor(m, r),
         UNCHANGED <<place, loads, posts>>, disabled' \subseteq Modals,
         disabled \cap (Deleting \cup Removing) \subseteq disabled'
  PROVE  ModalInv'
<1>1. r \in Rows /\ r # NoRow
  BY RowsAssumption
  DEF Permitted, Shared, Deleting, Removing
<1>2. ModalTypeOK'
  BY <1>1, ModalsDiffer DEF ModalInv, ModalTypeOK, OpenFor
<1>3. KeptRowsPermitted'
  BY DEF ModalInv, ModalTypeOK, KeptRowsPermitted, OpenFor, Permitted
<1>4. ShownHasRow'
  BY <1>1 DEF ModalInv, ModalTypeOK, ShownHasRow, OpenFor
<1> QED
  BY <1>2, <1>3, <1>4, QuietStep

\* What is on the screen is no modal, or the modal is gone.
LEMMA HideKeeps ==
  ASSUME ModalInv, shown' \in [modal : {"none", "denied", "deleteSelected"},
                               row : Rows \cup {NoRow}],
         UNCHANGED <<place, cached, disabled, loads, posts>>
  PROVE  ModalInv'
<1>1. ModalTypeOK'
  BY DEF ModalInv, ModalTypeOK
<1>2. KeptRowsPermitted'
  BY DEF ModalInv, KeptRowsPermitted, Permitted
<1>3. ShownHasRow'
  BY ModalsDiffer DEF ShownHasRow
<1> QED
  BY <1>1, <1>2, <1>3, QuietStep

\* A request goes to a row that passed the guard, and is the first from this
\* page if its modal deletes or removes.
LEMMA SubmitKeeps ==
  ASSUME ModalInv, SubmitModalAjax,
         disabled' = disabled \/ disabled' = disabled \cup {shown.modal},
         shown.modal \in Deleting \cup Removing => shown.modal \in disabled'
  PROVE  ModalInv'
<1> DEFINE p == [modal |-> shown.modal, row |-> UrlOf(shown.modal),
                 meant |-> shown.row, page |-> loads, state |-> "sent"]
<1>1. /\ shown.modal \in Modals \ disabled
      /\ posts' = Append(posts, p)
      /\ UNCHANGED <<place, cached, shown, loads>>
  BY DEF SubmitModalAjax
<1>2. p.row \in Rows /\ p.row \in Permitted(shown.modal)
  <2>1. CASE shown.modal \in Shared
    <3>1. p.row = cached[shown.modal] /\ p.row # NoRow
      BY <2>1 DEF UrlOf, ModalInv, ShownHasRow
    <3> QED
      BY <2>1, <3>1 DEF ModalInv, ModalTypeOK, KeptRowsPermitted
  <2>2. CASE shown.modal \notin Shared
    <3>1. shown.modal = "addChild" /\ p.row = shown.row
      BY <1>1, <2>2 DEF Modals, UrlOf
    <3>2. Permitted(shown.modal) = Rows
      BY <3>1 DEF Permitted, Removing
    <3> QED
      BY <1>1, <3>1, <3>2 DEF ModalInv, ShownHasRow
  <2> QED
    BY <2>1, <2>2
<1>3. p \in Post
  BY <1>1, <1>2 DEF ModalInv, ModalTypeOK, ShownHasRow, Post
<1>4. /\ posts \in Seq(Post) /\ loads \in Nat
      /\ posts' \in Seq(Post) /\ Len(posts') = Len(posts) + 1
      /\ posts'[Len(posts) + 1] = p
      /\ \A i \in 1 .. Len(posts) : posts'[i] = posts[i]
  BY <1>1, <1>3 DEF ModalInv, ModalTypeOK
<1>5. disabled \subseteq disabled' /\ disabled' \subseteq Modals
  BY <1>1 DEF ModalInv, ModalTypeOK
<1> HIDE DEF p
<1>6. p.modal = shown.modal /\ p.page = loads
  BY DEF p
<1>7. ModalTypeOK'
  BY <1>1, <1>4, <1>5 DEF ModalInv, ModalTypeOK
<1>8. KeptRowsPermitted' /\ ShownHasRow'
  BY <1>1 DEF ModalInv, KeptRowsPermitted, ShownHasRow, Permitted
<1>9. \A i \in 1 .. Len(posts') : i \in 1 .. Len(posts) \/ i = Len(posts) + 1
  BY <1>4
<1>10. SpentIsDisabled'
  BY <1>1, <1>4, <1>5, <1>6, <1>9 DEF ModalInv, SpentIsDisabled
<1>11. PostsPassTheirGuard'
  BY <1>2, <1>4, <1>6, <1>9 DEF ModalInv, PostsPassTheirGuard, Permitted
<1>12. \A i \in 1 .. Len(posts) :
         ~(/\ posts[i].modal = p.modal
           /\ p.modal \in Deleting \cup Removing
           /\ posts[i].page = p.page)
  BY <1>1, <1>6 DEF ModalInv, SpentIsDisabled
<1>13. OneDeletionPerModal'
  BY <1>4, <1>9, <1>12 DEF ModalInv, OneDeletionPerModal
<1> QED
  BY <1>7, <1>8, <1>10, <1>11, <1>13 DEF ModalInv

\* An answer changes the state of a request and nothing else of it.
LEMMA AnswerKeepsPosts ==
  ASSUME ModalInv, NEW i \in 1 .. Len(posts), NEW s \in {"done", "failed"},
         posts' = [posts EXCEPT ![i].state = s]
  PROVE  /\ posts' \in Seq(Post) /\ Len(posts') = Len(posts)
         /\ \A j \in 1 .. Len(posts) :
              /\ posts'[j].modal = posts[j].modal
              /\ posts'[j].row = posts[j].row
              /\ posts'[j].page = posts[j].page
<1>1. posts \in Seq(Post)
  BY DEF ModalInv, ModalTypeOK
<1>2. [posts[i] EXCEPT !.state = s] \in Post
  <2>1. posts[i] \in Post
    BY <1>1
  <2> QED
    BY <2>1 DEF Post
<1>3. posts' = [posts EXCEPT ![i] = [posts[i] EXCEPT !.state = s]]
  OBVIOUS
<1>4. posts' \in Seq(Post) /\ Len(posts') = Len(posts)
  BY <1>1, <1>2, <1>3
<1>5. ASSUME NEW j \in 1 .. Len(posts)
      PROVE  /\ posts'[j].modal = posts[j].modal
             /\ posts'[j].row = posts[j].row
             /\ posts'[j].page = posts[j].page
  <2>1. posts[j] \in Post
    BY <1>1
  <2>2. posts'[j] = IF j = i THEN [posts[j] EXCEPT !.state = s] ELSE posts[j]
    BY <1>1, <1>3
  <2> QED
    BY <2>1, <2>2 DEF Post
<1> QED
  BY <1>4, <1>5

LEMMA DoneKeeps ==
  ASSUME ModalInv, NEW i \in 1 .. Len(posts), PostDone(i)
  PROVE  ModalInv'
<1>1. /\ posts' = [posts EXCEPT ![i].state = "done"]
      /\ cached' = [m \in Shared |-> NoRow]
      /\ shown' = Nothing
      /\ disabled' = {"add"}
      /\ loads' = loads + 1
      /\ UNCHANGED place
  BY DEF PostDone
<1>2. /\ posts' \in Seq(Post) /\ Len(posts') = Len(posts)
      /\ \A j \in 1 .. Len(posts) :
           /\ posts'[j].modal = posts[j].modal
           /\ posts'[j].row = posts[j].row
           /\ posts'[j].page = posts[j].page
  BY <1>1, AnswerKeepsPosts
<1>3. ModalTypeOK'
  BY <1>1, <1>2 DEF ModalInv, ModalTypeOK, Nothing, Modals, Shared
<1>4. KeptRowsPermitted' /\ ShownHasRow'
  BY <1>1, ModalsDiffer DEF KeptRowsPermitted, ShownHasRow, Nothing
<1>5. ASSUME NEW j \in 1 .. Len(posts)
      PROVE  posts[j].page \in Nat /\ posts[j].page <= loads
  <2>1. posts[j] \in Post
    BY DEF ModalInv, ModalTypeOK
  <2> QED
    BY <2>1 DEF ModalInv, SpentIsDisabled, Post
<1>6. loads \in Nat
  BY DEF ModalInv, ModalTypeOK
<1>7. SpentIsDisabled'
  BY <1>1, <1>2, <1>5, <1>6 DEF SpentIsDisabled
<1>8. PostsPassTheirGuard' /\ OneDeletionPerModal'
  BY <1>2 DEF ModalInv, PostsPassTheirGuard, OneDeletionPerModal, Permitted
<1> QED
  BY <1>3, <1>4, <1>7, <1>8 DEF ModalInv

LEMMA FailedKeeps ==
  ASSUME ModalInv, NEW i \in 1 .. Len(posts), PostFailed(i)
  PROVE  ModalInv'
<1>1. /\ posts' = [posts EXCEPT ![i].state = "failed"]
      /\ UNCHANGED <<place, cached, shown, disabled, loads>>
  BY DEF PostFailed
<1>2. /\ posts' \in Seq(Post) /\ Len(posts') = Len(posts)
      /\ \A j \in 1 .. Len(posts) :
           /\ posts'[j].modal = posts[j].modal
           /\ posts'[j].row = posts[j].row
           /\ posts'[j].page = posts[j].page
  BY <1>1, AnswerKeepsPosts
<1>3. ModalTypeOK'
  BY <1>1, <1>2 DEF ModalInv, ModalTypeOK
<1>4. KeptRowsPermitted' /\ ShownHasRow' /\ SpentIsDisabled'
  BY <1>1, <1>2
  DEF ModalInv, KeptRowsPermitted, ShownHasRow, SpentIsDisabled, Permitted
<1>5. PostsPassTheirGuard' /\ OneDeletionPerModal'
  BY <1>2 DEF ModalInv, PostsPassTheirGuard, OneDeletionPerModal, Permitted
<1> QED
  BY <1>3, <1>4, <1>5 DEF ModalInv
-----------------------------------------------------------------------------
LEMMA ModalInitially == ModalInit => ModalInv
<1> SUFFICES ASSUME ModalInit
             PROVE  ModalInv
  OBVIOUS
<1>1. ModalTypeOK
  BY DEF ModalInit, ModalTypeOK, Nothing, Modals, Shared
<1>2. KeptRowsPermitted /\ ShownHasRow
  BY ModalsDiffer DEF ModalInit, KeptRowsPermitted, ShownHasRow, Nothing
<1>3. Len(posts) = 0
  BY DEF ModalInit
<1>4. SpentIsDisabled /\ PostsPassTheirGuard /\ OneDeletionPerModal
  BY <1>3 DEF SpentIsDisabled, PostsPassTheirGuard, OneDeletionPerModal
<1> QED
  BY <1>1, <1>2, <1>4 DEF ModalInv

LEMMA ModalInductive ==
  ASSUME ModalInv, [ModalNext]_modalVars
  PROVE  ModalInv'
<1>0. disabled \subseteq Modals /\ ModalTypeOK
  BY DEF ModalInv, ModalTypeOK
<1>1. ASSUME NEW r \in Rows, AddToCollection(r)
      PROVE  ModalInv'
  <2>1. CASE r \in Nestable /\ r \in Accessible
    <3>1. r \in Permitted("add") /\ "add" \in Shared /\ "add" \in Modals
      BY <2>1 DEF Permitted, Shared, Modals
    <3> QED
      BY <1>0, <1>1, <2>1, <3>1, OpenForKeeps DEF AddToCollection
  <2>2. CASE ~(r \in Nestable /\ r \in Accessible)
    BY <1>1, <2>2, HideKeeps DEF AddToCollection, Deny, Denied
  <2> QED
    BY <2>1, <2>2
<1>2. ASSUME NEW chosen \in BOOLEAN, SelectParent(chosen)
      PROVE  ModalInv'
  <2>1. /\ UNCHANGED <<place, cached, shown, loads, posts>>
        /\ disabled' = disabled \ {"add"} \/ disabled' = disabled \cup {"add"}
    BY <1>2 DEF SelectParent
  <2>2. ModalTypeOK'
    BY <1>0, <2>1 DEF ModalTypeOK, Modals, Shared
  <2>3. KeptRowsPermitted' /\ ShownHasRow'
    BY <2>1 DEF ModalInv, KeptRowsPermitted, ShownHasRow, Permitted
  <2> QED
    BY <2>1, <2>2, <2>3, QuietStep, ModalsDiffer
<1>3. ASSUME NEW r \in Rows, DeleteCollection(r)
      PROVE  ModalInv'
  <2>1. CASE r \notin Accessible \/ (r \in WithItems /\ r \in AdminSets)
    BY <1>3, <2>1, HideKeeps DEF DeleteCollection, Deny, Denied
  <2>2. CASE ~(r \notin Accessible \/ (r \in WithItems /\ r \in AdminSets))
    <3>1. r \in Permitted(DeleteModal(r)) /\ DeleteModal(r) \in Shared
      BY <2>2 DEF Permitted, DeleteModal, Shared, Deleting
    <3> QED
      BY <1>0, <1>3, <2>2, <3>1, OpenForKeeps DEF DeleteCollection
  <2> QED
    BY <2>1, <2>2
<1>4. ASSUME NEW m \in Removing, NEW r \in Rows, RemoveFrom(m, r)
      PROVE  ModalInv'
  <2>1. CASE r \in Accessible
    <3>1. r \in Permitted(m) /\ m \in Shared
      BY <2>1 DEF Permitted, Removing, Shared
    <3> QED
      BY <1>0, <1>4, <2>1, <3>1, OpenForKeeps DEF RemoveFrom
  <2>2. CASE r \notin Accessible
    BY <1>4, <2>2, HideKeeps DEF RemoveFrom, Deny, Denied
  <2> QED
    BY <2>1, <2>2
<1>5. ASSUME NEW r \in Rows, AddSubcollection(r)
      PROVE  ModalInv'
  <2>1. /\ shown' = [modal |-> "addChild", row |-> r]
        /\ UNCHANGED <<place, cached, disabled, loads, posts>>
    BY <1>5 DEF AddSubcollection
  <2>2. ModalTypeOK'
    BY <1>0, <2>1 DEF ModalTypeOK, Modals
  <2>3. KeptRowsPermitted' /\ ShownHasRow'
    BY <2>1, ModalsDiffer DEF ModalInv, KeptRowsPermitted, ShownHasRow, Permitted
  <2> QED
    BY <2>1, <2>2, <2>3, QuietStep
<1>6. ASSUME NEW selection \in SUBSET Rows, DeleteSelectedCollections(selection)
      PROVE  ModalInv'
  BY <1>6, HideKeeps DEF DeleteSelectedCollections, Denied
<1>7. CASE CloseModal
  BY <1>7, HideKeeps DEF CloseModal, Nothing
<1>8. CASE SubmitDelete
  BY <1>8, SubmitKeeps DEF SubmitDelete
<1>9. CASE SubmitRemove
  BY <1>9, SubmitKeeps DEF SubmitRemove
<1>10. CASE SubmitAdd
  BY <1>10, SubmitKeeps, ModalsDiffer DEF SubmitAdd
<1>11. CASE SubmitAddChild
  BY <1>11, SubmitKeeps, ModalsDiffer DEF SubmitAddChild
<1>12. ASSUME NEW i \in 1 .. Len(posts), PostDone(i)
       PROVE  ModalInv'
  BY <1>12, DoneKeeps
<1>13. ASSUME NEW i \in 1 .. Len(posts), PostFailed(i)
       PROVE  ModalInv'
  BY <1>13, FailedKeeps
<1>14. CASE UNCHANGED modalVars
  BY <1>14
  DEF modalVars, ModalInv, ModalTypeOK, KeptRowsPermitted, ShownHasRow,
      SpentIsDisabled, PostsPassTheirGuard, OneDeletionPerModal, Permitted
<1>15. "removeParent" \in Removing /\ "removeChild" \in Removing
  BY DEF Removing
<1> QED
  BY <1>1, <1>2, <1>3, <1>4, <1>5, <1>6, <1>7, <1>8, <1>9, <1>10, <1>11,
     <1>12, <1>13, <1>14, <1>15
  DEF ModalNext, RemoveParent, RemoveSubcollection

\* A request that a modal sends, for whatever row jQuery's data() has kept, is
\* for a row that is not refused this modal (collections.js, the deny branches).
THEOREM RequestsPassTheGuard == ModalSpec => []PostsPassTheirGuard
<1>1. ModalInv => PostsPassTheirGuard
  BY DEF ModalInv
<1> QED
  BY <1>1, ModalInitially, ModalInductive, PTL DEF ModalSpec

\* From one load of the page on, a modal that deletes or removes sends at most
\* one request: its button is disabled and nothing enables it.
THEOREM ModalDeletesOnce == ModalSpec => []OneDeletionPerModal
<1>1. ModalInv => OneDeletionPerModal
  BY DEF ModalInv
<1> QED
  BY <1>1, ModalInitially, ModalInductive, PTL DEF ModalSpec
-----------------------------------------------------------------------------
(* Requests that are answered in any order.                                *)

\* Where the k-th element of a sequence was before its i-th one was removed.
Past(i, k) == IF k < i THEN k ELSE k + 1

\* An answer takes its request from the list of those under way, of which the
\* others keep their order.
LEMMA Answered ==
  ASSUME NEW S, NEW s \in Seq(S), NEW i \in DOMAIN s
  PROVE  /\ RemoveAt(s, i) \in Seq(S)
         /\ DOMAIN RemoveAt(s, i) = 1 .. Len(s) - 1
         /\ Len(RemoveAt(s, i)) = Len(s) - 1
         /\ \A k \in DOMAIN RemoveAt(s, i) :
              /\ Past(i, k) \in DOMAIN s \ {i}
              /\ RemoveAt(s, i)[k] = s[Past(i, k)]
         /\ \A k, l \in DOMAIN RemoveAt(s, i) : Past(i, k) = Past(i, l) => k = l
         /\ \A j \in DOMAIN s \ {i} :
              \E k \in DOMAIN RemoveAt(s, i) : Past(i, k) = j
<1> DEFINE front == SubSeq(s, 1, i - 1)
           rest  == SubSeq(s, i + 1, Len(s))
           left  == RemoveAt(s, i)
<1>1. Len(s) \in Nat /\ DOMAIN s = 1 .. Len(s) /\ i \in 1 .. Len(s)
  OBVIOUS
<1>2. /\ front \in Seq(S) /\ Len(front) = i - 1
      /\ \A k \in 1 .. i - 1 : front[k] = s[k]
  <2>1. \A k \in 1 .. i - 1 : s[k] \in S
    BY <1>1, ElementOfSeq
  <2>2. /\ front \in Seq(S)
        /\ Len(front) = IF 1 <= i - 1 THEN i - 1 - 1 + 1 ELSE 0
        /\ \A k \in 1 .. i - 1 - 1 + 1 : front[k] = s[1 + k - 1]
    BY <1>1, <2>1, SubSeqProperties
  <2> QED
    BY <1>1, <2>2
<1>3. /\ rest \in Seq(S) /\ Len(rest) = Len(s) - i
      /\ \A k \in 1 .. Len(s) - i : rest[k] = s[i + k]
  <2>1. \A k \in i + 1 .. Len(s) : s[k] \in S
    BY <1>1, ElementOfSeq
  <2>2. /\ rest \in Seq(S)
        /\ Len(rest) = IF i + 1 <= Len(s) THEN Len(s) - (i + 1) + 1 ELSE 0
        /\ \A k \in 1 .. Len(s) - (i + 1) + 1 : rest[k] = s[i + 1 + k - 1]
    BY <1>1, <2>1, SubSeqProperties
  <2> QED
    BY <1>1, <2>2
<1>4. left = front \o rest
  BY DEF RemoveAt
<1> HIDE DEF front, rest
<1>5. /\ left \in Seq(S) /\ Len(left) = Len(s) - 1 /\ DOMAIN left = 1 .. Len(s) - 1
      /\ \A k \in 1 .. Len(s) - 1 :
           left[k] = IF k <= i - 1 THEN front[k] ELSE rest[k - (i - 1)]
  <2>1. /\ left \in Seq(S) /\ Len(left) = Len(front) + Len(rest)
        /\ \A k \in 1 .. Len(front) + Len(rest) :
             left[k] = IF k <= Len(front) THEN front[k] ELSE rest[k - Len(front)]
    BY <1>2, <1>3, <1>4, ConcatProperties
  <2>2. Len(front) + Len(rest) = Len(s) - 1
    BY <1>1, <1>2, <1>3
  <2>3. DOMAIN left = 1 .. Len(left)
    BY <2>1
  <2> QED
    BY <1>2, <2>1, <2>2, <2>3
<1> HIDE DEF left
<1>6. ASSUME NEW k \in DOMAIN left
      PROVE  Past(i, k) \in DOMAIN s \ {i} /\ left[k] = s[Past(i, k)]
  <2>1. k \in 1 .. Len(s) - 1
    BY <1>5
  <2>2. CASE k < i
    BY <1>1, <1>2, <1>5, <2>1, <2>2 DEF Past
  <2>3. CASE k >= i
    <3>1. k - (i - 1) \in 1 .. Len(s) - i /\ ~(k <= i - 1) /\ i + (k - (i - 1)) = k + 1
      BY <1>1, <2>1, <2>3
    <3>2. left[k] = s[k + 1]
      BY <1>3, <1>5, <2>1, <3>1
    <3> QED
      BY <1>1, <2>1, <2>3, <3>2 DEF Past
  <2> QED
    BY <1>1, <2>1, <2>2, <2>3
<1>7. \A k, l \in DOMAIN left : Past(i, k) = Past(i, l) => k = l
  BY <1>1, <1>5 DEF Past
<1>8. ASSUME NEW j \in DOMAIN s \ {i}
      PROVE  \E k \in DOMAIN left : Past(i, k) = j
  <2>1. CASE j < i
    <3>1. j \in DOMAIN left /\ Past(i, j) = j
      BY <1>1, <1>5, <2>1 DEF Past
    <3> QED
      BY <3>1
  <2>2. CASE j > i
    <3>1. j - 1 \in DOMAIN left /\ Past(i, j - 1) = j
      BY <1>1, <1>5, <2>2 DEF Past
    <3> QED
      BY <3>1
  <2> QED
    BY <1>1, <2>1, <2>2
<1> QED
  BY <1>5, <1>6, <1>7, <1>8 DEF left
-----------------------------------------------------------------------------
(* The stars of the works. A work that is not astray has one request,      *)
(* and its star differs from what is highlighted only while a toggle was   *)
(* done and not answered.                                                  *)

PressOf(w, at) ==
  \E i \in DOMAIN toggling : toggling[i].work = w /\ toggling[i].at \in at

\* A work that is not astray has one request, which knows what it found.
OnePress(w) ==
  \A i \in DOMAIN toggling : toggling[i].work = w =>
    /\ \A j \in DOMAIN toggling : toggling[j].work = w => i = j
    /\ toggling[i].at = "found" => (toggling[i].had <=> w \in trophies)

\* Its star shows what is highlighted, but for a toggle that was done and not
\* answered.
StarLags(w) == w \in starOn <=> (w \in trophies <=> ~PressOf(w, {"done"}))

\* On the profile a row stays until its star is off; a row that goes, and the one
\* the global names, are not pressed any more.
RowGoesWithStar(w) ==
  /\ w \notin fading => (w \in starRows <=> w \in starOn)
  /\ w \in fading => w \notin trophies
  /\ w \in fading \/ w = gid => w \notin starOn
  /\ PressOf(w, {"sent", "found", "done", "failed"}) => w \in starOn

StarInOrder(w) ==
  /\ OnePress(w)
  /\ StarLags(w)
  /\ onProfile => RowGoesWithStar(w)
  /\ ~onProfile => (w \in starText <=> w \in starOn)

StarInv ==
  /\ TrophyTypeOK
  /\ ~onProfile => fading = {}
  /\ \A w \in UserWorks \ astray : StarInOrder(w)

LEMMA StarInitially == TrophyInit => StarInv
<1> SUFFICES ASSUME TrophyInit PROVE StarInv
  OBVIOUS
<1>1. TrophyTypeOK
  BY DEF TrophyInit, TrophyTypeOK
<1>2. ASSUME NEW w \in UserWorks \ astray PROVE StarInOrder(w)
  <2>1. DOMAIN toggling = {} /\ w # gid
    BY TrophyAssumption DEF TrophyInit
  <2>2. OnePress(w) /\ StarLags(w)
    BY <2>1 DEF TrophyInit, OnePress, StarLags, PressOf
  <2>3. onProfile => RowGoesWithStar(w)
    BY <2>1 DEF TrophyInit, RowGoesWithStar, PressOf
  <2> QED
    BY <2>2, <2>3 DEF StarInOrder, TrophyInit
<1> QED
  BY <1>1, <1>2 DEF StarInv, TrophyInit

\* A step moves the requests about w up the list, if anything.
Moved(w, f) ==
  /\ \A k \in DOMAIN toggling' : toggling'[k].work = w =>
       f[k] \in DOMAIN toggling /\ toggling'[k] = toggling[f[k]]
  /\ \A k, l \in DOMAIN toggling' : f[k] = f[l] => k = l
  /\ \A i \in DOMAIN toggling : toggling[i].work = w =>
       \E k \in DOMAIN toggling' : toggling'[k] = toggling[i]

LEMMA MovedPresses ==
  ASSUME NEW w, NEW f, OnePress(w), Moved(w, f), w \in trophies' <=> w \in trophies
  PROVE  /\ OnePress(w)'
         /\ \A at : PressOf(w, at)' <=> PressOf(w, at)
<1>1. OnePress(w)'
  <2> SUFFICES ASSUME NEW k \in DOMAIN toggling', toggling'[k].work = w
               PROVE  /\ \A l \in DOMAIN toggling' : toggling'[l].work = w => k = l
                      /\ toggling'[k].at = "found"
                           => (toggling'[k].had <=> w \in trophies')
    BY DEF OnePress
  <2>1. f[k] \in DOMAIN toggling /\ toggling'[k] = toggling[f[k]]
    BY DEF Moved
  <2>2. ASSUME NEW l \in DOMAIN toggling', toggling'[l].work = w PROVE k = l
    <3>1. f[l] \in DOMAIN toggling /\ toggling'[l] = toggling[f[l]]
      BY <2>2 DEF Moved
    <3>2. f[k] = f[l]
      BY <2>1, <2>2, <3>1 DEF OnePress
    <3> QED
      BY <2>2, <3>2 DEF Moved
  <2>3. toggling'[k].at = "found" => (toggling'[k].had <=> w \in trophies')
    BY <2>1, Zenon DEF OnePress
  <2> QED
    BY <2>2, <2>3
<1>2. ASSUME NEW at PROVE PressOf(w, at)' <=> PressOf(w, at)
  BY DEF PressOf, Moved
<1> QED
  BY <1>1, <1>2

\* Nothing of a work changes but the places of its requests.
LEMMA StarUntouched ==
  ASSUME NEW w, NEW f, StarInOrder(w), Moved(w, f),
         UNCHANGED onProfile, w \in trophies' <=> w \in trophies,
         w \in starOn' <=> w \in starOn, w \in starText' <=> w \in starText,
         w \in fading' <=> w \in fading, w \in starRows' <=> w \in starRows,
         w = gid' => w = gid
  PROVE  StarInOrder(w)'
<1>1. OnePress(w)' /\ \A at : PressOf(w, at)' <=> PressOf(w, at)
  BY MovedPresses DEF StarInOrder
<1>2. StarLags(w)'
  BY <1>1 DEF StarInOrder, StarLags
<1>3. RowGoesWithStar(w) => RowGoesWithStar(w)'
  BY <1>1 DEF RowGoesWithStar
<1> QED
  BY <1>1, <1>2, <1>3 DEF StarInOrder

LEMMA PressKeeps ==
  ASSUME StarInv, NEW v \in UserWorks, PressStar(v)
  PROVE  StarInv'
<1> DEFINE n == Len(toggling) + 1
           asked == [work |-> v, at |-> "sent", had |-> FALSE]
<1>1. /\ toggling \in Seq(Toggle) /\ asked \in Toggle /\ n \in Nat
      /\ DOMAIN toggling = 1 .. n - 1
      /\ DOMAIN toggling' = 1 .. n /\ toggling' \in Seq(Toggle)
      /\ \A k \in 1 .. n - 1 : toggling'[k] = toggling[k]
      /\ \A k \in {n} : toggling'[k] = asked
  BY DEF StarInv, TrophyTypeOK, PressStar, Toggle
<1>2. TrophyTypeOK'
  BY <1>1 DEF StarInv, TrophyTypeOK, PressStar
<1>3. ASSUME NEW w \in UserWorks \ astray' PROVE StarInOrder(w)'
  <2>1. StarInOrder(w) /\ w \notin astray
    BY <1>3 DEF StarInv, PressStar
  <2>2. CASE w # v
    <3> DEFINE f == [k \in DOMAIN toggling' |-> k]
    <3>1. Moved(w, f)
      BY <1>1, <2>2 DEF Moved
    <3> QED
      BY <2>1, <3>1, StarUntouched DEF PressStar
  <2>3. CASE w = v
    <3>1. /\ w \notin fading
          /\ \A i \in DOMAIN toggling : toggling[i].work # w
      BY <1>3, <2>3 DEF PressStar
    <3>2. /\ \A k \in DOMAIN toggling' : toggling'[k].work = w => toggling'[k].at = "sent"
          /\ OnePress(w)'
      BY <1>1, <3>1 DEF OnePress
    <3>3. ~PressOf(w, {"done"}) /\ ~PressOf(w, {"done"})'
      BY <3>1, <3>2 DEF PressOf
    <3>4. StarLags(w)'
      BY <2>1, <3>3 DEF StarInOrder, StarLags, PressStar
    <3>5. onProfile => w \in starOn /\ RowGoesWithStar(w)'
      BY <2>1, <2>3, <3>1 DEF StarInOrder, RowGoesWithStar, PressStar
    <3> QED
      BY <2>1, <3>2, <3>4, <3>5 DEF StarInOrder, PressStar
  <2> QED
    BY <2>2, <2>3
<1> QED
  BY <1>2, <1>3 DEF StarInv, PressStar

\* The only request about a work is the one at hand.
LEMMA ItsPress ==
  ASSUME NEW i \in DOMAIN toggling, OnePress(toggling[i].work)
  PROVE  \A at : PressOf(toggling[i].work, at) <=> toggling[i].at \in at
BY DEF OnePress, PressOf

\* A request goes on: it is the same for every other work, and still the only
\* one for its own.
LEMMA PressGoesOn ==
  ASSUME StarInv, NEW i \in DOMAIN toggling, NEW t \in Toggle,
         t.work = toggling[i].work, toggling' = [toggling EXCEPT ![i] = t],
         t.at = "found" => (t.had <=> t.work \in trophies')
  PROVE  /\ toggling' \in Seq(Toggle)
         /\ \A w : w # t.work => Moved(w, [k \in DOMAIN toggling' |-> k])
         /\ OnePress(t.work) =>
              /\ OnePress(t.work)'
              /\ \A at : PressOf(t.work, at)' <=> t.at \in at
<1>1. /\ toggling \in Seq(Toggle) /\ toggling' \in Seq(Toggle)
      /\ DOMAIN toggling' = DOMAIN toggling
      /\ toggling'[i] = t
      /\ \A k \in DOMAIN toggling \ {i} : toggling'[k] = toggling[k]
  BY DEF StarInv, TrophyTypeOK
<1>2. \A w : w # t.work => Moved(w, [k \in DOMAIN toggling' |-> k])
  BY <1>1 DEF Moved
<1>3. ASSUME OnePress(t.work)
      PROVE  /\ OnePress(t.work)'
             /\ \A at : PressOf(t.work, at)' <=> t.at \in at
  <2>1. \A k \in DOMAIN toggling' : toggling'[k].work = t.work => k = i
    BY <1>1, <1>3 DEF OnePress
  <2>2. OnePress(t.work)'
    BY <1>1, <2>1, Zenon DEF OnePress
  <2> QED
    BY <1>1, <2>1, <2>2 DEF PressOf
<1> QED
  BY <1>1, <1>2, <1>3

\* A request stays one as it goes on.
LEMMA ToggleGoesOn ==
  ASSUME NEW r \in Toggle, NEW at \in {"sent", "found", "done", "failed"}
  PROVE  \E t \in Toggle : /\ t = [r EXCEPT !.at = at, !.had = FALSE]
                           /\ t.work = r.work /\ t.at = at
<1> DEFINE t == [r EXCEPT !.at = at, !.had = FALSE]
<1>1. t \in Toggle
  BY Zenon DEF Toggle
<1>2. t.work = r.work /\ t.at = at
  BY Zenon DEF Toggle
<1> QED
  BY <1>1, <1>2

LEMMA ToggleFinds ==
  ASSUME NEW r \in Toggle, NEW had \in BOOLEAN
  PROVE  \E t \in Toggle : /\ t = [r EXCEPT !.at = "found", !.had = had]
                           /\ t.work = r.work /\ t.at = "found" /\ t.had = had
<1> DEFINE t == [r EXCEPT !.at = "found", !.had = had]
<1>1. t \in Toggle
  BY Zenon DEF Toggle
<1>2. t.work = r.work /\ t.at = "found" /\ t.had = had
  BY Zenon DEF Toggle
<1> QED
  BY <1>1, <1>2, Zenon

\* A request goes on and nothing else is changed: it looks, or it fails, and its
\* work is astray if the toggle was stored.
LEMMA QuietToggle ==
  ASSUME StarInv, NEW i \in DOMAIN toggling, NEW t \in Toggle,
         t.work = toggling[i].work, toggling' = [toggling EXCEPT ![i] = t],
         toggling[i].at = "done" => t.work \in astray',
         t.at \in {"found", "failed"},
         t.at = "found" => (t.had <=> t.work \in trophies),
         astray \subseteq astray', astray' \subseteq UserWorks,
         UNCHANGED <<onProfile, trophies, starOn, starText, gid, fading, starRows>>
  PROVE  StarInv'
<1>0. toggling[i].at \in {"sent", "found", "done", "failed"}
  <2>1. toggling[i] \in Toggle
    BY DEF StarInv, TrophyTypeOK
  <2> QED
    BY <2>1 DEF Toggle
<1>1. /\ toggling' \in Seq(Toggle)
      /\ \A w : w # t.work => Moved(w, [k \in DOMAIN toggling' |-> k])
      /\ OnePress(t.work) => /\ OnePress(t.work)'
                             /\ \A at : PressOf(t.work, at)' <=> t.at \in at
  BY PressGoesOn
<1>2. TrophyTypeOK'
  BY <1>1 DEF StarInv, TrophyTypeOK
<1>3. ASSUME NEW w \in UserWorks \ astray' PROVE StarInOrder(w)'
  <2>1. StarInOrder(w)
    BY <1>3 DEF StarInv
  <2>2. CASE w # t.work
    BY <1>1, <2>1, <2>2, StarUntouched
  <2>3. CASE w = t.work
    <3>1. OnePress(w) /\ OnePress(w)'
      BY <1>1, <2>1, <2>3 DEF StarInOrder
    <3>2. \A at : PressOf(w, at) <=> toggling[i].at \in at
      BY <2>3, <3>1, ItsPress
    <3>3. /\ ~PressOf(w, {"done"}) /\ ~PressOf(w, {"done"})'
          /\ PressOf(w, {"sent", "found", "done", "failed"})
      BY <1>0, <1>1, <1>3, <2>3, <3>1, <3>2
    <3>4. StarLags(w)'
      BY <2>1, <3>3 DEF StarInOrder, StarLags
    <3>5. onProfile => RowGoesWithStar(w)'
      BY <2>1, <3>3 DEF StarInOrder, RowGoesWithStar
    <3> QED
      BY <2>1, <3>1, <3>4, <3>5 DEF StarInOrder
  <2> QED
    BY <2>2, <2>3
<1> QED
  BY <1>2, <1>3 DEF StarInv

LEMMA FindKeeps ==
  ASSUME StarInv, NEW i \in DOMAIN toggling, FindTrophy(i)
  PROVE  StarInv'
<1>1. toggling[i] \in Toggle
  BY DEF StarInv, TrophyTypeOK
<1>2. PICK had \in BOOLEAN : had <=> toggling[i].work \in trophies
  OBVIOUS
<1>3. PICK t \in Toggle : /\ t = [toggling[i] EXCEPT !.at = "found", !.had = had]
                          /\ t.work = toggling[i].work /\ t.at = "found"
                          /\ t.had = had
  BY <1>1, ToggleFinds
<1>4. t.had <=> t.work \in trophies
  BY <1>2, <1>3, Zenon
<1>5. toggling' = [toggling EXCEPT ![i] = t]
  <2>1. toggling' = [toggling EXCEPT ![i].at = "found", ![i].had = had]
    BY <1>2, Zenon DEF FindTrophy
  <2> QED
    BY <1>3, <2>1, Zenon
<1>6. toggling[i].at # "done"
  BY DEF FindTrophy
<1>7. astray \subseteq UserWorks
  BY DEF StarInv, TrophyTypeOK
<1>8. UNCHANGED <<onProfile, trophies, starOn, starText, gid, fading, starRows,
                  astray>>
  BY DEF FindTrophy
<1> QED
  BY <1>3, <1>4, <1>5, <1>6, <1>7, <1>8, QuietToggle

LEMMA LoseKeeps ==
  ASSUME StarInv, NEW i \in DOMAIN toggling, LoseToggle(i)
  PROVE  StarInv'
<1>1. toggling[i] \in Toggle
  BY DEF StarInv, TrophyTypeOK
<1>2. PICK t \in Toggle : /\ t = [toggling[i] EXCEPT !.at = "failed", !.had = FALSE]
                          /\ t.work = toggling[i].work /\ t.at = "failed"
  BY <1>1, ToggleGoesOn
<1>3. toggling' = [toggling EXCEPT ![i].at = "failed", ![i].had = FALSE]
  BY DEF LoseToggle, ToggledAs
<1>4. toggling' = [toggling EXCEPT ![i] = t]
  BY <1>2, <1>3, Zenon
<1>5. /\ astray \subseteq astray' /\ astray' \subseteq UserWorks
      /\ toggling[i].at = "done" => t.work \in astray'
  BY <1>1, <1>2 DEF LoseToggle, StarInv, TrophyTypeOK, Toggle
<1> QED
  BY <1>2, <1>4, <1>5, QuietToggle DEF LoseToggle

LEMMA ToggleKeeps ==
  ASSUME StarInv, NEW i \in DOMAIN toggling, ToggleTrophy(i)
  PROVE  StarInv'
<1>0. toggling[i] \in Toggle
  BY DEF StarInv, TrophyTypeOK
<1>1. PICK v \in UserWorks : v = toggling[i].work
  BY <1>0 DEF Toggle
<1>2. CASE ~toggling[i].had /\ ~(Cardinality(trophies) < TrophyLimit)
  <2>1. PICK t \in Toggle : /\ t = [toggling[i] EXCEPT !.at = "failed", !.had = FALSE]
                            /\ t.work = toggling[i].work /\ t.at = "failed"
    BY <1>0, ToggleGoesOn
  <2>2. toggling' = [toggling EXCEPT ![i] = t]
    <3>1. toggling' = [toggling EXCEPT ![i].at = "failed", ![i].had = FALSE]
      BY <1>2, Zenon DEF ToggleTrophy, ToggledAs
    <3> QED
      BY <2>1, <3>1, Zenon
  <2> QED
    BY <1>2, <2>1, <2>2, QuietToggle DEF ToggleTrophy, StarInv, TrophyTypeOK
<1>3. CASE toggling[i].had \/ Cardinality(trophies) < TrophyLimit
  <2>1. PICK t \in Toggle : /\ t = [toggling[i] EXCEPT !.at = "done", !.had = FALSE]
                            /\ t.work = toggling[i].work /\ t.at = "done"
    BY <1>0, ToggleGoesOn
  <2>2. /\ t.work = v /\ t.at = "done"
        /\ toggling' = [toggling EXCEPT ![i] = t]
    <3>1. t.work = v /\ t.at = "done"
      BY <1>1, <2>1
    <3>2. toggling' = [toggling EXCEPT ![i].at = "done", ![i].had = FALSE]
      BY <1>3, Zenon DEF ToggleTrophy, ToggledAs
    <3>3. toggling' = [toggling EXCEPT ![i] = t]
      BY <2>1, <3>2, Zenon
    <3> QED
      BY <3>1, <3>3
  <2>3. /\ toggling' \in Seq(Toggle)
        /\ \A w : w # v => Moved(w, [k \in DOMAIN toggling' |-> k])
        /\ OnePress(v) => /\ OnePress(v)'
                          /\ \A at : PressOf(v, at)' <=> t.at \in at
    BY <1>1, <2>2, PressGoesOn
  <2>4. /\ trophies' = IF toggling[i].had THEN trophies \ {v} ELSE trophies \cup {v}
        /\ toggling[i].at = "found"
    BY <1>1, <1>3 DEF ToggleTrophy
  <2>5. TrophyTypeOK'
    BY <2>3, <2>4 DEF StarInv, TrophyTypeOK, ToggleTrophy
  <2>6. ASSUME NEW w \in UserWorks \ astray' PROVE StarInOrder(w)'
    <3>1. StarInOrder(w)
      BY <2>6 DEF StarInv, ToggleTrophy
    <3>2. CASE w # v
      BY <2>3, <2>4, <3>1, <3>2, StarUntouched DEF ToggleTrophy
    <3>3. CASE w = v
      <4>1. OnePress(w) /\ OnePress(w)'
        BY <2>3, <3>1, <3>3 DEF StarInOrder
      <4>2. \A at : PressOf(w, at) <=> toggling[i].at \in at
        BY <1>1, <3>3, <4>1, ItsPress
      <4>3. /\ ~PressOf(w, {"done"}) /\ PressOf(w, {"done"})'
            /\ PressOf(w, {"sent", "found", "done", "failed"})
        BY <2>2, <2>3, <2>4, <3>3, <4>1, <4>2
      <4>4. toggling[i].had <=> w \in trophies
        BY <1>1, <2>4, <3>3, <4>1 DEF OnePress
      <4>5. w \in trophies' <=> w \notin trophies
        BY <2>4, <3>3, <4>4
      <4>6. StarLags(w)'
        BY <3>1, <4>3, <4>5 DEF StarInOrder, StarLags, ToggleTrophy
      <4>7. onProfile => RowGoesWithStar(w)'
        BY <3>1, <4>3 DEF StarInOrder, RowGoesWithStar, ToggleTrophy
      <4> QED
        BY <3>1, <4>1, <4>6, <4>7 DEF StarInOrder, ToggleTrophy
    <3> QED
      BY <3>2, <3>3
  <2> QED
    BY <2>5, <2>6 DEF StarInv, ToggleTrophy
<1> QED
  BY <1>2, <1>3

LEMMA AnswerToggleKeeps ==
  ASSUME StarInv, NEW i \in DOMAIN toggling, AnswerToggle(i)
  PROVE  StarInv'
<1>0. toggling[i] \in Toggle
  BY DEF StarInv, TrophyTypeOK
<1>1. PICK v \in UserWorks : v = toggling[i].work
  BY <1>0 DEF Toggle
<1>2. /\ toggling \in Seq(Toggle) /\ toggling' = RemoveAt(toggling, i)
      /\ toggling[i].at \in {"done", "failed"}
  BY DEF StarInv, TrophyTypeOK, AnswerToggle
<1>3. /\ toggling' \in Seq(Toggle)
      /\ \A k \in DOMAIN toggling' :
           /\ Past(i, k) \in DOMAIN toggling \ {i}
           /\ toggling'[k] = toggling[Past(i, k)]
      /\ \A k, l \in DOMAIN toggling' : Past(i, k) = Past(i, l) => k = l
      /\ \A j \in DOMAIN toggling \ {i} :
           \E k \in DOMAIN toggling' : Past(i, k) = j
  BY <1>2, Answered
<1>4. \A w : w # v => Moved(w, [k \in DOMAIN toggling' |-> Past(i, k)])
  BY <1>1, <1>3 DEF Moved
<1>5. OnePress(v) => OnePress(v)' /\ \A at : ~PressOf(v, at)'
  BY <1>1, <1>3 DEF OnePress, PressOf
<1>6. TrophyTypeOK'
  BY <1>1, <1>3 DEF StarInv, TrophyTypeOK, AnswerToggle, TrophyOff, TrophyOn, SetText
<1>7. ASSUME NEW w \in UserWorks \ astray', w # v PROVE StarInOrder(w)'
  <2>1. StarInOrder(w)
    BY <1>7 DEF StarInv, AnswerToggle
  <2> QED
    BY <1>1, <1>4, <1>7, <2>1, StarUntouched
    DEF AnswerToggle, TrophyOff, TrophyOn, SetText
<1>8. ASSUME v \notin astray' PROVE StarInOrder(v)'
  <2>1. StarInOrder(v) /\ OnePress(v)
    BY <1>8 DEF StarInv, StarInOrder, AnswerToggle
  <2>2. /\ PressOf(v, {"done"}) <=> toggling[i].at = "done"
        /\ PressOf(v, {"sent", "found", "done", "failed"})
    BY <1>1, <1>2, <2>1, ItsPress
  <2>3. OnePress(v)' /\ \A at : ~PressOf(v, at)'
    BY <1>5, <2>1
  <2>4. StarLags(v)'
    BY <1>1, <1>2, <2>1, <2>2, <2>3 DEF StarInOrder, StarLags, AnswerToggle
  <2>5. ASSUME onProfile PROVE RowGoesWithStar(v)'
    BY <1>1, <1>2, <2>1, <2>2, <2>3, <2>4, <2>5
    DEF StarInOrder, StarLags, RowGoesWithStar, AnswerToggle, TrophyOff
  <2>6. ASSUME ~onProfile PROVE v \in starText' <=> v \in starOn'
    BY <1>1, <1>2, <2>1, <2>6
    DEF StarInOrder, AnswerToggle, TrophyOff, TrophyOn, SetText
  <2> QED
    BY <2>3, <2>4, <2>5, <2>6 DEF StarInOrder, AnswerToggle
<1>9. ~onProfile' => fading' = {}
  BY DEF StarInv, AnswerToggle, TrophyOff, TrophyOn
<1> QED
  BY <1>6, <1>7, <1>8, <1>9 DEF StarInv

LEMMA FadeKeeps ==
  ASSUME StarInv, NEW v \in UserWorks, FadeEnd(v)
  PROVE  StarInv'
<1>1. TrophyTypeOK' /\ onProfile
  BY DEF StarInv, TrophyTypeOK, FadeEnd
<1>2. ASSUME NEW w \in UserWorks \ astray' PROVE StarInOrder(w)'
  <2>1. StarInOrder(w)
    BY <1>2 DEF StarInv, FadeEnd
  <2>2. OnePress(w)' /\ StarLags(w)'
    BY <2>1 DEF StarInOrder, OnePress, StarLags, PressOf, FadeEnd
  <2>3. RowGoesWithStar(w)'
    BY <1>1, <2>1 DEF StarInOrder, RowGoesWithStar, PressOf, FadeEnd
  <2> QED
    BY <1>1, <2>1, <2>2, <2>3 DEF StarInOrder, FadeEnd
<1> QED
  BY <1>1, <1>2 DEF StarInv, FadeEnd

LEMMA StarInductive ==
  ASSUME StarInv, [TrophyNext]_trophyVars
  PROVE  StarInv'
<1>1. CASE UNCHANGED trophyVars
  BY <1>1 DEF trophyVars, StarInv, TrophyTypeOK, StarInOrder, OnePress, StarLags,
              RowGoesWithStar, PressOf
<1>2. CASE TrophyNext
  BY <1>2, PressKeeps, FindKeeps, ToggleKeeps, LoseKeeps, AnswerToggleKeeps,
     FadeKeeps DEF TrophyNext
<1> QED
  BY <1>1, <1>2

LEMMA StarsSettle == StarInv => StarsFollowTrophies
<1> SUFFICES ASSUME StarInv, NEW w \in UserWorks, Settled(w)
             PROVE  /\ w \in starOn <=> w \in trophies
                    /\ onProfile => (w \in starRows <=> w \in trophies)
                    /\ ~onProfile => (w \in starText <=> w \in trophies)
  BY DEF StarsFollowTrophies
<1>1. StarInOrder(w) /\ ~PressOf(w, {"done"})
  BY DEF StarInv, Settled, PressOf
<1> QED
  BY <1>1 DEF StarInOrder, StarLags, RowGoesWithStar, Settled

\* Although the page guesses what a toggle did, the stars and the rows of works
\* that rest show what is highlighted, but for works pressed twice at a time or
\* of which the answer to a stored toggle was lost (trophy.js).
THEOREM StarsTellTheTrophies == TrophySpec => []StarsFollowTrophies
<1> QED
  BY StarInitially, StarInductive, StarsSettle, PTL DEF TrophySpec
-----------------------------------------------------------------------------
(* The proxies of a user. A right has a row, or will have one when the     *)
(* grant is answered, or had one that went before it.                      *)

Granted(u) ==
  \E i \in DOMAIN adding : adding[i].user = u /\ adding[i].at = "granted"

\* A user who was not added twice at a time has one request to grant, which
\* found no right if it is to grant one.
OneAdd(u) ==
  \A i \in DOMAIN adding : adding[i].user = u =>
    /\ \A j \in DOMAIN adding : adding[j].user = u => i = j
    /\ adding[i].at = "new" => u \notin proxies

\* A right has a row, or will have one when the grant is answered, or had one
\* that went before it.
RightHasOneRow(u) ==
  proxyRows[u] + revoking[u] + (IF Granted(u) THEN 1 ELSE 0)
    = IF u \in proxies THEN 1 ELSE 0

ProxyInOrder(u) == OneAdd(u) /\ RightHasOneRow(u)

ProxyInv ==
  /\ ProxyTypeOK
  /\ \A u \in Users \ (doubled \cup unanswered \cup unrevoked) : ProxyInOrder(u)

LEMMA ProxyInitially == ProxyInit => ProxyInv
<1> SUFFICES ASSUME ProxyInit PROVE ProxyInv
  OBVIOUS
<1>1. ProxyTypeOK
  <2>1. proxyRows \in [Users -> Nat] /\ revoking \in [Users -> Nat]
    BY DEF ProxyInit
  <2>2. adding \in Seq(Adding)
    BY DEF ProxyInit
  <2> QED
    BY <2>1, <2>2 DEF ProxyInit, ProxyTypeOK
<1>2. ASSUME NEW u \in Users PROVE ProxyInOrder(u)
  BY DEF ProxyInit, ProxyInOrder, OneAdd, RightHasOneRow, Granted
<1> QED
  BY <1>1, <1>2 DEF ProxyInv

\* A step moves the requests about u up the list, if anything.
MovedAdds(u, f) ==
  /\ \A k \in DOMAIN adding' : adding'[k].user = u =>
       f[k] \in DOMAIN adding /\ adding'[k] = adding[f[k]]
  /\ \A k, l \in DOMAIN adding' : f[k] = f[l] => k = l
  /\ \A i \in DOMAIN adding : adding[i].user = u =>
       \E k \in DOMAIN adding' : adding'[k] = adding[i]

\* Nothing of a user changes but the places of their requests.
LEMMA ProxyUntouched ==
  ASSUME NEW u \in Users, NEW f, ProxyInOrder(u), MovedAdds(u, f),
         u \in proxies' <=> u \in proxies,
         proxyRows'[u] = proxyRows[u], revoking'[u] = revoking[u]
  PROVE  ProxyInOrder(u)'
<1>1. OneAdd(u)'
  <2> SUFFICES ASSUME NEW k \in DOMAIN adding', adding'[k].user = u
               PROVE  /\ \A l \in DOMAIN adding' : adding'[l].user = u => k = l
                      /\ adding'[k].at = "new" => u \notin proxies'
    BY DEF OneAdd
  <2>1. ASSUME NEW l \in DOMAIN adding', adding'[l].user = u PROVE k = l
    BY <2>1 DEF ProxyInOrder, OneAdd, MovedAdds
  <2> QED
    BY <2>1 DEF ProxyInOrder, OneAdd, MovedAdds
<1>2. Granted(u)' <=> Granted(u)
  BY DEF Granted, MovedAdds
<1> QED
  BY <1>1, <1>2 DEF ProxyInOrder, RightHasOneRow

LEMMA AddKeeps ==
  ASSUME ProxyInv, NEW v \in Users, AddContributor(v)
  PROVE  ProxyInv'
<1> DEFINE n == Len(adding) + 1
           asked == [user |-> v, at |-> "sent"]
<1>1. /\ adding \in Seq(Adding) /\ asked \in Adding /\ n \in Nat
      /\ DOMAIN adding = 1 .. n - 1
      /\ DOMAIN adding' = 1 .. n /\ adding' \in Seq(Adding)
      /\ \A k \in 1 .. n - 1 : adding'[k] = adding[k]
      /\ \A k \in {n} : adding'[k] = asked
  BY DEF ProxyInv, ProxyTypeOK, AddContributor, Adding
<1>2. ProxyTypeOK'
  BY <1>1 DEF ProxyInv, ProxyTypeOK, AddContributor
<1>3. ASSUME NEW u \in Users \ (doubled \cup unanswered \cup unrevoked)'
      PROVE  ProxyInOrder(u)'
  <2>1. ProxyInOrder(u)
    BY <1>3 DEF ProxyInv, AddContributor
  <2>2. CASE u # v
    <3>1. MovedAdds(u, [k \in DOMAIN adding' |-> k])
      BY <1>1, <2>2 DEF MovedAdds
    <3> QED
      BY <2>1, <3>1, ProxyUntouched DEF AddContributor
  <2>3. CASE u = v
    <3>1. \A i \in DOMAIN adding : adding[i].user # u
      BY <1>3, <2>3 DEF AddContributor
    <3>2. /\ \A k \in DOMAIN adding' : adding'[k].user = u => k = n /\ adding'[k].at = "sent"
      BY <1>1, <3>1
    <3>3. OneAdd(u)' /\ ~Granted(u) /\ ~Granted(u)'
      BY <3>1, <3>2 DEF OneAdd, Granted
    <3> QED
      BY <2>1, <3>3 DEF ProxyInOrder, RightHasOneRow, AddContributor
  <2> QED
    BY <2>2, <2>3
<1> QED
  BY <1>2, <1>3 DEF ProxyInv

\* A request goes on: it is the same for every other user, and still the only
\* one for its own.
LEMMA AddGoesOn ==
  ASSUME ProxyInv, NEW i \in DOMAIN adding,
         NEW at \in {"sent", "new", "granted", "present", "denied", "lost"},
         adding' = [adding EXCEPT ![i].at = at],
         at = "new" => adding[i].user \notin proxies',
         \A u \in Users \ {adding[i].user} : u \in proxies' <=> u \in proxies,
         UNCHANGED <<proxyRows, revoking>>
  PROVE  /\ adding' \in Seq(Adding)
         /\ \A u \in Users \ {adding[i].user} : ProxyInOrder(u) => ProxyInOrder(u)'
         /\ \A u \in Users : u = adding[i].user /\ OneAdd(u) =>
              /\ OneAdd(u)'
              /\ Granted(u) <=> adding[i].at = "granted"
              /\ Granted(u)' <=> at = "granted"
<1>0. adding \in Seq(Adding) /\ adding[i] \in Adding
  BY DEF ProxyInv, ProxyTypeOK
<1>1. /\ adding \in Seq(Adding) /\ adding' \in Seq(Adding)
      /\ DOMAIN adding' = DOMAIN adding
      /\ adding'[i].user = adding[i].user /\ adding'[i].at = at
      /\ \A k \in DOMAIN adding \ {i} : adding'[k] = adding[k]
  BY <1>0 DEF Adding
<1>2. ASSUME NEW u \in Users \ {adding[i].user}, ProxyInOrder(u)
      PROVE  ProxyInOrder(u)'
  <2>1. MovedAdds(u, [k \in DOMAIN adding' |-> k])
    BY <1>1, <1>2 DEF MovedAdds
  <2> QED
    BY <1>2, <2>1, ProxyUntouched
<1>3. ASSUME NEW u \in Users, u = adding[i].user, OneAdd(u)
      PROVE  /\ OneAdd(u)'
             /\ Granted(u) <=> adding[i].at = "granted"
             /\ Granted(u)' <=> at = "granted"
  <2>1. \A k \in DOMAIN adding : adding[k].user = u => k = i
    BY <1>3 DEF OneAdd
  <2>2. \A k \in DOMAIN adding' : adding'[k].user = u => k = i
    BY <1>1, <2>1
  <2> QED
    BY <1>1, <1>3, <2>1, <2>2 DEF OneAdd, Granted
<1> QED
  BY <1>1, <1>2, <1>3

LEMMA LookUpKeeps ==
  ASSUME ProxyInv, NEW i \in DOMAIN adding, LookUpProxy(i)
  PROVE  ProxyInv'
<1>1. PICK at \in {"new", "present", "denied"} :
        /\ adding' = [adding EXCEPT ![i].at = at]
        /\ at = "new" => adding[i].user \notin proxies
  <2>1. CASE adding[i].user = Grantor
    <3>1. adding' = [adding EXCEPT ![i].at = "denied"]
      BY <2>1 DEF LookUpProxy
    <3> QED
      BY <3>1
  <2>2. CASE adding[i].user # Grantor /\ adding[i].user \in proxies
    <3>1. adding' = [adding EXCEPT ![i].at = "present"]
      BY <2>2 DEF LookUpProxy
    <3> QED
      BY <3>1
  <2>3. CASE adding[i].user # Grantor /\ adding[i].user \notin proxies
    <3>1. adding' = [adding EXCEPT ![i].at = "new"]
      BY <2>3 DEF LookUpProxy
    <3> QED
      BY <2>3, <3>1
  <2> QED
    BY <2>1, <2>2, <2>3
<1>2. /\ adding' \in Seq(Adding)
      /\ \A u \in Users \ {adding[i].user} : ProxyInOrder(u) => ProxyInOrder(u)'
      /\ \A u \in Users : u = adding[i].user /\ OneAdd(u) =>
           OneAdd(u)' /\ ~Granted(u) /\ ~Granted(u)'
  BY <1>1, AddGoesOn DEF LookUpProxy
<1> QED
  BY <1>2 DEF ProxyInv, ProxyTypeOK, ProxyInOrder, RightHasOneRow, LookUpProxy

LEMMA GrantKeeps ==
  ASSUME ProxyInv, NEW i \in DOMAIN adding, GrantProxy(i)
  PROVE  ProxyInv'
<1>0. adding[i] \in Adding
  BY DEF ProxyInv, ProxyTypeOK
<1>1. adding[i].user \in Users
  BY <1>0 DEF Adding
<1>2. /\ adding' \in Seq(Adding)
      /\ \A u \in Users \ {adding[i].user} : ProxyInOrder(u) => ProxyInOrder(u)'
      /\ \A u \in Users : u = adding[i].user /\ OneAdd(u) =>
           OneAdd(u)' /\ ~Granted(u) /\ Granted(u)' /\ u \notin proxies
  BY <1>1, AddGoesOn DEF GrantProxy, OneAdd
<1>3. ProxyTypeOK'
  BY <1>1, <1>2 DEF ProxyInv, ProxyTypeOK, GrantProxy
<1>4. ASSUME NEW u \in Users, u = adding[i].user, ProxyInOrder(u) PROVE ProxyInOrder(u)'
  <2>1. proxyRows[u] \in Nat /\ revoking[u] \in Nat
    BY DEF ProxyInv, ProxyTypeOK
  <2> QED
    BY <1>2, <1>4, <2>1 DEF ProxyInOrder, RightHasOneRow, GrantProxy
<1> QED
  BY <1>2, <1>3, <1>4 DEF ProxyInv, GrantProxy

LEMMA LoseAddKeeps ==
  ASSUME ProxyInv, NEW i \in DOMAIN adding, LoseAdd(i)
  PROVE  ProxyInv'
<1>0. adding[i] \in Adding
  BY DEF ProxyInv, ProxyTypeOK
<1>1. adding[i].user \in Users
  BY <1>0 DEF Adding
<1>2. /\ adding' \in Seq(Adding)
      /\ \A u \in Users \ {adding[i].user} : ProxyInOrder(u) => ProxyInOrder(u)'
      /\ \A u \in Users : u = adding[i].user /\ OneAdd(u) =>
           OneAdd(u)' /\ (Granted(u) <=> adding[i].at = "granted") /\ ~Granted(u)'
  BY AddGoesOn DEF LoseAdd
<1>3. ProxyTypeOK'
  BY <1>1, <1>2 DEF ProxyInv, ProxyTypeOK, LoseAdd
<1>4. ASSUME NEW u \in Users \ (doubled \cup unanswered \cup unrevoked)',
             u = adding[i].user, ProxyInOrder(u)
      PROVE  ProxyInOrder(u)'
  <2>1. adding[i].at # "granted"
    BY <1>4 DEF LoseAdd
  <2> QED
    BY <1>2, <1>4, <2>1 DEF ProxyInOrder, RightHasOneRow, LoseAdd
<1> QED
  BY <1>2, <1>3, <1>4 DEF ProxyInv, LoseAdd

LEMMA AnswerAddKeeps ==
  ASSUME ProxyInv, NEW i \in DOMAIN adding, AnswerAdd(i)
  PROVE  ProxyInv'
<1>0. adding[i] \in Adding
  BY DEF ProxyInv, ProxyTypeOK
<1>1. PICK v \in Users : v = adding[i].user
  BY <1>0 DEF Adding
<1>2. /\ adding' \in Seq(Adding)
      /\ \A k \in DOMAIN adding' :
           /\ Past(i, k) \in DOMAIN adding \ {i}
           /\ adding'[k] = adding[Past(i, k)]
      /\ \A k, l \in DOMAIN adding' : Past(i, k) = Past(i, l) => k = l
      /\ \A j \in DOMAIN adding \ {i} : \E k \in DOMAIN adding' : Past(i, k) = j
  BY Answered DEF ProxyInv, ProxyTypeOK, AnswerAdd
<1>3. proxyRows' \in [Users -> Nat]
      /\ \A u \in Users : proxyRows'[u] = proxyRows[u]
           + (IF u = v /\ adding[i].at = "granted" THEN 1 ELSE 0)
  <2>1. proxyRows \in [Users -> Nat]
    BY DEF ProxyInv, ProxyTypeOK
  <2>2. CASE adding[i].at = "granted"
    <3>1. proxyRows' = [proxyRows EXCEPT ![v] = @ + 1]
      BY <1>1, <2>2 DEF AnswerAdd, AppendRow
    <3> QED
      BY <2>1, <2>2, <3>1
  <2>3. CASE adding[i].at # "granted"
    BY <2>1, <2>3 DEF AnswerAdd
  <2> QED
    BY <2>2, <2>3
<1>4. ProxyTypeOK'
  BY <1>2, <1>3 DEF ProxyInv, ProxyTypeOK, AnswerAdd
<1>5. ASSUME NEW u \in Users \ (doubled \cup unanswered \cup unrevoked)'
      PROVE  ProxyInOrder(u)'
  <2>1. ProxyInOrder(u) /\ proxyRows[u] \in Nat /\ revoking[u] \in Nat
    BY <1>5 DEF ProxyInv, ProxyTypeOK, AnswerAdd
  <2>2. CASE u # v
    <3>1. MovedAdds(u, [k \in DOMAIN adding' |-> Past(i, k)])
      BY <1>1, <1>2, <2>2 DEF MovedAdds
    <3>2. proxyRows'[u] = proxyRows[u]
      BY <1>3, <2>1, <2>2
    <3> QED
      BY <2>1, <3>1, <3>2, ProxyUntouched DEF AnswerAdd
  <2>3. CASE u = v
    <3>1. /\ \A k \in DOMAIN adding : adding[k].user = u => k = i
          /\ Granted(u) <=> adding[i].at = "granted"
      BY <1>1, <2>1, <2>3 DEF ProxyInOrder, OneAdd, Granted
    <3>2. \A k \in DOMAIN adding' : adding'[k].user # u
      BY <1>2, <3>1
    <3>3. OneAdd(u)' /\ ~Granted(u)'
      BY <3>2 DEF OneAdd, Granted
    <3> QED
      BY <1>3, <2>1, <2>3, <3>1, <3>3 DEF ProxyInOrder, RightHasOneRow, AnswerAdd
  <2> QED
    BY <2>2, <2>3
<1> QED
  BY <1>4, <1>5 DEF ProxyInv

\* A step that leaves the requests to grant alone and keeps the count.
LEMMA RevokeStep ==
  ASSUME ProxyInv, ProxyTypeOK', UNCHANGED <<adding, doubled, unanswered>>,
         unrevoked \subseteq unrevoked', proxies' \subseteq proxies,
         \A u \in Users \ unrevoked' : RightHasOneRow(u) => RightHasOneRow(u)'
  PROVE  ProxyInv'
BY DEF ProxyInv, ProxyInOrder, OneAdd

LEMMA RemoveContributorKeeps ==
  ASSUME ProxyInv, NEW v \in Users, RemoveContributor(v)
  PROVE  ProxyInv'
<1>1. ProxyTypeOK'
  BY DEF ProxyInv, ProxyTypeOK, RemoveContributor
<1>2. ASSUME NEW u \in Users, RightHasOneRow(u) PROVE RightHasOneRow(u)'
  <2>1. proxyRows'[u] + revoking'[u] = proxyRows[u] + revoking[u]
    BY DEF ProxyInv, ProxyTypeOK, RemoveContributor
  <2> QED
    BY <1>2, <2>1 DEF RightHasOneRow, RemoveContributor, Granted
<1> QED
  BY <1>1, <1>2, RevokeStep DEF RemoveContributor

LEMMA RevokeKeeps ==
  ASSUME ProxyInv, NEW v \in Users, RevokeProxy(v)
  PROVE  ProxyInv'
<1>1. ProxyTypeOK'
  BY DEF ProxyInv, ProxyTypeOK, RevokeProxy
<1>2. ASSUME NEW u \in Users, RightHasOneRow(u) PROVE RightHasOneRow(u)'
  <2>1. proxyRows[u] \in Nat /\ revoking[u] \in Nat
    BY DEF ProxyInv, ProxyTypeOK
  <2>2. revoking'[u] = IF u = v THEN revoking[u] - 1 ELSE revoking[u]
    BY DEF ProxyInv, ProxyTypeOK, RevokeProxy
  <2>3. Granted(u)' <=> Granted(u)
    BY DEF Granted, RevokeProxy
  <2> QED
    BY <1>2, <2>1, <2>2, <2>3 DEF RightHasOneRow, RevokeProxy
<1> QED
  BY <1>1, <1>2, RevokeStep DEF RevokeProxy

LEMMA FailRevokeKeeps ==
  ASSUME ProxyInv, NEW v \in Users, FailRevoke(v)
  PROVE  ProxyInv'
<1>1. ProxyTypeOK'
  BY DEF ProxyInv, ProxyTypeOK, FailRevoke
<1>2. ASSUME NEW u \in Users \ unrevoked', RightHasOneRow(u) PROVE RightHasOneRow(u)'
  <2>1. u # v
    BY DEF FailRevoke
  <2> QED
    BY <1>2, <2>1 DEF RightHasOneRow, FailRevoke, Granted, ProxyInv, ProxyTypeOK
<1> QED
  BY <1>1, <1>2, RevokeStep DEF FailRevoke

LEMMA ProxyInductive ==
  ASSUME ProxyInv, [ProxyNext]_proxyVars
  PROVE  ProxyInv'
<1>1. CASE UNCHANGED proxyVars
  BY <1>1 DEF proxyVars, ProxyInv, ProxyTypeOK, ProxyInOrder, OneAdd,
              RightHasOneRow, Granted
<1>2. CASE CloseDeny
  <2>1. ProxyTypeOK'
    BY <1>2 DEF CloseDeny, ProxyInv, ProxyTypeOK
  <2>2. ASSUME NEW u \in Users, ProxyInOrder(u) PROVE ProxyInOrder(u)'
    BY <1>2, <2>2 DEF CloseDeny, ProxyInOrder, OneAdd, RightHasOneRow, Granted
  <2> QED
    BY <1>2, <2>1, <2>2 DEF CloseDeny, ProxyInv
<1> QED
  BY <1>1, <1>2, AddKeeps, LookUpKeeps, GrantKeeps, LoseAddKeeps, AnswerAddKeeps,
     RemoveContributorKeeps, RevokeKeeps, FailRevokeKeeps
  DEF ProxyNext

LEMMA RowsSettle == ProxyInv => RowsAreProxies
<1> SUFFICES ASSUME ProxyInv, NEW u \in Users \ (doubled \cup unanswered \cup unrevoked),
                    revoking[u] = 0, \A i \in DOMAIN adding : adding[i].user # u
             PROVE  proxyRows[u] = IF u \in proxies THEN 1 ELSE 0
  BY DEF RowsAreProxies
<1>1. RightHasOneRow(u) /\ ~Granted(u) /\ proxyRows[u] \in Nat
  BY DEF ProxyInv, ProxyInOrder, Granted, ProxyTypeOK
<1> QED
  BY <1>1 DEF RightHasOneRow

\* Once the requests for a user have ended, the page has one row for a proxy and
\* none for another (proxy_rights.js).
THEOREM ProxiesHaveTheirRows == ProxySpec => []RowsAreProxies
<1> QED
  BY ProxyInitially, ProxyInductive, RowsSettle, PTL DEF ProxySpec
-----------------------------------------------------------------------------
(* The single use links of a work. The table may be behind, but then the   *)
(* newest reload is not: it has yet to read, or has read what there is.    *)

\* What the newest reload will show; with none under way, what the table shows.
WillShow(l) ==
  \/ created > 0
  \/ listing # <<>> /\ (~listing[Len(listing)].read \/ l \in listing[Len(listing)].seen)
  \/ listing = <<>> /\ l \in linkRows

NothingHidden ==
  ~overtaken => \A l \in links \ (undeleted \cup visited \cup unlisted) :
                  l \in deleting \/ WillShow(l)

\* A link that is gone, or about to be deleted, is shown by nothing.
NothingLeft ==
  \A l \in Links \ (visited \cup crossing) :
    l \notin links \/ l \in deleting =>
      /\ l \notin linkRows
      /\ \A i \in DOMAIN listing : l \notin listing[i].seen

LinkInv == LinkTypeOK /\ NothingHidden /\ NothingLeft

LEMMA LinkInitially == LinkInit => LinkInv
<1> SUFFICES ASSUME LinkInit PROVE LinkInv
  OBVIOUS
<1>1. listing \in Seq(Listing)
  BY DEF LinkInit
<1>2. LinkTypeOK
  BY <1>1 DEF LinkInit, LinkTypeOK
<1> QED
  BY <1>2 DEF LinkInit, LinkInv, NothingHidden, NothingLeft

\* A step that leaves the reloads and the table alone.
LEMMA TableUntouched ==
  ASSUME LinkInv, LinkTypeOK', UNCHANGED <<linkRows, listing, overtaken, crossing>>,
         visited \subseteq visited', undeleted \subseteq undeleted',
         unlisted \subseteq unlisted',
         created > 0 => created' > 0,
         \A l \in links' \ (undeleted' \cup visited') :
           created' > 0 \/ (l \in links /\ (l \in deleting => l \in deleting')),
         \A l \in Links \ visited' :
           l \notin links' \/ l \in deleting' => l \notin links \/ l \in deleting
  PROVE  LinkInv'
<1>1. NothingHidden'
  BY DEF LinkInv, NothingHidden, WillShow
<1>2. NothingLeft'
  BY DEF LinkInv, NothingLeft
<1> QED
  BY <1>1, <1>2 DEF LinkInv

LEMMA ServerKeeps ==
  ASSUME LinkInv, NEW l \in Links,
         HandleCreate(l) \/ HandleDelete(l) \/ FailDelete(l)
         \/ (\E made \in SUBSET unused : VisitLink(l, made))
  PROVE  LinkInv'
<1>1. CASE HandleCreate(l)
  <2>1. LinkTypeOK' /\ created' > 0
    BY <1>1 DEF LinkInv, LinkTypeOK, HandleCreate
  <2> QED
    BY <1>1, <2>1, TableUntouched DEF HandleCreate
<1>2. CASE HandleDelete(l)
  <2>1. LinkTypeOK'
    BY <1>2 DEF LinkInv, LinkTypeOK, HandleDelete
  <2> QED
    BY <1>2, <2>1, TableUntouched DEF HandleDelete
<1>3. CASE FailDelete(l)
  <2>1. LinkTypeOK'
    BY <1>3 DEF LinkInv, LinkTypeOK, FailDelete
  <2> QED
    BY <1>3, <2>1, TableUntouched DEF FailDelete
<1>4. ASSUME NEW made \in SUBSET unused, VisitLink(l, made) PROVE LinkInv'
  <2>1. LinkTypeOK'
    BY <1>4 DEF LinkInv, LinkTypeOK, VisitLink
  <2> QED
    BY <1>4, <2>1, TableUntouched DEF VisitLink
<1> QED
  BY <1>1, <1>2, <1>3, <1>4

LEMMA GenerateKeeps ==
  ASSUME LinkInv, GenerateLink \/ FailCreate
  PROVE  LinkInv'
<1>1. LinkTypeOK'
  BY DEF LinkInv, LinkTypeOK, GenerateLink, FailCreate
<1> QED
  BY <1>1, TableUntouched DEF GenerateLink, FailCreate

LEMMA AnswerCreateKeeps ==
  ASSUME LinkInv, AnswerCreate
  PROVE  LinkInv'
<1> DEFINE n == Len(listing) + 1
           asked == [read |-> FALSE, seen |-> {}]
<1>1. listing \in Seq(Listing) /\ asked \in Listing
  BY DEF LinkInv, LinkTypeOK, Listing
<1>2. /\ n \in Nat /\ DOMAIN listing = 1 .. n - 1
      /\ DOMAIN listing' = 1 .. n /\ Len(listing') = n /\ listing' \in Seq(Listing)
      /\ \A k \in 1 .. n - 1 : listing'[k] = listing[k]
      /\ \A k \in {n} : listing'[k] = asked
      /\ listing' # <<>>
  BY <1>1, AppendProperties DEF AnswerCreate, ReloadTable
<1>3. LinkTypeOK'
  BY <1>2 DEF LinkInv, LinkTypeOK, AnswerCreate
<1>4. ~listing'[Len(listing')].read
  BY <1>2
<1>5. NothingHidden'
  BY <1>2, <1>4 DEF NothingHidden, WillShow
<1>6. NothingLeft'
  BY <1>2 DEF LinkInv, NothingLeft, AnswerCreate
<1> QED
  BY <1>3, <1>5, <1>6 DEF LinkInv

LEMMA ReadKeeps ==
  ASSUME LinkInv, NEW i \in DOMAIN listing, ReadLinks(i)
  PROVE  LinkInv'
<1> DEFINE found == [read |-> TRUE, seen |-> links]
<1>1. listing \in Seq(Listing) /\ found \in Listing
  BY DEF LinkInv, LinkTypeOK, Listing
<1>2. /\ listing' \in Seq(Listing) /\ Len(listing') = Len(listing)
      /\ DOMAIN listing' = DOMAIN listing /\ listing' # <<>> /\ listing # <<>>
      /\ Len(listing) \in DOMAIN listing
      /\ \A k \in DOMAIN listing : listing'[k] = IF k = i THEN found ELSE listing[k]
  BY <1>1 DEF ReadLinks
<1>3. LinkTypeOK'
  BY <1>2 DEF LinkInv, LinkTypeOK, ReadLinks
<1>4. NothingHidden'
  BY <1>2 DEF LinkInv, NothingHidden, WillShow, ReadLinks
<1>5. NothingLeft'
  BY <1>2 DEF LinkInv, NothingLeft, ReadLinks
<1> QED
  BY <1>3, <1>4, <1>5 DEF LinkInv

LEMMA AnswerListKeeps ==
  ASSUME LinkInv, NEW i \in DOMAIN listing, AnswerList(i)
  PROVE  LinkInv'
<1>1. listing \in Seq(Listing) /\ listing[i] \in Listing
  BY DEF LinkInv, LinkTypeOK
<1>2. /\ listing' \in Seq(Listing) /\ Len(listing') = Len(listing) - 1
      /\ DOMAIN listing' = 1 .. Len(listing) - 1
      /\ \A k \in DOMAIN listing' :
           /\ Past(i, k) \in DOMAIN listing \ {i}
           /\ listing'[k] = listing[Past(i, k)]
  BY <1>1, Answered DEF AnswerList
<1>3. LinkTypeOK'
  BY <1>1, <1>2 DEF LinkInv, LinkTypeOK, AnswerList, Listing
<1>4. NothingHidden'
  <2> SUFFICES ASSUME ~overtaken', NEW l \in links' \ (undeleted' \cup visited' \cup unlisted')
               PROVE  l \in deleting' \/ WillShow(l)'
    BY DEF NothingHidden
  <2>1. i = 1 /\ listing # <<>> /\ (l \in deleting \/ WillShow(l))
    <3>1. /\ Len(listing) \in Nat /\ DOMAIN listing = 1 .. Len(listing)
          /\ i \in 1 .. Len(listing)
      BY <1>1
    <3>2. ~(overtaken \/ i > 1)
      BY Zenon DEF AnswerList
    <3>3. l \in links \ (undeleted \cup visited \cup unlisted)
      BY DEF AnswerList
    <3> QED
      BY <3>1, <3>2, <3>3 DEF LinkInv, NothingHidden, LinkTypeOK
  <2>2. CASE Len(listing) = 1
    <3>1. listing' = <<>> /\ linkRows' = listing[Len(listing)].seen
          /\ listing[Len(listing)].read
      BY <1>2, <2>1, <2>2, EmptySeq DEF AnswerList
    <3> QED
      BY <2>1, <3>1 DEF WillShow, AnswerList
  <2>3. CASE Len(listing) # 1
    <3>1. Len(listing) \in Nat /\ Len(listing) > 1
      BY <1>1, <1>2, <2>1, <2>3, LenProperties
    <3>2. Len(listing') \in DOMAIN listing' /\ Past(i, Len(listing')) = Len(listing)
      BY <1>2, <2>1, <3>1 DEF Past
    <3>3. listing'[Len(listing')] = listing[Len(listing)] /\ listing' # <<>>
      BY <1>2, <3>1, <3>2
    <3> QED
      BY <2>1, <3>3 DEF WillShow, AnswerList
  <2> QED
    BY <2>2, <2>3
<1>5. NothingLeft'
  BY <1>2 DEF LinkInv, NothingLeft, AnswerList
<1> QED
  BY <1>3, <1>4, <1>5 DEF LinkInv

LEMMA LoseCreateAnswerKeeps ==
  ASSUME LinkInv, LoseCreateAnswer
  PROVE  LinkInv'
<1>1. Unshown(listing) \subseteq Links
  BY DEF Unshown, LinkInv, LinkTypeOK
<1>2. LinkTypeOK'
  BY <1>1 DEF LinkInv, LinkTypeOK, LoseCreateAnswer
<1>3. NothingHidden'
  BY DEF NothingHidden, WillShow, LoseCreateAnswer, Unshown, Last
<1>4. NothingLeft'
  BY DEF LinkInv, NothingLeft, LoseCreateAnswer
<1> QED
  BY <1>2, <1>3, <1>4 DEF LinkInv

LEMMA FailListKeeps ==
  ASSUME LinkInv, NEW i \in DOMAIN listing, FailList(i)
  PROVE  LinkInv'
<1>1. listing \in Seq(Listing)
  BY DEF LinkInv, LinkTypeOK
<1>2. /\ listing' \in Seq(Listing)
      /\ \A k \in DOMAIN listing' :
           /\ Past(i, k) \in DOMAIN listing \ {i}
           /\ listing'[k] = listing[Past(i, k)]
  BY <1>1, Answered DEF FailList
<1>3. unlisted' = unlisted \cup Unshown(listing') /\ Unshown(listing') \subseteq links
  BY DEF FailList, Unshown
<1>4. LinkTypeOK'
  BY <1>2, <1>3 DEF LinkInv, LinkTypeOK, FailList
<1>5. NothingHidden'
  BY <1>3 DEF NothingHidden, WillShow, FailList, Unshown, Last
<1>6. NothingLeft'
  BY <1>2 DEF LinkInv, NothingLeft, FailList
<1> QED
  BY <1>4, <1>5, <1>6 DEF LinkInv

LEMMA DeleteLinkKeeps ==
  ASSUME LinkInv, NEW l \in Links, DeleteLink(l)
  PROVE  LinkInv'
<1>1. LinkTypeOK'
  BY DEF LinkInv, LinkTypeOK, DeleteLink
<1>2. NothingHidden'
  BY DEF LinkInv, NothingHidden, WillShow, DeleteLink
<1>3. NothingLeft'
  BY DEF LinkInv, NothingLeft, DeleteLink
<1> QED
  BY <1>1, <1>2, <1>3 DEF LinkInv

LEMMA LinkInductive ==
  ASSUME LinkInv, [LinkNext]_linkVars
  PROVE  LinkInv'
<1>1. CASE UNCHANGED linkVars
  BY <1>1 DEF linkVars, LinkInv, LinkTypeOK, NothingHidden, WillShow, NothingLeft
<1> QED
  BY <1>1, ServerKeeps, GenerateKeeps, AnswerCreateKeeps, ReadKeeps,
     AnswerListKeeps, LoseCreateAnswerKeeps, FailListKeeps, DeleteLinkKeeps
  DEF LinkNext

LEMMA TableSettles == LinkInv => TableFollowsLinks
BY DEF LinkInv, LinkTypeOK, NothingHidden, WillShow, NothingLeft, TableFollowsLinks, AtRest

\* When the answers have come, the table shows the links there are, but for those
\* of which the news was lost with an answer to a POST or a reload, as well as
\* those whose deletion failed or crossed a reload and those a visitor used or
\* made (single_use_links_manager.js).
THEOREM TableShowsTheLinks == LinkSpec => []TableFollowsLinks
<1> QED
  BY LinkInitially, LinkInductive, TableSettles, PTL DEF LinkSpec
-----------------------------------------------------------------------------
(* The form of a linked record. The latch that lets a record be created is *)
(* about the name in the form, and so is every check under way.            *)

\* The latch is about the name in the form.
LatchIsFresh == createConfirmed => name # Blank /\ warned = name

\* A check is about the name in the form, and what it found still holds.
CheckIsFresh ==
  \A i \in DOMAIN calls : calls[i].kind = "check" =>
    /\ calls[i].name = name /\ name # Blank
    /\ ~createConfirmed
    /\ calls[i].at = "no" => name \notin similar

RecordInv ==
  /\ RecordTypeOK
  /\ ~crossed => ~silent /\ LatchIsFresh /\ CheckIsFresh /\ Len(calls) <= 1

LEMMA RecordInitially == RecordInit => RecordInv
<1> SUFFICES ASSUME RecordInit PROVE RecordInv
  OBVIOUS
<1>1. calls \in Seq(Call) /\ Len(calls) <= 1 /\ DOMAIN calls = {}
  BY DEF RecordInit
<1>2. RecordTypeOK
  BY <1>1, NamesAssumption DEF RecordInit, RecordTypeOK, Entered
<1> QED
  BY <1>1, <1>2 DEF RecordInit, RecordInv, LatchIsFresh, CheckIsFresh

\* With one request under way, there is none beside it.
LEMMA OnlyCall ==
  ASSUME RecordInv, ~crossed, NEW i \in DOMAIN calls
  PROVE  /\ calls \in Seq(Call) /\ calls[i] \in Call
         /\ i = 1 /\ DOMAIN calls = {1} /\ Len(calls) = 1
         /\ RemoveAt(calls, i) = <<>>
<1>1. calls \in Seq(Call) /\ calls[i] \in Call
  BY DEF RecordInv, RecordTypeOK
<1>2. Len(calls) \in Nat /\ DOMAIN calls = 1 .. Len(calls) /\ Len(calls) <= 1
  BY <1>1 DEF RecordInv
<1>3. Len(calls) = 1 /\ i = 1 /\ DOMAIN calls = {1}
  BY <1>2
<1>4. RemoveAt(calls, i) \in Seq(Call) /\ Len(RemoveAt(calls, i)) = 0
  BY <1>1, <1>3, Answered
<1> QED
  BY <1>1, <1>3, <1>4, EmptySeq

\* A step that changes no request.
LEMMA FormStep ==
  ASSUME RecordInv, RecordTypeOK', UNCHANGED <<calls, silent, similar>>,
         crossed => crossed',
         ~crossed' => /\ LatchIsFresh => LatchIsFresh'
                      /\ CheckIsFresh => CheckIsFresh'
  PROVE  RecordInv'
BY DEF RecordInv

LEMMA EditFieldKeeps ==
  ASSUME RecordInv, NEW n \in Entered, EditField(n)
  PROVE  RecordInv'
<1>1. RecordTypeOK'
  BY DEF RecordInv, RecordTypeOK, EditField
<1>2. crossed => crossed'
  BY Zenon DEF EditField
<1>3. ~createConfirmed'
  BY DEF EditField
<1>4. ASSUME ~crossed', CheckIsFresh PROVE CheckIsFresh'
  <2>1. ~(Checking /\ n # name)
    BY <1>4, Zenon DEF EditField
  <2> QED
    BY <1>3, <1>4, <2>1 DEF CheckIsFresh, Checking, EditField
<1> QED
  BY <1>1, <1>2, <1>3, <1>4, FormStep DEF EditField, LatchIsFresh

\* The form is closed, or something is searched for, or the form is opened.
LEMMA CloseKeeps ==
  ASSUME RecordInv, CancelCreate \/ \E n \in Names : UseSimilar(n)
  PROVE  RecordInv'
<1>1. RecordTypeOK'
  BY DEF RecordInv, RecordTypeOK, CancelCreate, UseSimilar, SelectRecord,
         CloseCreateForm, Entered
<1>2. (crossed => crossed') /\ (~crossed' => ~Checking)
  BY Zenon DEF CancelCreate, UseSimilar
<1>3. ~createConfirmed' /\ UNCHANGED <<calls, silent, similar>>
  BY DEF CancelCreate, UseSimilar, SelectRecord, CloseCreateForm
<1>4. ASSUME ~crossed' PROVE CheckIsFresh'
  BY <1>2, <1>3, <1>4 DEF CheckIsFresh, Checking
<1> QED
  BY <1>1, <1>2, <1>3, <1>4, FormStep DEF LatchIsFresh

LEMMA OpenFormKeeps ==
  ASSUME RecordInv, OpenCreateForm \/ \E term \in Entered : SearchRecords(term)
  PROVE  RecordInv'
<1>1. RecordTypeOK'
  BY DEF RecordInv, RecordTypeOK, OpenCreateForm, SearchRecords
<1>2. /\ UNCHANGED <<calls, silent, similar, crossed, createConfirmed, warned>>
      /\ name # Blank => name' = name
  BY DEF OpenCreateForm, SearchRecords
<1>3. LatchIsFresh => LatchIsFresh'
  BY <1>2 DEF LatchIsFresh
<1>4. CheckIsFresh => CheckIsFresh'
  BY <1>2 DEF CheckIsFresh
<1> QED
  BY <1>1, <1>2, <1>3, <1>4, FormStep

\* A POST that is sent when the name is known, or warned of, is not silent.
LEMMA PostIsNotSilent ==
  ASSUME RecordInv, ~crossed, PostCreate(<<>>),
         name \in similar => createConfirmed /\ warned = name
  PROVE  ~silent'
<1>1. ~silent /\ ~(name \in similar /\ ~(createConfirmed /\ warned = name))
  BY DEF RecordInv
<1> QED
  BY <1>1, Zenon DEF PostCreate

\* The requests after one was added.
LEMMA CallAdded ==
  ASSUME NEW older \in Seq(Call), NEW c \in Call, calls' = Append(older, c)
  PROVE  /\ calls' \in Seq(Call)
         /\ older = <<>> => /\ Len(calls') = 1 /\ DOMAIN calls' = {1}
                             /\ calls'[1] = c
<1>1. calls' \in Seq(Call) /\ Len(calls') = Len(older) + 1
      /\ calls'[Len(older) + 1] = c
  BY AppendProperties
<1>2. ASSUME older = <<>>
      PROVE  Len(calls') = 1 /\ DOMAIN calls' = {1} /\ calls'[1] = c
  <2>1. Len(older) = 0
    BY <1>2
  <2> QED
    BY <1>1, <2>1
<1> QED
  BY <1>1, <1>2

LEMMA SubmitRecordKeeps ==
  ASSUME RecordInv, SubmitCreateForm
  PROVE  RecordInv'
<1> DEFINE check == [kind |-> "check", name |-> name, at |-> "sent"]
<1>1. calls \in Seq(Call) /\ CollectCreateRecord \in Call /\ check \in Call
  BY DEF RecordInv, RecordTypeOK, Call, CollectCreateRecord
<1>2. \E c \in {CollectCreateRecord, check} : calls' = Append(calls, c)
  BY DEF SubmitCreateForm, CheckSimilarThenCreate, PostCreate
<1>3. calls' \in Seq(Call)
  BY <1>1, <1>2, CallAdded
<1>4. silent' \in BOOLEAN /\ crossed' \in BOOLEAN
  BY DEF RecordInv, RecordTypeOK, SubmitCreateForm, CheckSimilarThenCreate, PostCreate
<1>5. RecordTypeOK'
  BY <1>3, <1>4 DEF RecordInv, RecordTypeOK, SubmitCreateForm
<1>6. ASSUME ~crossed'
      PROVE  ~silent' /\ LatchIsFresh' /\ CheckIsFresh' /\ Len(calls') <= 1
  <2>1. ~crossed /\ calls = <<>>
    BY <1>6, Zenon DEF SubmitCreateForm
  <2>2. /\ ~silent /\ LatchIsFresh
        /\ name = Blank => name \notin similar
    BY <2>1, NamesAssumption DEF RecordInv, RecordTypeOK
  <2>3. CASE createConfirmed \/ name = Blank
    <3>1. PostCreate(<<>>)
      BY <2>1, <2>3 DEF SubmitCreateForm, CheckSimilarThenCreate
    <3>2. ~silent'
      BY <2>1, <2>2, <2>3, <3>1, PostIsNotSilent DEF LatchIsFresh
    <3>3. /\ Len(calls') = 1 /\ DOMAIN calls' = {1} /\ calls'[1].kind = "create"
      BY <1>1, <2>1, <3>1, CallAdded DEF PostCreate, CollectCreateRecord
    <3> QED
      BY <2>2, <3>2, <3>3 DEF LatchIsFresh, CheckIsFresh, SubmitCreateForm
  <2>4. CASE ~createConfirmed /\ name # Blank
    <3>1. calls' = Append(calls, check) /\ UNCHANGED <<silent, name, createConfirmed>>
      BY <2>4 DEF SubmitCreateForm, CheckSimilarThenCreate
    <3>2. Len(calls') = 1 /\ DOMAIN calls' = {1} /\ calls'[1] = check
      BY <1>1, <2>1, <3>1, CallAdded
    <3>3. CheckIsFresh'
      BY <2>4, <3>1, <3>2 DEF CheckIsFresh
    <3> QED
      BY <2>2, <2>4, <3>1, <3>2, <3>3 DEF LatchIsFresh
  <2> QED
    BY <2>3, <2>4
<1> QED
  BY <1>5, <1>6 DEF RecordInv

\* The source handles a request.
LEMMA CallHandled ==
  ASSUME NEW i \in DOMAIN calls, calls \in Seq(Call), NEW at \in {"sent", "yes", "no"},
         calls' = [calls EXCEPT ![i].at = at]
  PROVE  /\ calls' \in Seq(Call) /\ Len(calls') = Len(calls)
         /\ DOMAIN calls' = DOMAIN calls
         /\ calls'[i].kind = calls[i].kind /\ calls'[i].name = calls[i].name
         /\ calls'[i].at = at
<1>1. calls[i] \in Call
  OBVIOUS
<1> QED
  BY <1>1 DEF Call

LEMMA HandleCheckKeeps ==
  ASSUME RecordInv, NEW i \in DOMAIN calls, HandleCheck(i)
  PROVE  RecordInv'
<1>1. PICK at \in {"yes", "no"} : /\ calls' = [calls EXCEPT ![i].at = at]
                                  /\ at = "no" => calls[i].name \notin similar
  BY DEF HandleCheck
<1>2. /\ calls' \in Seq(Call) /\ Len(calls') = Len(calls)
      /\ DOMAIN calls' = DOMAIN calls
      /\ calls'[i].kind = calls[i].kind /\ calls'[i].name = calls[i].name
      /\ calls'[i].at = at
  BY <1>1, CallHandled DEF RecordInv, RecordTypeOK
<1>3. RecordTypeOK'
  BY <1>2 DEF RecordInv, RecordTypeOK, HandleCheck
<1>4. ASSUME ~crossed, CheckIsFresh PROVE CheckIsFresh'
  <2>1. DOMAIN calls = {1} /\ i = 1
    BY <1>4, OnlyCall
  <2> QED
    BY <1>1, <1>2, <1>4, <2>1 DEF CheckIsFresh, HandleCheck
<1> QED
  BY <1>2, <1>3, <1>4 DEF RecordInv, LatchIsFresh, HandleCheck

LEMMA HandleCreateKeeps ==
  ASSUME RecordInv, NEW i \in DOMAIN calls, NEW ok \in BOOLEAN, HandleCreateRecord(i, ok)
  PROVE  RecordInv'
<1>1. PICK at \in {"yes", "no"} : calls' = [calls EXCEPT ![i].at = at]
  BY DEF HandleCreateRecord
<1>2. /\ calls' \in Seq(Call) /\ Len(calls') = Len(calls)
      /\ DOMAIN calls' = DOMAIN calls /\ calls'[i].kind = "create"
  BY <1>1, CallHandled DEF RecordInv, RecordTypeOK, HandleCreateRecord
<1>3. similar' \subseteq Names
  <2>1. calls[i] \in Call
    BY DEF RecordInv, RecordTypeOK
  <2> QED
    BY <2>1 DEF RecordInv, RecordTypeOK, HandleCreateRecord, Call, Entered
<1>4. RecordTypeOK'
  BY <1>2, <1>3 DEF RecordInv, RecordTypeOK, HandleCreateRecord
<1>5. ASSUME ~crossed PROVE CheckIsFresh'
  <2>1. DOMAIN calls = {1} /\ i = 1
    BY <1>5, OnlyCall
  <2> QED
    BY <1>2, <2>1 DEF CheckIsFresh
<1> QED
  BY <1>2, <1>4, <1>5 DEF RecordInv, LatchIsFresh, HandleCreateRecord

LEMMA AnswerCheckKeeps ==
  ASSUME RecordInv, NEW i \in DOMAIN calls, AnswerCheck(i)
  PROVE  RecordInv'
<1>1. /\ RemoveAt(calls, i) \in Seq(Call) /\ calls[i] \in Call
      /\ CollectCreateRecord \in Call
  <2>1. calls \in Seq(Call) /\ name \in Entered
    BY DEF RecordInv, RecordTypeOK
  <2>2. CollectCreateRecord \in Call
    BY <2>1 DEF CollectCreateRecord, Call
  <2> QED
    BY <2>1, <2>2, Answered
<1>2. calls' \in Seq(Call) /\ warned' \in Entered
  BY <1>1, CallAdded
  DEF AnswerCheck, PostCreate, ShowSimilar, RecordInv, RecordTypeOK, Call
<1>3. {panel', createConfirmed', silent', crossed'} \subseteq BOOLEAN
  BY DEF AnswerCheck, PostCreate, ShowSimilar, RecordInv, RecordTypeOK
<1>4. RecordTypeOK'
  BY <1>2, <1>3 DEF RecordInv, RecordTypeOK, AnswerCheck
<1>5. ASSUME ~crossed'
      PROVE  ~silent' /\ LatchIsFresh' /\ CheckIsFresh' /\ Len(calls') <= 1
  <2>1. ~crossed /\ calls[i].at # "sent"
    BY <1>5, Zenon DEF AnswerCheck
  <2>2. RemoveAt(calls, i) = <<>>
    BY <2>1, OnlyCall
  <2>3. /\ ~silent /\ calls[i].kind = "check" /\ calls[i].name = name
        /\ name # Blank /\ ~createConfirmed
        /\ calls[i].at = "no" => name \notin similar
    BY <2>1 DEF RecordInv, CheckIsFresh, AnswerCheck
  <2>4. CASE calls[i].at = "yes"
    <3>1. calls' = <<>> /\ warned' = name /\ UNCHANGED <<silent, name>>
      BY <2>2, <2>3, <2>4 DEF AnswerCheck, ShowSimilar
    <3>2. Len(calls') <= 1 /\ DOMAIN calls' = {}
      BY <3>1
    <3> QED
      BY <2>3, <3>1, <3>2 DEF LatchIsFresh, CheckIsFresh
  <2>5. CASE calls[i].at # "yes"
    <3>1. calls[i].at = "no"
      BY <1>1, <2>1, <2>5 DEF Call
    <3>2. PostCreate(<<>>) /\ UNCHANGED <<createConfirmed, warned>>
      BY <2>2, <2>5 DEF AnswerCheck
    <3>3. ~silent'
      BY <2>1, <2>3, <3>1, <3>2, PostIsNotSilent
    <3>4. Len(calls') = 1 /\ DOMAIN calls' = {1} /\ calls'[1].kind = "create"
      BY <1>1, <2>2, <3>2, CallAdded DEF PostCreate, CollectCreateRecord
    <3> QED
      BY <2>3, <3>2, <3>3, <3>4 DEF LatchIsFresh, CheckIsFresh
  <2> QED
    BY <2>4, <2>5
<1> QED
  BY <1>4, <1>5 DEF RecordInv

LEMMA AnswerCreateRecordKeeps ==
  ASSUME RecordInv, NEW i \in DOMAIN calls, NEW lost \in BOOLEAN,
         AnswerCreateRecord(i, lost)
  PROVE  RecordInv'
<1>1. RemoveAt(calls, i) \in Seq(Call) /\ calls[i] \in Call
  BY Answered DEF RecordInv, RecordTypeOK
<1>2. calls' \in Seq(Call) /\ picked' \in Entered
  BY <1>1 DEF AnswerCreateRecord, SelectRecord, RecordInv, RecordTypeOK, Call
<1>3. {formOpen', panel', createConfirmed', silent', crossed'} \subseteq BOOLEAN
  BY DEF AnswerCreateRecord, SelectRecord, CloseCreateForm, RecordInv, RecordTypeOK
<1>4. RecordTypeOK'
  BY <1>2, <1>3 DEF RecordInv, RecordTypeOK, AnswerCreateRecord
<1>5. createConfirmed' => createConfirmed
  BY DEF AnswerCreateRecord, SelectRecord, CloseCreateForm
<1>6. ASSUME ~crossed'
      PROVE  ~silent' /\ LatchIsFresh' /\ CheckIsFresh' /\ Len(calls') <= 1
  <2>1. ~crossed
    BY <1>6, Zenon DEF AnswerCreateRecord
  <2>2. calls' = <<>>
    BY <2>1, OnlyCall DEF AnswerCreateRecord
  <2>3. Len(calls') <= 1 /\ DOMAIN calls' = {}
    BY <2>2
  <2> QED
    BY <1>5, <2>1, <2>3
    DEF RecordInv, LatchIsFresh, CheckIsFresh, AnswerCreateRecord
<1> QED
  BY <1>4, <1>6 DEF RecordInv

LEMMA RecordInductive ==
  ASSUME RecordInv, [RecordNext]_recordVars
  PROVE  RecordInv'
<1>1. CASE UNCHANGED recordVars
  BY <1>1 DEF recordVars, RecordInv, RecordTypeOK, LatchIsFresh, CheckIsFresh
<1> QED
  BY <1>1, OpenFormKeeps, EditFieldKeeps, CloseKeeps, SubmitRecordKeeps, HandleCheckKeeps,
     HandleCreateKeeps, AnswerCheckKeeps, AnswerCreateRecordKeeps
  DEF RecordNext

\* No record that is similar to an existing one is created without a warning for
\* its name, unless the form was used while a check was under way
\* (compound_metadata.js).
THEOREM DuplicatesAreWarnedOf == RecordSpec => []NoSilentDuplicate
<1>1. RecordInv => NoSilentDuplicate
  BY DEF RecordInv, NoSilentDuplicate
<1> QED
  BY <1>1, RecordInitially, RecordInductive, PTL DEF RecordSpec
-----------------------------------------------------------------------------
(* The links that feature a work. A request under way is the only one, and *)
(* its link is the one that is shown.                                      *)

\* A request that is under way is the only one, its link is the one that is
\* shown and the global names, and the work has the row it should have by then.
OnlyItsLink ==
  \A i \in DOMAIN featCalls :
    /\ Len(featCalls) = 1
    /\ lastLink = featCalls[i].link /\ linksShown = {featCalls[i].link}
    /\ featCalls[i].at = "ok" =>
         copies = IF featCalls[i].link = Feature THEN 1 ELSE 0
    /\ featCalls[i].at # "ok" =>
         copies = IF featCalls[i].link = Feature THEN 0 ELSE 1

LinksInv ==
  /\ LinksTypeOK
  /\ ~entangled => OnlyItsLink
  /\ LinksFollowRows

LEMMA LinksInitially == LinksInit => LinksInv
<1> SUFFICES ASSUME LinksInit PROVE LinksInv
  OBVIOUS
<1>1. featCalls \in Seq(FeatCall) /\ DOMAIN featCalls = {}
  BY DEF LinksInit
<1>2. copies \in Nat /\ others \in 0 .. FeatureLimit
  BY FeatureLimitAssumption DEF LinksInit
<1>3. LinksTypeOK
  BY <1>1, <1>2 DEF LinksInit, LinksTypeOK
<1>4. LinksFollowRows
  BY <1>2, FeatureLimitAssumption DEF LinksInit, LinksFollowRows
<1> QED
  BY <1>1, <1>3, <1>4 DEF LinksInv, OnlyItsLink

LEMMA PressLinkKeeps ==
  ASSUME LinksInv, NEW link \in {Feature, Unfeature}, PressLink(link)
  PROVE  LinksInv'
<1> DEFINE asked == [link |-> link, at |-> "sent"]
<1>1. featCalls \in Seq(FeatCall) /\ asked \in FeatCall
  BY DEF LinksInv, LinksTypeOK, FeatCall
<1>2. /\ featCalls' \in Seq(FeatCall) /\ featCalls' # <<>>
      /\ Len(featCalls') = Len(featCalls) + 1
      /\ featCalls'[Len(featCalls) + 1] = asked
  BY <1>1, AppendProperties DEF PressLink
<1>3. entangled' \in BOOLEAN
  BY DEF PressLink, LinksInv, LinksTypeOK
<1>4. LinksTypeOK'
  BY <1>2, <1>3 DEF LinksInv, LinksTypeOK, PressLink
<1>5. ASSUME ~entangled' PROVE OnlyItsLink'
  <2>1. ~entangled /\ featCalls = <<>>
    BY <1>5, Zenon DEF PressLink
  <2>2. Len(featCalls') = 1 /\ DOMAIN featCalls' = {1} /\ featCalls'[1] = asked
    BY <1>2, <2>1
  <2>3. /\ link = Feature => copies = 0 /\ linksShown = {Feature}
        /\ link = Unfeature => copies = 1 /\ linksShown = {Unfeature}
    <3>1. link \in linksShown /\ copies \in Nat /\ Feature # Unfeature
      BY DEF LinksInv, LinksTypeOK, PressLink, Feature, Unfeature
    <3>2. IF copies > 0 THEN copies = 1 /\ linksShown = {Unfeature}
                        ELSE linksShown \subseteq {Feature}
      BY <2>1 DEF LinksInv, LinksFollowRows
    <3>3. CASE copies > 0
      BY <3>1, <3>2, <3>3
    <3>4. CASE copies = 0
      BY <3>1, <3>2, <3>4
    <3> QED
      BY <3>1, <3>3, <3>4
  <2> QED
    BY <2>2, <2>3 DEF OnlyItsLink, PressLink, Feature, Unfeature
<1> QED
  BY <1>2, <1>4, <1>5 DEF LinksInv, LinksFollowRows

\* A request goes on.
LEMMA CallGoesOn ==
  ASSUME LinksInv, NEW i \in DOMAIN featCalls,
         NEW at \in {"ok", "refused", "failed"}, HandledAs(i, at)
  PROVE  /\ featCalls' \in Seq(FeatCall) /\ featCalls' # <<>>
         /\ ~entangled => /\ i = 1 /\ DOMAIN featCalls = {1}
                          /\ DOMAIN featCalls' = {1} /\ Len(featCalls') = 1
                          /\ featCalls'[1].link = featCalls[1].link
                          /\ featCalls'[1].at = at
<1>1. featCalls \in Seq(FeatCall) /\ featCalls[i] \in FeatCall
  BY DEF LinksInv, LinksTypeOK
<1>2. /\ featCalls' \in Seq(FeatCall) /\ Len(featCalls') = Len(featCalls)
      /\ DOMAIN featCalls' = DOMAIN featCalls /\ featCalls' # <<>>
      /\ featCalls'[i].link = featCalls[i].link /\ featCalls'[i].at = at
  BY <1>1 DEF HandledAs, FeatCall
<1>3. ASSUME ~entangled PROVE Len(featCalls) = 1
  BY <1>3 DEF LinksInv, OnlyItsLink
<1> QED
  BY <1>1, <1>2, <1>3

LEMMA HandleFeatureKeeps ==
  ASSUME LinksInv, NEW i \in DOMAIN featCalls, HandleFeature(i)
  PROVE  LinksInv'
<1>1. PICK at \in {"ok", "refused"} :
        /\ HandledAs(i, at)
        /\ copies' = IF at = "ok" THEN copies + 1 ELSE copies
  BY DEF HandleFeature
<1>2. /\ featCalls' \in Seq(FeatCall) /\ featCalls' # <<>>
      /\ ~entangled => /\ i = 1 /\ DOMAIN featCalls = {1}
                       /\ DOMAIN featCalls' = {1} /\ Len(featCalls') = 1
                       /\ featCalls'[1].link = featCalls[1].link
                       /\ featCalls'[1].at = at
  BY <1>1, CallGoesOn
<1>3. LinksTypeOK'
  BY <1>1, <1>2 DEF LinksInv, LinksTypeOK, HandleFeature
<1>4. ASSUME ~entangled PROVE OnlyItsLink'
  <2>1. featCalls[1].link = Feature /\ featCalls[1].at = "sent"
    BY <1>2, <1>4 DEF HandleFeature
  <2>2. copies = 0 /\ lastLink = Feature /\ linksShown = {Feature}
    BY <1>2, <1>4, <2>1 DEF LinksInv, OnlyItsLink
  <2> QED
    BY <1>1, <1>2, <1>4, <2>1, <2>2 DEF OnlyItsLink, HandleFeature
<1> QED
  BY <1>2, <1>3, <1>4 DEF LinksInv, LinksFollowRows, HandleFeature

LEMMA HandleUnfeatureLinkKeeps ==
  ASSUME LinksInv, NEW i \in DOMAIN featCalls, HandleUnfeatureLink(i)
  PROVE  LinksInv'
<1>1. /\ featCalls' \in Seq(FeatCall) /\ featCalls' # <<>>
      /\ ~entangled => /\ i = 1 /\ DOMAIN featCalls = {1}
                       /\ DOMAIN featCalls' = {1} /\ Len(featCalls') = 1
                       /\ featCalls'[1].link = featCalls[1].link
                       /\ featCalls'[1].at = "ok"
  BY CallGoesOn DEF HandleUnfeatureLink
<1>2. LinksTypeOK'
  BY <1>1 DEF LinksInv, LinksTypeOK, HandleUnfeatureLink
<1>3. ASSUME ~entangled PROVE OnlyItsLink'
  <2>1. featCalls[1].link = Unfeature /\ featCalls[1].at = "sent" /\ Unfeature # Feature
    BY <1>1, <1>3 DEF HandleUnfeatureLink, Feature, Unfeature
  <2>2. copies = 1 /\ lastLink = Unfeature /\ linksShown = {Unfeature}
    BY <1>1, <1>3, <2>1 DEF LinksInv, OnlyItsLink
  <2> QED
    BY <1>1, <1>3, <2>1, <2>2 DEF OnlyItsLink, HandleUnfeatureLink
<1> QED
  BY <1>1, <1>2, <1>3 DEF LinksInv, LinksFollowRows, HandleUnfeatureLink

LEMMA LoseFeatKeeps ==
  ASSUME LinksInv, NEW i \in DOMAIN featCalls, LoseFeatCall(i)
  PROVE  LinksInv'
<1>1. /\ featCalls' \in Seq(FeatCall) /\ featCalls' # <<>>
      /\ ~entangled => /\ i = 1 /\ DOMAIN featCalls = {1}
                       /\ DOMAIN featCalls' = {1} /\ Len(featCalls') = 1
                       /\ featCalls'[1].link = featCalls[1].link
                       /\ featCalls'[1].at = "failed"
  BY CallGoesOn DEF LoseFeatCall
<1>2. entangled' \in BOOLEAN
  BY DEF LoseFeatCall, LinksInv, LinksTypeOK
<1>3. LinksTypeOK'
  BY <1>1, <1>2 DEF LinksInv, LinksTypeOK, LoseFeatCall
<1>4. ASSUME ~entangled' PROVE OnlyItsLink'
  <2>1. ~entangled /\ featCalls[i].at # "ok"
    BY <1>4, Zenon DEF LoseFeatCall
  <2> QED
    BY <1>1, <2>1 DEF LinksInv, OnlyItsLink, LoseFeatCall
<1> QED
  BY <1>1, <1>3, <1>4 DEF LinksInv, LinksFollowRows

LEMMA AnswerLinkKeeps ==
  ASSUME LinksInv, NEW i \in DOMAIN featCalls, AnswerLink(i)
  PROVE  LinksInv'
<1>1. featCalls \in Seq(FeatCall) /\ featCalls[i] \in FeatCall
  BY DEF LinksInv, LinksTypeOK
<1>2. featCalls' \in Seq(FeatCall) /\ Len(featCalls') = Len(featCalls) - 1
  BY <1>1, Answered DEF AnswerLink
<1>3. LinksTypeOK'
  BY <1>2 DEF LinksInv, LinksTypeOK, AnswerLink
<1>4. ASSUME ~entangled PROVE DOMAIN featCalls' = {} /\ LinksFollowRows'
  <2>1. /\ Len(featCalls) = 1 /\ lastLink = featCalls[i].link
        /\ linksShown = {featCalls[i].link}
        /\ featCalls[i].at = "ok" =>
             copies = IF featCalls[i].link = Feature THEN 1 ELSE 0
        /\ featCalls[i].at # "ok" =>
             copies = IF featCalls[i].link = Feature THEN 0 ELSE 1
    BY <1>4 DEF LinksInv, OnlyItsLink
  <2>2. DOMAIN featCalls' = {}
    BY <1>2, <2>1
  <2>3. featCalls[i].link \in {Feature, Unfeature} /\ Feature # Unfeature
    BY <1>1 DEF FeatCall, Feature, Unfeature
  <2>4. CASE featCalls[i].link = Feature
    <3>1. featCalls[i].at = "ok" => linksShown' = {Unfeature}
      BY <2>1, <2>3, <2>4 DEF AnswerLink
    <3>2. featCalls[i].at # "ok" => linksShown' = {Feature}
      BY <2>1, <2>4 DEF AnswerLink
    <3>3. copies' = IF featCalls[i].at = "ok" THEN 1 ELSE 0
      BY <2>1, <2>4 DEF AnswerLink
    <3> QED
      BY <2>2, <3>1, <3>2, <3>3 DEF LinksFollowRows
  <2>5. CASE featCalls[i].link = Unfeature
    <3>1. featCalls[i].at = "ok" => linksShown' = {Feature}
      BY <2>1, <2>3, <2>5 DEF AnswerLink
    <3>2. featCalls[i].at # "ok" => linksShown' = {Unfeature}
      BY <2>1, <2>5 DEF AnswerLink
    <3>3. copies' = IF featCalls[i].at = "ok" THEN 0 ELSE 1
      BY <2>1, <2>3, <2>5 DEF AnswerLink
    <3> QED
      BY <2>2, <3>1, <3>2, <3>3 DEF LinksFollowRows
  <2> QED
    BY <2>2, <2>3, <2>4, <2>5
<1> QED
  BY <1>3, <1>4 DEF LinksInv, OnlyItsLink, LinksFollowRows, AnswerLink

LEMMA LinksInductive ==
  ASSUME LinksInv, [LinksNext]_linksVars
  PROVE  LinksInv'
<1>1. CASE UNCHANGED linksVars
  BY <1>1 DEF linksVars, LinksInv, LinksTypeOK, OnlyItsLink, LinksFollowRows
<1>2. ASSUME NEW n \in 0 .. FeatureLimit, OthersChange(n) PROVE LinksInv'
  BY <1>2 DEF OthersChange, LinksInv, LinksTypeOK, OnlyItsLink, LinksFollowRows
<1> QED
  BY <1>1, <1>2, PressLinkKeeps, HandleFeatureKeeps, HandleUnfeatureLinkKeeps,
     LoseFeatKeeps, AnswerLinkKeeps
  DEF LinksNext

\* At rest a featured work has one row and shows "Unfeature" alone, any other at
\* most "Feature" (featured_works.js on the page of a work).
THEOREM LinksShowTheRow == LinksSpec => []LinksFollowRows
<1>1. LinksInv => LinksFollowRows
  BY DEF LinksInv
<1> QED
  BY <1>1, LinksInitially, LinksInductive, PTL DEF LinksSpec
-----------------------------------------------------------------------------
(* Lists of numbers in ascending order: there is one of a set, and the     *)
(* place of a number in it is how many of the set are not larger.          *)

\* A list of numbers that get larger.
Climbs(p) == \A i, j \in DOMAIN p : i < j => p[i] < p[j]

\* The place of a number in it is how many are not larger.
LEMMA PlaceIsCount ==
  ASSUME NEW S, \A n \in S : n \in Nat,
         NEW p \in Seq(S), ToSet(p) = S, Climbs(p)
  PROVE  \A i \in DOMAIN p : Cardinality({m \in S : m <= p[i]}) = i
<1> SUFFICES ASSUME NEW i \in DOMAIN p
             PROVE  Cardinality({m \in S : m <= p[i]}) = i
  OBVIOUS
<1> DEFINE below == {m \in S : m <= p[i]}
           f == [k \in 1 .. i |-> p[k]]
<1>1. /\ DOMAIN p = 1 .. Len(p) /\ Len(p) \in Nat
      /\ i \in 1 .. Len(p) /\ 1 .. i \subseteq DOMAIN p
      /\ \A k \in DOMAIN p : p[k] \in S /\ p[k] \in Nat
  OBVIOUS
<1>2. \A k, l \in DOMAIN p : k # l => p[k] # p[l]
  BY <1>1 DEF Climbs
<1>3. \A k \in DOMAIN p : p[k] <= p[i] <=> k <= i
  BY <1>1 DEF Climbs
<1>4. f \in [1 .. i -> below]
  BY <1>1, <1>3
<1>5. \A k, l \in 1 .. i : f[k] = f[l] => k = l
  BY <1>1, <1>2
<1>6. ASSUME NEW m \in below PROVE \E k \in 1 .. i : f[k] = m
  <2>1. PICK k \in DOMAIN p : p[k] = m
    BY <1>6 DEF ToSet
  <2>2. k \in 1 .. i
    BY <1>1, <1>3, <1>6, <2>1
  <2> QED
    BY <2>1, <2>2
<1>7. f \in Bijection(1 .. i, below)
  BY <1>4, <1>5, <1>6 DEF Bijection, Injection, IsInjective, Surjection
<1>8. IsFiniteSet(1 .. i) /\ Cardinality(1 .. i) = i
  BY <1>1, FS_Interval
<1>9. ExistsBijection(1 .. i, below)
  BY <1>7 DEF ExistsBijection
<1> QED
  BY <1>8, <1>9, FS_Bijection

\* The ascending list of a set is the only one there is.
LEMMA AscendingIs ==
  ASSUME NEW S, \A n \in S : n \in Nat,
         NEW p \in Seq(S), ToSet(p) = S, Climbs(p)
  PROVE  Ascending(S) = p
<1> DEFINE below(n) == {m \in S : m <= n}
<1>1. DOMAIN p = 1 .. Len(p) /\ Len(p) \in Nat /\ \A i \in DOMAIN p : p[i] \in S
  OBVIOUS
<1>2. \A i \in DOMAIN p : Cardinality(below(p[i])) = i
  BY PlaceIsCount
<1>3. Cardinality(S) = Len(p)
  <2>1. CASE Len(p) = 0
    BY <1>1, <2>1, FS_EmptySet DEF ToSet
  <2>2. CASE Len(p) # 0
    <3>1. Len(p) \in DOMAIN p
      BY <1>1, <2>2
    <3>2. ASSUME NEW m \in S PROVE m <= p[Len(p)]
      <4>1. PICK j \in DOMAIN p : p[j] = m
        BY DEF ToSet
      <4>2. j = Len(p) \/ j < Len(p)
        BY <1>1
      <4>3. j < Len(p) => p[j] < p[Len(p)]
        BY <3>1 DEF Climbs
      <4>4. m \in Nat /\ p[Len(p)] \in Nat
        BY <1>1, <3>1
      <4> QED
        BY <4>1, <4>2, <4>3, <4>4
    <3>3. below(p[Len(p)]) = S
      BY <3>2
    <3> QED
      BY <1>2, <3>1, <3>3
  <2> QED
    BY <2>1, <2>2
<1>4. ASSUME NEW k \in 1 .. Len(p)
      PROVE  (CHOOSE n \in S : Cardinality(below(n)) = k) = p[k]
  <2>1. p[k] \in S /\ Cardinality(below(p[k])) = k
    BY <1>1, <1>2
  <2>2. ASSUME NEW n \in S, Cardinality(below(n)) = k PROVE n = p[k]
    <3>1. PICK j \in DOMAIN p : p[j] = n
      BY DEF ToSet
    <3> QED
      BY <1>2, <2>2, <3>1
  <2> QED
    BY <2>1, <2>2
<1>5. Ascending(S) = [k \in 1 .. Len(p) |-> p[k]]
  BY <1>3, <1>4 DEF Ascending
<1> QED
  BY <1>1, <1>5

\* And there is one for every finite set.
LEMMA AscendingOf ==
  ASSUME NEW S \in SUBSET Nat, IsFiniteSet(S)
  PROVE  /\ Ascending(S) \in Seq(S) /\ ToSet(Ascending(S)) = S
         /\ Climbs(Ascending(S)) /\ DOMAIN Ascending(S) = 1 .. Cardinality(S)
<1> DEFINE n == Cardinality(S)
           below(m) == {l \in S : l <= m}
           rank == [m \in S |-> Cardinality(below(m))]
<1>1. n \in Nat /\ IsFiniteSet(1 .. n) /\ Cardinality(1 .. n) = n
  BY FS_CardinalityType, FS_Interval
<1>2. ASSUME NEW m \in S PROVE rank[m] \in 1 .. n
  <2>1. IsFiniteSet(below(m)) /\ rank[m] <= n /\ rank[m] \in Nat
    BY <1>1, FS_Subset, FS_CardinalityType
  <2>2. m \in below(m)
    OBVIOUS
  <2>3. rank[m] # 0
    BY <2>1, <2>2, FS_EmptySet
  <2> QED
    BY <1>1, <2>1, <2>3
<1>3. ASSUME NEW l \in S, NEW m \in S, l < m PROVE rank[l] < rank[m]
  <2>1. IsFiniteSet(below(m)) /\ below(l) \subseteq below(m)
    <3>1. \A k \in S : k <= l => k <= m
      BY <1>3
    <3>2. below(l) \subseteq below(m) /\ below(m) \subseteq S
      BY <3>1
    <3> QED
      BY <3>2, FS_Subset
  <2>2. m \in below(m) /\ m \notin below(l)
    BY <1>3
  <2>3. /\ Cardinality(below(l)) <= Cardinality(below(m))
        /\ Cardinality(below(l)) = Cardinality(below(m)) => below(l) = below(m)
    BY <2>1, FS_Subset
  <2>4. rank[l] \in Nat /\ rank[m] \in Nat
    BY <1>1, <1>2
  <2>5. rank[l] = Cardinality(below(l)) /\ rank[m] = Cardinality(below(m))
    OBVIOUS
  <2>6. rank[l] <= rank[m] /\ rank[l] # rank[m]
    BY <2>2, <2>3, <2>5, Zenon
  <2> QED
    BY <2>4, <2>6
<1>4. rank \in [S -> 1 .. n] /\ \A l, m \in S : rank[l] = rank[m] => l = m
  <2>1. ASSUME NEW l \in S, NEW m \in S, rank[l] = rank[m]
        PROVE  l = m
    <3>1. rank[l] \in Nat /\ l \in Nat /\ m \in Nat
      BY <1>1, <1>2
    <3>2. ~(l < m) /\ ~(m < l)
      <4>1. ~(rank[l] < rank[m]) /\ ~(rank[m] < rank[l])
        BY <2>1, <3>1
      <4> QED
        BY <1>3, <4>1
    <3> QED
      BY <3>1, <3>2
  <2> QED
    BY <1>2, <2>1
<1>5. rank \in Surjection(S, 1 .. n)
  <2>1. rank \in Injection(S, 1 .. n)
    BY <1>4 DEF Injection, IsInjective
  <2> QED
    BY <1>1, <2>1, FS_Injection
<1>6. ASSUME NEW k \in 1 .. n
      PROVE  Ascending(S)[k] \in S /\ rank[Ascending(S)[k]] = k
  <2>1. PICK m \in S : rank[m] = k
    BY <1>5 DEF Surjection
  <2>2. Ascending(S)[k] = CHOOSE l \in S : Cardinality(below(l)) = k
    BY DEF Ascending
  <2> QED
    BY <2>1, <2>2
<1>7. DOMAIN Ascending(S) = 1 .. n
  BY DEF Ascending
<1>8. Ascending(S) \in [1 .. n -> S]
  BY <1>6, <1>7 DEF Ascending
<1>9. Ascending(S) \in Seq(S)
  BY <1>1, <1>8
<1>10. ToSet(Ascending(S)) = S
  <2>1. ASSUME NEW m \in S PROVE Ascending(S)[rank[m]] = m
    BY <1>2, <1>4, <1>6
  <2> QED
    BY <1>2, <1>6, <1>7, <2>1 DEF ToSet
<1>11. Climbs(Ascending(S))
  <2> SUFFICES ASSUME NEW i \in 1 .. n, NEW j \in 1 .. n, i < j
               PROVE  Ascending(S)[i] < Ascending(S)[j]
    BY <1>7 DEF Climbs
  <2> DEFINE l == Ascending(S)[i]
             m == Ascending(S)[j]
  <2>1. l \in S /\ m \in S /\ rank[l] = i /\ rank[m] = j
    BY <1>6
  <2>2. ~(m < l) /\ m # l
    <3>1. ~(rank[m] < rank[l]) /\ rank[m] # rank[l]
      BY <1>1, <2>1
    <3> QED
      BY <1>3, <2>1, <3>1
  <2>3. l \in Nat /\ m \in Nat
    BY <2>1
  <2> QED
    BY <2>2, <2>3
<1> QED
  BY <1>7, <1>9, <1>10, <1>11

\* What climbs along a part of a climbing list is the ascending list of what is
\* passed there.
LEMMA ClimbAlong ==
  ASSUME NEW d \in Seq(Nat), Climbs(d), NEW J \in SUBSET DOMAIN d
  PROVE  /\ Ascending({d[k] : k \in J})
              = [k \in DOMAIN Ascending(J) |-> d[Ascending(J)[k]]]
         /\ Ascending(J) \in Seq(J) /\ ToSet(Ascending(J)) = J
<1> DEFINE q == Ascending(J)
           S == {d[k] : k \in J}
           p == [k \in 1 .. Len(q) |-> d[q[k]]]
<1>1. DOMAIN d = 1 .. Len(d) /\ Len(d) \in Nat /\ \A k \in DOMAIN d : d[k] \in Nat
  OBVIOUS
<1>2. J \in SUBSET Nat /\ IsFiniteSet(J)
  <2>1. J \subseteq 1 .. Len(d) /\ 1 .. Len(d) \subseteq Nat
    BY <1>1
  <2>2. IsFiniteSet(1 .. Len(d))
    BY <1>1, FS_Interval
  <2> QED
    BY <2>1, <2>2, FS_Subset
<1>3. q \in Seq(J) /\ ToSet(q) = J /\ Climbs(q)
  BY <1>2, AscendingOf
<1> HIDE DEF q
<1>4. DOMAIN q = 1 .. Len(q) /\ Len(q) \in Nat /\ \A k \in DOMAIN q : q[k] \in J
  BY <1>3
<1>5. p \in Seq(S) /\ DOMAIN p = 1 .. Len(q)
  BY <1>4
<1>6. ToSet(p) = S
  BY <1>3, <1>4, <1>5 DEF ToSet
<1>7. Climbs(p)
  BY <1>1, <1>3, <1>4, <1>5 DEF Climbs
<1>8. \A n \in S : n \in Nat
  BY <1>1
<1>9. Ascending(S) = p
  BY <1>5, <1>6, <1>7, <1>8, AscendingIs
<1> QED
  BY <1>3, <1>4, <1>9 DEF q
-----------------------------------------------------------------------------
(* The list of the featured works. Only the work of the global is asked to *)
(* go, once, while its row is there; a row may stay of a work whose        *)
(* removal was stored and not answered; and the weights of the rows ascend *)
(* down the list from a drag on, whatever rows are removed since.          *)

OneRowEach(order) == \A i, j \in DOMAIN order : order[i] = order[j] => i = j

\* Only the work of the global is asked to go, once, and it has its row still.
OnlyAnchorAsked ==
  \A w \in Works : sent[w] + handled[w] > 0 =>
    w = anchor /\ sent[w] + handled[w] = 1 /\ w \in ToSet(listed)

\* The works whose removal was handled and not answered.
Handled == {w \in Works : handled[w] > 0}

NoRowAstray ==
  /\ \A w \in Works : late[w] = 0
  /\ OnlyAnchorAsked
  /\ featured = ToSet(listed) \ (Handled \cup lostRemovals)
  /\ emptyNote <=> listed = <<>>

\* The rows that were dragged have their weights in the order of the list, of
\* which rows may have gone since.
WeightsAscend ==
  arranged =>
    \A i, j \in DOMAIN listed : i < j => weight[listed[i]] < weight[listed[j]]

FeatInv ==
  /\ FeatTypeOK
  /\ OneRowEach(listed)
  /\ ~overlapped => NoRowAstray
  /\ WeightsAscend

LEMMA Enumeration ==
  ASSUME NEW S, IsFiniteSet(S), NEW order \in SetToSeqs(S)
  PROVE  /\ order \in Seq(S) /\ Len(order) = Cardinality(S)
         /\ Cardinality(S) \in Nat
         /\ OneRowEach(order) /\ ToSet(order) = S
         /\ order = <<>> <=> S = {}
<1> DEFINE n == Cardinality(S)
<1>1. n \in Nat
  BY FS_CardinalityType
<1>2. order \in [1 .. n -> S] /\ \A i, j \in 1 .. n : i # j => order[i] # order[j]
  BY DEF SetToSeqs
<1>3. order \in Seq(S) /\ Len(order) = n /\ DOMAIN order = 1 .. n
  BY <1>1, <1>2
<1>4. IsFiniteSet(1 .. n) /\ Cardinality(1 .. n) = n
  BY <1>1, FS_Interval
<1>5. order \in Injection(1 .. n, S)
  BY <1>2 DEF Injection, IsInjective
<1>6. order \in Surjection(1 .. n, S)
  BY <1>4, <1>5, FS_Injection
<1>7. ToSet(order) = S
  BY <1>2, <1>3, <1>6 DEF ToSet, Surjection
<1>8. order = <<>> <=> S = {}
  BY <1>3, <1>7 DEF ToSet
<1> QED
  BY <1>1, <1>2, <1>3, <1>7, <1>8 DEF OneRowEach

LEMMA FinitelyMany ==
  ASSUME NEW S \in SUBSET Works
  PROVE  /\ IsFiniteSet(S)
         /\ Cardinality(S) \in Nat /\ Cardinality(S) <= DefaultOrder
BY FS_Subset, FS_CardinalityType, WorksAssumption

\* A row is at its place.
LEMMA PlaceOf ==
  ASSUME NEW order, NEW w \in ToSet(order)
  PROVE  PlaceIn(order, w) \in DOMAIN order /\ order[PlaceIn(order, w)] = w
BY DEF PlaceIn, ToSet

LEMMA FeatInitially == FeatInit => FeatInv
<1> SUFFICES ASSUME FeatInit PROVE FeatInv
  OBVIOUS
<1>1. /\ rendered \in Seq(Works) /\ OneRowEach(rendered)
      /\ ToSet(rendered) = Works /\ (rendered = <<>> <=> Works = {})
  BY WorksAssumption, Enumeration DEF FeatInit
<1>2. storedAt \in [Works -> Weights]
  BY WorksAssumption DEF FeatInit, Weights
<1>3. {sent, handled, late} \subseteq [Works -> Nat]
  BY DEF FeatInit
<1>4. FeatTypeOK
  BY <1>1, <1>2, <1>3 DEF FeatInit, FeatTypeOK
<1>5. NoRowAstray
  <2>1. /\ \A w \in Works : sent[w] = 0 /\ handled[w] = 0 /\ late[w] = 0
        /\ Handled = {}
    BY DEF FeatInit, Handled
  <2>2. OnlyAnchorAsked
    BY <2>1 DEF OnlyAnchorAsked
  <2>3. featured = ToSet(listed) \ (Handled \cup lostRemovals)
    BY <1>1, <2>1 DEF FeatInit
  <2>4. emptyNote <=> listed = <<>>
    BY <1>1 DEF FeatInit
  <2> QED
    BY <2>1, <2>2, <2>3, <2>4 DEF NoRowAstray
<1> QED
  BY <1>1, <1>4, <1>5 DEF FeatInit, FeatInv, WeightsAscend

\* A step of the requests, which leaves the rows alone.
LEMMA RowsUntouched ==
  ASSUME FeatInv, FeatTypeOK', UNCHANGED <<listed, weight, arranged, emptyNote>>,
         overlapped => overlapped',
         ~overlapped' /\ NoRowAstray =>
           /\ \A w \in Works : late'[w] = 0
           /\ OnlyAnchorAsked'
           /\ featured' = ToSet(listed) \ (Handled' \cup lostRemovals')
  PROVE  FeatInv'
<1>1. OneRowEach(listed)' /\ WeightsAscend'
  BY DEF FeatInv, OneRowEach, WeightsAscend
<1>2. ~overlapped' => NoRowAstray'
  BY DEF FeatInv, NoRowAstray
<1> QED
  BY <1>1, <1>2 DEF FeatInv

LEMMA ClickKeeps ==
  ASSUME FeatInv, NEW w \in Works, NEW confirmed \in BOOLEAN,
         ClickUnfeature(w, confirmed)
  PROVE  FeatInv'
<1>1. sent \in [Works -> Nat] /\ handled \in [Works -> Nat]
  BY DEF FeatInv, FeatTypeOK
<1>2. sent' \in [Works -> Nat]
      /\ \A v \in Works : sent'[v] = sent[v] + (IF v = w /\ confirmed THEN 1 ELSE 0)
  BY <1>1 DEF ClickUnfeature
<1>3. overlapped' \in BOOLEAN /\ anchor' \in Works
  BY DEF ClickUnfeature, FeatInv, FeatTypeOK
<1>4. FeatTypeOK'
  BY <1>2, <1>3 DEF FeatInv, FeatTypeOK, ClickUnfeature
<1>5. (overlapped => overlapped') /\ (~overlapped' => ~UnderWay)
  BY Zenon DEF ClickUnfeature
<1>6. ASSUME ~overlapped' PROVE OnlyAnchorAsked'
  <2>1. \A v \in Works : sent[v] + handled[v] = 0
    BY <1>1, <1>5, <1>6 DEF UnderWay
  <2> QED
    BY <1>1, <1>2, <2>1 DEF OnlyAnchorAsked, ClickUnfeature
<1> QED
  BY <1>4, <1>5, <1>6, RowsUntouched DEF ClickUnfeature, NoRowAstray, Handled

LEMMA HandleUnfeatureKeeps ==
  ASSUME FeatInv, NEW w \in Works, HandleUnfeature(w)
  PROVE  FeatInv'
<1>1. sent \in [Works -> Nat] /\ handled \in [Works -> Nat]
  BY DEF FeatInv, FeatTypeOK
<1>2. /\ sent' \in [Works -> Nat] /\ handled' \in [Works -> Nat]
      /\ \A v \in Works : /\ sent'[v] = IF v = w THEN sent[v] - 1 ELSE sent[v]
                          /\ handled'[v] = IF v = w THEN handled[v] + 1 ELSE handled[v]
  BY <1>1 DEF HandleUnfeature
<1>3. FeatTypeOK'
  BY <1>2 DEF FeatInv, FeatTypeOK, HandleUnfeature
<1>4. Handled' = Handled \cup {w}
  BY <1>1, <1>2 DEF Handled
<1>5. OnlyAnchorAsked => OnlyAnchorAsked'
  BY <1>1, <1>2 DEF OnlyAnchorAsked, HandleUnfeature
<1> QED
  BY <1>3, <1>4, <1>5, RowsUntouched DEF HandleUnfeature, NoRowAstray

LEMMA FailUnfeatureKeeps ==
  ASSUME FeatInv, NEW w \in Works, FailUnfeature(w)
  PROVE  FeatInv'
<1>1. sent \in [Works -> Nat] /\ handled \in [Works -> Nat]
  BY DEF FeatInv, FeatTypeOK
<1>2. /\ sent' \in [Works -> Nat]
      /\ \A v \in Works : sent'[v] = IF v = w THEN sent[v] - 1 ELSE sent[v]
  BY <1>1 DEF FailUnfeature
<1>3. FeatTypeOK'
  BY <1>2 DEF FeatInv, FeatTypeOK, FailUnfeature
<1>4. OnlyAnchorAsked => OnlyAnchorAsked'
  BY <1>1, <1>2 DEF OnlyAnchorAsked, FailUnfeature
<1> QED
  BY <1>3, <1>4, RowsUntouched DEF FailUnfeature, NoRowAstray, Handled

LEMMA LoseRemovalKeeps ==
  ASSUME FeatInv, NEW w \in Works, LoseRemoval(w)
  PROVE  FeatInv'
<1>1. sent \in [Works -> Nat] /\ handled \in [Works -> Nat]
  BY DEF FeatInv, FeatTypeOK
<1>2. /\ handled' \in [Works -> Nat]
      /\ \A v \in Works : handled'[v] = IF v = w THEN handled[v] - 1 ELSE handled[v]
  BY <1>1 DEF LoseRemoval
<1>3. FeatTypeOK'
  BY <1>2 DEF FeatInv, FeatTypeOK, LoseRemoval
<1>4. Handled' \cup lostRemovals' = Handled \cup lostRemovals
  BY <1>1, <1>2 DEF Handled, LoseRemoval
<1>5. OnlyAnchorAsked => OnlyAnchorAsked'
  BY <1>1, <1>2 DEF OnlyAnchorAsked, LoseRemoval
<1> QED
  BY <1>3, <1>4, <1>5, RowsUntouched DEF LoseRemoval, NoRowAstray

LEMMA HandleLateKeeps ==
  ASSUME FeatInv, NEW w \in Works, NEW lost \in BOOLEAN, HandleLate(w, lost)
  PROVE  FeatInv'
<1>1. late \in [Works -> Nat]
  BY DEF FeatInv, FeatTypeOK
<1>2. late' \in [Works -> Nat]
  BY <1>1 DEF HandleLate
<1>3. FeatTypeOK'
  BY <1>2 DEF FeatInv, FeatTypeOK, HandleLate
<1>4. overlapped
  BY <1>1 DEF HandleLate, FeatInv, NoRowAstray
<1> QED
  BY <1>3, <1>4, RowsUntouched DEF HandleLate

LEMMA AnswerUnfeatureKeeps ==
  ASSUME FeatInv, NEW w \in Works, AnswerUnfeature(w)
  PROVE  FeatInv'
<1>1. /\ sent \in [Works -> Nat] /\ handled \in [Works -> Nat]
      /\ listed \in Seq(Works) /\ OneRowEach(listed)
  BY DEF FeatInv, FeatTypeOK
<1>2. /\ handled' \in [Works -> Nat]
      /\ \A v \in Works : handled'[v] = IF v = w THEN handled[v] - 1 ELSE handled[v]
  BY <1>1 DEF AnswerUnfeature
<1>3. /\ listed' \in Seq(Works) /\ OneRowEach(listed)'
      /\ ToSet(listed') = ToSet(listed) \ {anchor}
      /\ WeightsAscend'
  <2>1. CASE anchor \notin ToSet(listed)
    BY <1>1, <2>1 DEF AnswerUnfeature, FeatInv, WeightsAscend
  <2>2. CASE anchor \in ToSet(listed)
    <3>1. PICK i \in DOMAIN listed : listed[i] = anchor /\ listed' = RemoveAt(listed, i)
      <4>1. listed' = RemoveAt(listed, PlaceIn(listed, anchor))
        BY <2>2 DEF AnswerUnfeature
      <4> QED
        BY <2>2, <4>1, PlaceOf
    <3>2. /\ listed' \in Seq(Works)
          /\ DOMAIN listed' = 1 .. Len(listed) - 1
          /\ \A k \in DOMAIN listed' :
               /\ Past(i, k) \in DOMAIN listed \ {i}
               /\ listed'[k] = listed[Past(i, k)]
          /\ \A k, l \in DOMAIN listed' : Past(i, k) = Past(i, l) => k = l
          /\ \A j \in DOMAIN listed \ {i} : \E k \in DOMAIN listed' : Past(i, k) = j
      <4> DEFINE left == RemoveAt(listed, i)
      <4>1. /\ left \in Seq(Works)
            /\ DOMAIN left = 1 .. Len(listed) - 1
            /\ \A k \in DOMAIN left :
                 /\ Past(i, k) \in DOMAIN listed \ {i}
                 /\ left[k] = listed[Past(i, k)]
            /\ \A k, l \in DOMAIN left : Past(i, k) = Past(i, l) => k = l
            /\ \A j \in DOMAIN listed \ {i} : \E k \in DOMAIN left : Past(i, k) = j
        BY <1>1, Answered
      <4>2. listed' = left
        BY <3>1
      <4> QED
        BY <4>1, <4>2
    <3>3. OneRowEach(listed)'
      BY <1>1, <3>2 DEF OneRowEach
    <3>4. ToSet(listed') = ToSet(listed) \ {anchor}
      <4>1. \A k \in DOMAIN listed' : listed'[k] \in ToSet(listed) \ {anchor}
        BY <1>1, <3>1, <3>2 DEF ToSet, OneRowEach
      <4>2. ASSUME NEW v \in ToSet(listed) \ {anchor} PROVE v \in ToSet(listed')
        <5>1. PICK j \in DOMAIN listed : listed[j] = v
          BY <4>2 DEF ToSet
        <5>2. PICK k \in DOMAIN listed' : Past(i, k) = j
          BY <3>1, <3>2, <4>2, <5>1
        <5> QED
          BY <3>2, <5>1, <5>2 DEF ToSet
      <4> QED
        BY <4>1, <4>2 DEF ToSet
    <3>5. \A k, l \in DOMAIN listed' : k < l => Past(i, k) < Past(i, l)
      <4>1. Len(listed) \in Nat /\ i \in 1 .. Len(listed)
        BY <1>1
      <4> QED
        BY <3>2, <4>1 DEF Past
    <3>6. WeightsAscend'
      BY <3>2, <3>5 DEF FeatInv, WeightsAscend, AnswerUnfeature
    <3> QED
      BY <3>2, <3>3, <3>4, <3>6
  <2> QED
    BY <2>1, <2>2
<1>4. emptyNote' \in BOOLEAN
  BY DEF AnswerUnfeature, FeatInv, FeatTypeOK
<1>5. FeatTypeOK'
  BY <1>2, <1>3, <1>4 DEF FeatInv, FeatTypeOK, AnswerUnfeature
<1>6. ASSUME ~overlapped' PROVE NoRowAstray'
  <2>1. NoRowAstray
    BY <1>6 DEF FeatInv, AnswerUnfeature
  <2>2. /\ w = anchor /\ handled[w] = 1 /\ sent[w] = 0 /\ w \in ToSet(listed)
        /\ \A v \in Works \ {w} : handled[v] = 0 /\ sent[v] = 0
    BY <1>1, <2>1 DEF NoRowAstray, OnlyAnchorAsked, AnswerUnfeature
  <2>3. Handled = {w} /\ Handled' = {}
    BY <1>1, <1>2, <2>2 DEF Handled
  <2>4. featured' = ToSet(listed') \ (Handled' \cup lostRemovals')
    BY <1>3, <2>1, <2>2, <2>3 DEF NoRowAstray, AnswerUnfeature
  <2>5. OnlyAnchorAsked'
    BY <1>2, <2>2 DEF OnlyAnchorAsked, AnswerUnfeature
  <2>6. ~emptyNote
    BY <2>1, <2>2 DEF NoRowAstray, ToSet
  <2>7. emptyNote' <=> listed' = <<>>
    BY <2>2, <2>6, Zenon DEF AnswerUnfeature
  <2> QED
    BY <2>1, <2>4, <2>5, <2>7 DEF NoRowAstray, AnswerUnfeature
<1> QED
  BY <1>3, <1>5, <1>6 DEF FeatInv

LEMMA DragKeeps ==
  ASSUME FeatInv, NEW order \in SetToSeqs(ToSet(listed)), DragAndDrop(order)
  PROVE  FeatInv'
<1>1. ToSet(listed) \subseteq Works
  BY DEF FeatInv, FeatTypeOK, ToSet
<1>2. /\ order \in Seq(ToSet(listed)) /\ Len(order) <= DefaultOrder
      /\ OneRowEach(order) /\ ToSet(order) = ToSet(listed)
      /\ order = <<>> <=> ToSet(listed) = {}
  BY <1>1, FinitelyMany, Enumeration
<1>3. \A i \in DOMAIN order : PlaceIn(order, order[i]) = i
  <2> TAKE i \in DOMAIN order
  <2>1. order[i] \in ToSet(order)
    BY DEF ToSet
  <2> QED
    BY <1>2, <2>1, PlaceOf DEF OneRowEach
<1>4. \A i \in DOMAIN order : weight'[order[i]] = i - 1
  BY <1>1, <1>2, <1>3 DEF DragAndDrop, ToSet
<1>5. weight' \in [Works -> Weights]
  <2>1. \A w \in ToSet(order) : PlaceIn(order, w) - 1 \in Weights
    BY <1>2, PlaceOf, WorksAssumption DEF Weights
  <2> QED
    BY <2>1 DEF FeatInv, FeatTypeOK, DragAndDrop
<1>6. FeatTypeOK'
  <2>1. listed' \in Seq(Works)
    BY <1>1, <1>2 DEF DragAndDrop
  <2> QED
    BY <1>5, <2>1 DEF FeatInv, FeatTypeOK, DragAndDrop
<1>7. WeightsAscend'
  <2>1. \A i, j \in DOMAIN order : i < j => i - 1 < j - 1
    BY <1>2
  <2> QED
    BY <1>4, <2>1 DEF WeightsAscend, DragAndDrop
<1>8. listed' = <<>> <=> listed = <<>>
  BY <1>2 DEF DragAndDrop, ToSet, FeatInv, FeatTypeOK
<1>9. NoRowAstray => NoRowAstray'
  BY <1>2, <1>8 DEF NoRowAstray, OnlyAnchorAsked, Handled, DragAndDrop
<1> QED
  BY <1>2, <1>6, <1>7, <1>9 DEF FeatInv, DragAndDrop

LEMMA SaveOrderKeeps ==
  ASSUME FeatInv, NEW order \in SetToSeqs(featured), SaveOrder(order)
  PROVE  FeatInv'
<1>1. /\ order \in Seq(featured) /\ OneRowEach(order) /\ ToSet(order) = featured
      /\ featured \subseteq Works
  BY FinitelyMany, Enumeration DEF FeatInv, FeatTypeOK
<1>2. storedAt' \in [Works -> Weights]
  BY DEF SaveOrder, FeatInv, FeatTypeOK
<1>3. /\ late' \in [Works -> Nat]
      /\ sent' \in [Works -> Nat] /\ handled' \in [Works -> Nat]
      /\ \A w \in Works : sent'[w] = 0 /\ handled'[w] = 0
  <2>1. sent \in [Works -> Nat] /\ late \in [Works -> Nat]
    BY DEF FeatInv, FeatTypeOK
  <2>2. /\ late' = [w \in Works |-> late[w] + sent[w]]
        /\ sent' = [w \in Works |-> 0] /\ handled' = [w \in Works |-> 0]
    BY DEF SaveOrder
  <2> QED
    BY <2>1, <2>2
<1>4. FeatTypeOK'
  <2>1. order \in Seq(Works)
    BY <1>1
  <2>2. emptyNote' \in BOOLEAN /\ arranged' \in BOOLEAN /\ overlapped' \in BOOLEAN
    BY DEF SaveOrder
  <2>3. /\ rendered' = order /\ listed' = order /\ anchor' = NoWork
        /\ weight' = storedAt' /\ featured' = featured /\ lostRemovals' = {}
    BY DEF SaveOrder
  <2>4. featured \subseteq Works
    BY <1>1
  <2> QED
    BY <1>2, <1>3, <2>1, <2>2, <2>3, <2>4 DEF FeatTypeOK
<1>5. ASSUME ~overlapped' PROVE NoRowAstray'
  <2>1. \A w \in Works : late'[w] = 0
    BY <1>3, <1>5 DEF SaveOrder
  <2>2. featured' = ToSet(listed') \ (Handled' \cup lostRemovals')
    BY <1>1, <1>3 DEF SaveOrder, Handled
  <2>3. OnlyAnchorAsked'
    BY <1>3 DEF OnlyAnchorAsked
  <2>4. emptyNote' <=> listed' = <<>>
    BY DEF SaveOrder
  <2> QED
    BY <2>1, <2>2, <2>3, <2>4 DEF NoRowAstray
<1> QED
  BY <1>1, <1>4, <1>5 DEF FeatInv, WeightsAscend, SaveOrder

LEMMA FeatInductive ==
  ASSUME FeatInv, [FeatNext]_featVars
  PROVE  FeatInv'
<1>1. CASE UNCHANGED featVars
  BY <1>1 DEF featVars, FeatInv, FeatTypeOK, OneRowEach, NoRowAstray,
              OnlyAnchorAsked, Handled, WeightsAscend
<1> QED
  BY <1>1, ClickKeeps, HandleUnfeatureKeeps, FailUnfeatureKeeps, LoseRemovalKeeps,
     HandleLateKeeps, AnswerUnfeatureKeeps, DragKeeps, SaveOrderKeeps
  DEF FeatNext

LEMMA ListSettles == FeatInv => ListFollowsFeatured
<1> SUFFICES ASSUME FeatInv, ~UnderWay, ~overlapped
             PROVE  /\ ToSet(listed) \ lostRemovals = featured
                    /\ emptyNote <=> listed = <<>>
  BY DEF ListFollowsFeatured
<1>1. Handled = {}
  BY DEF Handled, UnderWay, FeatInv, FeatTypeOK
<1> QED
  BY <1>1 DEF FeatInv, NoRowAstray

\* At rest the page lists what is featured, and besides that only works whose
\* removal was stored and not answered (featured_works.js).
THEOREM ListShowsFeatured == FeatSpec => []ListFollowsFeatured
<1> QED
  BY FeatInitially, FeatInductive, ListSettles, PTL DEF FeatSpec

\* Two lists of the same rows, both by ranks that are all different, are one.
LEMMA OneOrder ==
  ASSUME NEW S, NEW rank, \A v \in S : rank[v] \in Nat,
         NEW s \in Seq(S), ToSet(s) = S, NEW t \in Seq(S), ToSet(t) = S,
         OneRowEach(s), OneRowEach(t),
         \A i, j \in DOMAIN s : i < j => rank[s[i]] < rank[s[j]],
         \A i, j \in DOMAIN t : i < j => rank[t[i]] <= rank[t[j]]
  PROVE  s = t
<1>1. /\ DOMAIN s = 1 .. Len(s) /\ Len(s) \in Nat
      /\ DOMAIN t = 1 .. Len(t) /\ Len(t) \in Nat
  OBVIOUS
<1>2. \A v, w \in S : rank[v] = rank[w] => v = w
  <2> SUFFICES ASSUME NEW v \in S, NEW w \in S, rank[v] = rank[w] PROVE v = w
    OBVIOUS
  <2>1. PICK i \in DOMAIN s : s[i] = v
    BY DEF ToSet
  <2>2. PICK j \in DOMAIN s : s[j] = w
    BY DEF ToSet
  <2>3. rank[v] \in Nat /\ rank[w] \in Nat
    OBVIOUS
  <2>4. ~(i < j) /\ ~(j < i)
    BY <2>1, <2>2, <2>3
  <2> QED
    BY <1>1, <2>1, <2>2, <2>4
<1>3. \A i, j \in DOMAIN t : i < j => rank[t[i]] < rank[t[j]]
  <2> SUFFICES ASSUME NEW i \in DOMAIN t, NEW j \in DOMAIN t, i < j
               PROVE  rank[t[i]] < rank[t[j]]
    OBVIOUS
  <2>1. t[i] \in S /\ t[j] \in S /\ t[i] # t[j]
    BY <1>1 DEF OneRowEach
  <2>2. rank[t[i]] <= rank[t[j]] /\ rank[t[i]] # rank[t[j]]
    BY <1>2, <2>1
  <2>3. rank[t[i]] \in Nat /\ rank[t[j]] \in Nat
    BY <2>1
  <2> QED
    BY <2>2, <2>3
<1> DEFINE p == [i \in 1 .. Len(s) |-> rank[s[i]]]
           q == [i \in 1 .. Len(t) |-> rank[t[i]]]
           ranks == {rank[v] : v \in S}
<1>4. \A n \in ranks : n \in Nat
  OBVIOUS
<1>5. p \in Seq(ranks) /\ q \in Seq(ranks)
  BY <1>1
<1>6. ToSet(p) = ranks /\ ToSet(q) = ranks
  BY <1>1 DEF ToSet
<1>7. Climbs(p) /\ Climbs(q)
  BY <1>1, <1>3 DEF Climbs
<1>8. p = q
  <2>1. Ascending(ranks) = p
    BY <1>4, <1>5, <1>6, <1>7, AscendingIs
  <2>2. Ascending(ranks) = q
    BY <1>4, <1>5, <1>6, <1>7, AscendingIs
  <2> QED
    BY <2>1, <2>2
<1>9. Len(s) = Len(t)
  <2>1. Len(p) = Len(s) /\ Len(q) = Len(t)
    BY <1>1
  <2> QED
    BY <1>8, <2>1
<1>10. \A i \in 1 .. Len(s) : s[i] = t[i]
  BY <1>1, <1>2, <1>8, <1>9
<1> QED
  BY <1>1, <1>9, <1>10, SeqEqual

\* What SavedOrderIsShown says of a step.
OrderStays ==
  arranged /\ ~UnderWay /\ ~overlapped /\ ToSet(listed) \cap lostRemovals = {} =>
    \A order \in SetToSeqs(featured) : SaveOrder(order) => listed' = listed

LEMMA SaveShowsOrder == FeatInv => OrderStays
<1> SUFFICES ASSUME FeatInv, arranged, ~UnderWay, ~overlapped,
                    ToSet(listed) \cap lostRemovals = {},
                    NEW order \in SetToSeqs(featured), SaveOrder(order)
             PROVE  listed = order
  BY DEF OrderStays, SaveOrder
<1>1. /\ listed \in Seq(Works) /\ OneRowEach(listed) /\ ToSet(listed) = featured
      /\ featured \subseteq Works /\ weight \in [Works -> Weights]
  BY ListSettles DEF FeatInv, FeatTypeOK, ListFollowsFeatured
<1>2. listed \in Seq(featured)
  <2>1. /\ Len(listed) \in Nat /\ DOMAIN listed = 1 .. Len(listed)
        /\ \A i \in DOMAIN listed : listed[i] \in featured
    BY <1>1 DEF ToSet
  <2>2. listed = [i \in 1 .. Len(listed) |-> listed[i]]
    BY <1>1
  <2> QED
    BY <2>1, <2>2
<1>3. order \in Seq(featured) /\ OneRowEach(order) /\ ToSet(order) = featured
  BY <1>1, FinitelyMany, Enumeration
<1>4. \A i, j \in DOMAIN listed : i < j => weight[listed[i]] < weight[listed[j]]
  BY DEF FeatInv, WeightsAscend
<1>5. \A w \in featured : storedAt'[w] = weight[w]
  BY <1>1 DEF SaveOrder
<1>6. \A i, j \in DOMAIN order : i < j => weight[order[i]] <= weight[order[j]]
  <2>1. \A i \in DOMAIN order : order[i] \in featured
    BY <1>3
  <2>2. \A i, j \in DOMAIN order :
          i < j => storedAt'[order[i]] <= storedAt'[order[j]]
    BY DEF SaveOrder, Sorted
  <2> QED
    BY <1>5, <2>1, <2>2
<1>7. \A w \in featured : weight[w] \in Nat
  BY <1>1, WorksAssumption DEF Weights
<1> QED
  BY <1>1, <1>2, <1>3, <1>4, <1>6, <1>7, OneOrder

\* Rows that were arranged keep their places through "Save order", whatever was
\* removed before or since, if no row is posted whose removal was stored and not
\* answered (featured_works.js, FeaturedWorkList).
THEOREM ArrangementIsKept == FeatSpec => SavedOrderIsShown
<1>1. FeatInv /\ [FeatNext]_featVars => [OrderStays]_featVars
  BY SaveShowsOrder
<1>2. FeatSpec => [][OrderStays]_featVars
  BY <1>1, FeatInitially, FeatInductive, PTL DEF FeatSpec
<1> QED
  BY <1>2 DEF SavedOrderIsShown, OrderStays
-----------------------------------------------------------------------------
(* The rows of a form, which implement the list of RowList. The indices of *)
(* the rows climb and none is used again, a row that was removed has       *)
(* nothing that is seen or posted, and one button at most is marked: so    *)
(* what is posted, grouped by the indices and read in their order, is what *)
(* is seen.                                                                *)

\* What is seen of a row, of the rows that are seen.
EntryOf(r) ==
  [value |-> IF r.hidden THEN r.chosen ELSE r.value, marked |-> r.radio]

SeenIn(rows) == {i \in DOMAIN rows : ~rows[i].destroyed}

EntriesOf(rows) ==
  TakeAt([i \in DOMAIN rows |->
            [value  |-> IF rows[i].hidden THEN rows[i].chosen ELSE rows[i].value,
             marked |-> rows[i].radio]],
         {i \in DOMAIN rows : ~rows[i].destroyed})

IndicesClimb ==
  /\ \A i, j \in DOMAIN formRows :
       i < j => formRows[i].index < formRows[j].index
  /\ \A i \in DOMAIN formRows : formRows[i].index < nextIndex

\* A hidden field has what its picker shows; only aliases have buttons, are
\* taken out when they are removed, and can be marked unless they are blank.
RowInOrder(r) ==
  /\ r.hidden => r.value = r.chosen
  /\ r.radio => aliases
  /\ aliases => ~r.destroyed /\ (r.value # NoContent => r.enabled)

OneButton ==
  \A i, j \in DOMAIN formRows : formRows[i].radio /\ formRows[j].radio => i = j

RowInv ==
  /\ RowTypeOK
  /\ IndicesClimb
  /\ \A i \in DOMAIN formRows : RowInOrder(formRows[i])
  /\ OneButton

\* The rows that are seen, by their places.
LEMMA EntriesAre ==
  ASSUME NEW rows \in Seq(FormRow), NEW d, d = Ascending(SeenIn(rows))
  PROVE  /\ d \in Seq(SeenIn(rows)) /\ ToSet(d) = SeenIn(rows) /\ Climbs(d)
         /\ EntriesOf(rows) = [k \in 1 .. Len(d) |-> EntryOf(rows[d[k]])]
         /\ EntriesOf(rows) \in Seq(Shown!Entry)
<1>1. DOMAIN rows = 1 .. Len(rows) /\ Len(rows) \in Nat
  OBVIOUS
<1>2. SeenIn(rows) \in SUBSET Nat /\ IsFiniteSet(SeenIn(rows))
  <2>1. SeenIn(rows) \subseteq 1 .. Len(rows) /\ 1 .. Len(rows) \subseteq Nat
    BY <1>1 DEF SeenIn
  <2>2. IsFiniteSet(1 .. Len(rows))
    BY <1>1, FS_Interval
  <2> QED
    BY <2>1, <2>2, FS_Subset
<1>3. d \in Seq(SeenIn(rows)) /\ ToSet(d) = SeenIn(rows) /\ Climbs(d)
  BY <1>2, AscendingOf
<1>4. DOMAIN d = 1 .. Len(d) /\ \A k \in DOMAIN d : d[k] \in DOMAIN rows
  <2>1. DOMAIN d = 1 .. Len(d) /\ \A k \in DOMAIN d : d[k] \in SeenIn(rows)
    BY <1>3
  <2> QED
    BY <2>1 DEF SeenIn
<1>5. EntriesOf(rows) = [k \in 1 .. Len(d) |-> EntryOf(rows[d[k]])]
  BY <1>4 DEF EntriesOf, TakeAt, SeenIn, EntryOf
<1>6. \A k \in 1 .. Len(d) : EntryOf(rows[d[k]]) \in Shown!Entry
  <2>1. \A i \in DOMAIN rows : EntryOf(rows[i]) \in Shown!Entry
    <3>1. \A r \in FormRow : EntryOf(r) \in Shown!Entry
      BY ContentsAssumption DEF EntryOf, FormRow, Shown!Entry
    <3> QED
      BY <3>1
  <2> QED
    BY <1>4, <2>1
<1> QED
  BY <1>3, <1>5, <1>6

\* Where no row is hidden by its flag, all of them are seen.
LEMMA AllSeen ==
  ASSUME NEW rows \in Seq(FormRow), \A i \in DOMAIN rows : ~rows[i].destroyed
  PROVE  /\ Ascending(SeenIn(rows)) = [i \in 1 .. Len(rows) |-> i]
         /\ EntriesOf(rows) = [i \in 1 .. Len(rows) |-> EntryOf(rows[i])]
<1> DEFINE d == [i \in 1 .. Len(rows) |-> i]
<1>1. DOMAIN rows = 1 .. Len(rows) /\ Len(rows) \in Nat
  OBVIOUS
<1>2. SeenIn(rows) = 1 .. Len(rows)
  BY <1>1 DEF SeenIn
<1>3. d \in Seq(1 .. Len(rows)) /\ ToSet(d) = 1 .. Len(rows) /\ Climbs(d)
  BY <1>1 DEF ToSet, Climbs
<1>4. Ascending(SeenIn(rows)) = d
  BY <1>1, <1>2, <1>3, AscendingIs
<1>5. EntriesOf(rows) = [k \in 1 .. Len(d) |-> EntryOf(rows[d[k]])]
  BY <1>4, EntriesAre
<1> QED
  BY <1>1, <1>4, <1>5

\* A row is added at the end.
LEMMA RowAdded ==
  ASSUME NEW rows \in Seq(FormRow), NEW r \in FormRow, ~r.destroyed
  PROVE  EntriesOf(Append(rows, r)) = Append(EntriesOf(rows), EntryOf(r))
<1> DEFINE n == Len(rows)
           d == Ascending(SeenIn(rows))
           e == Append(d, n + 1)
           rows2 == Append(rows, r)
<1>1. /\ DOMAIN rows = 1 .. n /\ n \in Nat
      /\ rows2 \in Seq(FormRow) /\ DOMAIN rows2 = 1 .. n + 1
      /\ rows2[n + 1] = r /\ \A i \in 1 .. n : rows2[i] = rows[i]
  BY AppendProperties
<1>2. /\ d \in Seq(SeenIn(rows)) /\ ToSet(d) = SeenIn(rows) /\ Climbs(d)
      /\ EntriesOf(rows) = [k \in 1 .. Len(d) |-> EntryOf(rows[d[k]])]
  BY EntriesAre
<1> HIDE DEF d
<1>3. SeenIn(rows2) = SeenIn(rows) \cup {n + 1}
  BY <1>1 DEF SeenIn
<1>4. /\ DOMAIN d = 1 .. Len(d) /\ Len(d) \in Nat
      /\ \A k \in DOMAIN d : d[k] \in SeenIn(rows)
  BY <1>2
<1>5. \A k \in DOMAIN d : d[k] \in 1 .. n
  BY <1>1, <1>4 DEF SeenIn
<1>6. /\ e \in Seq(SeenIn(rows2)) /\ Len(e) = Len(d) + 1
      /\ e[Len(d) + 1] = n + 1 /\ \A k \in 1 .. Len(d) : e[k] = d[k]
  <2>1. d \in Seq(SeenIn(rows2)) /\ n + 1 \in SeenIn(rows2)
    BY <1>2, <1>3
  <2> QED
    BY <2>1, AppendProperties
<1>7. ToSet(e) = SeenIn(rows2)
  <2>1. DOMAIN e = 1 .. Len(d) + 1
    BY <1>4, <1>6
  <2> QED
    BY <1>2, <1>3, <1>4, <1>6, <2>1 DEF ToSet
<1>8. Climbs(e)
  <2>1. DOMAIN e = 1 .. Len(d) + 1
    BY <1>4, <1>6
  <2> QED
    BY <1>1, <1>2, <1>4, <1>5, <1>6, <2>1 DEF Climbs
<1>9. \A i \in SeenIn(rows2) : i \in Nat
  BY <1>1 DEF SeenIn
<1>10. Ascending(SeenIn(rows2)) = e
  BY <1>6, <1>7, <1>8, <1>9, AscendingIs
<1>11. EntriesOf(rows2) = [k \in 1 .. Len(e) |-> EntryOf(rows2[e[k]])]
  BY <1>1, <1>10, EntriesAre
<1>12. \A k \in 1 .. Len(d) : EntryOf(rows2[e[k]]) = EntryOf(rows[d[k]])
  BY <1>1, <1>4, <1>5, <1>6
<1>13. EntryOf(rows2[e[Len(d) + 1]]) = EntryOf(r)
  BY <1>1, <1>6
<1>14. Len(EntriesOf(rows)) = Len(d)
  BY <1>2, <1>4
<1>15. Append(EntriesOf(rows), EntryOf(r))
         = [k \in 1 .. Len(d) + 1 |-> IF k = Len(d) + 1 THEN EntryOf(r)
                                      ELSE EntryOf(rows[d[k]])]
  <2>1. PICK s : s = EntriesOf(rows)
    OBVIOUS
  <2>2. s = [k \in 1 .. Len(d) |-> EntryOf(rows[d[k]])] /\ Len(s) = Len(d)
    BY <1>2, <1>14, <2>1
  <2>3. Append(s, EntryOf(r)) = [k \in 1 .. Len(d) + 1 |->
                                   IF k = Len(d) + 1 THEN EntryOf(r) ELSE s[k]]
    BY <1>4, <2>2
  <2> QED
    BY <1>4, <2>1, <2>2, <2>3
<1> HIDE DEF e, n, rows2
<1>16. \A k \in 1 .. Len(d) + 1 :
         EntryOf(rows2[e[k]]) = IF k = Len(d) + 1 THEN EntryOf(r)
                                ELSE EntryOf(rows[d[k]])
  BY <1>4, <1>12, <1>13
<1>17. EntriesOf(rows2) = Append(EntriesOf(rows), EntryOf(r))
  BY <1>6, <1>11, <1>15, <1>16
<1> QED
  BY <1>17 DEF rows2

\* A row that is seen before and after changes.
LEMMA RowChanged ==
  ASSUME NEW rows \in Seq(FormRow), NEW i \in DOMAIN rows, NEW r \in FormRow,
         ~rows[i].destroyed, ~r.destroyed
  PROVE  \E k \in DOMAIN EntriesOf(rows) :
           /\ EntriesOf(rows)[k] = EntryOf(rows[i])
           /\ EntriesOf([rows EXCEPT ![i] = r])
                = [EntriesOf(rows) EXCEPT ![k] = EntryOf(r)]
<1> DEFINE rows2 == [rows EXCEPT ![i] = r]
<1>0. /\ rows2 \in Seq(FormRow) /\ Len(rows2) = Len(rows) /\ rows2[i] = r
      /\ \A j \in DOMAIN rows : j # i => rows2[j] = rows[j]
  OBVIOUS
<1> HIDE DEF rows2
<1> DEFINE d == Ascending(SeenIn(rows))
<1>1. DOMAIN rows = 1 .. Len(rows) /\ DOMAIN rows2 = DOMAIN rows
  BY <1>0
<1>2. SeenIn(rows2) = SeenIn(rows)
  BY <1>0, <1>1 DEF SeenIn
<1>3. /\ d \in Seq(SeenIn(rows)) /\ ToSet(d) = SeenIn(rows) /\ Climbs(d)
      /\ EntriesOf(rows) = [k \in 1 .. Len(d) |-> EntryOf(rows[d[k]])]
      /\ EntriesOf(rows2) = [k \in 1 .. Len(d) |-> EntryOf(rows2[d[k]])]
  BY <1>0, <1>2, EntriesAre
<1> HIDE DEF d
<1>4. /\ DOMAIN d = 1 .. Len(d) /\ Len(d) \in Nat
      /\ \A k \in DOMAIN d : d[k] \in SeenIn(rows)
  BY <1>3
<1>5. PICK k \in 1 .. Len(d) : d[k] = i
  BY <1>3, <1>4 DEF ToSet, SeenIn
<1>6. ASSUME NEW l \in 1 .. Len(d), l # k PROVE rows2[d[l]] = rows[d[l]]
  <2>1. d[l] \in SeenIn(rows) /\ d[l] # d[k]
    <3>1. l < k \/ k < l
      BY <1>4, <1>6
    <3>2. d[l] \in Nat /\ d[k] \in Nat
      BY <1>4 DEF SeenIn
    <3>3. l < k => d[l] < d[k]
      BY <1>3, <1>4 DEF Climbs
    <3>4. k < l => d[k] < d[l]
      BY <1>3, <1>4 DEF Climbs
    <3> QED
      BY <1>4, <3>1, <3>2, <3>3, <3>4
  <2> QED
    BY <1>0, <1>5, <2>1 DEF SeenIn
<1>7. EntriesOf(rows2) = [EntriesOf(rows) EXCEPT ![k] = EntryOf(r)]
  <2>1. \A l \in 1 .. Len(d) : EntryOf(rows2[d[l]])
          = IF l = k THEN EntryOf(r) ELSE EntryOf(rows[d[l]])
    BY <1>0, <1>5, <1>6
  <2>2. EntriesOf(rows2)
          = [l \in 1 .. Len(d) |-> IF l = k THEN EntryOf(r)
                                   ELSE EntryOf(rows[d[l]])]
    BY <1>3, <2>1
  <2> QED
    BY <1>3, <2>2
<1> QED
  BY <1>0, <1>3, <1>5, <1>7 DEF rows2

\* A row that is seen is hidden by its flag.
LEMMA RowHidden ==
  ASSUME NEW rows \in Seq(FormRow), NEW rows2 \in Seq(FormRow),
         Len(rows2) = Len(rows),
         NEW i \in DOMAIN rows, ~rows[i].destroyed, rows2[i].destroyed,
         \A j \in DOMAIN rows : j # i => rows2[j] = rows[j]
  PROVE  \E k \in DOMAIN EntriesOf(rows) :
           EntriesOf(rows2) = RemoveAt(EntriesOf(rows), k)
<1> DEFINE d == Ascending(SeenIn(rows))
           s == EntriesOf(rows)
<1>1. DOMAIN rows = 1 .. Len(rows) /\ DOMAIN rows2 = DOMAIN rows
  OBVIOUS
<1>2. SeenIn(rows2) = SeenIn(rows) \ {i}
  BY <1>1 DEF SeenIn
<1>3. /\ d \in Seq(SeenIn(rows)) /\ ToSet(d) = SeenIn(rows) /\ Climbs(d)
      /\ s = [k \in 1 .. Len(d) |-> EntryOf(rows[d[k]])]
      /\ s \in Seq(Shown!Entry)
  BY EntriesAre
<1> HIDE DEF d
<1>4. /\ DOMAIN d = 1 .. Len(d) /\ Len(d) \in Nat
      /\ \A k \in DOMAIN d : d[k] \in SeenIn(rows) /\ d[k] \in Nat
      /\ Len(s) = Len(d) /\ DOMAIN s = DOMAIN d
  <2>1. /\ DOMAIN d = 1 .. Len(d) /\ Len(d) \in Nat
        /\ \A k \in DOMAIN d : d[k] \in SeenIn(rows)
    BY <1>3
  <2> QED
    BY <1>1, <1>3, <2>1 DEF SeenIn
<1>5. PICK k \in DOMAIN d : d[k] = i
  BY <1>1, <1>3 DEF ToSet, SeenIn
<1> DEFINE e == RemoveAt(d, k)
<1>6. /\ DOMAIN e = 1 .. Len(d) - 1 /\ Len(e) = Len(d) - 1
      /\ \A l \in DOMAIN e : Past(k, l) \in DOMAIN d /\ Past(k, l) # k
                             /\ e[l] = d[Past(k, l)]
      /\ \A l \in DOMAIN d : l # k => \E m \in DOMAIN e : Past(k, m) = l
  BY <1>3, <1>5, Answered
<1>7. /\ RemoveAt(s, k) \in Seq(Shown!Entry)
      /\ DOMAIN RemoveAt(s, k) = 1 .. Len(d) - 1
      /\ Len(RemoveAt(s, k)) = Len(d) - 1
      /\ \A l \in DOMAIN RemoveAt(s, k) : RemoveAt(s, k)[l] = s[Past(k, l)]
  <2> HIDE DEF s
  <2>1. k \in DOMAIN s
    BY <1>4, <1>5
  <2>2. PICK S : S = Shown!Entry
    OBVIOUS
  <2>3. s \in Seq(S)
    BY <1>3, <2>2
  <2>4. /\ RemoveAt(s, k) \in Seq(S)
        /\ DOMAIN RemoveAt(s, k) = 1 .. Len(s) - 1
        /\ Len(RemoveAt(s, k)) = Len(s) - 1
        /\ \A l \in DOMAIN RemoveAt(s, k) : RemoveAt(s, k)[l] = s[Past(k, l)]
    BY <2>1, <2>3, Answered
  <2> QED
    BY <1>4, <2>2, <2>4
<1>8. \A l, m \in DOMAIN d : l # m => d[l] # d[m]
  BY <1>3, <1>4 DEF Climbs
<1> HIDE DEF e, s
<1>9. \A l \in DOMAIN e : e[l] \in SeenIn(rows2)
  BY <1>2, <1>4, <1>5, <1>6, <1>8
<1>10. e \in Seq(SeenIn(rows2))
  <2>1. e \in Seq(SeenIn(rows))
    BY <1>3, <1>5, Answered DEF e
  <2>2. e = [l \in 1 .. Len(e) |-> e[l]] /\ Len(e) \in Nat
    BY <2>1
  <2>3. \A l \in 1 .. Len(e) : e[l] \in SeenIn(rows2)
    BY <1>6, <1>9
  <2> QED
    BY <2>2, <2>3
<1>11. ToSet(e) = SeenIn(rows2)
  <2>1. ASSUME NEW j \in SeenIn(rows2) PROVE \E m \in DOMAIN e : e[m] = j
    <3>1. PICK l \in DOMAIN d : d[l] = j
      BY <1>2, <1>3 DEF ToSet
    <3>2. l # k
      BY <1>2, <1>5, <3>1
    <3> QED
      BY <1>6, <3>1, <3>2
  <2> QED
    BY <1>9, <2>1 DEF ToSet
<1>12. Climbs(e)
  <2> SUFFICES ASSUME NEW l \in DOMAIN e, NEW m \in DOMAIN e, l < m
               PROVE  e[l] < e[m]
    BY DEF Climbs
  <2>1. Past(k, l) < Past(k, m)
    BY <1>4, <1>5, <1>6 DEF Past
  <2> QED
    BY <1>3, <1>6, <2>1 DEF Climbs
<1>13. Ascending(SeenIn(rows2)) = e
  <2>1. \A j \in SeenIn(rows2) : j \in Nat
    BY <1>1 DEF SeenIn
  <2> QED
    BY <1>10, <1>11, <1>12, <2>1, AscendingIs
<1>14. EntriesOf(rows2) = [l \in 1 .. Len(e) |-> EntryOf(rows2[e[l]])]
  BY <1>13, EntriesAre
<1>15. ASSUME NEW l \in 1 .. Len(d) - 1
       PROVE  EntryOf(rows2[e[l]]) = s[Past(k, l)]
  <2>1. e[l] = d[Past(k, l)] /\ Past(k, l) \in DOMAIN d
    BY <1>6
  <2>2. e[l] \in DOMAIN rows /\ e[l] # i
    BY <1>2, <1>6, <1>9 DEF SeenIn
  <2> QED
    BY <1>3, <1>4, <2>1, <2>2
<1>16. RemoveAt(s, k) = [l \in 1 .. Len(d) - 1 |-> s[Past(k, l)]]
  BY <1>7
<1> QED
  BY <1>4, <1>6, <1>14, <1>15, <1>16 DEF s

\* A row is taken out where all are seen.
LEMMA RowTaken ==
  ASSUME NEW rows \in Seq(FormRow), \A j \in DOMAIN rows : ~rows[j].destroyed,
         NEW i \in DOMAIN rows
  PROVE  EntriesOf(RemoveAt(rows, i)) = RemoveAt(EntriesOf(rows), i)
<1> DEFINE rows2 == RemoveAt(rows, i)
           s == EntriesOf(rows)
<1>1. /\ rows2 \in Seq(FormRow) /\ Len(rows2) = Len(rows) - 1
      /\ DOMAIN rows2 = 1 .. Len(rows) - 1
      /\ \A l \in DOMAIN rows2 : Past(i, l) \in DOMAIN rows
                                 /\ rows2[l] = rows[Past(i, l)]
  BY Answered
<1> HIDE DEF rows2
<1>2. /\ s = [l \in 1 .. Len(rows) |-> EntryOf(rows[l])] /\ s \in Seq(Shown!Entry)
      /\ EntriesOf(rows2) = [l \in 1 .. Len(rows2) |-> EntryOf(rows2[l])]
  <2>1. \A j \in DOMAIN rows2 : ~rows2[j].destroyed
    BY <1>1
  <2>2. EntriesOf(rows2) = [l \in 1 .. Len(rows2) |-> EntryOf(rows2[l])]
    BY <1>1, <2>1, AllSeen
  <2> QED
    BY <2>2, AllSeen, EntriesAre
<1> HIDE DEF s
<1>3. Len(s) = Len(rows) /\ DOMAIN s = DOMAIN rows /\ DOMAIN rows = 1 .. Len(rows)
  BY <1>2
<1>4. /\ DOMAIN RemoveAt(s, i) = 1 .. Len(rows) - 1
      /\ RemoveAt(s, i) \in Seq(Shown!Entry)
      /\ \A l \in DOMAIN RemoveAt(s, i) : RemoveAt(s, i)[l] = s[Past(i, l)]
  <2>1. PICK S : S = Shown!Entry
    OBVIOUS
  <2>2. s \in Seq(S) /\ i \in DOMAIN s
    BY <1>2, <1>3, <2>1
  <2>3. /\ RemoveAt(s, i) \in Seq(S)
        /\ DOMAIN RemoveAt(s, i) = 1 .. Len(s) - 1
        /\ \A l \in DOMAIN RemoveAt(s, i) : RemoveAt(s, i)[l] = s[Past(i, l)]
    BY <2>2, Answered
  <2> QED
    BY <1>3, <2>1, <2>3
<1>5. RemoveAt(s, i) = [l \in 1 .. Len(rows) - 1 |-> s[Past(i, l)]]
  BY <1>4
<1>6. \A l \in 1 .. Len(rows) - 1 : s[Past(i, l)] = EntryOf(rows2[l])
  BY <1>1, <1>2, <1>3
<1> QED
  BY <1>1, <1>2, <1>5, <1>6 DEF rows2, s

\* The populator reads the rows that are seen and not blank, in their order.
LEMMA PostIsWhatIsSeen ==
  ASSUME RowInv
  PROVE  /\ Populate = Shown!Stored(EntriesOf(formRows))
         /\ Populate \in Seq(SavedRow)
         /\ \A k \in DOMAIN Populate : Populate[k].marked => aliases
         /\ \A k, l \in DOMAIN Populate :
              Populate[k].marked /\ Populate[l].marked => k = l
<1> DEFINE K == {i \in DOMAIN formRows : /\ ~formRows[i].destroyed
                                         /\ formRows[i].value # NoContent}
           a == Ascending(K)
           x == [i \in 1 .. Len(formRows) |-> formRows[i].index]
           d == Ascending(SeenIn(formRows))
           entries == EntriesOf(formRows)
           J == {k \in DOMAIN entries : entries[k].value # NoContent}
           q == Ascending(J)
<1>1. /\ formRows \in Seq(FormRow) /\ DOMAIN formRows = 1 .. Len(formRows)
      /\ Len(formRows) \in Nat /\ \A i \in DOMAIN formRows : formRows[i] \in FormRow
  BY DEF RowInv, RowTypeOK
<1>2. /\ x \in Seq(Nat) /\ DOMAIN x = DOMAIN formRows
      /\ \A i \in DOMAIN formRows : x[i] = formRows[i].index
  <2>1. \A i \in DOMAIN formRows : formRows[i].index \in Nat
    BY <1>1 DEF FormRow
  <2> QED
    BY <1>1, <2>1
<1>3. Climbs(x) /\ \A i, j \in DOMAIN formRows : x[i] = x[j] => i = j
  <2>1. Climbs(x)
    BY <1>2 DEF Climbs, RowInv, IndicesClimb
  <2> QED
    BY <1>1, <1>2, <2>1 DEF Climbs
<1> HIDE DEF x
<1>4. \A i \in DOMAIN formRows : PostedRow(x[i]) = formRows[i]
  <2> SUFFICES ASSUME NEW i \in DOMAIN formRows
               PROVE  PostedRow(x[i]) = formRows[i]
    OBVIOUS
  <2>1. {j \in DOMAIN formRows : formRows[j].index = x[i]} = {i}
    BY <1>2, <1>3
  <2>2. Max({i}) = i
    BY <1>1 DEF Max
  <2> QED
    BY <2>1, <2>2 DEF PostedRow
<1>5. {n \in Indices : ~PostedRow(n).destroyed /\ PostedRow(n).value # NoContent}
        = {x[i] : i \in K}
  <2>1. Indices = {x[i] : i \in DOMAIN formRows}
    BY <1>2 DEF Indices
  <2> QED
    BY <1>4, <2>1
<1>6. /\ Ascending({x[i] : i \in K}) = [k \in DOMAIN a |-> x[a[k]]]
      /\ a \in Seq(K) /\ ToSet(a) = K
  <2>1. K \in SUBSET DOMAIN x
    BY <1>2
  <2> QED
    BY <1>2, <1>3, <2>1, ClimbAlong
<1>7. /\ DOMAIN a = 1 .. Len(a) /\ Len(a) \in Nat
      /\ \A k \in DOMAIN a : a[k] \in K /\ a[k] \in DOMAIN formRows
  <2>1. K \subseteq DOMAIN formRows
    OBVIOUS
  <2> HIDE DEF K, a
  <2> QED
    BY <1>6, <2>1
<1>8. Populate = [k \in DOMAIN a |-> [value  |-> formRows[a[k]].value,
                                     marked |-> x[a[k]] \in PostedChoice]]
  <2> DEFINE keys == Ascending({x[i] : i \in K})
  <2>1. Populate = [k \in DOMAIN keys |-> [value  |-> PostedRow(keys[k]).value,
                                          marked |-> keys[k] \in PostedChoice]]
    BY <1>5 DEF Populate
  <2>2. DOMAIN keys = DOMAIN a /\ \A k \in DOMAIN a : keys[k] = x[a[k]]
    BY <1>6
  <2> HIDE DEF keys
  <2>3. \A k \in DOMAIN a : PostedRow(keys[k]) = formRows[a[k]]
    BY <1>4, <1>7, <2>2
  <2> QED
    BY <2>1, <2>2, <2>3
<1>9. \A i \in K : x[i] \in PostedChoice <=> formRows[i].radio
  <2> SUFFICES ASSUME NEW i \in K
               PROVE  x[i] \in PostedChoice <=> formRows[i].radio
    OBVIOUS
  <2>1. formRows[i].radio => formRows[i].enabled
    BY DEF RowInv, RowInOrder
  <2>2. x[i] \in PostedChoice
          <=> \E j \in DOMAIN formRows : /\ formRows[j].radio /\ formRows[j].enabled
                                         /\ x[i] = formRows[j].index
    BY DEF PostedChoice
  <2> QED
    BY <1>2, <1>3, <2>1, <2>2
<1>10. \A i \in K : EntryOf(formRows[i])
                      = [value |-> formRows[i].value,
                         marked |-> x[i] \in PostedChoice]
  <2> SUFFICES ASSUME NEW i \in K
               PROVE  EntryOf(formRows[i]) = [value |-> formRows[i].value,
                                              marked |-> x[i] \in PostedChoice]
    OBVIOUS
  <2>1. formRows[i].hidden => formRows[i].value = formRows[i].chosen
    BY DEF RowInv, RowInOrder
  <2>2. formRows[i].radio \in BOOLEAN
    BY <1>1 DEF FormRow
  <2>3. formRows[i].radio = (x[i] \in PostedChoice)
    BY <1>9, <2>2
  <2> QED
    BY <2>1, <2>3 DEF EntryOf
<1>11. Populate = [k \in DOMAIN a |-> EntryOf(formRows[a[k]])]
  BY <1>7, <1>8, <1>10
<1>12. /\ d \in Seq(SeenIn(formRows)) /\ ToSet(d) = SeenIn(formRows) /\ Climbs(d)
       /\ entries = [k \in 1 .. Len(d) |-> EntryOf(formRows[d[k]])]
  BY <1>1, EntriesAre
<1> HIDE DEF d, entries
<1>13. /\ DOMAIN d = 1 .. Len(d) /\ DOMAIN entries = DOMAIN d
       /\ \A k \in DOMAIN d : d[k] \in SeenIn(formRows)
  BY <1>12
<1>14. d \in Seq(Nat)
  <2>1. d = [k \in 1 .. Len(d) |-> d[k]] /\ Len(d) \in Nat
    BY <1>12
  <2>2. \A k \in 1 .. Len(d) : d[k] \in Nat
    BY <1>1, <1>13 DEF SeenIn
  <2> QED
    BY <2>1, <2>2
<1>15. {d[k] : k \in J} = K
  <2>1. \A i \in SeenIn(formRows) : i \in K <=> EntryOf(formRows[i]).value # NoContent
    BY DEF SeenIn, EntryOf, RowInv, RowInOrder
  <2>2. \A k \in DOMAIN d : k \in J <=> d[k] \in K
    BY <1>12, <1>13, <2>1
  <2>3. K \subseteq SeenIn(formRows)
    BY DEF SeenIn
  <2> QED
    BY <1>12, <1>13, <2>2, <2>3 DEF ToSet
<1>16. /\ a = [k \in DOMAIN q |-> d[q[k]]]
       /\ q \in Seq(J)
  <2>1. J \in SUBSET DOMAIN d
    BY <1>13
  <2> HIDE DEF J
  <2>2. /\ Ascending({d[k] : k \in J}) = [k \in DOMAIN q |-> d[q[k]]]
        /\ q \in Seq(J)
    BY <1>12, <1>14, <2>1, ClimbAlong
  <2> QED
    BY <1>15, <2>2, Zenon
<1>17. Shown!Stored(entries) = [k \in DOMAIN q |-> entries[q[k]]]
  <2>1. Shown!Stored(entries) = Shown!TakeAt(entries, J)
    BY DEF Shown!Stored
  <2> HIDE DEF J
  <2>2. Shown!Ascending(J) = q
    BY DEF Shown!Ascending, Ascending, q, Shown!Cardinality, Cardinality
  <2> QED
    BY <2>1, <2>2 DEF Shown!TakeAt
<1> HIDE DEF a, q
<1>18. \A k \in DOMAIN q : entries[q[k]] = EntryOf(formRows[a[k]])
  <2>1. \A k \in DOMAIN q : q[k] \in J
    BY <1>16
  <2> QED
    BY <1>12, <1>13, <1>16, <2>1
<1>19. Populate = Shown!Stored(entries)
  BY <1>11, <1>16, <1>17, <1>18
<1>20. Populate \in Seq(SavedRow)
  <2>1. \A i \in K : [value |-> formRows[i].value, marked |-> x[i] \in PostedChoice]
                       \in SavedRow
    BY <1>1 DEF FormRow, SavedRow
  <2> QED
    BY <1>7, <1>8, <2>1
<1>21. \A k \in DOMAIN a : Populate[k].marked => formRows[a[k]].radio
  BY <1>7, <1>8, <1>9
<1>22. DOMAIN Populate = DOMAIN a
  BY <1>8
<1>23. \A k, l \in DOMAIN a : a[k] = a[l] => k = l
  <2>1. K \in SUBSET Nat /\ IsFiniteSet(K)
    <3>1. K \subseteq 1 .. Len(formRows) /\ 1 .. Len(formRows) \subseteq Nat
      BY <1>1
    <3>2. IsFiniteSet(1 .. Len(formRows))
      BY <1>1, FS_Interval
    <3> QED
      BY <3>1, <3>2, FS_Subset
  <2>2. Climbs(a)
    BY <2>1, AscendingOf DEF a
  <2> QED
    BY <1>1, <1>7, <2>2 DEF Climbs
<1> QED
  BY <1>7, <1>19, <1>20, <1>21, <1>22, <1>23
  DEF entries, RowInv, RowInOrder, OneButton

LEMMA SeenAre ==
  /\ ShownEntries = EntriesOf(formRows)
  /\ ShownEntries' = EntriesOf(formRows')
BY DEF ShownEntries, EntriesOf

\* The rows the server sends are those that were saved.
LEMMA RowsRendered ==
  ASSUME NEW saved \in Seq(SavedRow),
         \A k \in DOMAIN saved : saved[k].marked => aliases,
         \A k, l \in DOMAIN saved : saved[k].marked /\ saved[l].marked => k = l,
         aliases \in BOOLEAN
  PROVE  /\ Rendered(saved) \in Seq(FormRow) /\ Len(Rendered(saved)) = Len(saved)
         /\ \A i \in DOMAIN Rendered(saved) : Rendered(saved)[i].index = i - 1
         /\ \A i \in DOMAIN Rendered(saved) : RowInOrder(Rendered(saved)[i])
         /\ \A i, j \in DOMAIN Rendered(saved) :
              Rendered(saved)[i].radio /\ Rendered(saved)[j].radio => i = j
         /\ EntriesOf(Rendered(saved)) = saved
<1> DEFINE rows == Rendered(saved)
           v(i) == saved[i].value
<1>1. /\ DOMAIN saved = 1 .. Len(saved) /\ Len(saved) \in Nat
      /\ \A i \in DOMAIN saved : /\ saved[i] \in SavedRow
                                 /\ v(i) \in Contents /\ saved[i].marked \in BOOLEAN
                                 /\ saved[i] = [value |-> v(i), marked |-> saved[i].marked]
  <2>1. \A e \in SavedRow : /\ e.value \in Contents /\ e.marked \in BOOLEAN
                            /\ e = [value |-> e.value, marked |-> e.marked]
    BY DEF SavedRow
  <2>2. /\ DOMAIN saved = 1 .. Len(saved) /\ Len(saved) \in Nat
        /\ \A i \in DOMAIN saved : saved[i] \in SavedRow
    OBVIOUS
  <2> QED
    BY <2>1, <2>2
<1>2. ASSUME NEW i \in DOMAIN saved
      PROVE  (saved[i].marked /\ \A j \in 1 .. i - 1 : ~saved[j].marked)
               = saved[i].marked
  <2>1. \A j \in 1 .. i - 1 : j \in DOMAIN saved /\ j # i
    BY <1>1
  <2>2. saved[i].marked => \A j \in 1 .. i - 1 : ~saved[j].marked
    BY <2>1
  <2> QED
    BY <1>1, <2>2
<1>3. ASSUME NEW i \in DOMAIN saved
      PROVE  \E b, u \in BOOLEAN, w \in Findable \cup {NoContent} :
               /\ b = aliases /\ u = UrlHidden(v(i)) /\ (u => w = v(i))
               /\ rows[i] = [index |-> i - 1, value |-> v(i), destroyed |-> FALSE,
                             radio |-> saved[i].marked, enabled |-> b,
                             chosen |-> w, hidden |-> u]
  <2> DEFINE u == UrlHidden(v(i))
             w == IF u THEN v(i) ELSE NoContent
  <2>1. u \in BOOLEAN /\ w \in Findable \cup {NoContent} /\ (u => w = v(i))
    BY ContentsAssumption DEF UrlHidden
  <2>2. rows[i] = [index |-> i - 1, value |-> v(i), destroyed |-> FALSE,
                   radio |-> saved[i].marked, enabled |-> aliases,
                   chosen |-> w, hidden |-> u]
    BY <1>2 DEF Rendered
  <2> HIDE DEF u, w
  <2> QED
    BY <2>1, <2>2 DEF u
<1>4. DOMAIN rows = 1 .. Len(saved) /\ rows = [i \in 1 .. Len(saved) |-> rows[i]]
  BY <1>1 DEF Rendered
<1> HIDE DEF rows
<1>5. ASSUME NEW i \in DOMAIN saved
      PROVE  /\ rows[i] \in FormRow /\ RowInOrder(rows[i])
             /\ rows[i].index = i - 1 /\ rows[i].radio = saved[i].marked
             /\ ~rows[i].destroyed /\ EntryOf(rows[i]) = saved[i]
  <2>1. i - 1 \in Nat /\ v(i) \in Contents /\ saved[i].marked \in BOOLEAN
        /\ saved[i] = [value |-> v(i), marked |-> saved[i].marked]
        /\ (saved[i].marked => aliases)
    BY <1>1
  <2>2. PICK m \in BOOLEAN, c \in Contents : m = saved[i].marked /\ c = v(i)
    BY <2>1
  <2>3. PICK b \in BOOLEAN, u \in BOOLEAN, w \in Findable \cup {NoContent} :
          /\ b = aliases /\ (u => w = c)
          /\ rows[i] = [index |-> i - 1, value |-> c, destroyed |-> FALSE,
                        radio |-> m, enabled |-> b, chosen |-> w, hidden |-> u]
          /\ (aliases => ~u)
    BY <1>3, <2>2 DEF UrlHidden
  <2> HIDE DEF v
  <2>4. rows[i] \in FormRow /\ rows[i].index = i - 1 /\ rows[i].radio = m
        /\ ~rows[i].destroyed
    BY <2>1, <2>3 DEF FormRow
  <2>5. RowInOrder(rows[i])
    BY <2>1, <2>2, <2>3 DEF RowInOrder
  <2>6. EntryOf(rows[i]) = [value |-> c, marked |-> m]
    BY <2>3 DEF EntryOf
  <2> QED
    BY <2>1, <2>2, <2>4, <2>5, <2>6
<1>7. rows \in Seq(FormRow) /\ Len(rows) = Len(saved)
  BY <1>1, <1>4, <1>5
<1>8. \A i \in DOMAIN rows : RowInOrder(rows[i])
  BY <1>1, <1>4, <1>5
<1>9. \A i \in DOMAIN rows : rows[i].index = i - 1 /\ rows[i].radio = saved[i].marked
                             /\ ~rows[i].destroyed
  BY <1>1, <1>4, <1>5
<1>10. \A i \in DOMAIN saved : EntryOf(rows[i]) = saved[i]
  BY <1>5
<1>11. EntriesOf(rows) = saved
  <2>1. EntriesOf(rows) = [i \in 1 .. Len(rows) |-> EntryOf(rows[i])]
    BY <1>7, <1>9, AllSeen
  <2>2. saved = [i \in 1 .. Len(saved) |-> saved[i]]
    BY <1>1
  <2> QED
    BY <1>1, <1>7, <1>10, <2>1, <2>2
<1>12. \A i, j \in DOMAIN rows : rows[i].radio /\ rows[j].radio => i = j
  BY <1>1, <1>4, <1>9
<1> QED
  BY <1>7, <1>8, <1>9, <1>11, <1>12 DEF rows

LEMMA SubmitFormKeeps ==
  ASSUME RowInv, NEW ok \in BOOLEAN, SubmitForm(ok)
  PROVE  RowInv' /\ Shown!Submit(ok)
<1> DEFINE saved == Populate
<1>1. /\ saved \in Seq(SavedRow) /\ saved = Shown!Stored(EntriesOf(formRows))
      /\ \A k \in DOMAIN saved : saved[k].marked => aliases
      /\ \A k, l \in DOMAIN saved : saved[k].marked /\ saved[l].marked => k = l
      /\ aliases \in BOOLEAN
  BY PostIsWhatIsSeen DEF RowInv, RowTypeOK
<1>2. /\ formRows' = Rendered(saved) /\ nextIndex' = Len(saved)
      /\ savedRows' = (IF ok THEN saved ELSE savedRows) /\ aliases' = aliases
  BY DEF SubmitForm
<1> HIDE DEF saved
<1>3. /\ formRows' \in Seq(FormRow) /\ Len(formRows') = Len(saved)
      /\ \A i \in DOMAIN formRows' : formRows'[i].index = i - 1
      /\ \A i \in DOMAIN formRows' : RowInOrder(formRows'[i])
      /\ \A i, j \in DOMAIN formRows' :
           formRows'[i].radio /\ formRows'[j].radio => i = j
      /\ EntriesOf(formRows') = saved
  BY <1>1, <1>2, RowsRendered
<1>4. RowTypeOK'
  BY <1>1, <1>2, <1>3 DEF RowInv, RowTypeOK
<1>5. IndicesClimb'
  BY <1>2, <1>3 DEF IndicesClimb
<1>6. RowInv'
  BY <1>2, <1>3, <1>4, <1>5 DEF RowInv, RowInOrder, OneButton
<1>7. Shown!Submit(ok)
  BY <1>1, <1>2, <1>3, SeenAre DEF Shown!Submit
<1> QED
  BY <1>6, <1>7

LEMMA InsertRowKeeps ==
  ASSUME RowInv, InsertRow
  PROVE  RowInv' /\ Shown!Add
<1> DEFINE r == NewRow(nextIndex)
<1>1. /\ formRows \in Seq(FormRow) /\ DOMAIN formRows = 1 .. Len(formRows)
      /\ Len(formRows) \in Nat /\ nextIndex \in Nat /\ aliases \in BOOLEAN
      /\ savedRows \in Seq(SavedRow)
      /\ \A i \in DOMAIN formRows : formRows[i].index \in Nat
  <2>1. \A r2 \in FormRow : r2.index \in Nat
    BY DEF FormRow
  <2> QED
    BY <2>1 DEF RowInv, RowTypeOK
<1>2. /\ formRows' = Append(formRows, r) /\ nextIndex' = nextIndex + 1
      /\ aliases' = aliases /\ savedRows' = savedRows
  BY DEF InsertRow
<1>3. r \in FormRow /\ ~r.destroyed /\ ~r.hidden /\ ~r.radio /\ r.index = nextIndex
      /\ r.value = NoContent /\ EntryOf(r) = [value |-> NoContent, marked |-> FALSE]
  BY <1>1 DEF NewRow, FormRow, EntryOf
<1> HIDE DEF r
<1>4. /\ formRows' \in Seq(FormRow) /\ DOMAIN formRows' = 1 .. Len(formRows) + 1
      /\ formRows'[Len(formRows) + 1] = r
      /\ \A i \in DOMAIN formRows : formRows'[i] = formRows[i]
  BY <1>1, <1>2, <1>3, AppendProperties
<1>5. ASSUME NEW i \in DOMAIN formRows'
      PROVE  i = Len(formRows) + 1 \/ i \in DOMAIN formRows
  BY <1>1, <1>4
<1>6. IndicesClimb'
  <2>1. \A i \in DOMAIN formRows' : formRows'[i].index < nextIndex'
    BY <1>1, <1>2, <1>3, <1>4, <1>5 DEF RowInv, IndicesClimb
  <2>2. \A i, j \in DOMAIN formRows' :
          i < j => formRows'[i].index < formRows'[j].index
    BY <1>1, <1>3, <1>4, <1>5 DEF RowInv, IndicesClimb
  <2> QED
    BY <2>1, <2>2 DEF IndicesClimb
<1>7. \A i \in DOMAIN formRows' : RowInOrder(formRows'[i])
  BY <1>3, <1>4, <1>5 DEF RowInv, RowInOrder
<1>8. OneButton'
  BY <1>3, <1>4, <1>5 DEF RowInv, OneButton
<1>9. RowInv'
  BY <1>1, <1>2, <1>4, <1>6, <1>7, <1>8 DEF RowInv, RowTypeOK, RowInOrder
<1>10. EntriesOf(formRows') = Append(EntriesOf(formRows), EntryOf(r))
  BY <1>1, <1>2, <1>3, RowAdded
<1>11. Shown!Add
  BY <1>2, <1>3, <1>10, SeenAre DEF Shown!Add
<1> QED
  BY <1>9, <1>11

\* One row changes, and neither its index nor its button.
LEMMA OneRowChanges ==
  ASSUME RowInv, NEW i \in DOMAIN formRows, NEW r \in FormRow,
         formRows' = [formRows EXCEPT ![i] = r],
         r.index = formRows[i].index, r.radio => formRows[i].radio,
         RowInOrder(r), UNCHANGED <<aliases, nextIndex, savedRows>>
  PROVE  RowInv'
<1>1. /\ formRows \in Seq(FormRow) /\ DOMAIN formRows' = DOMAIN formRows
      /\ formRows' \in Seq(FormRow)
      /\ \A j \in DOMAIN formRows :
           formRows'[j] = IF j = i THEN r ELSE formRows[j]
  BY DEF RowInv, RowTypeOK
<1>2. RowTypeOK'
  BY <1>1 DEF RowInv, RowTypeOK
<1>3. \A j \in DOMAIN formRows : /\ formRows'[j].index = formRows[j].index
                                 /\ formRows'[j].radio => formRows[j].radio
  BY <1>1
<1>4. IndicesClimb'
  BY <1>1, <1>3 DEF RowInv, IndicesClimb
<1>5. \A j \in DOMAIN formRows' : RowInOrder(formRows'[j])
  BY <1>1 DEF RowInv
<1>6. OneButton'
  BY <1>1, <1>3 DEF RowInv, OneButton
<1> QED
  BY <1>2, <1>4, <1>5, <1>6 DEF RowInv, RowInOrder

\* A row that changes as it is seen is an entry that is filled in.
LEMMA RowIsFilled ==
  ASSUME RowInv, NEW i \in DOMAIN formRows, NEW r \in FormRow,
         formRows' = [formRows EXCEPT ![i] = r],
         ~formRows[i].destroyed, ~r.destroyed, r.radio = formRows[i].radio,
         NEW v \in Contents \cup {NoContent}, EntryOf(r).value = v,
         UNCHANGED <<aliases, nextIndex, savedRows>>
  PROVE  \E k \in DOMAIN ShownEntries : Shown!Fill(k, v)
<1>1. /\ formRows \in Seq(FormRow) /\ Len(formRows') = Len(formRows)
      /\ formRows' \in Seq(FormRow)
      /\ formRows'[i] = r
      /\ \A j \in DOMAIN formRows : j # i => formRows'[j] = formRows[j]
  BY DEF RowInv, RowTypeOK
<1>2. PICK k \in DOMAIN EntriesOf(formRows) :
        /\ EntriesOf(formRows)[k] = EntryOf(formRows[i])
        /\ EntriesOf(formRows') = [EntriesOf(formRows) EXCEPT ![k] = EntryOf(r)]
  <2>1. PICK rows : rows = formRows
    OBVIOUS
  <2>2. rows \in Seq(FormRow) /\ i \in DOMAIN rows /\ ~rows[i].destroyed
    BY <1>1, <2>1
  <2>3. \E k \in DOMAIN EntriesOf(rows) :
          /\ EntriesOf(rows)[k] = EntryOf(rows[i])
          /\ EntriesOf([rows EXCEPT ![i] = r])
               = [EntriesOf(rows) EXCEPT ![k] = EntryOf(r)]
    BY <2>2, RowChanged
  <2> QED
    BY <2>1, <2>3
<1>3. EntryOf(r) = [EntryOf(formRows[i]) EXCEPT !.value = v]
  BY DEF EntryOf
<1>4. EntriesOf(formRows') = [EntriesOf(formRows) EXCEPT ![k].value = v]
  BY <1>2, <1>3
<1> QED
  BY <1>2, <1>4, SeenAre DEF Shown!Fill

LEMMA EditRowKeeps ==
  ASSUME RowInv, NEW i \in DOMAIN formRows, NEW v \in Contents \cup {NoContent},
         EditRow(i, v)
  PROVE  RowInv' /\ \E k \in DOMAIN ShownEntries : Shown!Fill(k, v)
<1> DEFINE old == formRows[i]
<1>1. old \in FormRow /\ RowInOrder(old) /\ aliases \in BOOLEAN
  BY DEF RowInv, RowTypeOK
<1>2. PICK b \in BOOLEAN : b <=> aliases /\ v # NoContent
  OBVIOUS
<1> DEFINE r == [old EXCEPT !.value = v, !.enabled = b]
<1>3. /\ ~old.destroyed /\ ~old.hidden /\ formRows' = [formRows EXCEPT ![i] = r]
      /\ UNCHANGED <<aliases, nextIndex, savedRows>>
  BY <1>2 DEF EditRow
<1>4. /\ r \in FormRow /\ r.index = old.index /\ r.radio = old.radio
      /\ r.value = v /\ r.enabled = b /\ r.destroyed = old.destroyed
      /\ r.hidden = old.hidden
  BY <1>1, <1>2 DEF FormRow
<1> HIDE DEF r
<1>5. RowInOrder(r) /\ EntryOf(r).value = v
  BY <1>1, <1>2, <1>3, <1>4 DEF RowInOrder, EntryOf
<1>6. RowInv'
  BY <1>3, <1>4, <1>5, OneRowChanges
<1>7. \E k \in DOMAIN ShownEntries : Shown!Fill(k, v)
  BY <1>3, <1>4, <1>5, RowIsFilled
<1> QED
  BY <1>6, <1>7

LEMMA PickWorkKeeps ==
  ASSUME RowInv, NEW i \in DOMAIN formRows, NEW v \in Findable \cup {NoContent},
         PickWork(i, v)
  PROVE  RowInv' /\ \E k \in DOMAIN ShownEntries : Shown!Fill(k, v)
<1> DEFINE old == formRows[i]
<1>1. old \in FormRow /\ RowInOrder(old) /\ aliases \in BOOLEAN
      /\ v \in Contents \cup {NoContent}
  BY ContentsAssumption DEF RowInv, RowTypeOK
<1>2. PICK u \in BOOLEAN : u = UrlHidden(v)
  BY DEF UrlHidden
<1> DEFINE r == [old EXCEPT !.value = v, !.chosen = v, !.hidden = u]
<1>3. /\ ~aliases /\ ~old.destroyed /\ formRows' = [formRows EXCEPT ![i] = r]
      /\ UNCHANGED <<aliases, nextIndex, savedRows>>
  BY <1>2 DEF PickWork
<1>4. /\ r \in FormRow /\ r.index = old.index /\ r.radio = old.radio
      /\ r.value = v /\ r.chosen = v /\ r.destroyed = old.destroyed
  BY <1>1, <1>2 DEF FormRow
<1> HIDE DEF r
<1>5. RowInOrder(r) /\ EntryOf(r).value = v
  BY <1>1, <1>3, <1>4 DEF RowInOrder, EntryOf
<1>6. RowInv'
  BY <1>3, <1>4, <1>5, OneRowChanges
<1>7. \E k \in DOMAIN ShownEntries : Shown!Fill(k, v)
  BY <1>1, <1>3, <1>4, <1>5, RowIsFilled
<1> QED
  BY <1>6, <1>7

LEMMA RemoveCardKeeps ==
  ASSUME RowInv, NEW i \in DOMAIN formRows, RemoveCard(i)
  PROVE  RowInv' /\ \E k \in DOMAIN ShownEntries : Shown!Delete(k)
<1> DEFINE old == formRows[i]
           r == [old EXCEPT !.destroyed = TRUE]
<1>1. old \in FormRow /\ RowInOrder(old) /\ formRows \in Seq(FormRow)
  BY DEF RowInv, RowTypeOK
<1>2. /\ ~aliases /\ ~old.destroyed /\ formRows' = [formRows EXCEPT ![i] = r]
      /\ UNCHANGED <<aliases, nextIndex, savedRows>>
  BY DEF RemoveCard
<1>3. /\ r \in FormRow /\ r.index = old.index /\ r.radio = old.radio
      /\ r.value = old.value /\ r.chosen = old.chosen /\ r.hidden = old.hidden
      /\ r.destroyed
  BY <1>1 DEF FormRow
<1> HIDE DEF r
<1>4. RowInOrder(r)
  BY <1>1, <1>2, <1>3 DEF RowInOrder
<1>5. RowInv'
  BY <1>2, <1>3, <1>4, OneRowChanges
<1>6. /\ formRows' \in Seq(FormRow) /\ Len(formRows') = Len(formRows)
      /\ formRows'[i] = r
      /\ \A j \in DOMAIN formRows : j # i => formRows'[j] = formRows[j]
  BY <1>1, <1>2, <1>3
<1>7. PICK k \in DOMAIN EntriesOf(formRows) :
        EntriesOf(formRows') = RemoveAt(EntriesOf(formRows), k)
  <2>1. formRows'[i].destroyed
    BY <1>3, <1>6
  <2> QED
    BY <1>1, <1>2, <1>6, <2>1, RowHidden
<1>8. Shown!Delete(k)
  BY <1>2, <1>7, SeenAre DEF Shown!Delete, Shown!RemoveAt, RemoveAt
<1> QED
  BY <1>5, <1>7, <1>8, SeenAre

LEMMA RemoveAliasKeeps ==
  ASSUME RowInv, NEW i \in DOMAIN formRows, RemoveAlias(i)
  PROVE  RowInv' /\ \E k \in DOMAIN ShownEntries : Shown!Delete(k)
<1>1. /\ formRows \in Seq(FormRow) /\ DOMAIN formRows = 1 .. Len(formRows)
      /\ \A j \in DOMAIN formRows : ~formRows[j].destroyed
      /\ \A j \in DOMAIN formRows : formRows[j].index \in Nat
  <2>1. \A r \in FormRow : r.index \in Nat
    BY DEF FormRow
  <2> QED
    BY <2>1 DEF RowInv, RowTypeOK, RowInOrder, RemoveAlias
<1>2. /\ formRows' = RemoveAt(formRows, i)
      /\ UNCHANGED <<aliases, nextIndex, savedRows>>
  BY DEF RemoveAlias
<1>3. /\ formRows' \in Seq(FormRow) /\ DOMAIN formRows' = 1 .. Len(formRows) - 1
      /\ \A j \in DOMAIN formRows' : Past(i, j) \in DOMAIN formRows
                                     /\ formRows'[j] = formRows[Past(i, j)]
      /\ \A j, k \in DOMAIN formRows' : Past(i, j) = Past(i, k) => j = k
  <2>1. /\ RemoveAt(formRows, i) \in Seq(FormRow)
        /\ DOMAIN RemoveAt(formRows, i) = 1 .. Len(formRows) - 1
        /\ \A j \in DOMAIN RemoveAt(formRows, i) :
             /\ Past(i, j) \in DOMAIN formRows \ {i}
             /\ RemoveAt(formRows, i)[j] = formRows[Past(i, j)]
        /\ \A j, k \in DOMAIN RemoveAt(formRows, i) :
             Past(i, j) = Past(i, k) => j = k
    BY <1>1, Answered
  <2> QED
    BY <1>2, <2>1
<1>4. \A j, k \in DOMAIN formRows' : j < k => Past(i, j) < Past(i, k)
  BY <1>1, <1>3 DEF Past
<1>5. IndicesClimb'
  BY <1>2, <1>3, <1>4 DEF RowInv, IndicesClimb
<1>6. \A j \in DOMAIN formRows' : RowInOrder(formRows'[j])
  BY <1>3 DEF RowInv
<1>7. OneButton'
  BY <1>3 DEF RowInv, OneButton
<1>8. RowInv'
  BY <1>2, <1>3, <1>5, <1>6, <1>7 DEF RowInv, RowTypeOK, RowInOrder
<1>9. EntriesOf(formRows') = RemoveAt(EntriesOf(formRows), i)
  BY <1>1, <1>2, RowTaken
<1>10. i \in DOMAIN EntriesOf(formRows)
  BY <1>1, AllSeen
<1>11. Shown!Delete(i)
  BY <1>2, <1>9, SeenAre DEF Shown!Delete, Shown!RemoveAt, RemoveAt
<1> QED
  BY <1>8, <1>10, <1>11, SeenAre

LEMMA PressRadioKeeps ==
  ASSUME RowInv, NEW i \in DOMAIN formRows \cup {0}, PressRadio(i)
  PROVE  RowInv' /\ \E k \in DOMAIN ShownEntries \cup {0} : Shown!Mark(k)
<1>1. /\ formRows \in Seq(FormRow) /\ DOMAIN formRows = 1 .. Len(formRows)
      /\ Len(formRows) \in Nat /\ aliases
      /\ \A j \in DOMAIN formRows : ~formRows[j].destroyed
      /\ \A j \in DOMAIN formRows : formRows[j] \in FormRow
  BY DEF RowInv, RowTypeOK, RowInOrder, PressRadio
<1>2. /\ formRows' = [j \in DOMAIN formRows |->
                        [formRows[j] EXCEPT !.radio = (j = i)]]
      /\ UNCHANGED <<aliases, nextIndex, savedRows>>
  BY DEF PressRadio
<1>3. ASSUME NEW j \in DOMAIN formRows
      PROVE  /\ formRows'[j] \in FormRow
             /\ formRows'[j].radio <=> j = i
             /\ formRows'[j].index = formRows[j].index
             /\ formRows'[j].destroyed = formRows[j].destroyed
             /\ formRows'[j].enabled = formRows[j].enabled
             /\ formRows'[j].value = formRows[j].value
             /\ formRows'[j].chosen = formRows[j].chosen
             /\ formRows'[j].hidden = formRows[j].hidden
  <2>1. PICK m \in BOOLEAN : m <=> j = i
    OBVIOUS
  <2>2. PICK old \in FormRow : old = formRows[j]
    BY <1>1
  <2>3. formRows'[j] = [old EXCEPT !.radio = m]
    BY <1>2, <2>1, <2>2
  <2> QED
    BY <2>1, <2>2, <2>3 DEF FormRow
<1>4. DOMAIN formRows' = DOMAIN formRows /\ formRows' \in Seq(FormRow)
      /\ Len(formRows') = Len(formRows)
  <2>1. formRows' = [j \in 1 .. Len(formRows) |-> formRows'[j]]
    BY <1>1, <1>2
  <2> QED
    BY <1>1, <1>3, <2>1
<1>5. IndicesClimb'
  BY <1>2, <1>3, <1>4 DEF RowInv, IndicesClimb
<1>6. \A j \in DOMAIN formRows' : RowInOrder(formRows'[j])
  BY <1>1, <1>3, <1>4 DEF RowInv, RowInOrder
<1>7. OneButton'
  BY <1>3, <1>4 DEF OneButton
<1>8. RowInv'
  BY <1>2, <1>4, <1>5, <1>6, <1>7 DEF RowInv, RowTypeOK, RowInOrder
<1>9. /\ EntriesOf(formRows) = [j \in 1 .. Len(formRows) |-> EntryOf(formRows[j])]
      /\ EntriesOf(formRows') = [j \in 1 .. Len(formRows) |-> EntryOf(formRows'[j])]
  <2>1. \A j \in DOMAIN formRows' : ~formRows'[j].destroyed
    BY <1>1, <1>3, <1>4
  <2> QED
    BY <1>1, <1>4, <2>1, AllSeen
<1>10. \A j \in 1 .. Len(formRows) :
         EntryOf(formRows'[j]) = [value |-> EntryOf(formRows[j]).value,
                                  marked |-> j = i]
  <2> SUFFICES ASSUME NEW j \in DOMAIN formRows
               PROVE  EntryOf(formRows'[j])
                        = [value |-> EntryOf(formRows[j]).value, marked |-> j = i]
    BY <1>1
  <2>1. PICK m \in BOOLEAN : m = (j = i)
    OBVIOUS
  <2>2. PICK old \in FormRow : old = formRows[j]
    BY <1>1
  <2>3. formRows'[j] = [old EXCEPT !.radio = m]
    BY <1>2, <2>1, <2>2
  <2>4. EntryOf(formRows'[j]) = [value |-> EntryOf(old).value, marked |-> m]
    BY <2>3 DEF EntryOf, FormRow
  <2> QED
    BY <2>1, <2>2, <2>4
<1>11. EntriesOf(formRows') = [j \in DOMAIN EntriesOf(formRows) |->
                                 [value |-> EntriesOf(formRows)[j].value,
                                  marked |-> j = i]]
  BY <1>9, <1>10
<1>12. Shown!Mark(i) /\ i \in DOMAIN EntriesOf(formRows) \cup {0}
  BY <1>1, <1>2, <1>9, <1>11, SeenAre DEF Shown!Mark
<1> QED
  BY <1>8, <1>12, SeenAre

LEMMA RowInitially == RowInit => RowInv /\ Shown!ListInit
<1> SUFFICES ASSUME RowInit PROVE RowInv /\ Shown!ListInit
  OBVIOUS
<1>1. savedRows = <<>> /\ aliases \in BOOLEAN /\ formRows = Rendered(savedRows)
      /\ nextIndex = Len(savedRows)
  BY DEF RowInit
<1>2. savedRows \in Seq(SavedRow) /\ DOMAIN savedRows = {} /\ Len(savedRows) = 0
  BY <1>1
<1>3. /\ formRows \in Seq(FormRow) /\ Len(formRows) = 0
      /\ EntriesOf(formRows) = savedRows
  BY <1>1, <1>2, RowsRendered
<1>4. DOMAIN formRows = {}
  BY <1>3
<1>5. RowInv
  BY <1>1, <1>2, <1>3, <1>4
  DEF RowInv, RowTypeOK, IndicesClimb, OneButton
<1>6. Shown!ListInit
  BY <1>1, <1>3, SeenAre DEF Shown!ListInit
<1> QED
  BY <1>5, <1>6

\* Every step of the form is one of the list.
LEMMA RowInductive ==
  ASSUME RowInv, [RowNext]_rowVars
  PROVE  RowInv' /\ [Shown!ListNext]_(Shown!listVars)
<1>1. CASE AddCard \/ AddAlias
  BY <1>1, InsertRowKeeps DEF AddCard, AddAlias, Shown!ListNext
<1>2. ASSUME NEW i \in DOMAIN formRows, NEW v \in Contents \cup {NoContent},
             EditRow(i, v)
      PROVE  RowInv' /\ [Shown!ListNext]_(Shown!listVars)
  BY <1>2, EditRowKeeps DEF Shown!ListNext
<1>3. ASSUME NEW i \in DOMAIN formRows, NEW v \in Findable \cup {NoContent},
             PickWork(i, v)
      PROVE  RowInv' /\ [Shown!ListNext]_(Shown!listVars)
  <2>1. v \in Contents \cup {NoContent}
    BY ContentsAssumption
  <2> QED
    BY <1>3, <2>1, PickWorkKeeps DEF Shown!ListNext
<1>4. ASSUME NEW i \in DOMAIN formRows \cup {0}, PressRadio(i)
      PROVE  RowInv' /\ [Shown!ListNext]_(Shown!listVars)
  BY <1>4, PressRadioKeeps DEF Shown!ListNext
<1>5. ASSUME NEW i \in DOMAIN formRows, RemoveCard(i)
      PROVE  RowInv' /\ [Shown!ListNext]_(Shown!listVars)
  BY <1>5, RemoveCardKeeps DEF Shown!ListNext
<1>6. ASSUME NEW i \in DOMAIN formRows, RemoveAlias(i)
      PROVE  RowInv' /\ [Shown!ListNext]_(Shown!listVars)
  BY <1>6, RemoveAliasKeeps DEF Shown!ListNext
<1>7. ASSUME NEW ok \in BOOLEAN, SubmitForm(ok)
      PROVE  RowInv' /\ [Shown!ListNext]_(Shown!listVars)
  BY <1>7, SubmitFormKeeps DEF Shown!ListNext
<1>8. CASE UNCHANGED rowVars
  <2>1. RowInv'
    BY <1>8 DEF rowVars, RowInv, RowTypeOK, IndicesClimb, RowInOrder, OneButton
  <2>2. UNCHANGED Shown!listVars
    BY <1>8 DEF rowVars, Shown!listVars, ShownEntries, TakeAt
  <2> QED
    BY <2>1, <2>2
<1> QED
  BY <1>1, <1>2, <1>3, <1>4, <1>5, <1>6, <1>7, <1>8 DEF RowNext

\* Indices, flags, pickers and buttons together are a list of rows
\* (compound_metadata.js, redirects.js and the populators).
THEOREM FormImplementsList == RowSpec => FormIsRowList
<1>1. RowInit => RowInv
  BY RowInitially
<1>2. RowInv /\ [RowNext]_rowVars => RowInv'
  BY RowInductive
<1>3. RowInit => Shown!ListInit
  BY RowInitially
<1>4. RowInv /\ [RowNext]_rowVars => [Shown!ListNext]_(Shown!listVars)
  BY RowInductive
<1>5. RowSpec => Shown!ListSpec
  BY <1>1, <1>2, <1>3, <1>4, PTL DEF RowSpec, Shown!ListSpec
<1> QED
  BY <1>5 DEF FormIsRowList
=============================================================================
