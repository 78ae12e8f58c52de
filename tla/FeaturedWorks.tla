--------------------------- MODULE FeaturedWorks ---------------------------
(***************************************************************************)
(* The list of featured works on the home page of someone who may change   *)
(* it (app/assets/javascripts/hyrax/featured_works.js): rows are dragged   *)
(* into an order that "Save order" posts, and removed by a request whose   *)
(* callback finds its row through a global variable.                       *)
(***************************************************************************)
EXTENDS Naturals, Sequences, FiniteSets, FiniteSetsExt, SequencesExt

CONSTANTS
  Works,        \* the works featured when the page is loaded
  NoWork,
  DefaultOrder, \* the order of a work that was featured and never arranged
  MaxAsked,     \* bound: removals under way at a time
  MaxLost       \* bound: removals stored and not answered, since the page was loaded

ASSUME WorksAssumption ==
  /\ IsFiniteSet(Works) /\ NoWork \notin Works
  /\ DefaultOrder \in Nat /\ DefaultOrder >= Cardinality(Works)
ASSUME MaxAskedAssumption == MaxAsked \in Nat /\ MaxLost \in Nat

VARIABLES
  featured,    \* the works that have a FeaturedWork
  storedAt,    \* storedAt[w]: its order
  rendered,    \* the rows as they were when the page was loaded
  listed,      \* the rows on the page
  weight,      \* weight[w]: the hidden order field of the row
  anchor,      \* the global: the row that was clicked last
  sent,        \* sent[w]: removals the server has not handled
  handled,     \* handled[w]: removals it has, whose answer is under way
  late,        \* late[w]: removals asked for by a page that was left since
  emptyNote,   \* the page says that there are no featured works
  arranged,    \* history: the rows were dragged since the page was loaded
  overlapped,  \* history: a row was clicked while a removal was under way, or the
               \* page was loaded while one was
  lostRemovals \* history: works of which a removal was handled and not
               \* answered since the page was loaded

featVars == <<featured, storedAt, rendered, listed, weight, anchor, sent,
              handled, late, emptyNote, arranged, overlapped, lostRemovals>>

Weights == 0 .. DefaultOrder

FeatTypeOK ==
  /\ featured \subseteq Works /\ lostRemovals \subseteq Works
  /\ storedAt \in [Works -> Weights]
  /\ rendered \in Seq(Works) /\ listed \in Seq(Works)
  /\ weight \in [Works -> Weights]
  /\ anchor \in Works \cup {NoWork}
  /\ {sent, handled, late} \subseteq [Works -> Nat]
  /\ {emptyNote, arranged, overlapped} \subseteq BOOLEAN

Asked == MapThenSumSet(LAMBDA w : sent[w] + handled[w] + late[w], Works)

UnderWay == \E w \in Works : sent[w] + handled[w] > 0

\* The home page: the featured works by their order, in any order among equals.
Sorted(order) ==
  \A i, j \in DOMAIN order : i < j => storedAt[order[i]] <= storedAt[order[j]]

FeatInit ==
  /\ featured = Works
  /\ storedAt = [w \in Works |-> DefaultOrder]
  /\ rendered \in SetToSeqs(Works)
  /\ listed = rendered
  /\ weight = storedAt
  /\ anchor = NoWork
  /\ sent = [w \in Works |-> 0]
  /\ handled = [w \in Works |-> 0]
  /\ late = [w \in Works |-> 0]
  /\ emptyNote = (Works = {})
  /\ arranged = FALSE
  /\ overlapped = FALSE
  /\ lostRemovals = {}
-----------------------------------------------------------------------------
\* A click on the cross of a row.  The global is set before the question.
ClickUnfeature(w, confirmed) ==
  /\ w \in ToSet(listed)
  /\ Asked < MaxAsked
  /\ anchor' = w
  /\ sent' = IF confirmed THEN [sent EXCEPT ![w] = @ + 1] ELSE sent
  /\ overlapped' = (overlapped \/ UnderWay)
  /\ UNCHANGED <<featured, storedAt, rendered, listed, weight, handled, late,
                 emptyNote, arranged, lostRemovals>>

\* FeaturedWorksController#destroy, which also answers when there is none.
HandleUnfeature(w) ==
  /\ sent[w] > 0
  /\ sent' = [sent EXCEPT ![w] = @ - 1]
  /\ handled' = [handled EXCEPT ![w] = @ + 1]
  /\ featured' = featured \ {w}
  /\ UNCHANGED <<storedAt, rendered, listed, weight, anchor, late, emptyNote,
                 arranged, overlapped, lostRemovals>>

\* The same for a page that is left, which no answer reaches; or it never comes.
HandleLate(w, lost) ==
  /\ late[w] > 0
  /\ late' = [late EXCEPT ![w] = @ - 1]
  /\ featured' = IF lost THEN featured ELSE featured \ {w}
  /\ UNCHANGED <<storedAt, rendered, listed, weight, anchor, sent, handled,
                 emptyNote, arranged, overlapped, lostRemovals>>

\* The request fails: there is no error callback.
FailUnfeature(w) ==
  /\ sent[w] > 0
  /\ sent' = [sent EXCEPT ![w] = @ - 1]
  /\ UNCHANGED <<featured, storedAt, rendered, listed, weight, anchor, handled,
                 late, emptyNote, arranged, overlapped, lostRemovals>>

\* Or its answer is lost after the work was removed: the row stays.
LoseRemoval(w) ==
  /\ handled[w] > 0
  /\ Cardinality(lostRemovals) < MaxLost
  /\ handled' = [handled EXCEPT ![w] = @ - 1]
  /\ lostRemovals' = lostRemovals \cup {w}
  /\ UNCHANGED <<featured, storedAt, rendered, listed, weight, anchor, sent,
                 late, emptyNote, arranged, overlapped>>

PlaceIn(order, w) == CHOOSE i \in DOMAIN order : order[i] = w

\* Mutant: the note is shown when the last row but one is removed.
AnswerUnfeatureEarly(w) ==
  /\ handled[w] > 0
  /\ handled' = [handled EXCEPT ![w] = @ - 1]
  /\ listed' = IF anchor \in ToSet(listed)
               THEN RemoveAt(listed, PlaceIn(listed, anchor)) ELSE listed
  /\ emptyNote' = (emptyNote \/ anchor \notin ToSet(listed) \/ Len(listed') <= 1)
  /\ UNCHANGED <<featured, storedAt, rendered, weight, anchor, sent, late,
                 arranged, overlapped, lostRemovals>>

\* success: the row of the global is removed, whichever work was asked for.  A
\* row that is already off the page has no list, which looks like an empty one.
AnswerUnfeature(w) ==
  /\ handled[w] > 0
  /\ handled' = [handled EXCEPT ![w] = @ - 1]
  /\ listed' = IF anchor \in ToSet(listed)
               THEN RemoveAt(listed, PlaceIn(listed, anchor)) ELSE listed
  /\ emptyNote' = (emptyNote \/ anchor \notin ToSet(listed) \/ listed' = <<>>)
  /\ UNCHANGED <<featured, storedAt, rendered, weight, anchor, sent, late,
                 arranged, overlapped, lostRemovals>>

\* Mutant: the weights count down the list from its end.
DragAndDropReversed(order) ==
  /\ order # listed
  /\ listed' = order
  /\ weight' = [w \in Works |-> IF w \in ToSet(order)
                                THEN Len(order) - PlaceIn(order, w)
                                ELSE weight[w]]
  /\ arranged' = TRUE
  /\ UNCHANGED <<featured, storedAt, rendered, anchor, sent, handled, late,
                 emptyNote, overlapped, lostRemovals>>

\* A row is dropped at another place: every row's weight is its place.
DragAndDrop(order) ==
  /\ order # listed
  /\ listed' = order
  /\ weight' = [w \in Works |-> IF w \in ToSet(order)
                                THEN PlaceIn(order, w) - 1
                                ELSE weight[w]]
  /\ arranged' = TRUE
  /\ UNCHANGED <<featured, storedAt, rendered, anchor, sent, handled, late,
                 emptyNote, overlapped, lostRemovals>>

\* "Save order": the rows are updated as they were rendered, up to one that is
\* no longer featured (FeaturedWork.find raises), and the page is loaded again,
\* which no answer to the old page reaches.
SaveOrder(order) ==
  LET Before(w) == {v \in ToSet(listed) :
                      PlaceIn(rendered, v) <= PlaceIn(rendered, w)}
      updated == {w \in ToSet(listed) : Before(w) \subseteq featured}
  IN
  /\ listed # <<>>
  /\ storedAt' = [w \in Works |-> IF w \in updated THEN weight[w]
                                  ELSE storedAt[w]]
  /\ ToSet(order) = featured /\ Len(order) = Cardinality(featured)
  /\ Sorted(order)'
  /\ rendered' = order
  /\ listed' = order
  /\ weight' = storedAt'
  /\ anchor' = NoWork
  /\ late' = [w \in Works |-> late[w] + sent[w]]
  /\ sent' = [w \in Works |-> 0] /\ handled' = [w \in Works |-> 0]
  /\ emptyNote' = (order = <<>>)
  /\ arranged' = FALSE
  /\ overlapped' = (\E w \in Works : late'[w] > 0)
  /\ lostRemovals' = {}
  /\ UNCHANGED featured

FeatNext ==
  \/ \E w \in Works, confirmed \in BOOLEAN : ClickUnfeature(w, confirmed)
  \/ \E w \in Works : HandleUnfeature(w)
  \/ \E w \in Works, lost \in BOOLEAN : HandleLate(w, lost)
  \/ \E w \in Works : FailUnfeature(w)
  \/ \E w \in Works : LoseRemoval(w)
  \/ \E w \in Works : AnswerUnfeature(w)
  \/ \E order \in SetToSeqs(ToSet(listed)) : DragAndDrop(order)
  \/ \E order \in SetToSeqs(featured) : SaveOrder(order)

FeatSpec == FeatInit /\ [][FeatNext]_featVars
-----------------------------------------------------------------------------
(* Properties.                                                             *)

\* When the page rests and no row was clicked during a removal (the global then
\* names another row), it lists what is featured, and besides that only works whose
\* removal was stored and not answered; and it says that nothing is featured
\* exactly when it lists nothing.
ListFollowsFeatured ==
  ~UnderWay /\ ~overlapped => /\ ToSet(listed) \ lostRemovals = featured
                              /\ emptyNote <=> listed = <<>>

\* Rows that were arranged are shown in the same order after "Save order",
\* whatever was removed before or after they were dragged, unless a row is posted
\* whose removal was stored and not answered: FeaturedWork.find raises there.
SavedOrderIsShown ==
  [][arranged /\ ~UnderWay /\ ~overlapped /\ ToSet(listed) \cap lostRemovals = {} =>
       \A order \in SetToSeqs(featured) :
         SaveOrder(order) => listed' = listed]_featVars
=============================================================================
