--------------------------- MODULE FeatureLinks ----------------------------
(***************************************************************************)
(* The links "Feature" and "Unfeature" on the page of a work               *)
(* (app/assets/javascripts/hyrax/featured_works.js, the view               *)
(* base/_show_actions, FeaturedWorksController).  One is hidden; an answer *)
(* hides the link the global names and shows the other one.  Nothing keeps *)
(* a work from having two FeaturedWork rows.                               *)
(***************************************************************************)
EXTENDS Naturals, Sequences, SequencesExt

CONSTANTS
  FeatureLimit, \* FeaturedWork.feature_limit
  MaxFeatCalls  \* bound: requests under way, and rows of the work

ASSUME FeatureLimitAssumption == FeatureLimit \in Nat /\ MaxFeatCalls \in Nat

VARIABLES
  others,      \* the rows of other works
  copies,      \* the rows of this work
  linksShown,  \* the links that are not hidden
  lastLink,    \* the global anchor
  featCalls,   \* the requests under way
  entangled    \* history: a link was pressed while a request was under way, or
               \* the answer of one that was handled did not arrive

linksVars == <<others, copies, linksShown, lastLink, featCalls, entangled>>

Feature   == "feature"
Unfeature == "unfeature"
FeatCall  == [link : {Feature, Unfeature}, at : {"sent", "ok", "refused", "failed"}]

LinksTypeOK ==
  /\ others \in 0 .. FeatureLimit /\ copies \in Nat
  /\ linksShown \subseteq {Feature, Unfeature}
  /\ lastLink \in {Feature, Unfeature, "none"}
  /\ featCalls \in Seq(FeatCall)
  /\ entangled \in BOOLEAN

\* display_feature_link? and display_unfeature_link?
LinksInit ==
  /\ others \in 0 .. FeatureLimit
  /\ copies \in 0 .. IF others < FeatureLimit THEN 1 ELSE 0
  /\ linksShown = (IF copies = 0 /\ others < FeatureLimit THEN {Feature} ELSE {})
                  \cup (IF copies > 0 THEN {Unfeature} ELSE {})
  /\ lastLink = "none"
  /\ featCalls = <<>>
  /\ entangled = FALSE
-----------------------------------------------------------------------------
\* The click handler of a link that is shown; there is no question on this page.
PressLink(link) ==
  /\ link \in linksShown
  /\ Len(featCalls) + copies < MaxFeatCalls
  /\ lastLink' = link
  /\ featCalls' = Append(featCalls, [link |-> link, at |-> "sent"])
  /\ entangled' = (entangled \/ featCalls # <<>>)
  /\ UNCHANGED <<others, copies, linksShown>>

HandledAs(i, at) == featCalls' = [featCalls EXCEPT ![i].at = at]

\* FeaturedWorksController#create: saved if the rows are below the limit.
HandleFeature(i) ==
  /\ featCalls[i] = [link |-> Feature, at |-> "sent"]
  /\ IF others + copies < FeatureLimit
     THEN copies' = copies + 1 /\ HandledAs(i, "ok")
     ELSE UNCHANGED copies /\ HandledAs(i, "refused")
  /\ UNCHANGED <<others, linksShown, lastLink, entangled>>

\* destroy takes one row, and answers alike when there is none.
HandleUnfeatureLink(i) ==
  /\ featCalls[i] = [link |-> Unfeature, at |-> "sent"]
  /\ copies' = IF copies > 0 THEN copies - 1 ELSE 0
  /\ HandledAs(i, "ok")
  /\ UNCHANGED <<others, linksShown, lastLink, entangled>>

\* Someone else features another work, or removes one.
OthersChange(n) ==
  /\ n \in 0 .. FeatureLimit /\ n + copies <= FeatureLimit
  /\ others' = n
  /\ UNCHANGED <<copies, linksShown, lastLink, featCalls, entangled>>

LoseFeatCall(i) ==
  /\ featCalls[i].at \in {"sent", "ok"}
  /\ entangled' = (entangled \/ featCalls[i].at = "ok")
  /\ HandledAs(i, "failed")
  /\ UNCHANGED <<others, copies, linksShown, lastLink>>

\* Mutant: complete instead of success.
AnswerLinkAlways(i) ==
  /\ featCalls[i].at # "sent"
  /\ featCalls' = RemoveAt(featCalls, i)
  /\ linksShown' = (linksShown \ {lastLink})
                   \cup ({Feature, Unfeature} \ {featCalls[i].link})
  /\ UNCHANGED <<others, copies, lastLink, entangled>>

\* success hides the link of the global and shows the other one than was asked
\* for; nothing is done for a refusal or a failure.
AnswerLink(i) ==
  /\ featCalls[i].at # "sent"
  /\ featCalls' = RemoveAt(featCalls, i)
  /\ linksShown' = IF featCalls[i].at = "ok"
                   THEN (linksShown \ {lastLink})
                        \cup ({Feature, Unfeature} \ {featCalls[i].link})
                   ELSE linksShown
  /\ UNCHANGED <<others, copies, lastLink, entangled>>

LinksNext ==
  \/ \E link \in {Feature, Unfeature} : PressLink(link)
  \/ \E i \in DOMAIN featCalls : HandleFeature(i)
  \/ \E i \in DOMAIN featCalls : HandleUnfeatureLink(i)
  \/ \E n \in 0 .. FeatureLimit : OthersChange(n)
  \/ \E i \in DOMAIN featCalls : LoseFeatCall(i)
  \/ \E i \in DOMAIN featCalls : AnswerLink(i)

LinksSpec == LinksInit /\ [][LinksNext]_linksVars
-----------------------------------------------------------------------------
(* Properties.                                                             *)

\* Although the page learns nothing but that a request succeeded: when none is
\* under way, a featured work has one row and shows "Unfeature" alone, any other
\* shows at most "Feature".  It takes that no link was pressed while a request
\* was under way (two presses of "Feature" make two rows, of which "Unfeature"
\* removes one), and that no answer was lost.
LinksFollowRows ==
  ~entangled /\ featCalls = <<>> =>
    IF copies > 0 THEN copies = 1 /\ linksShown = {Unfeature}
                  ELSE linksShown \subseteq {Feature}
=============================================================================
