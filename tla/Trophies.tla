------------------------------ MODULE Trophies ------------------------------
(***************************************************************************)
(* The stars that highlight works on their owner's profile                 *)
(* (app/assets/javascripts/hyrax/trophy.js, TrophiesController).  A press  *)
(* asks the server to toggle; what the answer did is guessed from the      *)
(* class of the link.  The profile itself lists the highlighted works and  *)
(* fades a row out; the other pages change the text of the link.           *)
(***************************************************************************)
EXTENDS Naturals, Sequences, FiniteSets, SequencesExt

CONSTANTS
  UserWorks,   \* of one user; the profile has stars of some
  NoStar,
  TrophyLimit, \* how many works a user may highlight
  MaxPresses   \* bound: requests under way

ASSUME TrophyAssumption ==
  IsFiniteSet(UserWorks) /\ NoStar \notin UserWorks /\ TrophyLimit \in Nat
ASSUME MaxPressesAssumption == MaxPresses \in Nat

VARIABLES
  onProfile,  \* the page is the profile (data-removerow)
  trophies,   \* the works that are highlighted
  starOn,     \* the links with class trophy-on
  starText,   \* the links that say "Unhighlight work"
  toggling,   \* the requests, each with what the server found, until it has acted
              \* on that
  gid,        \* the global: the work of the last answer, on the profile, which
              \* alone reads it
  fading,     \* rows that fade out
  starRows,   \* rows on the profile
  astray      \* history: works pressed while a press of theirs was under way, or
              \* while their row was fading; and works of which a toggle was
              \* stored and not answered

trophyVars == <<onProfile, trophies, starOn, starText, toggling, gid, fading,
                starRows, astray>>

Toggle == [work : UserWorks, at : {"sent", "found", "done", "failed"},
           had : BOOLEAN]

TrophyTypeOK ==
  /\ onProfile \in BOOLEAN
  /\ trophies \subseteq UserWorks
  /\ starOn \subseteq UserWorks /\ starText \subseteq UserWorks
  /\ toggling \in Seq(Toggle)
  /\ gid \in UserWorks \cup {NoStar}
  /\ fading \subseteq UserWorks /\ starRows \subseteq UserWorks
  /\ astray \subseteq UserWorks

\* display_trophy_link: the links show what is highlighted.
TrophyInit ==
  /\ onProfile \in BOOLEAN
  /\ trophies \in {w \in SUBSET UserWorks : Cardinality(w) <= TrophyLimit}
  /\ starOn = trophies
  /\ starText = trophies
  /\ toggling = <<>>
  /\ gid = NoStar
  /\ fading = {}
  /\ starRows = IF onProfile THEN trophies ELSE {}
  /\ astray = {}
-----------------------------------------------------------------------------
PressStar(w) ==
  /\ onProfile => w \in starRows
  /\ Len(toggling) < MaxPresses
  /\ toggling' = Append(toggling, [work |-> w, at |-> "sent", had |-> FALSE])
  /\ astray' = IF w \in fading \/ \E i \in DOMAIN toggling : toggling[i].work = w
               THEN astray \cup {w} ELSE astray
  /\ UNCHANGED <<onProfile, trophies, starOn, starText, gid, fading, starRows>>

\* TrophiesController#toggle_trophy looks for the trophy, then destroys the one
\* it found or creates one: two requests may look before either writes.
FindTrophy(i) ==
  /\ toggling[i].at = "sent"
  /\ toggling' = [toggling EXCEPT ![i].at = "found",
                                  ![i].had = toggling[i].work \in trophies]
  /\ UNCHANGED <<onProfile, trophies, starOn, starText, gid, fading, starRows,
                 astray>>

ToggledAs(i, at) ==
  toggling' = [toggling EXCEPT ![i].at = at, ![i].had = FALSE]

ToggleTrophy(i) ==
  LET w == toggling[i].work IN
  /\ toggling[i].at = "found"
  /\ IF toggling[i].had
     THEN /\ trophies' = trophies \ {w}
          /\ ToggledAs(i, "done")
     ELSE IF Cardinality(trophies) < TrophyLimit
     THEN /\ trophies' = trophies \cup {w}
          /\ ToggledAs(i, "done")
     ELSE /\ ToggledAs(i, "failed") \* save! raises
          /\ UNCHANGED trophies
  /\ UNCHANGED <<onProfile, starOn, starText, gid, fading, starRows, astray>>

\* The request fails, or its answer is lost when the trophy is already there or
\* gone: there is no error callback.
LoseToggle(i) ==
  /\ toggling[i].at # "failed"
  /\ ToggledAs(i, "failed")
  /\ astray' = IF toggling[i].at = "done"
               THEN astray \cup {toggling[i].work} ELSE astray
  /\ UNCHANGED <<onProfile, trophies, starOn, starText, gid, fading, starRows>>

SetText(w, on) == starText' = IF on THEN starText \cup {w} ELSE starText \ {w}

TrophyOff(w) ==
  IF onProfile
  THEN fading' = fading \cup {w} /\ UNCHANGED starText
  ELSE SetText(w, FALSE) /\ UNCHANGED fading

TrophyOn(w) == SetText(w, TRUE) /\ UNCHANGED fading

\* Mutant: the class is toggled by complete, whatever the answer.
AnswerToggleAlways(i) ==
  LET w == toggling[i].work IN
  /\ toggling[i].at \in {"done", "failed"}
  /\ toggling' = RemoveAt(toggling, i)
  /\ gid' = w
  /\ starOn' = IF w \in starOn THEN starOn \ {w} ELSE starOn \cup {w}
  /\ IF w \in starOn THEN TrophyOff(w) ELSE TrophyOn(w)
  /\ UNCHANGED <<onProfile, trophies, starRows, astray>>

\* The answer.  Only success has a callback: it toggles the class of the link,
\* and takes the link that was on for one that was turned off.
AnswerToggle(i) ==
  LET w == toggling[i].work IN
  /\ toggling[i].at \in {"done", "failed"}
  /\ toggling' = RemoveAt(toggling, i)
  /\ IF toggling[i].at = "failed"
     THEN UNCHANGED <<gid, starOn, starText, fading>>
     ELSE /\ gid' = IF onProfile THEN w ELSE gid
          /\ starOn' = IF w \in starOn THEN starOn \ {w} ELSE starOn \cup {w}
          /\ IF w \in starOn THEN TrophyOff(w) ELSE TrophyOn(w)
  /\ UNCHANGED <<onProfile, trophies, starRows, astray>>

\* fadeOut has hidden the row; its callback removes the row of the global, which
\* by then may be another.
FadeEnd(w) ==
  /\ w \in fading
  /\ fading' = fading \ {w}
  /\ starRows' = starRows \ {w, gid}
  /\ UNCHANGED <<onProfile, trophies, starOn, starText, toggling, gid, astray>>

TrophyNext ==
  \/ \E w \in UserWorks : PressStar(w)
  \/ \E i \in DOMAIN toggling : FindTrophy(i)
  \/ \E i \in DOMAIN toggling : ToggleTrophy(i)
  \/ \E i \in DOMAIN toggling : LoseToggle(i)
  \/ \E i \in DOMAIN toggling : AnswerToggle(i)
  \/ \E w \in UserWorks : FadeEnd(w)

TrophySpec == TrophyInit /\ [][TrophyNext]_trophyVars
-----------------------------------------------------------------------------
(* Properties.                                                             *)

Settled(w) ==
  /\ w \notin astray \cup fading
  /\ \A i \in DOMAIN toggling : toggling[i].work # w

\* Although the page guesses what a toggle did: once a work rests that was never
\* pressed twice at a time, its star and its row show whether it is highlighted,
\* whichever row the global named while others faded.  A work is excepted once an
\* answer about it was lost after its trophy was stored or destroyed.
StarsFollowTrophies ==
  \A w \in UserWorks : Settled(w) =>
    /\ w \in starOn <=> w \in trophies
    /\ onProfile => (w \in starRows <=> w \in trophies)
    /\ ~onProfile => (w \in starText <=> w \in trophies)
=============================================================================
