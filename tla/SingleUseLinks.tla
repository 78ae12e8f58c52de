--------------------------- MODULE SingleUseLinks --------------------------
(***************************************************************************)
(* The table of the single use links of a file set or work                 *)
(* (app/assets/javascripts/hyrax/single_use_links_manager.js,              *)
(* SingleUseLinksController).  A link is created by a POST, whose callback *)
(* asks for the rows again; a row is removed when its link is asked to be  *)
(* deleted, whatever comes of that.                                        *)
(***************************************************************************)
EXTENDS Naturals, Sequences, FiniteSets, SequencesExt

CONSTANTS
  Links,      \* the links that may come to exist
  MaxRequests \* bound: POSTs, and GETs, under way

ASSUME LinksAssumption == IsFiniteSet(Links) /\ MaxRequests \in Nat

VARIABLES
  links,      \* the links that exist
  unused,     \* those not created yet
  linkRows,   \* the rows of the table
  creating,   \* POSTs the server has not handled
  created,    \* answers to POSTs under way
  listing,    \* the GETs: whether the server has read the links, and which
  deleting,   \* the DELETEs the server has not handled
  visited,    \* history: links used up, or made, by a visitor
  undeleted,  \* history: links whose DELETE failed
  crossing,   \* history: links whose deletion crossed a GET
  overtaken,  \* history: an older GET was answered after a newer one
  unlisted    \* history: links of which the news was lost, with the answer to a
              \* POST or a GET, and no reload was sent since

linkVars == <<links, unused, linkRows, creating, created, listing, deleting,
              visited, undeleted, crossing, overtaken, unlisted>>

Listing == [read : BOOLEAN, seen : SUBSET Links]

LinkTypeOK ==
  /\ links \subseteq Links /\ unused \subseteq Links
  /\ linkRows \subseteq Links
  /\ creating \in Nat /\ created \in Nat
  /\ listing \in Seq(Listing)
  /\ {deleting, visited, undeleted, crossing, unlisted} \subseteq SUBSET Links
  /\ overtaken \in BOOLEAN

LinkInit ==
  /\ links = {}
  /\ unused = Links
  /\ linkRows = links
  /\ creating = 0 /\ created = 0
  /\ listing = <<>>
  /\ deleting = {}
  /\ visited = {} /\ undeleted = {} /\ crossing = {}
  /\ unlisted = {}
  /\ overtaken = FALSE
-----------------------------------------------------------------------------
GenerateLink ==
  /\ creating + created < MaxRequests
  /\ creating' = creating + 1
  /\ UNCHANGED <<links, unused, linkRows, created, listing, deleting, visited,
                 undeleted, crossing, overtaken, unlisted>>

HandleCreate(l) ==
  /\ creating > 0
  /\ l \in unused
  /\ creating' = creating - 1
  /\ created' = created + 1
  /\ links' = links \cup {l}
  /\ unused' = unused \ {l}
  /\ UNCHANGED <<linkRows, listing, deleting, visited, undeleted, crossing,
                 overtaken, unlisted>>

FailCreate ==
  /\ creating > 0
  /\ creating' = creating - 1
  /\ UNCHANGED <<links, unused, linkRows, created, listing, deleting, visited,
                 undeleted, crossing, overtaken, unlisted>>

ReloadTable == listing' = Append(listing, [read |-> FALSE, seen |-> {}])

\* Mutant: the table is reloaded only when no reload is under way.
AnswerCreateOnce ==
  /\ created > 0
  /\ Len(listing) < MaxRequests
  /\ created' = created - 1
  /\ IF listing = <<>> THEN ReloadTable ELSE UNCHANGED listing
  /\ unlisted' = {}
  /\ UNCHANGED <<links, unused, linkRows, creating, deleting, visited,
                 undeleted, crossing, overtaken>>

\* done of the POST: reload_table.
AnswerCreate ==
  /\ created > 0
  /\ Len(listing) < MaxRequests
  /\ created' = created - 1
  /\ ReloadTable
  /\ unlisted' = {}
  /\ UNCHANGED <<links, unused, linkRows, creating, deleting, visited,
                 undeleted, crossing, overtaken>>

\* The links that exist and that the table will not show when the reloads under
\* way are answered.
Unshown(reloads) ==
  IF reloads = <<>> THEN links \ linkRows
  ELSE IF Last(reloads).read THEN links \ Last(reloads).seen ELSE {}

\* The answer is lost when the link is there already: neither $.post nor $.get
\* has a fail callback.
LoseCreateAnswer ==
  /\ created > 0
  /\ created' = created - 1
  /\ unlisted' = unlisted \cup Unshown(listing)
  /\ UNCHANGED <<links, unused, linkRows, creating, listing, deleting, visited,
                 undeleted, crossing, overtaken>>

\* A reload fails, and the table stays as it is.
FailList(i) ==
  /\ listing' = RemoveAt(listing, i)
  /\ unlisted' = unlisted \cup Unshown(listing')
  /\ UNCHANGED <<links, unused, linkRows, creating, created, deleting, visited,
                 undeleted, crossing, overtaken>>

ReadLinks(i) ==
  /\ ~listing[i].read
  /\ listing' = [listing EXCEPT ![i] = [read |-> TRUE, seen |-> links]]
  /\ crossing' = crossing \cup deleting
  /\ UNCHANGED <<links, unused, linkRows, creating, created, deleting, visited,
                 undeleted, overtaken, unlisted>>

\* done of the GET: its rows replace those of the table.
AnswerList(i) ==
  /\ listing[i].read
  /\ linkRows' = listing[i].seen
  /\ listing' = RemoveAt(listing, i)
  /\ overtaken' = (overtaken \/ i > 1)
  /\ UNCHANGED <<links, unused, creating, created, deleting, visited, undeleted,
                 crossing, unlisted>>

\* delete_link: the row goes with the click ("done: ...remove()" is evaluated).
DeleteLink(l) ==
  /\ l \in linkRows
  /\ linkRows' = linkRows \ {l}
  /\ deleting' = deleting \cup {l}
  /\ crossing' = IF listing # <<>> THEN crossing \cup {l} ELSE crossing
  /\ UNCHANGED <<links, unused, creating, created, listing, visited, undeleted,
                 overtaken, unlisted>>

HandleDelete(l) ==
  /\ l \in deleting
  /\ deleting' = deleting \ {l}
  /\ links' = links \ {l}
  /\ UNCHANGED <<unused, linkRows, creating, created, listing, visited,
                 undeleted, crossing, overtaken, unlisted>>

FailDelete(l) ==
  /\ l \in deleting
  /\ deleting' = deleting \ {l}
  /\ undeleted' = undeleted \cup {l}
  /\ UNCHANGED <<links, unused, linkRows, creating, created, listing, visited,
                 crossing, overtaken, unlisted>>

\* Someone follows a link, which is destroyed by that; one that shows a file
\* set makes another, to download it.
VisitLink(l, made) ==
  /\ l \in links
  /\ made \subseteq unused /\ Cardinality(made) <= 1
  /\ links' = (links \ {l}) \cup made
  /\ unused' = unused \ made
  /\ visited' = visited \cup {l} \cup made
  /\ UNCHANGED <<linkRows, creating, created, listing, deleting, undeleted,
                 crossing, overtaken, unlisted>>

LinkNext ==
  \/ GenerateLink
  \/ \E l \in Links : HandleCreate(l)
  \/ FailCreate
  \/ AnswerCreate
  \/ LoseCreateAnswer
  \/ \E i \in DOMAIN listing : ReadLinks(i)
  \/ \E i \in DOMAIN listing : AnswerList(i)
  \/ \E i \in DOMAIN listing : FailList(i)
  \/ \E l \in Links : DeleteLink(l)
  \/ \E l \in Links : HandleDelete(l)
  \/ \E l \in Links : FailDelete(l)
  \/ \E l \in Links, made \in SUBSET unused : VisitLink(l, made)

LinkSpec == LinkInit /\ [][LinkNext]_linkVars
-----------------------------------------------------------------------------
(* Properties.                                                             *)

AtRest == created = 0 /\ listing = <<>> /\ deleting = {}

\* When the answers have come, no link exists that the table hides, unless its
\* deletion failed, a visit made it, or the news of it was lost, with the answer
\* to a POST or to a reload, and nothing was reloaded since; and no row is left of
\* a link that is gone, unless a visitor used it or its deletion crossed a reload.
\* It takes reloads answered in the order they were sent, which nothing provides
\* for.
TableFollowsLinks ==
  AtRest /\ ~overtaken =>
    /\ links \ linkRows \subseteq undeleted \cup visited \cup unlisted
    /\ linkRows \ links \subseteq visited \cup crossing
=============================================================================
