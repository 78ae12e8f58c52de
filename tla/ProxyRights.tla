---------------------------- MODULE ProxyRights ----------------------------
(***************************************************************************)
(* The page on which a user names the proxies who may deposit for them     *)
(* (app/assets/javascripts/hyrax/proxy_rights.js, DepositorsController).   *)
(* A row is added by the answer that grants the right, and removed by the  *)
(* click that revokes it, before any answer.                               *)
(***************************************************************************)
EXTENDS Naturals, Sequences, FiniteSets, SequencesExt

CONSTANTS
  Users,   \* who can be chosen, the user of the page (the grantor) included
  Grantor,
  MaxAdds  \* bound: rows of a user and requests about them

ASSUME UsersAssumption ==
  IsFiniteSet(Users) /\ Grantor \in Users /\ MaxAdds \in Nat

VARIABLES
  proxies,    \* the grantees
  proxyRows,  \* proxyRows[u]: the rows of u
  adding,     \* the requests to grant, and how far they are
  revoking,   \* revoking[u]: the requests to revoke under way
  denyShown,  \* the modal that says that the user cannot be added
  doubled,    \* history: users added while a request to add them was under way
  unanswered, \* history: users whose grant was not answered
  unrevoked   \* history: users whose revocation failed

proxyVars == <<proxies, proxyRows, adding, revoking, denyShown, doubled,
               unanswered, unrevoked>>

Adding == [user : Users,
           at : {"sent", "new", "granted", "present", "denied", "lost"}]

ProxyTypeOK ==
  /\ proxies \subseteq Users
  /\ proxyRows \in [Users -> Nat]
  /\ adding \in Seq(Adding)
  /\ revoking \in [Users -> Nat]
  /\ denyShown \in BOOLEAN
  /\ {doubled, unanswered, unrevoked} \subseteq SUBSET Users

ProxyInit ==
  /\ proxies \in SUBSET (Users \ {Grantor})
  /\ proxyRows = [u \in Users |-> IF u \in proxies THEN 1 ELSE 0]
  /\ adding = <<>>
  /\ revoking = [u \in Users |-> 0]
  /\ denyShown = FALSE
  /\ doubled = {} /\ unanswered = {} /\ unrevoked = {}
-----------------------------------------------------------------------------
AboutUser(u) == Cardinality({i \in DOMAIN adding : adding[i].user = u})
                + proxyRows[u] + revoking[u]

\* A user is chosen in the search field: addContributor.
AddContributor(u) ==
  /\ ~denyShown
  /\ AboutUser(u) < MaxAdds
  /\ adding' = Append(adding, [user |-> u, at |-> "sent"])
  /\ doubled' = IF \E i \in DOMAIN adding : adding[i].user = u
                THEN doubled \cup {u} ELSE doubled
  /\ UNCHANGED <<proxies, proxyRows, revoking, denyShown, unanswered, unrevoked>>

\* DepositorsController#create looks whether there is something to grant ...
LookUpProxy(i) ==
  LET u == adding[i].user IN
  /\ adding[i].at = "sent"
  /\ adding' = [adding EXCEPT ![i].at = IF u = Grantor THEN "denied"
                                        ELSE IF u \in proxies THEN "present"
                                        ELSE "new"]
  /\ UNCHANGED <<proxies, proxyRows, revoking, denyShown, doubled, unanswered,
                 unrevoked>>

\* ... and grants it.
GrantProxy(i) ==
  /\ adding[i].at = "new"
  /\ proxies' = proxies \cup {adding[i].user}
  /\ adding' = [adding EXCEPT ![i].at = "granted"]
  /\ UNCHANGED <<proxyRows, revoking, denyShown, doubled, unanswered, unrevoked>>

\* The connection fails, before the server has the request or after.
LoseAdd(i) ==
  /\ adding[i].at \in {"sent", "granted"}
  /\ unanswered' = IF adding[i].at = "granted"
                   THEN unanswered \cup {adding[i].user} ELSE unanswered
  /\ adding' = [adding EXCEPT ![i].at = "lost"]
  /\ UNCHANGED <<proxies, proxyRows, revoking, denyShown, doubled, unrevoked>>

AppendRow(u) == proxyRows' = [proxyRows EXCEPT ![u] = @ + 1]

\* Mutant: every success adds a row.
AnswerAddAlways(i) ==
  LET u == adding[i].user IN
  /\ adding[i].at \in {"granted", "present", "denied", "lost"}
  /\ adding' = RemoveAt(adding, i)
  /\ IF adding[i].at \in {"granted", "present"} THEN AppendRow(u)
                                               ELSE UNCHANGED proxyRows
  /\ denyShown' = (denyShown \/ adding[i].at = "denied")
  /\ UNCHANGED <<proxies, revoking, doubled, unanswered, unrevoked>>

\* success appends a row if the answer has a name (there is none when the right
\* was there already); error shows the modal if the answer says something.
AnswerAdd(i) ==
  LET u == adding[i].user IN
  /\ adding[i].at \in {"granted", "present", "denied", "lost"}
  /\ adding' = RemoveAt(adding, i)
  /\ IF adding[i].at = "granted" THEN AppendRow(u) ELSE UNCHANGED proxyRows
  /\ denyShown' = (denyShown \/ adding[i].at = "denied")
  /\ UNCHANGED <<proxies, revoking, doubled, unanswered, unrevoked>>

CloseDeny ==
  /\ denyShown
  /\ denyShown' = FALSE
  /\ UNCHANGED <<proxies, proxyRows, adding, revoking, doubled, unanswered,
                 unrevoked>>

\* removeContributor: the row goes at once.
RemoveContributor(u) ==
  /\ ~denyShown
  /\ proxyRows[u] > 0
  /\ proxyRows' = [proxyRows EXCEPT ![u] = @ - 1]
  /\ revoking' = [revoking EXCEPT ![u] = @ + 1]
  /\ UNCHANGED <<proxies, adding, denyShown, doubled, unanswered, unrevoked>>

RevokeProxy(u) ==
  /\ revoking[u] > 0
  /\ revoking' = [revoking EXCEPT ![u] = @ - 1]
  /\ proxies' = proxies \ {u}
  /\ UNCHANGED <<proxyRows, adding, denyShown, doubled, unanswered, unrevoked>>

FailRevoke(u) ==
  /\ revoking[u] > 0
  /\ revoking' = [revoking EXCEPT ![u] = @ - 1]
  /\ unrevoked' = unrevoked \cup {u}
  /\ UNCHANGED <<proxies, proxyRows, adding, denyShown, doubled, unanswered>>

ProxyNext ==
  \/ \E u \in Users : AddContributor(u)
  \/ \E i \in DOMAIN adding : LookUpProxy(i)
  \/ \E i \in DOMAIN adding : GrantProxy(i)
  \/ \E i \in DOMAIN adding : LoseAdd(i)
  \/ \E i \in DOMAIN adding : AnswerAdd(i)
  \/ CloseDeny
  \/ \E u \in Users : RemoveContributor(u)
  \/ \E u \in Users : RevokeProxy(u)
  \/ \E u \in Users : FailRevoke(u)

ProxySpec == ProxyInit /\ [][ProxyNext]_proxyVars
-----------------------------------------------------------------------------
(* Properties.                                                             *)

\* Although a row goes before its right and another request may be looking for
\* that right: once the requests for a user have ended, the page has one row for
\* each proxy and none besides, except for users added twice at a time and those
\* of whom an answer failed.
RowsAreProxies ==
  \A u \in Users \ (doubled \cup unanswered \cup unrevoked) :
    revoking[u] = 0 /\ (\A i \in DOMAIN adding : adding[i].user # u)
      => proxyRows[u] = IF u \in proxies THEN 1 ELSE 0
=============================================================================
