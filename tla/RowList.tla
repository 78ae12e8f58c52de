------------------------------ MODULE RowList ------------------------------
(***************************************************************************)
(* What a form with repeatable rows promises: the rows the reader sees are *)
(* a list; what is stored is that list without its blank entries, in its   *)
(* order, and the entry marked is the one whose button was pressed last.   *)
(***************************************************************************)
EXTENDS Naturals, Sequences, SequencesExt, Subsequences

CONSTANTS
  Contents, \* what a row may hold
  NoContent \* a blank row

VARIABLES
  entries, \* the rows on the screen
  stored   \* what was saved last

listVars == <<entries, stored>>

Entry == [value : Contents \cup {NoContent}, marked : BOOLEAN]

\* Blank entries are not stored.
Stored(list) ==
  TakeAt(list, {k \in DOMAIN list : list[k].value # NoContent})

ListInit ==
  /\ stored \in Seq(Entry)
  /\ entries = stored

Add == entries' = Append(entries, [value |-> NoContent, marked |-> FALSE])
       /\ UNCHANGED stored

Fill(k, v) == entries' = [entries EXCEPT ![k].value = v] /\ UNCHANGED stored

Mark(k) ==
  /\ entries' = [i \in DOMAIN entries |->
                   [value |-> entries[i].value, marked |-> i = k]]
  /\ UNCHANGED stored

Delete(k) == entries' = RemoveAt(entries, k) /\ UNCHANGED stored

\* Saved, or shown again because of an error elsewhere in the form.
Submit(ok) ==
  /\ entries' = Stored(entries)
  /\ stored' = IF ok THEN entries' ELSE stored

ListNext ==
  \/ Add
  \/ \E k \in DOMAIN entries, v \in Contents \cup {NoContent} : Fill(k, v)
  \/ \E k \in DOMAIN entries \cup {0} : Mark(k)
  \/ \E k \in DOMAIN entries : Delete(k)
  \/ \E ok \in BOOLEAN : Submit(ok)

ListSpec == ListInit /\ [][ListNext]_listVars
=============================================================================
