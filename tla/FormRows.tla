------------------------------ MODULE FormRows -----------------------------
(***************************************************************************)
(* The forms with repeatable rows and what the server makes of them: the   *)
(* cards of a compound field (compound_metadata.js, CompoundFieldBehavior) *)
(* and the aliases of a work (redirects.js, RedirectsFieldBehavior).  The  *)
(* fields of a row are named by its index; a compound row is removed by a  *)
(* flag and hidden, an alias by taking its row out of the table.  A card   *)
(* has a field for a work or a url: what is typed or what a picker finds.  *)
(***************************************************************************)
EXTENDS Naturals, Sequences, FiniteSets, FiniteSetsExt, SequencesExt,
        Subsequences

CONSTANTS
  Contents,  \* what may be typed into a row
  NoContent, \* nothing
  Findable,  \* contents that the picker of a card finds: ids of works
  Titled,    \* those it shows by a title other than the id
  MaxIndex   \* bound: the index of a row

ASSUME ContentsAssumption ==
  /\ NoContent \notin Contents /\ MaxIndex \in Nat
  /\ Findable \subseteq Contents /\ Titled \subseteq Findable

VARIABLES
  aliases,   \* the form is that of the aliases, not of a compound field
  formRows,  \* the rows in the document
  nextIndex, \* the attribute data-next-index
  savedRows  \* what the work has

rowVars == <<aliases, formRows, nextIndex, savedRows>>

\* radio: the radio button of an alias is pressed; enabled: it can be.
\* chosen: what the picker of a card shows; hidden: the field that is posted is.
FormRow == [index : Nat, value : Contents \cup {NoContent}, destroyed : BOOLEAN,
            radio : BOOLEAN, enabled : BOOLEAN,
            chosen : Findable \cup {NoContent}, hidden : BOOLEAN]
SavedRow == [value : Contents, marked : BOOLEAN]

RowTypeOK ==
  /\ aliases \in BOOLEAN
  /\ formRows \in Seq(FormRow)
  /\ nextIndex \in Nat
  /\ savedRows \in Seq(SavedRow)

\* toggleUrlField, and work_selected in the view: the field is hidden for a work
\* that the picker shows by its title.
UrlHidden(v) == ~aliases /\ v \in Titled

\* The views: a row for each saved one, the button of the first marked pressed.
Rendered(saved) ==
  [i \in DOMAIN saved |->
     [index |-> i - 1, value |-> saved[i].value, destroyed |-> FALSE,
      radio |-> saved[i].marked /\ \A j \in 1 .. i - 1 : ~saved[j].marked,
      enabled |-> aliases,
      chosen |-> IF UrlHidden(saved[i].value) THEN saved[i].value ELSE NoContent,
      hidden |-> UrlHidden(saved[i].value)]]

RowInit ==
  /\ aliases \in BOOLEAN
  /\ savedRows = <<>>
  /\ formRows = Rendered(savedRows)
  /\ nextIndex = Len(savedRows)
-----------------------------------------------------------------------------
\* What is posted for an index: of rows with the same one, the last is heard.
Indices == {formRows[i].index : i \in DOMAIN formRows}

PostedRow(x) ==
  formRows[Max({i \in DOMAIN formRows : formRows[i].index = x})]

\* The index of the radio button that is posted: a disabled one is not.
PostedChoice ==
  {formRows[i].index : i \in {j \in DOMAIN formRows :
                                formRows[j].radio /\ formRows[j].enabled}}

\* Mutant: blank rows are kept.
PopulateBlanksToo ==
  LET kept == {x \in Indices : ~PostedRow(x).destroyed}
      keys == Ascending(kept)
  IN [k \in DOMAIN keys |-> [value  |-> PostedRow(keys[k]).value,
                             marked |-> keys[k] \in PostedChoice]]

\* The populators: rows in the order of their indices, without those that are
\* to be destroyed and those that are blank; an alias is marked by its index.
Populate ==
  LET kept == {x \in Indices : /\ ~PostedRow(x).destroyed
                               /\ PostedRow(x).value # NoContent}
      keys == Ascending(kept)
  IN [k \in DOMAIN keys |-> [value  |-> PostedRow(keys[k]).value,
                             marked |-> keys[k] \in PostedChoice]]

NewRow(x) == [index |-> x, value |-> NoContent, destroyed |-> FALSE,
              radio |-> FALSE, enabled |-> FALSE,
              chosen |-> NoContent, hidden |-> FALSE]

\* Mutant: a row is given the number of rows as its index.
InsertRowByCount ==
  /\ nextIndex < MaxIndex
  /\ formRows' = Append(formRows, NewRow(Len(formRows)))
  /\ nextIndex' = nextIndex + 1
  /\ UNCHANGED <<aliases, savedRows>>

\* An index is never used again.
InsertRow ==
  /\ nextIndex < MaxIndex
  /\ formRows' = Append(formRows, NewRow(nextIndex))
  /\ nextIndex' = nextIndex + 1
  /\ UNCHANGED <<aliases, savedRows>>

AddCard  == ~aliases /\ InsertRow
AddAlias == aliases /\ InsertRow

\* The text of a row changes; that of an alias decides whether its radio button
\* can be pressed.
EditRow(i, v) ==
  /\ ~formRows[i].destroyed /\ ~formRows[i].hidden
  /\ formRows' = [formRows EXCEPT ![i].value = v,
                                  ![i].enabled = aliases /\ v # NoContent]
  /\ UNCHANGED <<aliases, nextIndex, savedRows>>

\* The picker of a card changes (it does not when its own choice is made again,
\* whatever was typed since), or is cleared: the field takes its choice over.
PickWork(i, v) ==
  /\ ~aliases /\ ~formRows[i].destroyed
  /\ v # formRows[i].chosen
  /\ formRows' = [formRows EXCEPT ![i].value = v, ![i].chosen = v,
                                  ![i].hidden = UrlHidden(v)]
  /\ UNCHANGED <<aliases, nextIndex, savedRows>>

\* The radio button of a row, or (0) the one that stands for none of them.
PressRadio(i) ==
  /\ aliases
  /\ i \in {0} \cup {j \in DOMAIN formRows : formRows[j].enabled}
  /\ formRows' = [j \in DOMAIN formRows |->
                    [formRows[j] EXCEPT !.radio = (j = i)]]
  /\ UNCHANGED <<aliases, nextIndex, savedRows>>

RemoveCard(i) ==
  /\ ~aliases
  /\ ~formRows[i].destroyed
  /\ formRows' = [formRows EXCEPT ![i].destroyed = TRUE]
  /\ UNCHANGED <<aliases, nextIndex, savedRows>>

RemoveAlias(i) ==
  /\ aliases
  /\ formRows' = RemoveAt(formRows, i)
  /\ UNCHANGED <<aliases, nextIndex, savedRows>>

\* The form is posted, and comes back with what the populator made of it.
SubmitForm(ok) ==
  /\ formRows' = Rendered(Populate)
  /\ nextIndex' = Len(Populate)
  /\ savedRows' = IF ok THEN Populate ELSE savedRows
  /\ UNCHANGED aliases

RowNext ==
  \/ AddCard
  \/ AddAlias
  \/ \E i \in DOMAIN formRows, v \in Contents \cup {NoContent} : EditRow(i, v)
  \/ \E i \in DOMAIN formRows, v \in Findable \cup {NoContent} : PickWork(i, v)
  \/ \E i \in DOMAIN formRows \cup {0} : PressRadio(i)
  \/ \E i \in DOMAIN formRows : RemoveCard(i)
  \/ \E i \in DOMAIN formRows : RemoveAlias(i)
  \/ \E ok \in BOOLEAN : SubmitForm(ok)

RowSpec == RowInit /\ [][RowNext]_rowVars
-----------------------------------------------------------------------------
(* Properties.                                                             *)

\* What the reader sees of the rows: of a hidden field, what the picker shows.
ShownEntries ==
  TakeAt([i \in DOMAIN formRows |->
            [value  |-> IF formRows[i].hidden THEN formRows[i].chosen
                        ELSE formRows[i].value,
             marked |-> formRows[i].radio]],
         {i \in DOMAIN formRows : ~formRows[i].destroyed})

Shown == INSTANCE RowList WITH entries <- ShownEntries, stored <- savedRows

\* Indices, flags, pickers and buttons together are the list RowList describes:
\* rows are stored in the order they are seen, none is lost to another with its
\* index, a removed or blank one stays away, and the mark goes with its row.
FormIsRowList == Shown!ListSpec
=============================================================================
