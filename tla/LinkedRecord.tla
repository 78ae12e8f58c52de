---------------------------- MODULE LinkedRecord ---------------------------
(***************************************************************************)
(* A field that picks a record of another source, with a form to create    *)
(* one where the search finds none (the linked_record part of              *)
(* app/assets/javascripts/hyrax/compound_metadata.js), for a source that   *)
(* offers a check for similar records: a press of "Create" checks the name *)
(* first and warns; the next press creates.                                *)
(***************************************************************************)
EXTENDS Naturals, Sequences, FiniteSets, SequencesExt

CONSTANTS
  Names,       \* what may be typed as the name of a record
  Blank,       \* nothing
  Existing,    \* the names that are similar to those of existing records
  MaxCalls     \* bound: requests under way

ASSUME NamesAssumption ==
  Blank \notin Names /\ Existing \subseteq Names /\ MaxCalls \in Nat

VARIABLES
  formOpen,   \* the create form is shown
  name,       \* its first field
  lastTerm,   \* what was searched for last
  createConfirmed, \* the latch
  panel,      \* the panel with the similar records is shown
  calls,      \* requests under way: checks and POSTs
  similar,    \* the names that are similar to those of existing records
  picked,     \* the name of the record in the picker, Blank for none
  warned,     \* history: the name the panel was last shown for
  silent,     \* history: a similar record was created without a warning
  crossed     \* history: during a check the name was changed or the form closed,
              \* during a check or a POST "Create" was pressed, or a check failed

recordVars == <<formOpen, name, lastTerm, createConfirmed, panel, calls,
                similar, picked, warned, silent, crossed>>

Entered == Names \cup {Blank}

Call == [kind : {"check", "create"}, name : Entered,
         at : {"sent", "yes", "no"}]

RecordTypeOK ==
  /\ {formOpen, createConfirmed, panel, silent, crossed} \subseteq BOOLEAN
  /\ {name, lastTerm, picked} \subseteq Entered
  /\ calls \in Seq(Call)
  /\ similar \subseteq Names /\ warned \in Entered

RecordInit ==
  /\ formOpen = FALSE
  /\ name = Blank /\ lastTerm = Blank /\ picked = Blank
  /\ createConfirmed = FALSE
  /\ panel = FALSE
  /\ calls = <<>>
  /\ similar = Existing
  /\ warned = Blank
  /\ silent = FALSE
  /\ crossed = FALSE

Checking == \E i \in DOMAIN calls : calls[i].kind = "check"
-----------------------------------------------------------------------------
\* toggleAddNew: a search for a term had results, or none.
SearchRecords(term) ==
  /\ lastTerm' = term
  /\ UNCHANGED <<formOpen, name, createConfirmed, panel, calls, similar, picked,
                 warned, silent, crossed>>

OpenCreateForm ==
  /\ formOpen' = TRUE
  /\ name' = IF name = Blank THEN lastTerm ELSE name
  /\ UNCHANGED <<lastTerm, createConfirmed, panel, calls, similar, picked,
                 warned, silent, crossed>>

\* closeCreateForm leaves the fields as they are.
CloseCreateForm ==
  /\ formOpen' = FALSE
  /\ panel' = FALSE
  /\ createConfirmed' = FALSE

\* The input listener: a change of the name, or of another field.
EditField(n) ==
  /\ formOpen
  /\ name' = n
  /\ IF createConfirmed
     THEN createConfirmed' = FALSE /\ panel' = FALSE
     ELSE UNCHANGED <<createConfirmed, panel>>
  /\ crossed' = (crossed \/ (Checking /\ n # name))
  /\ UNCHANGED <<formOpen, lastTerm, calls, similar, picked, warned, silent>>

\* What the form holds when the request is sent; the other fields are left out.
CollectCreateRecord == [kind |-> "create", name |-> name, at |-> "sent"]

PostCreate(others) ==
  /\ calls' = Append(others, CollectCreateRecord)
  /\ silent' = (silent \/ (name \in similar /\ ~(createConfirmed /\ warned = name)))

\* Mutant: the latch is not looked at, nor is the source asked.
SubmitCreateFormUnchecked ==
  /\ formOpen
  /\ Len(calls) < MaxCalls
  /\ PostCreate(calls)
  /\ crossed' = (crossed \/ Checking)
  /\ UNCHANGED <<formOpen, name, lastTerm, createConfirmed, panel, similar,
                 picked, warned>>

\* A nameless record is not checked.
CheckSimilarThenCreate ==
  IF name = Blank
  THEN PostCreate(calls)
  ELSE /\ calls' = Append(calls, [kind |-> "check", name |-> name, at |-> "sent"])
       /\ UNCHANGED silent

SubmitCreateForm ==
  /\ formOpen
  /\ Len(calls) < MaxCalls
  /\ IF createConfirmed THEN PostCreate(calls) ELSE CheckSimilarThenCreate
  /\ crossed' = (crossed \/ calls # <<>>)
  /\ UNCHANGED <<formOpen, name, lastTerm, createConfirmed, panel, similar,
                 picked, warned>>

\* The source: does it know similar records?
HandleCheck(i) ==
  /\ calls[i].kind = "check" /\ calls[i].at = "sent"
  /\ calls' = [calls EXCEPT ![i].at = IF calls[i].name \in similar
                                      THEN "yes" ELSE "no"]
  /\ UNCHANGED <<formOpen, name, lastTerm, createConfirmed, panel, similar,
                 picked, warned, silent, crossed>>

ShowSimilar(checked) ==
  /\ panel' = TRUE
  /\ createConfirmed' = TRUE
  /\ warned' = checked

\* The answer to a check: showSimilar, or on to the POST of what the form holds
\* by now.  A check that failed counts as one that found nothing.
AnswerCheck(i) ==
  /\ calls[i].kind = "check"
  /\ crossed' = (crossed \/ calls[i].at = "sent")
  /\ IF calls[i].at = "yes"
     THEN /\ ShowSimilar(calls[i].name)
          /\ calls' = RemoveAt(calls, i)
          /\ UNCHANGED silent
     ELSE /\ PostCreate(RemoveAt(calls, i))
          /\ UNCHANGED <<panel, createConfirmed, warned>>
  /\ UNCHANGED <<formOpen, name, lastTerm, similar, picked>>

\* The source creates the record, or refuses it.
HandleCreateRecord(i, ok) ==
  /\ calls[i].kind = "create" /\ calls[i].at = "sent"
  /\ calls' = [calls EXCEPT ![i].at = IF ok THEN "yes" ELSE "no"]
  /\ similar' = IF ok THEN similar \cup ({calls[i].name} \ {Blank}) ELSE similar
  /\ UNCHANGED <<formOpen, name, lastTerm, createConfirmed, panel, picked,
                 warned, silent, crossed>>

\* selectRecord, then closeCreateForm, which clears the latch as well.
SelectRecord(n) == picked' = n /\ CloseCreateForm

\* The answer to a POST: the new record is picked and the form closed, or
\* showError.  A lost answer is an error.
AnswerCreateRecord(i, lost) ==
  /\ calls[i].kind = "create"
  /\ calls[i].at = "sent" => lost
  /\ calls' = RemoveAt(calls, i)
  /\ IF calls[i].at = "yes" /\ ~lost
     THEN SelectRecord(calls[i].name)
     ELSE UNCHANGED <<picked, formOpen, panel, createConfirmed>>
  /\ crossed' = (crossed \/ Checking)
  /\ UNCHANGED <<name, lastTerm, similar, warned, silent>>

\* "Use this" on one of the similar records.
UseSimilar(n) ==
  /\ formOpen /\ panel
  /\ n \in similar
  /\ SelectRecord(n)
  /\ crossed' = (crossed \/ Checking)
  /\ UNCHANGED <<name, lastTerm, calls, similar, warned, silent>>

CancelCreate ==
  /\ formOpen
  /\ CloseCreateForm
  /\ crossed' = (crossed \/ Checking)
  /\ UNCHANGED <<name, lastTerm, calls, similar, picked, warned, silent>>

RecordNext ==
  \/ \E term \in Entered : SearchRecords(term)
  \/ OpenCreateForm
  \/ \E n \in Entered : EditField(n)
  \/ SubmitCreateForm
  \/ \E i \in DOMAIN calls : HandleCheck(i)
  \/ \E i \in DOMAIN calls : AnswerCheck(i)
  \/ \E i \in DOMAIN calls, ok \in BOOLEAN : HandleCreateRecord(i, ok)
  \/ \E i \in DOMAIN calls, lost \in BOOLEAN : AnswerCreateRecord(i, lost)
  \/ \E n \in Names : UseSimilar(n)
  \/ CancelCreate

RecordSpec == RecordInit /\ [][RecordNext]_recordVars
-----------------------------------------------------------------------------
(* Properties.                                                             *)

\* A record that is similar to an existing one is created only under a warning
\* for that very name, however the form was edited, closed, refused and opened again:
\* unless a check failed, or the form was used while one was under way, whose
\* answer then speaks of another name than the one that is posted, or "Create" was
\* pressed again during a POST, whose record the second check may find or miss.
NoSilentDuplicate == silent => crossed
=============================================================================
