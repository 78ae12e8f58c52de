----------------------------- MODULE BatchEdit -----------------------------
(***************************************************************************)
(* The page that edits a batch of works field by field                     *)
(* (app/assets/javascripts/hyrax/batch_edit.js).  Every field is a form    *)
(* with a save button; ajaxManager queues the saves and has one request at *)
(* a time in flight.  What piles up behind it is combined into one.        *)
(*                                                                         *)
(* The value of a field is the number of the save that sent it: 0 is none, *)
(* Torn what is left of a value with an "=" in it when it was parsed and   *)
(* encoded again.                                                          *)
(***************************************************************************)
EXTENDS Naturals, Sequences, FiniteSets

CONSTANTS
  Forms,      \* the forms of the page
  Matching,   \* those whose data-model is the first 12 characters of the
              \* names of their fields: the test combine_requests makes
  BoundTwice, \* those whose button has runSave bound to it twice
  WithEquals, \* those whose value contains an "="
  MaxSaves    \* bound: presses of one button

ASSUME FormsAssumption ==
  /\ Matching \subseteq Forms
  /\ BoundTwice \subseteq Forms \ Matching
  /\ WithEquals \subseteq Forms
ASSUME MaxSavesAssumption == MaxSaves \in Nat

VARIABLES
  requests,   \* ajaxManager's queue; the head is the one in flight
  running,    \* ajaxManager's flag
  idleTimer,  \* the 500 ms timer of an idle manager (tid) is pending
  againTimer, \* the 50 ms timer set by complete is pending
  inFlight,   \* the number of requests the browser has sent
  loading,    \* loading[f]: the form is disabled
  saves,      \* saves[f]: how often the button of f was pressed
  stored,     \* stored[f]: the value the works have
  refused,    \* history: forms whose save failed on its own
  misreported \* history: forms that say "Changes Saved" after a failure

editVars == <<requests, running, idleTimer, againTimer, inFlight, loading,
              saves, stored, refused, misreported>>

Torn == MaxSaves + 1
Values == 0 .. Torn

\* own: the form whose success callback runs; forms: what complete enables,
\* when the request is a combined one; data: the values it carries.
Request == [own : Forms, forms : SUBSET Forms, combined : BOOLEAN,
            data : [Forms -> Values]]

EditTypeOK ==
  /\ requests \in Seq(Request)
  /\ running \in BOOLEAN
  /\ idleTimer \in BOOLEAN
  /\ againTimer \in BOOLEAN
  /\ inFlight \in Nat
  /\ loading \in [Forms -> BOOLEAN]
  /\ saves \in [Forms -> Nat]
  /\ stored \in [Forms -> Values]
  /\ refused \subseteq Forms
  /\ misreported \subseteq Forms

\* batch_edit_init ends in ajaxManager.run() on an empty queue.
EditInit ==
  /\ requests = <<>>
  /\ running = FALSE
  /\ idleTimer = TRUE
  /\ againTimer = FALSE
  /\ inFlight = 0
  /\ loading = [f \in Forms |-> FALSE]
  /\ saves = [f \in Forms |-> 0]
  /\ stored = [f \in Forms |-> 0]
  /\ refused = {}
  /\ misreported = {}
-----------------------------------------------------------------------------
(* Combining: the first request is parsed, then the others are popped from *)
(* the last to the second.  A field of theirs is taken over, and their     *)
(* form remembered, if their key matches; an older value of a field comes  *)
(* later and replaces a newer one.                                         *)

\* deserialize splits at "=": the value is cut there.
Reparsed(f, v) == IF v > 0 /\ f \in WithEquals THEN Torn ELSE v

\* The requests behind the head whose field f is taken over: the first of them
\* is popped last.
Carriers(queue, f) ==
  {i \in 2 .. Len(queue) : queue[i].data[f] > 0 /\ queue[i].own \in Matching}

\* Mutant: The fields of the other requests are not taken over.
CombinedValueOfFirst(queue, f) == queue[1].data[f]

CombinedValue(queue, f) ==
  IF Carriers(queue, f) = {}
  THEN queue[1].data[f]
  ELSE LET i == CHOOSE i \in Carriers(queue, f) :
                  \A j \in Carriers(queue, f) : i <= j
       IN  queue[i].data[f]

\* Mutant: Only the form of the last request is remembered.
CombineRequestsOfTwo(queue) ==
  <<[own      |-> queue[1].own,
     forms    |-> queue[1].forms \cup ({queue[Len(queue)].own} \cap Matching),
     combined |-> TRUE,
     data     |-> [f \in Forms |-> Reparsed(f, CombinedValue(queue, f))]]>>

CombineRequests(queue) ==
  <<[own      |-> queue[1].own,
     forms    |-> queue[1].forms \cup
                  {queue[i].own : i \in {j \in 2 .. Len(queue) :
                                           queue[j].own \in Matching}},
     combined |-> TRUE,
     data     |-> [f \in Forms |-> Reparsed(f, CombinedValue(queue, f))]]>>

\* disableForm; and enableForm, which says "Changes Saved" whatever the answer was.
DisableForm(f) == loading' = [loading EXCEPT ![f] = TRUE]

EnableForms(forms, ok) ==
  /\ loading' = [f \in Forms |-> loading[f] /\ f \notin forms]
  /\ misreported' = IF ok THEN misreported \ forms ELSE misreported \cup forms

\* The queue as run leaves it when it sends the head.
Sent(queue) == IF Len(queue) > 1 THEN CombineRequests(queue) ELSE queue

\* ajaxManager.run: send the head of the queue, or wait.
Run ==
  IF requests = <<>>
  THEN /\ idleTimer' = TRUE
       /\ running' = FALSE
       /\ UNCHANGED <<requests, inFlight>>
  ELSE /\ requests' = Sent(requests)
       /\ running' = TRUE
       /\ inFlight' = inFlight + 1
       /\ idleTimer' = FALSE

\* Mutant: runNow leaves the idle timer pending.
RunNowTimerLeft(queue, copy) ==
  /\ running' = TRUE
  /\ IF running
     THEN requests' = queue \o copy /\ UNCHANGED inFlight
     ELSE requests' = Sent(queue) \o copy /\ inFlight' = inFlight + 1
  /\ UNCHANGED idleTimer

\* runNow with a request just queued: it clears the idle timer and runs, unless
\* something is in flight.  It is called, not passed to setTimeout, so it runs
\* before the second handler of the same click queues its copy.
RunNow(queue, copy) ==
  /\ idleTimer' = FALSE
  /\ running' = TRUE
  /\ IF running
     THEN requests' = queue \o copy /\ UNCHANGED inFlight
     ELSE requests' = Sent(queue) \o copy /\ inFlight' = inFlight + 1

\* runSave on a form that is not loading.
Save(f) ==
  LET n == saves[f] + 1
      request == [own |-> f, forms |-> {f}, combined |-> FALSE,
                  data |-> [g \in Forms |-> IF g = f THEN n ELSE 0]]
  IN
  /\ ~loading[f]
  /\ saves[f] < MaxSaves
  /\ saves' = [saves EXCEPT ![f] = n]
  /\ DisableForm(f)
  /\ RunNow(Append(requests, request),
            IF f \in BoundTwice THEN <<request>> ELSE <<>>)
  /\ UNCHANGED <<againTimer, stored, refused, misreported>>

\* The answer: success (if it is one), then complete.  A failed request may
\* have been stored (a lost answer).  There is no fail callback in jQuery's
\* settings: a request that fails on its own leaves its form as it is.
Answer(ok, written) ==
  LET r == Head(requests)
      enabled == (IF ok THEN {r.own} ELSE {})
                 \cup (IF r.combined THEN r.forms ELSE {})
  IN
  /\ inFlight > 0
  /\ requests # <<>>
  /\ ok => written
  /\ inFlight' = inFlight - 1
  /\ requests' = Tail(requests)
  /\ stored' = IF written
               THEN [f \in Forms |-> IF r.data[f] > 0 THEN r.data[f]
                                     ELSE stored[f]]
               ELSE stored
  /\ EnableForms(enabled, ok)
  /\ refused' = IF ok \/ r.combined THEN refused ELSE refused \cup {r.own}
  /\ againTimer' = TRUE
  /\ UNCHANGED <<running, idleTimer, saves>>

\* Mutant: complete asks runNow for the next request, which sees the manager running.
FireAgainByRunNow ==
  /\ againTimer
  /\ againTimer' = FALSE
  /\ idleTimer' = FALSE
  /\ UNCHANGED <<requests, running, inFlight, loading, saves, stored, refused,
                 misreported>>

FireAgain ==
  /\ againTimer
  /\ againTimer' = FALSE
  /\ Run
  /\ UNCHANGED <<loading, saves, stored, refused, misreported>>

FireIdle ==
  /\ idleTimer
  /\ Run
  /\ UNCHANGED <<againTimer, loading, saves, stored, refused, misreported>>

EditNext ==
  \/ \E f \in Forms : Save(f)
  \/ \E ok, written \in BOOLEAN : Answer(ok, written)
  \/ FireAgain
  \/ FireIdle

\* The server answers or the connection fails; timers fire.
EditFairness ==
  /\ WF_editVars(\E ok, written \in BOOLEAN : Answer(ok, written))
  /\ WF_editVars(FireAgain)

EditSpec == EditInit /\ [][EditNext]_editVars /\ EditFairness
-----------------------------------------------------------------------------
(* Properties.                                                             *)

\* ajaxManager never has two requests in flight, nor one in flight and a timer
\* about to send its head a second time: run does not ask whether one is
\* running, so this rests on runNow clearing the idle timer.
OneRequestInFlight ==
  /\ inFlight <= 1
  /\ inFlight + (IF againTimer THEN 1 ELSE 0) <= 1
  /\ running <=> (inFlight = 1 \/ againTimer)
  /\ ~(running /\ idleTimer)

\* A form that can be saved again shows what the works have: its last value, or
\* a torn one if it has an "=".  Excepted are the forms whose fields the
\* combination does not recognise, and those enabled by a combined request that
\* failed (complete says "Changes Saved" whatever the answer was).
SavedIsStored ==
  \A f \in Matching \ misreported :
    ~loading[f] => \/ stored[f] = saves[f]
                   \/ f \in WithEquals /\ stored[f] = Torn

\* A form that is disabled waits for a request that will enable it, or its own
\* one failed and nothing enables it any more, or it is one of those whose
\* fields are not recognised: combining forgets no other form.
DisabledFormsWait ==
  \A f \in Matching :
    loading[f] => \/ f \in refused
                  \/ \E i \in 1 .. Len(requests) : f \in requests[i].forms

\* What is queued is sent and leaves the queue.
QueueDrains == (requests # <<>>) ~> (requests = <<>>)
=============================================================================
