-------------------------- MODULE BatchOperations --------------------------
(***************************************************************************)
(* A batch upload: one Hyrax::BatchCreateOperation (the parent row), one   *)
(* Hyrax::Operation per uploaded file (the child rows), the BatchCreateJob *)
(* that creates the children, and one CreateWorkJob per child that ends by *)
(* marking its child and rolling the parent up.                            *)
(*                                                                         *)
(* Every job runs in a worker of its own, so their steps interleave.  A    *)
(* step is one database statement, or the block one with_lock protects.    *)
(***************************************************************************)
EXTENDS Naturals

CONSTANTS
  NumUploads,   \* how many files the batch has
  MayDiscard    \* may CreateWorkJob raise before it marks its operation?

ASSUME NumUploadsAssumption == NumUploads \in Nat
ASSUME MayDiscardAssumption == MayDiscard \in BOOLEAN

Uploads == 1..NumUploads

(***************************************************************************)
(* The status column.  It has no default, so a row is born with NULL; a    *)
(* row that does not exist yet is "absent".                                *)
(***************************************************************************)
Unfinished == {"pending", "performing"}
Verdicts == {"success", "failure"}
RowStatus == {"absent", "null"} \cup Unfinished \cup Verdicts

BatchJobState == {"unsubmitted", "queued", "looping", "done"}
WorkJobState == {"none", "queued", "performing", "saved", "rejected",
                 "marked", "done", "discarded"}

VARIABLES
  parent,     \* status of the BatchCreateOperation
  child,      \* status of the operation of each uploaded file
  batchJob,   \* where BatchCreateJob is
  created,    \* how many times its loop has created a child
  workJob,    \* where the CreateWorkJob of each uploaded file is
  announced   \* verdicts the depositor has been told, by the callbacks

vars == <<parent, child, batchJob, created, workJob, announced>>

TypeOK ==
  /\ parent \in RowStatus
  /\ child \in [Uploads -> RowStatus]
  /\ batchJob \in BatchJobState
  /\ created \in 0..NumUploads
  /\ workJob \in [Uploads -> WorkJobState]
  /\ announced \in SUBSET Verdicts

Init ==
  /\ parent = "absent"
  /\ child = [i \in Uploads |-> "absent"]
  /\ batchJob = "unsubmitted"
  /\ created = 0
  /\ workJob = [i \in Uploads |-> "none"]
  /\ announced = {}

----------------------------------------------------------------------------
(***************************************************************************)
(* BatchCreateJob                                                          *)
(***************************************************************************)

\* The controller creates the parent row and enqueues the job, whose
\* before_enqueue callback marks the parent pending.
SubmitBatch ==
  /\ batchJob = "unsubmitted"
  /\ parent' = "pending"
  /\ batchJob' = "queued"
  /\ UNCHANGED <<child, created, workJob, announced>>

StartBatch ==
  /\ batchJob = "queued"
  /\ parent' = "performing"
  /\ batchJob' = "looping"
  /\ UNCHANGED <<child, created, workJob, announced>>

\* Operation.create! of the next child: the row exists, its status is NULL.
CreateChild ==
  /\ batchJob = "looping"
  /\ created < NumUploads
  /\ \A i \in Uploads : child[i] # "null"
  /\ created' = created + 1
  /\ child' = [child EXCEPT ![created + 1] = "null"]
  /\ UNCHANGED <<parent, batchJob, workJob, announced>>

\* CreateWorkJob.perform_later: before_enqueue marks the child pending, then
\* the job is in the queue.
EnqueueChild(i) ==
  /\ batchJob = "looping"
  /\ child[i] = "null"
  /\ child' = [child EXCEPT ![i] = "pending"]
  /\ workJob' = [workJob EXCEPT ![i] = "queued"]
  /\ UNCHANGED <<parent, batchJob, created, announced>>

FinishBatch ==
  /\ batchJob = "looping"
  /\ created = NumUploads
  /\ \A i \in Uploads : child[i] # "null"
  /\ batchJob' = "done"
  /\ UNCHANGED <<parent, child, created, workJob, announced>>

----------------------------------------------------------------------------
(***************************************************************************)
(* CreateWorkJob                                                           *)
(***************************************************************************)

StartWork(i) ==
  /\ workJob[i] = "queued"
  /\ child' = [child EXCEPT ![i] = "performing"]
  /\ workJob' = [workJob EXCEPT ![i] = "performing"]
  /\ UNCHANGED <<parent, batchJob, created, announced>>

\* The create_work transaction answers Success or Failure.
CreateWork(i) ==
  /\ workJob[i] = "performing"
  /\ \E outcome \in {"saved", "rejected"} :
        workJob' = [workJob EXCEPT ![i] = outcome]
  /\ UNCHANGED <<parent, child, batchJob, created, announced>>

\* An exception before success! or fail!: discard_on StandardError drops the
\* job and nobody touches its operation again.
Discard(i) ==
  /\ MayDiscard
  /\ workJob[i] \in {"performing", "rejected"}
  /\ workJob' = [workJob EXCEPT ![i] = "discarded"]
  /\ UNCHANGED <<parent, child, batchJob, created, announced>>

\* Mutant: only the success of a work is recorded on its operation.
MarkChildOnSuccess(i) ==
  /\ workJob[i] \in {"saved", "rejected"}
  /\ child' = IF workJob[i] = "saved" THEN [child EXCEPT ![i] = "success"]
                                       ELSE child
  /\ workJob' = [workJob EXCEPT ![i] = "marked"]
  /\ UNCHANGED <<parent, batchJob, created, announced>>

\* success! or fail! on the child: its own row is updated and committed ...
MarkChild(i) ==
  /\ workJob[i] \in {"saved", "rejected"}
  /\ child' = [child EXCEPT
                 ![i] = IF workJob[i] = "saved" THEN "success" ELSE "failure"]
  /\ workJob' = [workJob EXCEPT ![i] = "marked"]
  /\ UNCHANGED <<parent, batchJob, created, announced>>

\* What rollup_status makes of the statuses of the children there are.
ChildStatuses == {child[i] : i \in Uploads} \ {"absent"}

\* Mutant: a sibling still performing is not waited for, and keeps the verdict.
VerdictWaitsForAllSuccess ==
  IF ChildStatuses = {"success"} THEN "success"
  ELSE IF "failure" \in ChildStatuses /\ "success" \notin ChildStatuses
  THEN "failure" ELSE "none"

\* Mutant: a child that is not a success counts as a failure.
VerdictUnlessAllSucceeded ==
  IF ChildStatuses \cap Unfinished # {} THEN "none"
  ELSE IF ChildStatuses = {"success"} THEN "success" ELSE "failure"

Verdict ==
  IF ChildStatuses \cap Unfinished # {} THEN "none"
  ELSE IF "failure" \in ChildStatuses THEN "failure" ELSE "success"

\* Mutant: a parent that has a verdict is not rolled up a second time.
RollupOnce(i) ==
  /\ workJob[i] = "marked"
  /\ workJob' = [workJob EXCEPT ![i] = "done"]
  /\ IF Verdict \in Verdicts /\ parent \notin Verdicts
     THEN parent' = Verdict /\ announced' = announced \cup {Verdict}
     ELSE UNCHANGED <<parent, announced>>
  /\ UNCHANGED <<child, batchJob, created>>

\* ... then, in a second statement, the parent's row is locked and rolled up:
\* rollup_status, with the success! or fail! of the parent and its callbacks.
Rollup(i) ==
  /\ workJob[i] = "marked"
  /\ workJob' = [workJob EXCEPT ![i] = "done"]
  /\ \/ /\ Verdict \in Verdicts
        /\ parent' = Verdict
        /\ announced' = announced \cup {Verdict}
     \/ /\ Verdict = "none"
        /\ UNCHANGED <<parent, announced>>
  /\ UNCHANGED <<child, batchJob, created>>

----------------------------------------------------------------------------
BatchStep == SubmitBatch \/ StartBatch \/ CreateChild \/ FinishBatch

WorkStep(i) ==
  \/ EnqueueChild(i) \/ StartWork(i) \/ CreateWork(i) \/ Discard(i)
  \/ MarkChild(i) \/ Rollup(i)

Next == BatchStep \/ \E i \in Uploads : WorkStep(i)

\* A queue hands every job to a worker and a worker runs it to its end.
Fairness ==
  /\ WF_vars(BatchStep)
  /\ \A i \in Uploads : WF_vars(WorkStep(i))

Spec == Init /\ [][Next]_vars /\ Fairness

----------------------------------------------------------------------------
SomeChildFailed == \E i \in Uploads : child[i] = "failure"
AllWorkDone == NumUploads > 0 /\ \A i \in Uploads : workJob[i] = "done"

\* When every CreateWorkJob has rolled its parent up, whatever the order they
\* did it in and whichever of them saw which sibling, the batch has failed
\* exactly when one of its works did: rollup_status in app/models/hyrax/
\* operation.rb loses no result to two children that finish together.
FinalStatusIsRollup ==
  AllWorkDone => parent = IF SomeChildFailed THEN "failure" ELSE "success"

\* A batch is never reported as failed while no work of it has failed, however
\* many of its operations are still NULL, pending or performing.
NoFalseFailure == parent = "failure" => SomeChildFailed

\* A batch that has failed stays failed: a sibling that succeeds later, or that
\* is created later, cannot turn it into a success.
FailureIsSticky == [][parent = "failure" => parent' = "failure"]_vars

\* Once every job is done the depositor has been told of a failure if, and
\* only if, there was one, even when a success was announced too early.
AnnouncedVerdictStands ==
  AllWorkDone => (("failure" \in announced) <=> SomeChildFailed)

\* A batch that is queued ends with a verdict over all its works, unless a
\* CreateWorkJob is discarded: no interleaving of the children leaves the
\* parent performing because each of them thought another would roll it up.
BatchConcludes ==
  (batchJob = "queued" /\ NumUploads > 0) ~>
     \/ AllWorkDone /\ parent \in Verdicts
     \/ \E i \in Uploads : workJob[i] = "discarded"

\* operation.rb:38, "Don't mark as pass or fail until all jobs are complete":
\* a batch has a verdict only when each of its files has been dealt with.
NoEarlyVerdict ==
  parent \in Verdicts =>
     \A i \in Uploads : workJob[i] \in {"marked", "done"}
=============================================================================
