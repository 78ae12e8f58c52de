---------------------- MODULE BatchOperations_proofs ----------------------
(***************************************************************************)
(* A batch of any number of files: the types, and what no order of the     *)
(* children's steps can break about the parent's verdict and what the      *)
(* depositor is told of it.                                                *)
(***************************************************************************)
EXTENDS BatchOperations, TLAPS

\* The batch job has created no child before it starts its loop.
NoChildBeforeLoop ==
  /\ batchJob = "unsubmitted" => parent = "absent"
  /\ batchJob = "queued" => parent = "pending"
  /\ batchJob \in {"unsubmitted", "queued"} => created = 0

\* A child's job and its row go together.
JobMatchesRow ==
  \A i \in Uploads :
    /\ i > created => workJob[i] = "none" /\ child[i] = "absent"
    /\ child[i] \in {"absent", "null"} => workJob[i] = "none"
    /\ workJob[i] \in {"marked", "done"} => child[i] \in Verdicts
    /\ child[i] = "failure" => workJob[i] \in {"marked", "done"}

\* What the depositor was told of: the failure of the parent, when there is one,
\* and no other.
ToldOfFailure ==
  /\ parent = "failure" => "failure" \in announced
  /\ "failure" \in announced => SomeChildFailed

IInv ==
  /\ TypeOK
  /\ NoChildBeforeLoop
  /\ JobMatchesRow
  /\ NoFalseFailure
  /\ FinalStatusIsRollup
  /\ ToldOfFailure

\* What a rollup concludes: nothing false, and nothing missed when every row
\* has its verdict.
LEMMA VerdictIsSound ==
  ASSUME TypeOK
  PROVE  /\ Verdict \in Verdicts \cup {"none"}
         /\ Verdict = "failure" => SomeChildFailed
         /\ SomeChildFailed => Verdict # "success"
         /\ (\A i \in Uploads : child[i] \in Verdicts)
              => Verdict = IF SomeChildFailed THEN "failure" ELSE "success"
  <1>1. SomeChildFailed <=> "failure" \in ChildStatuses
    BY DEF SomeChildFailed, ChildStatuses
  <1>2. ASSUME \A i \in Uploads : child[i] \in Verdicts
        PROVE  ChildStatuses \cap Unfinished = {}
    BY <1>2 DEF ChildStatuses, Verdicts, Unfinished
  <1> QED
    BY <1>1, <1>2 DEF Verdict, Verdicts

LEMMA InitIInv == Init => IInv
  BY NumUploadsAssumption
  DEF Init, IInv, TypeOK, NoChildBeforeLoop, JobMatchesRow, NoFalseFailure,
      FinalStatusIsRollup, ToldOfFailure, AllWorkDone, SomeChildFailed, RowStatus,
      Unfinished, Verdicts, BatchJobState, WorkJobState, Uploads

\* The one step that writes the verdict keeps the invariant.
LEMMA RollupIInv ==
  ASSUME IInv, NEW i \in Uploads, Rollup(i)
  PROVE  IInv'
  <1>0. Rollup(i)
    OBVIOUS
  <1>1. TypeOK /\ NoChildBeforeLoop /\ JobMatchesRow
        /\ NoFalseFailure /\ FinalStatusIsRollup /\ ToldOfFailure
    BY DEF IInv
  <1>2. TypeOK'
    BY <1>0, <1>1, VerdictIsSound
    DEF Rollup, TypeOK, RowStatus, Verdicts, WorkJobState
  <1>3. NoChildBeforeLoop'
    <2>1. batchJob \notin {"unsubmitted", "queued"}
      BY <1>0, <1>1
      DEF Rollup, NoChildBeforeLoop, JobMatchesRow, Uploads
    <2> QED
      BY <1>0, <2>1 DEF Rollup, NoChildBeforeLoop
  <1>4. JobMatchesRow'
    BY <1>0, <1>1 DEF Rollup, TypeOK, JobMatchesRow, Uploads
  <1>5. NoFalseFailure'
    BY <1>0, <1>1, VerdictIsSound
    DEF Rollup, NoFalseFailure, SomeChildFailed
  <1>6. FinalStatusIsRollup'
    <2> SUFFICES ASSUME AllWorkDone'
                 PROVE  parent' = IF SomeChildFailed' THEN "failure"
                                                      ELSE "success"
      BY DEF FinalStatusIsRollup
    <2>1. \A j \in Uploads : workJob[j] \in {"marked", "done"}
      BY <1>0, <1>1 DEF Rollup, TypeOK, AllWorkDone
    <2>2. \A j \in Uploads : child[j] \in Verdicts
      BY <1>1, <2>1 DEF JobMatchesRow
    <2>3. Verdict = IF SomeChildFailed THEN "failure" ELSE "success"
      BY <1>1, <2>2, VerdictIsSound
    <2>4. parent' = Verdict
      BY <1>0, <2>3 DEF Rollup
    <2>5. SomeChildFailed' <=> SomeChildFailed
      BY <1>0 DEF Rollup, SomeChildFailed
    <2> QED
      BY <2>3, <2>4, <2>5
  <1>7. ToldOfFailure'
    BY <1>0, <1>1, VerdictIsSound
    DEF Rollup, ToldOfFailure, SomeChildFailed, Verdicts
  <1> QED
    BY <1>2, <1>3, <1>4, <1>5, <1>6, <1>7 DEF IInv

LEMMA NextIInv == IInv /\ [Next]_vars => IInv'
  <1> SUFFICES ASSUME IInv, [Next]_vars PROVE IInv'
    OBVIOUS
  <1> USE NumUploadsAssumption
      DEF IInv, TypeOK, NoChildBeforeLoop, JobMatchesRow, NoFalseFailure,
          FinalStatusIsRollup, ToldOfFailure, AllWorkDone, SomeChildFailed, RowStatus,
          Unfinished, Verdicts, BatchJobState, WorkJobState, Uploads
  <1>1. CASE SubmitBatch
    BY <1>1 DEF SubmitBatch
  <1>2. CASE StartBatch
    BY <1>2 DEF StartBatch
  <1>3. CASE CreateChild
    BY <1>3 DEF CreateChild
  <1>4. CASE FinishBatch
    BY <1>4 DEF FinishBatch
  <1>5. ASSUME NEW i \in Uploads, EnqueueChild(i) PROVE IInv'
    BY <1>5 DEF EnqueueChild
  <1>6. ASSUME NEW i \in Uploads, StartWork(i) PROVE IInv'
    BY <1>6 DEF StartWork
  <1>7. ASSUME NEW i \in Uploads, CreateWork(i) PROVE IInv'
    BY <1>7 DEF CreateWork
  <1>8. ASSUME NEW i \in Uploads, Discard(i) PROVE IInv'
    BY <1>8 DEF Discard
  <1>9. ASSUME NEW i \in Uploads, MarkChild(i) PROVE IInv'
    BY <1>9 DEF MarkChild
  <1>10. ASSUME NEW i \in Uploads, Rollup(i) PROVE IInv'
    BY <1>10, RollupIInv
  <1>11. CASE UNCHANGED vars
    BY <1>11 DEF vars
  <1> QED
    BY <1>1, <1>2, <1>3, <1>4, <1>5, <1>6, <1>7, <1>8, <1>9, <1>10, <1>11
    DEF Next, BatchStep, WorkStep

LEMMA SpecIInv == Spec => []IInv
  <1> QED
    BY InitIInv, NextIInv, PTL DEF Spec

\* Every row and every job keeps to its states.
THEOREM TypeCorrect == Spec => []TypeOK
  <1>1. IInv => TypeOK
    BY DEF IInv
  <1> QED
    BY <1>1, SpecIInv, PTL

\* A batch of any size is failed only by a work that failed.
THEOREM FailureHasACause == Spec => []NoFalseFailure
  <1>1. IInv => NoFalseFailure
    BY DEF IInv
  <1> QED
    BY <1>1, SpecIInv, PTL

\* When the jobs of a batch of any size are done, its status is the rollup of
\* the statuses of its works.
THEOREM RollupIsComplete == Spec => []FinalStatusIsRollup
  <1>1. IInv => FinalStatusIsRollup
    BY DEF IInv
  <1> QED
    BY <1>1, SpecIInv, PTL

\* When the jobs of a batch of any size are done, the depositor was told that it
\* failed exactly when one of its works did.
THEOREM FailureIsAnnounced == Spec => []AnnouncedVerdictStands
  <1>1. IInv => AnnouncedVerdictStands
    BY DEF IInv, ToldOfFailure, FinalStatusIsRollup, AnnouncedVerdictStands
  <1> QED
    BY <1>1, SpecIInv, PTL

\* The failure of a batch of any size is final.
THEOREM FailureStands == Spec => FailureIsSticky
  <1>1. IInv /\ [Next]_vars => [parent = "failure" => parent' = "failure"]_vars
    <2> SUFFICES ASSUME IInv, Next, parent = "failure"
                 PROVE  parent' = "failure"
      BY DEF vars
    <2>1. TypeOK /\ NoChildBeforeLoop /\ NoFalseFailure
      BY DEF IInv
    <2>2. ASSUME NEW i \in Uploads, Rollup(i) PROVE parent' = "failure"
      <3>1. SomeChildFailed
        BY <2>1 DEF NoFalseFailure
      <3> QED
        BY <2>1, <2>2, <3>1, VerdictIsSound DEF Rollup, Verdicts
    <2> QED
      BY <2>1, <2>2
      DEF Next, BatchStep, WorkStep, SubmitBatch, StartBatch, CreateChild,
          FinishBatch, EnqueueChild, StartWork, CreateWork, Discard, MarkChild,
          NoChildBeforeLoop
  <1> QED
    BY <1>1, SpecIInv, PTL DEF Spec, FailureIsSticky
=============================================================================
