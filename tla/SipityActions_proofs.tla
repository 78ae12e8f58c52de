----------------------- MODULE SipityActions_proofs -----------------------
(***************************************************************************)
(* What holds of the workflow engine for every workflow, any number of web *)
(* workers and any number of jobs: its types, that an entity is never left *)
(* without a state, and that an entity moves by permitted actions only as  *)
(* long as the requests for a work follow one another; then the index      *)
(* agrees with the stored work, and the members, once their jobs have run, *)
(* with its permission list.  Of mediated deposit: that only an approval   *)
(* publishes, however requests overlap, and that public and editable works *)
(* are those the workflow says.                                            *)
(***************************************************************************)
EXTENDS MediatedDeposit, SequenceTheorems, TLAPS

\* Removing a job from the queue leaves a queue of jobs.
LEMMA RemoveAtType ==
  ASSUME NEW S, NEW s \in Seq(S), NEW i \in 1..Len(s)
  PROVE  RemoveAt(s, i) \in Seq(S)
  <1>1. SubSeq(s, 1, i - 1) \in Seq(S) /\ SubSeq(s, i + 1, Len(s)) \in Seq(S)
    OBVIOUS
  <1> QED
    BY <1>1 DEF RemoveAt

\* The types of what the actions are built from.
LEMMA ApplyType ==
  ASSUME NEW method \in AclMethods, NEW access \in SUBSET Modes
  PROVE  Apply(method, access) \in SUBSET Modes
  BY DEF Apply, AclMethods, Modes

LEMMA IdleType == Idle \in Task
  BY UsersAssumption, WorkflowAssumption
  DEF Idle, Task, PC, ObjectStates, Cache

LEMMA DocumentType ==
  ASSUME TypeOK, NEW inMemory \in ObjectStates, NEW access \in SUBSET Modes
  PROVE  Document(inMemory, access) \in SolrDocument
  BY DEF TypeOK, Document, SolrDocument, Task

LEMMA AfterType ==
  ASSUME TypeOK, NEW w \in Workers
  PROVE  AfterAction(w) \in Task /\ AfterSave(w) \in Task
  BY IdleType DEF TypeOK, AfterAction, AfterSave, Synced, Task, PC

----------------------------------------------------------------------------
(***************************************************************************)
(* The search index and the permission lists in memory need one more fact: *)
(* the create_work transaction always has its list loaded.                 *)
(***************************************************************************)
CreationHasAcl ==
  \A w \in Workers :
    \/ worker[w].pc \in {"publish", "save_acl", "attach"}
    \/ worker[w].pc \in {"update", "methods"} /\ worker[w].action = DepositAction
    => worker[w].cache # NotLoaded

\* What the form of each worker that is about to move the entity rests on.
FormWasPermitted ==
  \A w \in Workers : worker[w].pc = "update" =>
    \/ /\ worker[w].action = DepositAction
       /\ worker[w].seen = NoState
       /\ entity = NoState
    \/ /\ worker[w].seen \in States
       /\ entity \in States
       /\ UserMay(worker[w].user, worker[w].seen, worker[w].action)

\* One worker at most is creating the work.
Depositing(w) == worker[w].pc = "update" /\ worker[w].action = DepositAction
OneDeposit == \A v, w \in Workers : Depositing(v) /\ Depositing(w) => v = w

IInv ==
  /\ TypeOK
  /\ CreationHasAcl
  /\ FormWasPermitted
  /\ OneDeposit
  /\ NullStateIsTransient

LEMMA InitIInv == Init => IInv
  <1> SUFFICES ASSUME Init PROVE IInv
    OBVIOUS
  <1>1. TypeOK
    <2>1. index \in SolrDocument
      BY DEF Init, SolrDocument
    <2>2. memberAcl \in Cache /\ object \in ObjectStates
      BY DEF Init, Cache, ObjectStates
    <2> QED
      BY <2>1, <2>2, IdleType DEF Init, TypeOK
  <1>2. CreationHasAcl /\ FormWasPermitted /\ OneDeposit
    BY DEF Init, Idle, CreationHasAcl, FormWasPermitted, OneDeposit, Depositing
  <1>3. NullStateIsTransient
    BY DEF Init, NullStateIsTransient, NoEntity, NoState
  <1> QED
    BY <1>1, <1>2, <1>3 DEF IInv

----------------------------------------------------------------------------
(***************************************************************************)
(* Type correctness, one lemma for the workers and one for the jobs        *)
(***************************************************************************)
LEMMA WorkerType ==
  ASSUME TypeOK, CreationHasAcl, NEW w \in Workers, WorkerStep(w)
  PROVE  TypeOK'
  <1> USE DEF TypeOK, stores
  <1>t. worker[w] \in Task
    OBVIOUS
  <1>s. worker[w].step + 1 \in Nat \ {0}
    BY <1>t DEF Task
  <1>c. worker[w].cache # NotLoaded => worker[w].cache \in SUBSET Modes
    BY <1>t DEF Task, Cache
  <1>1. CASE CreateWork(w)
    <2>1. ASSUME NEW granted \in SUBSET Modes
          PROVE  [Idle EXCEPT !.pc = "update", !.cache = granted] \in Task
      BY IdleType DEF PC, Cache, Task
    <2> QED
      BY <1>1, <2>1 DEF CreateWork, ObjectStates
  <1>2. CASE LoadWork(w)
    <2>1. [Idle EXCEPT !.pc = "loaded", !.loaded = object, !.state = object]
            \in Task
      BY IdleType DEF PC, Task
    <2> QED
      BY <1>2, <2>1 DEF LoadWork
  <1>3. CASE OpenForm(w)
    <2>1. PICK user \in Users, action \in Actions :
            \/ /\ UserMay(user, entity, action)
               /\ worker' = [worker EXCEPT
                               ![w].pc = "update", ![w].user = user,
                               ![w].action = action, ![w].seen = entity]
            \/ worker' = [worker EXCEPT ![w] = Idle]
      BY <1>3 DEF OpenForm
    <2>2. CASE worker' = [worker EXCEPT ![w] = Idle]
      BY <1>3, <2>2, IdleType DEF OpenForm
    <2>3. CASE /\ UserMay(user, entity, action)
               /\ worker' = [worker EXCEPT
                               ![w].pc = "update", ![w].user = user,
                               ![w].action = action, ![w].seen = entity]
      <3>1. entity \in States
        BY <2>3, WorkflowAssumption DEF UserMay
      <3>2. [worker[w] EXCEPT !.pc = "update", !.user = user,
                              !.action = action, !.seen = entity] \in Task
        BY <1>t, <3>1 DEF Task, PC
      <3>3. worker' = [worker EXCEPT ![w] =
                         [worker[w] EXCEPT !.pc = "update", !.user = user,
                                           !.action = action, !.seen = entity]]
        BY <2>3
      <3> QED
        BY <1>3, <3>2, <3>3 DEF OpenForm
    <2> QED
      BY <2>1, <2>2, <2>3
  <1>4. CASE UpdateState(w)
    <2>1. [worker[w] EXCEPT !.pc = "methods"] \in Task
      BY <1>t DEF Task, PC
    <2>2. entity' \in States \cup {NoEntity, NoState}
      BY <1>4, <1>t, WorkflowAssumption DEF UpdateState, Task
    <2> QED
      BY <1>4, <2>1, <2>2 DEF UpdateState
  <1>5. CASE LoadAcl(w)
    <2>1. [worker[w] EXCEPT !.cache = acl] \in Task
      BY <1>t DEF Task, Cache
    <2> QED
      BY <1>5, <2>1 DEF LoadAcl
  <1>6. CASE RunAclMethod(w)
    <2> DEFINE new == Apply(NextMethod(w), worker[w].cache)
    <2>1. new \in SUBSET Modes
      BY <1>6, <1>c, ApplyType DEF RunAclMethod
    <2>2. Document(worker[w].loaded, new) \in SolrDocument
      BY <2>1, <1>t, DocumentType DEF Task
    <2>3. [method |-> NextMethod(w), cache |-> NotLoaded] \in Job
      BY <1>6 DEF RunAclMethod, Job, Cache
    <2>4. worker' = [worker EXCEPT ![w].cache = new, ![w].step = @ + 1]
      BY <1>6 DEF RunAclMethod
    <2>5. acl' \in SUBSET Modes /\ index' \in SolrDocument
      BY <1>6, <2>1, <2>2 DEF RunAclMethod
    <2>6. jobs' \in Seq(Job)
      BY <1>6, <2>3 DEF RunAclMethod
    <2>7. worker' \in [Workers -> Task]
      <3> HIDE DEF new
      <3>1. [worker[w] EXCEPT !.cache = new,
                              !.step = worker[w].step + 1] \in Task
        BY <1>t, <1>s, <2>1 DEF Task, Cache
      <3>2. worker' = [worker EXCEPT ![w] =
                         [worker[w] EXCEPT !.cache = new,
                                           !.step = worker[w].step + 1]]
        BY <2>4
      <3> QED
        BY <3>1, <3>2
    <2> QED
      BY <1>6, <2>5, <2>6, <2>7 DEF RunAclMethod
  <1>7. CASE RunStateMethod(w)
    <2>1. ASSUME NEW state \in ObjectStates
          PROVE  [worker[w] EXCEPT !.state = state,
                                   !.step = worker[w].step + 1] \in Task
      BY <1>t, <1>s DEF Task
    <2>2. PICK state \in ObjectStates :
            worker' = [worker EXCEPT ![w].state = state, ![w].step = @ + 1]
      BY <1>7 DEF RunStateMethod, ObjectStates
    <2>3. worker' = [worker EXCEPT ![w] =
                       [worker[w] EXCEPT !.state = state,
                                         !.step = worker[w].step + 1]]
      BY <2>2
    <2> QED
      BY <1>7, <2>1, <2>3 DEF RunStateMethod
  <1>8. CASE FailMethod(w)
    BY <1>8, IdleType, AfterType DEF FailMethod
  <1>9. CASE SaveTarget(w)
    <2>1. worker[w].state \in ObjectStates
      BY <1>t DEF Task
    <2>2. Document(worker[w].state, IF worker[w].cache = NotLoaded
                                    THEN acl ELSE worker[w].cache)
            \in SolrDocument
      BY <2>1, <1>c, DocumentType
    <2> QED
      BY <1>9, <2>1, <2>2, AfterType DEF SaveTarget
  <1>d. worker[w].cache # NotLoaded =>
          Document(worker[w].loaded, worker[w].cache) \in SolrDocument
    BY <1>t, <1>c, DocumentType DEF Task
  <1>10. CASE PublishMetadata(w)
    <2>1. [worker[w] EXCEPT !.pc = "save_acl"] \in Task
      BY <1>t DEF Task, PC
    <2> QED
      BY <1>10, <1>d, <2>1 DEF PublishMetadata, CreationHasAcl
  <1>11. CASE SaveAcl(w)
    <2>1. [worker[w] EXCEPT !.pc = "attach"] \in Task
      BY <1>t DEF Task, PC
    <2> QED
      BY <1>11, <1>c, <1>d, <2>1 DEF SaveAcl, CreationHasAcl
  <1>12. CASE AttachFiles(w)
    <2>1. worker[w].loaded \in ObjectStates
      BY <1>t DEF Task
    <2> QED
      BY <1>12, <1>d, <2>1, IdleType DEF AttachFiles, CreationHasAcl, Cache
  <1> QED
    BY <1>1, <1>2, <1>3, <1>4, <1>5, <1>6, <1>7, <1>8, <1>9, <1>10, <1>11,
       <1>12 DEF WorkerStep

LEMMA JobType ==
  ASSUME TypeOK, NEW k \in DOMAIN jobs, JobStep(k)
  PROVE  TypeOK'
  <1> USE DEF TypeOK, stores
  <1>1. jobs \in Seq(Job) /\ k \in 1..Len(jobs) /\ jobs[k] \in Job
    OBVIOUS
  <1>2. RemoveAt(jobs, k) \in Seq(Job)
    BY <1>1, RemoveAtType
  <1>3. CASE StartMemberJob(k)
    <2>1. [jobs EXCEPT ![k].cache = memberAcl] \in Seq(Job)
      BY <1>1 DEF Job
    <2> QED
      BY <1>2, <1>3, <2>1 DEF StartMemberJob, Job
  <1>4. CASE FinishMemberJob(k)
    <2>1. jobs[k].cache \in SUBSET Modes /\ jobs[k].method \in AclMethods
      BY <1>1, <1>4 DEF FinishMemberJob, Job, Cache
    <2>2. Apply(jobs[k].method, jobs[k].cache) \in SUBSET Modes
      BY <2>1, ApplyType
    <2> QED
      BY <1>2, <1>4, <2>2 DEF FinishMemberJob, Job, Cache
  <1> QED
    BY <1>3, <1>4 DEF JobStep

----------------------------------------------------------------------------
(***************************************************************************)
(* The create_work transaction and the open forms                          *)
(***************************************************************************)

\* A step of one worker leaves the others alone.
LEMMA OthersUntouched ==
  ASSUME TypeOK, NEW w \in Workers, WorkerStep(w)
  PROVE  \A v \in Workers \ {w} : worker'[v] = worker[v]
  BY DEF TypeOK, WorkerStep, CreateWork, LoadWork, OpenForm, UpdateState,
     LoadAcl, RunAclMethod, RunStateMethod, FailMethod, SaveTarget,
     PublishMetadata, SaveAcl, AttachFiles

\* A worker that opens a form is turned away, or holds a permitted action.
LEMMA FormOpened ==
  ASSUME TypeOK, NEW w \in Workers, OpenForm(w)
  PROVE  \/ worker'[w] = Idle
         \/ /\ worker'[w].pc = "update"
            /\ worker'[w].seen = entity
            /\ entity \in States
            /\ worker'[w].action # DepositAction
            /\ UserMay(worker'[w].user, entity, worker'[w].action)
  <1>0. worker[w] \in Task
    BY DEF TypeOK
  <1>1. PICK user \in Users, action \in Actions :
          \/ /\ UserMay(user, entity, action)
             /\ worker' = [worker EXCEPT
                             ![w].pc = "update", ![w].user = user,
                             ![w].action = action, ![w].seen = entity]
          \/ worker' = [worker EXCEPT ![w] = Idle]
    BY DEF OpenForm
  <1>2. CASE worker' = [worker EXCEPT ![w] = Idle]
    BY <1>2 DEF TypeOK
  <1>3. CASE /\ UserMay(user, entity, action)
             /\ worker' = [worker EXCEPT
                             ![w].pc = "update", ![w].user = user,
                             ![w].action = action, ![w].seen = entity]
    <2>1. entity \in States /\ action # DepositAction
      BY <1>3, WorkflowAssumption DEF UserMay
    <2>2. worker'[w] = [worker[w] EXCEPT !.pc = "update", !.user = user,
                          !.action = action, !.seen = entity]
      BY <1>3 DEF TypeOK
    <2>3. /\ worker'[w].pc = "update" /\ worker'[w].user = user
          /\ worker'[w].action = action /\ worker'[w].seen = entity
      BY <1>0, <2>2 DEF Task
    <2> QED
      BY <1>3, <2>1, <2>3
  <1> QED
    BY <1>1, <1>2, <1>3

\* The list of the create_work transaction stays loaded.
LEMMA CreationKeepsAcl ==
  ASSUME TypeOK, CreationHasAcl, NEW w \in Workers, WorkerStep(w)
  PROVE  CreationHasAcl'
  <1>0. worker[w] \in Task
    BY DEF TypeOK
  <1> DEFINE Ok(t) ==
        \/ t.pc \in {"publish", "save_acl", "attach"}
        \/ t.pc \in {"update", "methods"} /\ t.action = DepositAction
        => t.cache # NotLoaded
  <1>1. Ok(worker'[w])
    <2>0. Ok(worker[w])
      BY DEF CreationHasAcl
    <2>1. CASE CreateWork(w)
      BY <2>1, RunAssumption DEF CreateWork, Idle, TypeOK
    <2>2. CASE LoadWork(w)
      BY <2>2 DEF LoadWork, Idle, TypeOK
    <2>3. CASE OpenForm(w)
      BY <2>3, FormOpened DEF Idle
    <2>4. CASE UpdateState(w)
      BY <2>4, <2>0, <1>0 DEF UpdateState, TypeOK, Task
    <2>5. CASE LoadAcl(w)
      BY <2>5, <1>0, RunAssumption DEF LoadAcl, TypeOK, Task
    <2>6. CASE RunAclMethod(w)
      <3>1. worker[w].cache \in SUBSET Modes
        BY <2>6, <1>0 DEF RunAclMethod, Task, Cache
      <3>2. Apply(NextMethod(w), worker[w].cache) # NotLoaded
        BY <2>6, <3>1, ApplyType, RunAssumption DEF RunAclMethod
      <3> QED
        BY <2>6, <3>2, <1>0 DEF RunAclMethod, TypeOK, Task
    <2>7. CASE RunStateMethod(w)
      BY <2>7, <2>0, <1>0 DEF RunStateMethod, TypeOK, Task
    <2>8. CASE FailMethod(w)
      BY <2>8, <2>0, <1>0 DEF FailMethod, AfterAction, Idle, TypeOK, Task
    <2>9. CASE SaveTarget(w)
      BY <2>9, <2>0, <1>0
      DEF SaveTarget, AfterSave, Synced, Idle, TypeOK, Task
    <2>10. CASE PublishMetadata(w)
      BY <2>10, <2>0, <1>0 DEF PublishMetadata, TypeOK, Task
    <2>11. CASE SaveAcl(w)
      BY <2>11, <2>0, <1>0 DEF SaveAcl, TypeOK, Task
    <2>12. CASE AttachFiles(w)
      BY <2>12 DEF AttachFiles, Idle, TypeOK
    <2> QED
      BY <2>1, <2>2, <2>3, <2>4, <2>5, <2>6, <2>7, <2>8, <2>9, <2>10, <2>11,
         <2>12 DEF WorkerStep
  <1> QED
    BY <1>1, OthersUntouched DEF CreationHasAcl

\* A step that neither opens a form nor moves the entity is not about one.
LEMMA NotUpdating ==
  ASSUME TypeOK, NEW w \in Workers, WorkerStep(w), ~CreateWork(w),
         ~OpenForm(w), ~UpdateState(w)
  PROVE  entity' = entity /\ worker[w].pc # "update" /\ worker'[w].pc # "update"
  <1>0. worker \in [Workers -> Task] /\ worker[w] \in Task
    BY DEF TypeOK
  <1> USE <1>0 DEF MethodsLeft, stores
  <1>1. CASE LoadWork(w)
    BY <1>1 DEF LoadWork, Idle
  <1>2. CASE LoadAcl(w)
    BY <1>2 DEF LoadAcl, Task
  <1>3. CASE RunAclMethod(w)
    BY <1>3 DEF RunAclMethod, Task
  <1>4. CASE RunStateMethod(w)
    BY <1>4 DEF RunStateMethod, Task
  <1>5. CASE FailMethod(w)
    BY <1>5 DEF FailMethod, AfterAction, Idle, Task
  <1>6. CASE SaveTarget(w)
    BY <1>6 DEF SaveTarget, AfterSave, Synced, Idle, Task
  <1>7. CASE PublishMetadata(w)
    BY <1>7 DEF PublishMetadata, Task
  <1>8. CASE SaveAcl(w)
    BY <1>8 DEF SaveAcl, Task
  <1>9. CASE AttachFiles(w)
    BY <1>9 DEF AttachFiles, Idle
  <1> QED
    BY <1>1, <1>2, <1>3, <1>4, <1>5, <1>6, <1>7, <1>8, <1>9 DEF WorkerStep

\* Such a step leaves the forms as they were.
LEMMA FormsKept ==
  ASSUME IInv, NEW w \in Workers, WorkerStep(w), ~CreateWork(w),
         ~OpenForm(w), ~UpdateState(w)
  PROVE  FormWasPermitted' /\ OneDeposit' /\ NullStateIsTransient'
  <1>1. entity' = entity /\ worker[w].pc # "update" /\ worker'[w].pc # "update"
    BY NotUpdating DEF IInv
  <1>2. \A v \in Workers : v = w \/ worker'[v] = worker[v]
    BY OthersUntouched DEF IInv
  <1> QED
    BY <1>1, <1>2
    DEF IInv, FormWasPermitted, OneDeposit, NullStateIsTransient, Depositing

\* The three steps that open a form or move the entity.
LEMMA FormsMoved ==
  ASSUME IInv, NEW w \in Workers, CreateWork(w) \/ OpenForm(w) \/ UpdateState(w)
  PROVE  FormWasPermitted' /\ OneDeposit' /\ NullStateIsTransient'
  <1> USE WorkflowAssumption
  <1>0. TypeOK /\ FormWasPermitted /\ OneDeposit /\ NullStateIsTransient
    BY DEF IInv
  <1>1. CASE CreateWork(w)
    <2>1. \A v \in Workers : worker[v].pc # "update"
      BY <1>0, <1>1 DEF CreateWork, FormWasPermitted, NoEntity, NoState
    <2>2. /\ worker'[w].pc = "update"
          /\ worker'[w].action = DepositAction
          /\ worker'[w].seen = NoState
          /\ \A v \in Workers \ {w} : worker'[v] = worker[v]
          /\ entity' = NoState
      BY <1>0, <1>1 DEF CreateWork, Idle, TypeOK
    <2> QED
      BY <2>1, <2>2
      DEF FormWasPermitted, OneDeposit, NullStateIsTransient, Depositing
  <1>2. CASE OpenForm(w)
    <2>1. /\ entity' = entity
          /\ worker[w].pc # "update"
          /\ \A v \in Workers \ {w} : worker'[v] = worker[v]
      BY <1>0, <1>2 DEF OpenForm, TypeOK, stores
    <2>2. worker'[w].pc = "update" =>
            /\ worker'[w].seen \in States /\ entity \in States
            /\ worker'[w].action # DepositAction
            /\ UserMay(worker'[w].user, worker'[w].seen, worker'[w].action)
      BY <1>0, <1>2, FormOpened DEF Idle
    <2> QED
      BY <1>0, <2>1, <2>2
      DEF FormWasPermitted, OneDeposit, NullStateIsTransient, Depositing,
          UserMay
  <1>3. CASE UpdateState(w)
    <2>1. /\ worker[w].pc = "update"
          /\ worker'[w].pc # "update"
          /\ \A v \in Workers \ {w} : worker'[v] = worker[v]
      BY <1>0, <1>3 DEF UpdateState, TypeOK, Task
    <2>2. entity' \in States
      BY <1>0, <1>3, <2>1 DEF UpdateState, FormWasPermitted, TypeOK, Task
    <2>3. \A v \in Workers \ {w} : worker[v].pc = "update" =>
            worker[v].seen \in States
            /\ UserMay(worker[v].user, worker[v].seen, worker[v].action)
      <3>1. ASSUME NEW v \in Workers \ {w}, worker[v].pc = "update",
                   worker[v].action = DepositAction, entity = NoState
            PROVE  FALSE
        <4>1. worker[w].action = DepositAction
          BY <1>0, <2>1, <3>1 DEF FormWasPermitted
        <4> QED
          BY <1>0, <2>1, <3>1, <4>1 DEF OneDeposit, Depositing
      <3> QED
        BY <1>0, <3>1 DEF FormWasPermitted
    <2>4. FormWasPermitted'
      BY <2>1, <2>2, <2>3 DEF FormWasPermitted, UserMay
    <2>5. OneDeposit'
      BY <1>0, <2>1 DEF OneDeposit, Depositing
    <2>6. NullStateIsTransient'
      BY <2>2 DEF NullStateIsTransient
    <2> QED
      BY <2>4, <2>5, <2>6
  <1> QED
    BY <1>1, <1>2, <1>3

----------------------------------------------------------------------------
LEMMA NextIInv == IInv /\ [Next]_vars => IInv'
  <1> SUFFICES ASSUME IInv, [Next]_vars PROVE IInv'
    OBVIOUS
  <1>0. TypeOK /\ CreationHasAcl
    BY DEF IInv
  <1>1. ASSUME NEW w \in Workers, WorkerStep(w) PROVE IInv'
    <2>1. TypeOK' /\ CreationHasAcl'
      BY <1>0, <1>1, WorkerType, CreationKeepsAcl
    <2>2. FormWasPermitted' /\ OneDeposit' /\ NullStateIsTransient'
      BY <1>1, FormsKept, FormsMoved
    <2> QED
      BY <2>1, <2>2 DEF IInv
  <1>2. ASSUME NEW k \in DOMAIN jobs, JobStep(k) PROVE IInv'
    <2>1. TypeOK'
      BY <1>0, <1>2, JobType
    <2>2. UNCHANGED <<entity, worker>>
      BY <1>2 DEF JobStep, StartMemberJob, FinishMemberJob, stores
    <2> QED
      BY <2>1, <2>2
      DEF IInv, CreationHasAcl, FormWasPermitted, OneDeposit, Depositing,
          NullStateIsTransient
  <1>3. CASE UNCHANGED vars
    BY <1>3
    DEF vars, IInv, TypeOK, CreationHasAcl, FormWasPermitted, OneDeposit,
        Depositing, NullStateIsTransient
  <1> QED
    BY <1>1, <1>2, <1>3 DEF Next

LEMMA SpecIInv == Spec => []IInv
  <1> QED
    BY InitIInv, NextIInv, PTL DEF Spec

\* Every store, job and worker keeps to its type, for every workflow.
THEOREM TypeCorrect == Spec => []TypeOK
  <1>1. IInv => TypeOK
    BY DEF IInv
  <1> QED
    BY <1>1, SpecIInv, PTL

\* However many requests race on a work, its entity has a state as soon as
\* the deposit action was taken, and never loses it.
THEOREM EntityKeepsAState == Spec => []NullStateIsTransient
  <1>1. IInv => NullStateIsTransient
    BY DEF IInv
  <1> QED
    BY <1>1, SpecIInv, PTL

----------------------------------------------------------------------------
(***************************************************************************)
(* What the form's check is worth when requests follow one another         *)
(***************************************************************************)
OneAtATime ==
  \A v, w \in Workers :
     worker[v].pc # "idle" /\ worker[w].pc # "idle" => v = w

\* The entity is still in the state the form was opened in.
FormIsCurrent ==
  \A w \in Workers :
     worker[w].pc = "update" => worker[w].seen = entity

\* Nobody is at work on a work that does not exist.
IdleBeforeCreation ==
  entity = NoEntity => \A w \in Workers : worker[w].pc = "idle"

SerialInv == OneAtATime /\ FormIsCurrent /\ IdleBeforeCreation

\* A worker that starts does so alone; the others were at it before.
LEMMA StartsAlone ==
  ASSUME Serial, IInv, SerialInv, NEW w \in Workers, WorkerStep(w)
  PROVE  \A v \in Workers \ {w} : worker[v].pc = "idle"
  <1>1. CASE CreateWork(w)
    BY <1>1 DEF CreateWork, SerialInv, IdleBeforeCreation
  <1>2. CASE LoadWork(w)
    BY <1>2 DEF LoadWork
  <1>3. CASE ~CreateWork(w) /\ ~LoadWork(w)
    <2>1. worker[w].pc # "idle"
      BY <1>3
      DEF WorkerStep, OpenForm, UpdateState, LoadAcl, RunAclMethod,
          RunStateMethod, FailMethod, SaveTarget, PublishMetadata, SaveAcl,
          AttachFiles, MethodsLeft
    <2> QED
      BY <2>1 DEF SerialInv, OneAtATime
  <1> QED
    BY <1>1, <1>2, <1>3

\* Whatever a worker does, it does to a work that exists.
LEMMA WorkExists ==
  ASSUME IInv, IdleBeforeCreation, NEW w \in Workers, WorkerStep(w)
  PROVE  entity' # NoEntity
<1>1. CASE CreateWork(w)
  BY <1>1 DEF CreateWork, NoEntity, NoState
<1>2. CASE UpdateState(w)
  BY <1>2, WorkflowAssumption
  DEF UpdateState, IInv, FormWasPermitted, TypeOK, Task, NoEntity, NoState
<1>3. CASE ~CreateWork(w) /\ ~UpdateState(w)
  <2>1. entity' = entity /\ entity # NoEntity
    BY <1>3
    DEF WorkerStep, LoadWork, OpenForm, LoadAcl, RunAclMethod,
        RunStateMethod, FailMethod, SaveTarget, PublishMetadata, SaveAcl,
        AttachFiles, MethodsLeft, stores, IdleBeforeCreation
  <2> QED
    BY <2>1
<1> QED
  BY <1>1, <1>2, <1>3

LEMMA NextSerialInv ==
  ASSUME Serial, IInv, SerialInv, [Next]_vars
  PROVE  SerialInv'
  <1>0. TypeOK
    BY DEF IInv
  <1>1. ASSUME NEW w \in Workers, WorkerStep(w) PROVE SerialInv'
    <2>1. \A v \in Workers \ {w} : worker'[v].pc = "idle"
      BY <1>0, <1>1, StartsAlone, OthersUntouched
    <2>2. worker'[w].pc = "update" => worker'[w].seen = entity'
      <3>1. CASE CreateWork(w)
        BY <1>0, <3>1 DEF CreateWork, Idle, TypeOK
      <3>2. CASE OpenForm(w)
        <4>1. entity' = entity
          BY <3>2 DEF OpenForm, stores
        <4> QED
          BY <1>0, <3>2, <4>1, FormOpened DEF Idle
      <3>3. CASE UpdateState(w)
        BY <1>0, <3>3 DEF UpdateState, TypeOK, Task
      <3>4. CASE ~CreateWork(w) /\ ~OpenForm(w) /\ ~UpdateState(w)
        BY <1>0, <1>1, <3>4, NotUpdating
      <3> QED
        BY <3>1, <3>2, <3>3, <3>4
    <2>3. entity' # NoEntity
      BY <1>1, WorkExists DEF SerialInv
    <2> QED
      BY <2>1, <2>2, <2>3
      DEF SerialInv, OneAtATime, FormIsCurrent, IdleBeforeCreation
  <1>2. ASSUME NEW k \in DOMAIN jobs, JobStep(k) PROVE SerialInv'
    BY <1>2
    DEF JobStep, StartMemberJob, FinishMemberJob, stores, SerialInv,
        OneAtATime, FormIsCurrent, IdleBeforeCreation
  <1>3. CASE UNCHANGED vars
    BY <1>3 DEF vars, SerialInv, OneAtATime, FormIsCurrent, IdleBeforeCreation
  <1> QED
    BY <1>1, <1>2, <1>3 DEF Next

\* A work whose requests follow one another moves, in every workflow, only by
\* an action that is permitted in the state the work is in.
THEOREM SerialMovesArePermitted ==
  ASSUME Serial
  PROVE  Spec => MovesByPermittedActions
  <1>1. Init => SerialInv
    BY DEF Init, Idle, SerialInv, OneAtATime, FormIsCurrent, IdleBeforeCreation
  <1>2. IInv /\ SerialInv /\ [Next]_vars => SerialInv'
    BY NextSerialInv
  <1>3. IInv /\ SerialInv /\ [Next]_vars =>
          [entity' # entity /\ entity \in States
             => Permitted(entity, entity')]_vars
    <2> SUFFICES ASSUME IInv, SerialInv, Next, entity' # entity,
                        entity \in States
                 PROVE  Permitted(entity, entity')
      BY DEF vars
    <2>1. PICK w \in Workers : UpdateState(w)
      BY WorkflowAssumption
      DEF Next, WorkerStep, CreateWork, LoadWork, OpenForm, LoadAcl,
          RunAclMethod, RunStateMethod, FailMethod, SaveTarget,
          PublishMetadata, SaveAcl, AttachFiles, JobStep, StartMemberJob,
          FinishMemberJob, stores, NoEntity
    <2>2. /\ worker[w].user \in Users
          /\ worker[w].action \in Actions
          /\ UserMay(worker[w].user, entity, worker[w].action)
          /\ Resulting[worker[w].action] = entity'
      BY <2>1, WorkflowAssumption
      DEF UpdateState, IInv, TypeOK, Task, FormWasPermitted, SerialInv,
          FormIsCurrent, NoState
    <2> QED
      BY <2>2 DEF Permitted
  <1> QED
    BY <1>1, <1>2, <1>3, SpecIInv, PTL DEF Spec, MovesByPermittedActions
----------------------------------------------------------------------------
(***************************************************************************)
(* What each step makes of the worker that takes it                        *)
(***************************************************************************)
SameRequest(w) ==
  /\ worker'[w].user = worker[w].user
  /\ worker'[w].action = worker[w].action
  /\ worker'[w].seen = worker[w].seen
SameMemory(w) ==
  worker'[w].loaded = worker[w].loaded /\ worker'[w].state = worker[w].state
SameProgress(w) ==
  worker'[w].cache = worker[w].cache /\ worker'[w].step = worker[w].step

LEMMA TaskCreated ==
  ASSUME TypeOK, NEW w \in Workers, CreateWork(w)
  PROVE  /\ worker'[w].pc = "update" /\ worker'[w].action = DepositAction
         /\ worker'[w].loaded = "active" /\ worker'[w].state = "active"
         /\ worker'[w].cache \in SUBSET Modes /\ worker'[w].step = 1
  BY DEF CreateWork, Idle, TypeOK

LEMMA TaskLoaded ==
  ASSUME TypeOK, NEW w \in Workers, LoadWork(w)
  PROVE  /\ worker'[w].pc = "loaded" /\ worker'[w].cache = NotLoaded
         /\ worker'[w].loaded = object /\ worker'[w].state = object
         /\ worker'[w].step = 1
  BY DEF LoadWork, Idle, TypeOK

LEMMA TaskOpened ==
  ASSUME TypeOK, NEW w \in Workers, OpenForm(w)
  PROVE  \/ worker'[w] = Idle
         \/ SameMemory(w) /\ SameProgress(w)
<1>0. worker[w] \in Task
  BY DEF TypeOK
<1>1. PICK user \in Users, action \in Actions :
        \/ worker' = [worker EXCEPT ![w].pc = "update", ![w].user = user,
                                    ![w].action = action, ![w].seen = entity]
        \/ worker' = [worker EXCEPT ![w] = Idle]
  BY DEF OpenForm
<1> QED
  BY <1>0, <1>1 DEF TypeOK, Task, SameMemory, SameProgress

LEMMA TaskMoved ==
  ASSUME TypeOK, NEW w \in Workers,
         UpdateState(w) \/ PublishMetadata(w) \/ SaveAcl(w)
  PROVE  /\ SameRequest(w) /\ SameMemory(w) /\ SameProgress(w)
         /\ UpdateState(w) =>
              worker[w].pc = "update" /\ worker'[w].pc = "methods"
         /\ PublishMetadata(w) =>
              worker[w].pc = "publish" /\ worker'[w].pc = "save_acl"
         /\ SaveAcl(w) => worker[w].pc = "save_acl" /\ worker'[w].pc = "attach"
<1>0. worker[w] \in Task
  BY DEF TypeOK
<1> QED
  BY <1>0 DEF UpdateState, PublishMetadata, SaveAcl, TypeOK, Task, SameRequest,
              SameMemory, SameProgress

LEMMA TaskTookMethod ==
  ASSUME TypeOK, NEW w \in Workers,
         LoadAcl(w) \/ RunAclMethod(w) \/ RunStateMethod(w)
  PROVE  /\ worker[w].pc = "methods" /\ worker'[w].pc = "methods"
         /\ SameRequest(w) /\ worker'[w].loaded = worker[w].loaded
         /\ LoadAcl(w) => /\ worker'[w].cache = acl
                          /\ worker'[w].step = worker[w].step
         /\ RunAclMethod(w) =>
              /\ worker'[w].cache = Apply(NextMethod(w), worker[w].cache)
              /\ worker'[w].step = worker[w].step + 1
         /\ RunStateMethod(w) =>
              /\ worker'[w].cache = worker[w].cache
              /\ worker'[w].step = worker[w].step + 1
              /\ worker'[w].state = IF NextMethod(w) = "activate"
                                    THEN "active" ELSE "inactive"
         /\ ~RunStateMethod(w) => worker'[w].state = worker[w].state
<1>0. worker[w] \in Task
  BY DEF TypeOK
<1>1. worker[w].pc = "methods"
  BY DEF LoadAcl, RunAclMethod, RunStateMethod, MethodsLeft
<1>2. CASE LoadAcl(w)
  BY <1>0, <1>1, <1>2
  DEF LoadAcl, RunAclMethod, RunStateMethod, TypeOK, Task, SameRequest,
      AclMethods, StateMethods
<1>3. CASE RunAclMethod(w)
  <2> DEFINE new == Apply(NextMethod(w), worker[w].cache)
  <2>1. worker' = [worker EXCEPT ![w].cache = new, ![w].step = @ + 1]
    BY <1>3 DEF RunAclMethod
  <2> HIDE DEF new
  <2>2. /\ worker'[w].pc = worker[w].pc /\ SameRequest(w) /\ SameMemory(w)
        /\ worker'[w].cache = new /\ worker'[w].step = worker[w].step + 1
    BY <1>0, <2>1 DEF TypeOK, Task, SameRequest, SameMemory
  <2>3. ~LoadAcl(w) /\ ~RunStateMethod(w)
    BY <1>3 DEF LoadAcl, RunAclMethod, RunStateMethod, AclMethods, StateMethods
  <2> QED
    BY <1>1, <1>3, <2>2, <2>3 DEF SameMemory, new
<1>4. CASE RunStateMethod(w)
  BY <1>0, <1>1, <1>4
  DEF LoadAcl, RunAclMethod, RunStateMethod, TypeOK, Task, SameRequest,
      AclMethods, StateMethods
<1> QED
  BY <1>2, <1>3, <1>4

LEMMA TaskFailed ==
  ASSUME TypeOK, NEW w \in Workers, FailMethod(w)
  PROVE  /\ worker[w].pc = "methods"
         /\ \/ worker'[w] = Idle
            \/ /\ worker'[w].pc = "publish" /\ worker[w].action = DepositAction
               /\ SameRequest(w) /\ SameMemory(w) /\ SameProgress(w)
<1>0. worker[w] \in Task
  BY DEF TypeOK
<1>1. worker[w].pc = "methods"
  BY DEF FailMethod
<1>2. CASE worker' = [worker EXCEPT ![w] = Idle]
  BY <1>1, <1>2 DEF TypeOK
<1>3. CASE worker' = [worker EXCEPT ![w] = AfterAction(w)]
  <2>1. worker'[w] = AfterAction(w)
    BY <1>3 DEF TypeOK
  <2> QED
    BY <1>0, <1>1, <2>1
    DEF AfterAction, Task, SameRequest, SameMemory, SameProgress
<1> QED
  BY <1>2, <1>3 DEF FailMethod

LEMMA TaskSaved ==
  ASSUME TypeOK, NEW w \in Workers, SaveTarget(w)
  PROVE  /\ worker[w].pc = "methods" /\ ~MethodsLeft(w)
         /\ worker[w].action # DepositAction => worker'[w] = Idle
         /\ worker[w].action = DepositAction =>
              /\ worker'[w].pc = "publish"
              /\ SameRequest(w) /\ SameProgress(w)
              /\ worker'[w].loaded = worker[w].state
<1>0. worker[w] \in Task
  BY DEF TypeOK
<1>1. worker'[w] = AfterSave(w) /\ worker[w].pc = "methods" /\ ~MethodsLeft(w)
  BY DEF SaveTarget, TypeOK
<1>2. worker[w].action # DepositAction => worker'[w] = Idle
  BY <1>1 DEF AfterSave
<1>3. ASSUME worker[w].action = DepositAction
      PROVE  worker'[w] = [Synced(w) EXCEPT !.pc = "publish"]
  BY <1>1, <1>3 DEF AfterSave
<1>4. ASSUME worker[w].action = DepositAction
      PROVE  /\ worker'[w].pc = "publish"
             /\ SameRequest(w) /\ SameProgress(w)
             /\ worker'[w].loaded = worker[w].state
  BY <1>0, <1>3, <1>4 DEF Synced, Task, SameRequest, SameProgress
<1> QED
  BY <1>1, <1>2, <1>4

----------------------------------------------------------------------------
(***************************************************************************)
(* The index, when requests follow one another: every worker then acts on  *)
(* the work as it is stored, and the list it has in memory is the stored   *)
(* one, but for the list the create_work transaction has yet to save.      *)
(***************************************************************************)
Creating(w) ==
  worker[w].pc \notin {"idle", "loaded"} /\ worker[w].action = DepositAction

MemoryIsCurrent(w) ==
  /\ worker[w].pc # "idle" => worker[w].loaded = object
  /\ worker[w].pc \in {"loaded", "update"} =>
       worker[w].state = object /\ worker[w].step = 1
  /\ worker[w].pc \notin {"idle", "publish", "save_acl"} /\ ~Creating(w) =>
       worker[w].cache \in {NotLoaded, acl}
  /\ worker[w].pc \in {"publish", "save_acl", "attach"} =>
       worker[w].action = DepositAction
  /\ worker[w].pc = "attach" => worker[w].cache = acl

IndexAgrees == index.suppressed <=> object = "inactive"
AccessIndexed ==
  \/ index.access = acl
  \/ \E w \in Workers : worker[w].pc \in {"publish", "save_acl"}

IndexInv ==
  /\ \A w \in Workers : MemoryIsCurrent(w)
  /\ IndexAgrees
  /\ AccessIndexed
  /\ entity = NoEntity => object = "active"

LEMMA DocumentSays ==
  ASSUME NEW inMemory, NEW access
  PROVE  /\ Document(inMemory, access).suppressed <=> inMemory = "inactive"
         /\ Document(inMemory, access).access = access
  BY DEF Document

LEMMA IdleIsCurrent ==
  ASSUME NEW w \in Workers, worker'[w].pc = "idle"
  PROVE  MemoryIsCurrent(w)'
  BY DEF MemoryIsCurrent

\* A pending change is indexed as it is stored, and no other changes anything.
LEMMA AclMethodIndexed ==
  ASSUME TypeOK, NEW w \in Workers, RunAclMethod(w),
         Creating(w) \/ worker[w].cache = acl
  PROVE  /\ ~Creating(w) => acl' = Apply(NextMethod(w), acl)
         /\ \/ UNCHANGED <<acl, index>>
            \/ index' = Document(worker[w].loaded, acl')
<1>1. CASE Pending(NextMethod(w), worker[w].cache)
  BY <1>1 DEF RunAclMethod
<1>2. CASE ~Pending(NextMethod(w), worker[w].cache)
  <2>1. UNCHANGED <<acl, index>> /\ NextMethod(w) = "revoke_edit"
        /\ "edit" \notin worker[w].cache
    BY <1>2 DEF RunAclMethod, Pending
  <2>2. Apply(NextMethod(w), worker[w].cache) = worker[w].cache \ {"edit"}
    BY <2>1 DEF Apply
  <2> QED
    BY <2>1, <2>2
<1> QED
  BY <1>1, <1>2

\* What the step of the only worker at work leaves in its memory, the stored
\* work and the index.
LEMMA IndexStep ==
  ASSUME IInv, SerialInv, IndexInv, NEW w \in Workers, WorkerStep(w),
         \A v \in Workers \ {w} : worker[v].pc = "idle"
  PROVE  MemoryIsCurrent(w)' /\ IndexAgrees' /\ AccessIndexed'
<1>0. TypeOK /\ IndexAgrees /\ MemoryIsCurrent(w) /\ worker[w] \in Task
  BY DEF IInv, IndexInv, TypeOK
<1>1. worker[w].pc \notin {"publish", "save_acl"} => index.access = acl
  BY DEF IndexInv, AccessIndexed
<1>2. ASSUME UNCHANGED <<object, acl, index>>, index.access = acl,
             MemoryIsCurrent(w)'
      PROVE  MemoryIsCurrent(w)' /\ IndexAgrees' /\ AccessIndexed'
  BY <1>0, <1>2 DEF IndexAgrees, AccessIndexed
<1>3. ASSUME NEW access, index' = Document(object', access),
             access = acl' \/ worker'[w].pc \in {"publish", "save_acl"},
             MemoryIsCurrent(w)'
      PROVE  MemoryIsCurrent(w)' /\ IndexAgrees' /\ AccessIndexed'
  BY <1>3, DocumentSays DEF IndexAgrees, AccessIndexed
<1>4. CASE CreateWork(w)
  <2>1. object = "active" /\ worker[w].pc = "idle"
    BY <1>4 DEF CreateWork, IndexInv, SerialInv, IdleBeforeCreation
  <2>2. UNCHANGED <<object, acl, index>>
    BY <1>4, <2>1 DEF CreateWork
  <2>3. MemoryIsCurrent(w)'
    BY <1>0, <1>4, <2>1, <2>2, TaskCreated DEF MemoryIsCurrent, Creating
  <2> QED
    BY <1>1, <1>2, <2>1, <2>2, <2>3
<1>5. CASE LoadWork(w)
  <2>1. UNCHANGED <<object, acl, index>> /\ worker[w].pc = "idle"
    BY <1>5 DEF LoadWork, stores
  <2>2. MemoryIsCurrent(w)'
    BY <1>0, <1>5, <2>1, TaskLoaded DEF MemoryIsCurrent, Creating
  <2> QED
    BY <1>1, <1>2, <2>1, <2>2
<1>6. CASE OpenForm(w)
  <2>1. UNCHANGED <<object, acl, index>> /\ worker[w].pc = "loaded"
    BY <1>6 DEF OpenForm, stores
  <2>2. CASE worker'[w] = Idle
    <3>1. MemoryIsCurrent(w)'
      BY <2>2, IdleIsCurrent DEF Idle
    <3> QED
      BY <1>1, <1>2, <2>1, <3>1
  <2>3. CASE worker'[w].pc = "update" /\ worker'[w].action # DepositAction
             /\ SameMemory(w) /\ SameProgress(w)
    <3>1. MemoryIsCurrent(w)'
      BY <1>0, <2>1, <2>3
      DEF MemoryIsCurrent, Creating, SameMemory, SameProgress
    <3> QED
      BY <1>1, <1>2, <2>1, <3>1
  <2> QED
    BY <1>0, <1>6, <2>2, <2>3, FormOpened, TaskOpened
<1>7. CASE UpdateState(w)
  <2>1. UNCHANGED <<object, acl, index>>
    BY <1>7 DEF UpdateState
  <2>2. MemoryIsCurrent(w)' /\ worker[w].pc = "update"
    BY <1>0, <1>7, <2>1, TaskMoved
    DEF MemoryIsCurrent, Creating, SameRequest, SameMemory, SameProgress
  <2> QED
    BY <1>1, <1>2, <2>1, <2>2
<1>8. CASE LoadAcl(w)
  <2>1. UNCHANGED <<object, acl, index>>
    BY <1>8 DEF LoadAcl, stores
  <2>2. MemoryIsCurrent(w)' /\ worker[w].pc = "methods"
    BY <1>0, <1>8, <2>1, TaskTookMethod
    DEF MemoryIsCurrent, Creating, SameRequest
  <2> QED
    BY <1>1, <1>2, <2>1, <2>2
<1>9. CASE RunAclMethod(w)
  <2>1. worker[w].cache # NotLoaded /\ object' = object
    BY <1>9 DEF RunAclMethod
  <2>2. /\ worker[w].pc = "methods" /\ worker'[w].pc = "methods"
        /\ SameRequest(w) /\ worker'[w].loaded = worker[w].loaded
        /\ worker'[w].cache = Apply(NextMethod(w), worker[w].cache)
    BY <1>0, <1>9, TaskTookMethod
  <2>3. Creating(w) \/ worker[w].cache = acl
    BY <1>0, <2>1, <2>2 DEF MemoryIsCurrent
  <2>4. ~Creating(w) => worker'[w].cache = acl'
    BY <1>0, <1>9, <2>2, <2>3, AclMethodIndexed
  <2>5. Creating(w)' <=> Creating(w)
    BY <2>2 DEF Creating, SameRequest
  <2>6. MemoryIsCurrent(w)'
    BY <1>0, <2>1, <2>2, <2>4, <2>5 DEF MemoryIsCurrent
  <2>7. CASE UNCHANGED <<acl, index>>
    BY <1>1, <1>2, <2>1, <2>2, <2>6, <2>7
  <2>8. CASE index' = Document(worker[w].loaded, acl')
    <3>1. index' = Document(object', acl')
      BY <1>0, <2>1, <2>2, <2>8 DEF MemoryIsCurrent
    <3> QED
      BY <1>3, <2>6, <3>1
  <2> QED
    BY <1>0, <1>9, <2>3, <2>7, <2>8, AclMethodIndexed
<1>10. CASE RunStateMethod(w)
  <2>1. UNCHANGED <<object, acl, index>>
    BY <1>10 DEF RunStateMethod, stores
  <2>2. MemoryIsCurrent(w)' /\ worker[w].pc = "methods"
    BY <1>0, <1>10, <2>1, TaskTookMethod
    DEF MemoryIsCurrent, Creating, SameRequest
  <2> QED
    BY <1>1, <1>2, <2>1, <2>2
<1>11. CASE FailMethod(w)
  <2>1. UNCHANGED <<object, acl, index>> /\ worker[w].pc = "methods"
    BY <1>11 DEF FailMethod, stores
  <2>2. CASE worker'[w] = Idle
    <3>1. MemoryIsCurrent(w)'
      BY <2>2, IdleIsCurrent DEF Idle
    <3> QED
      BY <1>1, <1>2, <2>1, <3>1
  <2>3. CASE /\ worker'[w].pc = "publish" /\ worker[w].action = DepositAction
             /\ SameRequest(w) /\ SameMemory(w)
    <3>1. MemoryIsCurrent(w)'
      BY <1>0, <2>1, <2>3
      DEF MemoryIsCurrent, Creating, SameRequest, SameMemory
    <3> QED
      BY <1>1, <1>2, <2>1, <3>1
  <2> QED
    BY <1>0, <1>11, <2>2, <2>3, TaskFailed
<1>12. CASE SaveTarget(w)
  <2> DEFINE access == IF worker[w].cache = NotLoaded THEN acl
                                                      ELSE worker[w].cache
  <2>1. /\ worker[w].pc = "methods" /\ acl' = acl
        /\ worker[w].action # DepositAction => worker'[w] = Idle
        /\ worker[w].action = DepositAction =>
             /\ worker'[w].pc = "publish" /\ SameRequest(w)
             /\ worker'[w].loaded = worker[w].state
    BY <1>0, <1>12, TaskSaved DEF SaveTarget
  <2>2. object' = worker[w].state
    BY <1>0, <1>12, <2>1 DEF SaveTarget, MemoryIsCurrent
  <2>3. MemoryIsCurrent(w)'
    BY <2>1, <2>2, IdleIsCurrent DEF MemoryIsCurrent, Creating, SameRequest, Idle
  <2>4. access = acl' \/ worker'[w].pc \in {"publish", "save_acl"}
    BY <1>0, <2>1 DEF MemoryIsCurrent, Creating
  <2>5. \/ index' = Document(worker[w].state, access)
        \/ UNCHANGED <<object, index>>
    BY <1>12 DEF SaveTarget
  <2> HIDE DEF access
  <2>6. CASE index' = Document(worker[w].state, access)
    BY <1>3, <2>2, <2>3, <2>4, <2>6
  <2>7. CASE UNCHANGED <<object, index>>
    BY <1>1, <1>2, <2>1, <2>3, <2>7
  <2> QED
    BY <2>5, <2>6, <2>7
<1>13. CASE PublishMetadata(w)
  <2>1. index' = Document(worker[w].loaded, worker[w].cache)
        /\ UNCHANGED <<object, acl>>
    BY <1>13 DEF PublishMetadata
  <2>2. worker[w].pc = "publish" /\ worker'[w].pc = "save_acl"
        /\ SameRequest(w) /\ SameMemory(w) /\ SameProgress(w)
    BY <1>0, <1>13, TaskMoved
  <2>3. MemoryIsCurrent(w)' /\ worker[w].loaded = object'
    BY <1>0, <2>1, <2>2
    DEF MemoryIsCurrent, Creating, SameRequest, SameMemory
  <2> QED
    BY <1>3, <2>1, <2>2, <2>3
<1>14. CASE SaveAcl(w)
  <2>1. index' = Document(worker[w].loaded, worker[w].cache)
        /\ object' = object /\ acl' = worker[w].cache
    BY <1>14 DEF SaveAcl
  <2>2. worker[w].pc = "save_acl" /\ worker'[w].pc = "attach"
        /\ SameRequest(w) /\ SameMemory(w) /\ SameProgress(w)
    BY <1>0, <1>14, TaskMoved
  <2>3. MemoryIsCurrent(w)' /\ worker[w].loaded = object'
    BY <1>0, <2>1, <2>2
    DEF MemoryIsCurrent, Creating, SameRequest, SameMemory, SameProgress
  <2> QED
    BY <1>3, <2>1, <2>2, <2>3
<1>15. CASE AttachFiles(w)
  <2>1. /\ worker[w].pc = "attach" /\ acl' = acl
        /\ object' = worker[w].loaded /\ worker'[w] = Idle
        /\ index' = Document(worker[w].loaded, worker[w].cache)
    BY <1>0, <1>15 DEF AttachFiles, TypeOK
  <2>2. worker[w].cache = acl' /\ MemoryIsCurrent(w)'
    BY <1>0, <2>1, IdleIsCurrent DEF MemoryIsCurrent, Idle
  <2> QED
    BY <1>3, <2>1, <2>2
<1> QED
  BY <1>4, <1>5, <1>6, <1>7, <1>8, <1>9, <1>10, <1>11, <1>12, <1>13, <1>14,
     <1>15 DEF WorkerStep

LEMMA NextIndexInv ==
  ASSUME Serial, IInv, SerialInv, IndexInv, [Next]_vars
  PROVE  IndexInv'
<1>0. TypeOK
  BY DEF IInv
<1>1. ASSUME NEW w \in Workers, WorkerStep(w) PROVE IndexInv'
  <2>1. \A v \in Workers \ {w} : worker[v].pc = "idle"
    BY <1>1, StartsAlone
  <2>2. \A v \in Workers \ {w} : MemoryIsCurrent(v)'
    BY <1>0, <1>1, <2>1, OthersUntouched, IdleIsCurrent
  <2>3. MemoryIsCurrent(w)' /\ IndexAgrees' /\ AccessIndexed'
    BY <1>1, <2>1, IndexStep
  <2>4. entity' # NoEntity
    BY <1>1, WorkExists DEF SerialInv
  <2> QED
    BY <2>2, <2>3, <2>4 DEF IndexInv
<1>2. ASSUME NEW k \in DOMAIN jobs, JobStep(k) PROVE IndexInv'
  <2>1. UNCHANGED <<entity, object, acl, index, worker>>
    BY <1>2 DEF JobStep, StartMemberJob, FinishMemberJob, stores
  <2> QED
    BY <2>1 DEF IndexInv, MemoryIsCurrent, Creating, IndexAgrees, AccessIndexed
<1>3. CASE UNCHANGED vars
  BY <1>3
  DEF vars, stores, IndexInv, MemoryIsCurrent, Creating, IndexAgrees,
      AccessIndexed
<1> QED
  BY <1>1, <1>2, <1>3 DEF Next

LEMMA SerialFacts ==
  ASSUME Serial
  PROVE  Spec => [](IInv /\ SerialInv /\ IndexInv)
<1>1. Init => SerialInv
  BY DEF Init, Idle, SerialInv, OneAtATime, FormIsCurrent, IdleBeforeCreation
<1>2. Init => IndexInv
  BY DEF Init, Idle, IndexInv, MemoryIsCurrent, IndexAgrees, AccessIndexed
<1>3. IInv /\ SerialInv /\ IndexInv /\ [Next]_vars => SerialInv' /\ IndexInv'
  BY NextSerialInv, NextIndexInv
<1> QED
  BY <1>1, <1>2, <1>3, SpecIInv, PTL DEF Spec

\* A work whose requests follow one another, in every workflow and whichever
\* methods fail: when no action is in flight the index suppresses the work
\* exactly when it is inactive and answers with the access that is stored.
THEOREM SerialIndexIsCurrent ==
  ASSUME Serial
  PROVE  Spec => []IndexShowsObject
<1>1. IndexInv => IndexShowsObject
  BY DEF IndexInv, IndexShowsObject, IndexAgrees, AccessIndexed, Quiet
<1> QED
  BY <1>1, SerialFacts, PTL

----------------------------------------------------------------------------
(***************************************************************************)
(* The members' access, when the jobs run in turn as well: what they have, *)
(* with what the queued jobs will still do to it, is what the work has.    *)
(* The jobs of the create_work transaction may find nothing to act on, but *)
(* the list the files are attached with already holds what they do.        *)
(***************************************************************************)
EditMethods == {"grant_edit", "revoke_edit"}

ReadQueued == \E k \in DOMAIN jobs : jobs[k].method = "grant_read"
EditQueued == \E k \in DOMAIN jobs : jobs[k].method \in EditMethods

\* The method is the last one queued that is about edit access.
LastEditIs(method) ==
  \E k \in DOMAIN jobs :
    /\ jobs[k].method = method
    /\ \A j \in DOMAIN jobs :
         j > k => jobs[j].method \notin EditMethods \ {method}

\* The jobs that are queued would change nothing in these modes.
Absorbed(access) ==
  /\ ReadQueued => "read" \in access
  /\ LastEditIs("grant_edit") => "edit" \in access
  /\ LastEditIs("revoke_edit") => "edit" \notin access

\* The members have these modes once the queued jobs have run.
MembersReach(access) ==
  /\ Absorbed(access)
  /\ ~ReadQueued => ("read" \in access <=> "read" \in memberAcl)
  /\ ~EditQueued => ("edit" \in access <=> "edit" \in memberAcl)

HeadRuns ==
  \A k \in DOMAIN jobs :
    jobs[k].cache # NotLoaded => k = 1 /\ jobs[k].cache = memberAcl
FilesAttached ==
  /\ entity = NoEntity => jobs = <<>> /\ memberAcl = NotLoaded
  /\ memberAcl = NotLoaded =>
       entity = NoEntity \/ \E w \in Workers : Creating(w)
CreatorHasAll ==
  \A w \in Workers :
    Creating(w) => memberAcl = NotLoaded /\ Absorbed(worker[w].cache)

MembersInv ==
  /\ HeadRuns
  /\ FilesAttached
  /\ CreatorHasAll
  /\ memberAcl # NotLoaded => MembersReach(acl)

\* A queue that loses its first element.
LEMMA JobsWithoutFirst ==
  ASSUME NEW S, NEW q \in Seq(S), q # <<>>
  PROVE  /\ RemoveAt(q, 1) \in Seq(S)
         /\ Len(RemoveAt(q, 1)) = Len(q) - 1
         /\ \A k \in 1 .. Len(q) - 1 : RemoveAt(q, 1)[k] = q[k + 1]
<1>1. SubSeq(q, 1, 0) = <<>>
  OBVIOUS
<1>2. /\ SubSeq(q, 2, Len(q)) \in Seq(S)
      /\ Len(SubSeq(q, 2, Len(q))) = Len(q) - 1
      /\ \A k \in 1 .. Len(q) - 1 : SubSeq(q, 2, Len(q))[k] = q[k + 1]
  <2>1. Len(q) \in Nat /\ Len(q) # 0 /\ \A k \in 2 .. Len(q) : q[k] \in S
    OBVIOUS
  <2>2. \A k \in 1 .. Len(q) - 2 + 1 : SubSeq(q, 2, Len(q))[k] = q[2 + k - 1]
    BY <2>1, SubSeqProperties
  <2>3. /\ SubSeq(q, 2, Len(q)) \in Seq(S)
        /\ Len(SubSeq(q, 2, Len(q))) = IF 2 <= Len(q) THEN Len(q) - 2 + 1 ELSE 0
    BY <2>1, SubSeqProperties
  <2>4. Len(SubSeq(q, 2, Len(q))) = Len(q) - 1
    BY <2>1, <2>3
  <2>5. ASSUME NEW k \in 1 .. Len(q) - 1
        PROVE  SubSeq(q, 2, Len(q))[k] = q[k + 1]
    <3>1. k \in 1 .. Len(q) - 2 + 1 /\ 2 + k - 1 = k + 1
      BY <2>1
    <3>2. SubSeq(q, 2, Len(q))[k] = q[2 + k - 1]
      BY <2>2, <3>1
    <3> QED
      BY <3>1, <3>2
  <2> QED
    BY <2>3, <2>4, <2>5
<1>3. <<>> \o SubSeq(q, 2, Len(q)) = SubSeq(q, 2, Len(q))
  BY <1>2
<1>4. RemoveAt(q, 1) = SubSeq(q, 1, 1 - 1) \o SubSeq(q, 1 + 1, Len(q))
  BY DEF RemoveAt
<1>5. RemoveAt(q, 1) = SubSeq(q, 2, Len(q))
  BY <1>1, <1>3, <1>4
<1> QED
  BY <1>2, <1>5

\* What a method that is queued last, or leaves the queue, means for the rest.
LEMMA MethodQueued ==
  ASSUME TypeOK, NEW method \in AclMethods,
         jobs' = Append(jobs, [method |-> method, cache |-> NotLoaded])
  PROVE  /\ ReadQueued' <=> ReadQueued \/ method = "grant_read"
         /\ EditQueued' <=> EditQueued \/ method \in EditMethods
         /\ \A e \in EditMethods :
              LastEditIs(e)' => method = e \/ (LastEditIs(e) /\ method = "grant_read")
         /\ HeadRuns /\ memberAcl' = memberAcl => HeadRuns'
<1> DEFINE n == Len(jobs)
           job == [method |-> method, cache |-> NotLoaded]
<1>1. jobs \in Seq(Job) /\ n \in Nat /\ DOMAIN jobs = 1 .. n /\ job \in Job
  BY DEF TypeOK, Job, Cache
<1>2. job.method = method /\ job.cache = NotLoaded
  OBVIOUS
<1>3. /\ DOMAIN jobs' = 1 .. n + 1 /\ jobs'[n + 1] = job
      /\ \A k \in 1 .. n : jobs'[k] = jobs[k]
  BY <1>1
<1> HIDE DEF job
<1>4. /\ \A k \in 1 .. n + 1 : k \in 1 .. n \/ k = n + 1
      /\ n + 1 \in 1 .. n + 1 /\ 1 .. n \subseteq 1 .. n + 1
      /\ \A k \in 1 .. n : n + 1 > k
  BY <1>1
<1>5. ReadQueued' <=> ReadQueued \/ method = "grant_read"
  BY <1>1, <1>2, <1>3, <1>4 DEF ReadQueued
<1>6. EditQueued' <=> EditQueued \/ method \in EditMethods
  BY <1>1, <1>2, <1>3, <1>4 DEF EditQueued
<1>7. ASSUME NEW e \in EditMethods, LastEditIs(e)', method # e
      PROVE  LastEditIs(e) /\ method = "grant_read"
  <2>1. PICK k \in 1 .. n + 1 :
          /\ jobs'[k].method = e
          /\ \A j \in 1 .. n + 1 :
               j > k => jobs'[j].method \notin EditMethods \ {e}
    BY <1>3, <1>7 DEF LastEditIs
  <2>2. k \in 1 .. n
    BY <1>2, <1>3, <1>4, <1>7, <2>1
  <2>3. method \notin EditMethods \ {e}
    BY <1>2, <1>3, <1>4, <2>1, <2>2
  <2>4. jobs[k].method = e /\ \A j \in 1 .. n :
          j > k => jobs[j].method \notin EditMethods \ {e}
    BY <1>3, <1>4, <2>1, <2>2
  <2>5. LastEditIs(e)
    BY <1>1, <2>2, <2>4 DEF LastEditIs
  <2> QED
    BY <1>7, <2>3, <2>5 DEF AclMethods, EditMethods
<1>8. HeadRuns /\ memberAcl' = memberAcl => HeadRuns'
  BY <1>1, <1>2, <1>3, <1>4 DEF HeadRuns
<1> QED
  BY <1>5, <1>6, <1>7, <1>8

LEMMA MethodLeft ==
  ASSUME TypeOK, HeadRuns, jobs # <<>>, jobs' = RemoveAt(jobs, 1)
  PROVE  /\ ReadQueued' \/ jobs[1].method = "grant_read" <=> ReadQueued
         /\ EditQueued' \/ jobs[1].method \in EditMethods <=> EditQueued
         /\ \A e \in EditMethods :
              /\ LastEditIs(e)' => LastEditIs(e)
              /\ jobs[1].method = e /\ ~EditQueued' => LastEditIs(e)
         /\ HeadRuns'
<1> DEFINE n == Len(jobs)
<1>1. /\ jobs \in Seq(Job) /\ n \in Nat /\ DOMAIN jobs = 1 .. n
      /\ 1 \in 1 .. n
  BY DEF TypeOK
<1>2. /\ jobs' \in Seq(Job) /\ Len(jobs') = n - 1
      /\ \A k \in 1 .. n - 1 : jobs'[k] = jobs[k + 1]
  BY <1>1, JobsWithoutFirst
<1>3. DOMAIN jobs' = 1 .. n - 1
  BY <1>2
<1>4. /\ \A k \in 1 .. n - 1 : k + 1 \in 1 .. n /\ k + 1 # 1
      /\ \A k \in 1 .. n : k = 1 \/ (k - 1 \in 1 .. n - 1 /\ (k - 1) + 1 = k)
      /\ \A k, j \in 1 .. n - 1 : j > k <=> j + 1 > k + 1
  BY <1>1
<1>5. \A k \in 1 .. n : k = 1 \/ \E j \in 1 .. n - 1 : k = j + 1 /\ jobs'[j] = jobs[k]
  BY <1>2, <1>4
<1>6. ReadQueued' \/ jobs[1].method = "grant_read" <=> ReadQueued
  <2>1. ReadQueued => ReadQueued' \/ jobs[1].method = "grant_read"
    BY <1>1, <1>3, <1>5 DEF ReadQueued
  <2>2. ReadQueued' => ReadQueued
    <3>1. ASSUME NEW k \in 1 .. n - 1, jobs'[k].method = "grant_read"
          PROVE  \E j \in 1 .. n : jobs[j].method = "grant_read"
      <4>1. k + 1 \in 1 .. n /\ jobs[k + 1].method = "grant_read"
        BY <1>2, <1>4, <3>1
      <4> QED
        BY <4>1
    <3> QED
      BY <1>1, <1>3, <3>1 DEF ReadQueued
  <2>3. jobs[1].method = "grant_read" => ReadQueued
    BY <1>1 DEF ReadQueued
  <2> QED
    BY <2>1, <2>2, <2>3
<1>7. EditQueued' \/ jobs[1].method \in EditMethods <=> EditQueued
  <2>1. EditQueued => EditQueued' \/ jobs[1].method \in EditMethods
    BY <1>1, <1>3, <1>5 DEF EditQueued
  <2>2. EditQueued' => EditQueued
    BY <1>1, <1>2, <1>3, <1>4 DEF EditQueued
  <2>3. jobs[1].method \in EditMethods => EditQueued
    BY <1>1 DEF EditQueued
  <2> QED
    BY <2>1, <2>2, <2>3
<1>8. ASSUME NEW e \in EditMethods, LastEditIs(e)'
      PROVE  LastEditIs(e)
  <2>1. PICK k \in 1 .. n - 1 :
          /\ jobs'[k].method = e
          /\ \A j \in 1 .. n - 1 :
               j > k => jobs'[j].method \notin EditMethods \ {e}
    BY <1>3, <1>8 DEF LastEditIs
  <2>2. jobs[k + 1].method = e /\ k + 1 \in 1 .. n
    BY <1>2, <1>4, <2>1
  <2>3. ASSUME NEW j \in 1 .. n, j > k + 1
        PROVE  jobs[j].method \notin EditMethods \ {e}
    <3>1. j - 1 \in 1 .. n - 1 /\ j - 1 > k /\ (j - 1) + 1 = j
      BY <1>1, <2>3
    <3> QED
      BY <1>2, <2>1, <3>1
  <2> QED
    BY <1>1, <2>2, <2>3 DEF LastEditIs
<1>9. ASSUME NEW e \in EditMethods, jobs[1].method = e, ~EditQueued'
      PROVE  LastEditIs(e)
  <2>1. \A j \in 1 .. n : j > 1 => jobs[j].method \notin EditMethods
    <3>1. ASSUME NEW j \in 1 .. n, j > 1
          PROVE  jobs[j].method \notin EditMethods
      <4>1. j # 1
        BY <3>1
      <4>2. PICK m \in 1 .. n - 1 : jobs'[m] = jobs[j]
        BY <1>5, <4>1
      <4> QED
        BY <1>3, <1>9, <4>2 DEF EditQueued
    <3> QED
      BY <3>1
  <2> QED
    BY <1>1, <1>9, <2>1 DEF LastEditIs
<1>10. HeadRuns'
  BY <1>1, <1>2, <1>3, <1>4 DEF HeadRuns
<1> QED
  BY <1>6, <1>7, <1>8, <1>9, <1>10

\* A worker's step, seen from the members: the stored list is changed by a
\* method, which is queued for them too, or by the transaction that has not
\* attached them.
LEMMA MembersStep ==
  ASSUME DepositAction \notin FailingActions,
         IInv, SerialInv, IndexInv, MembersInv, NEW w \in Workers, WorkerStep(w),
         \A v \in Workers \ {w} : worker[v].pc = "idle"
  PROVE  /\ HeadRuns'
         /\ memberAcl' = NotLoaded => Creating(w)'
         /\ Creating(w)' => memberAcl' = NotLoaded /\ Absorbed(worker[w].cache)'
         /\ memberAcl' # NotLoaded => MembersReach(acl)'
<1> DEFINE Goal == /\ HeadRuns'
                   /\ memberAcl' = NotLoaded => Creating(w)'
                   /\ Creating(w)' => /\ memberAcl' = NotLoaded
                                      /\ Absorbed(worker[w].cache)'
                   /\ memberAcl' # NotLoaded => MembersReach(acl)'
<1>0. /\ TypeOK /\ MemoryIsCurrent(w) /\ worker[w] \in Task
      /\ HeadRuns /\ FilesAttached /\ CreatorHasAll
      /\ memberAcl # NotLoaded => MembersReach(acl)
  BY DEF IInv, IndexInv, MembersInv, TypeOK
<1>1. memberAcl = NotLoaded => entity = NoEntity \/ Creating(w)
  BY <1>0 DEF FilesAttached, Creating
<1>2. ASSUME UNCHANGED <<acl, memberAcl, jobs>>, Creating(w)' <=> Creating(w),
             entity # NoEntity,
             Creating(w) => worker'[w].cache = worker[w].cache
      PROVE  Goal
  <2>1. HeadRuns' /\ (memberAcl' # NotLoaded => MembersReach(acl)')
    BY <1>0, <1>2
    DEF HeadRuns, MembersReach, Absorbed, ReadQueued, EditQueued, LastEditIs
  <2>2. Creating(w)' => memberAcl' = NotLoaded /\ Absorbed(worker[w].cache)'
    BY <1>0, <1>2
    DEF CreatorHasAll, Absorbed, ReadQueued, EditQueued, LastEditIs
  <2> QED
    BY <1>1, <1>2, <2>1, <2>2
<1>3. worker[w].pc # "idle" => entity # NoEntity
  BY DEF SerialInv, IdleBeforeCreation
<1>4. CASE CreateWork(w)
  <2>1. jobs = <<>> /\ memberAcl = NotLoaded /\ UNCHANGED <<jobs, memberAcl>>
    BY <1>0, <1>4 DEF CreateWork, FilesAttached
  <2>2. ~ReadQueued' /\ HeadRuns'
        /\ \A e \in EditMethods : ~LastEditIs(e)'
    BY <2>1 DEF ReadQueued, LastEditIs, HeadRuns
  <2>3. Creating(w)'
    BY <1>0, <1>4, TaskCreated DEF Creating
  <2> QED
    BY <2>1, <2>2, <2>3 DEF Absorbed, EditMethods
<1>5. CASE LoadWork(w)
  <2>1. /\ UNCHANGED <<acl, memberAcl, jobs>> /\ entity # NoEntity
        /\ worker[w].pc = "idle"
    BY <1>5 DEF LoadWork, stores
  <2>2. ~Creating(w) /\ ~Creating(w)'
    BY <1>0, <1>5, <2>1, TaskLoaded DEF Creating
  <2> QED
    BY <1>2, <2>1, <2>2
<1>6. CASE OpenForm(w)
  <2>1. UNCHANGED <<acl, memberAcl, jobs>> /\ worker[w].pc = "loaded"
    BY <1>6 DEF OpenForm, stores
  <2>2. ~Creating(w) /\ ~Creating(w)'
    BY <1>0, <1>6, <2>1, FormOpened DEF Creating, Idle
  <2> QED
    BY <1>2, <1>3, <2>1, <2>2
<1>7. CASE UpdateState(w) \/ PublishMetadata(w)
  <2>1. UNCHANGED <<acl, memberAcl, jobs>>
    BY <1>7 DEF UpdateState, PublishMetadata
  <2>2. /\ worker[w].pc \notin {"idle", "loaded"}
        /\ worker'[w].pc \notin {"idle", "loaded"}
        /\ SameRequest(w) /\ SameProgress(w)
    BY <1>0, <1>7, TaskMoved
  <2>3. Creating(w)' <=> Creating(w)
    BY <2>2 DEF Creating, SameRequest
  <2> QED
    BY <1>2, <1>3, <2>1, <2>2, <2>3 DEF SameProgress
<1>8. CASE LoadAcl(w) \/ RunStateMethod(w)
  <2>1. UNCHANGED <<acl, memberAcl, jobs>>
    BY <1>8 DEF LoadAcl, RunStateMethod, stores
  <2>2. /\ worker[w].pc = "methods" /\ worker'[w].pc = "methods"
        /\ SameRequest(w)
        /\ RunStateMethod(w) => worker'[w].cache = worker[w].cache
    BY <1>0, <1>8, TaskTookMethod
  <2>3. Creating(w)' <=> Creating(w)
    BY <2>2 DEF Creating, SameRequest
  <2>4. LoadAcl(w) => ~Creating(w)
    BY <1>0, <2>2 DEF LoadAcl, IInv, CreationHasAcl, Creating
  <2> QED
    BY <1>2, <1>3, <1>8, <2>1, <2>2, <2>3, <2>4
<1>9. CASE RunAclMethod(w)
  <2> DEFINE method == NextMethod(w)
  <2>1. /\ method \in AclMethods /\ memberAcl' = memberAcl
        /\ jobs' = Append(jobs, [method |-> method, cache |-> NotLoaded])
        /\ worker[w].cache # NotLoaded
    BY <1>9 DEF RunAclMethod
  <2>2. /\ worker[w].pc = "methods" /\ worker'[w].pc = "methods"
        /\ SameRequest(w)
        /\ worker'[w].cache = Apply(method, worker[w].cache)
    BY <1>0, <1>9, TaskTookMethod
  <2>3. Creating(w)' <=> Creating(w)
    BY <2>2 DEF Creating, SameRequest
  <2>4. Creating(w) \/ worker[w].cache = acl
    BY <1>0, <2>1, <2>2 DEF MemoryIsCurrent
  <2>5. ~Creating(w) => acl' = Apply(method, acl)
    BY <1>0, <1>9, <2>4, AclMethodIndexed
  <2> HIDE DEF method
  <2>6. /\ ReadQueued' <=> ReadQueued \/ method = "grant_read"
        /\ EditQueued' <=> EditQueued \/ method \in EditMethods
        /\ \A e \in EditMethods :
             LastEditIs(e)' =>
               method = e \/ (LastEditIs(e) /\ method = "grant_read")
        /\ HeadRuns'
    BY <1>0, <2>1, MethodQueued
  <2>7. ASSUME NEW access, Absorbed(access), NEW new,
               new = Apply(method, access)
        PROVE  /\ ReadQueued' => "read" \in new
               /\ LastEditIs("grant_edit")' => "edit" \in new
               /\ LastEditIs("revoke_edit")' => "edit" \notin new
    BY <2>1, <2>6, <2>7 DEF Absorbed, Apply, AclMethods, EditMethods
  <2>8. Creating(w)' => memberAcl' = NotLoaded /\ Absorbed(worker[w].cache)'
    BY <1>0, <2>1, <2>2, <2>3, <2>7 DEF CreatorHasAll, Absorbed
  <2>9. ASSUME memberAcl' # NotLoaded PROVE MembersReach(acl)'
    <3>1. memberAcl # NotLoaded /\ ~Creating(w) /\ MembersReach(acl)
      BY <1>0, <2>1, <2>9 DEF CreatorHasAll
    <3>2. Absorbed(acl)'
      BY <2>5, <2>7, <3>1 DEF MembersReach, Absorbed
    <3>3. /\ ~ReadQueued' => ("read" \in acl' <=> "read" \in memberAcl')
          /\ ~EditQueued' => ("edit" \in acl' <=> "edit" \in memberAcl')
      BY <2>1, <2>5, <2>6, <3>1 DEF MembersReach, Apply, AclMethods, EditMethods
    <3> QED
      BY <3>2, <3>3 DEF MembersReach
  <2> QED
    BY <1>1, <1>3, <2>1, <2>2, <2>3, <2>6, <2>8, <2>9
<1>10. CASE FailMethod(w)
  <2>1. UNCHANGED <<acl, memberAcl, jobs>> /\ worker[w].action # DepositAction
    BY <1>10 DEF FailMethod, stores
  <2>2. worker[w].pc = "methods" /\ worker'[w] = Idle
    BY <1>0, <1>10, <2>1, TaskFailed
  <2> QED
    BY <1>2, <1>3, <2>1, <2>2 DEF Creating, Idle
<1>11. CASE SaveTarget(w)
  <2>1. UNCHANGED <<acl, memberAcl, jobs>>
    BY <1>11 DEF SaveTarget
  <2>2. /\ worker[w].pc = "methods"
        /\ Creating(w)' <=> Creating(w)
        /\ Creating(w) => worker'[w].cache = worker[w].cache
    BY <1>0, <1>11, TaskSaved DEF Creating, Idle, SameRequest, SameProgress
  <2> QED
    BY <1>2, <1>3, <2>1, <2>2
<1>12. CASE SaveAcl(w)
  <2>1. UNCHANGED <<memberAcl, jobs>>
    BY <1>12 DEF SaveAcl
  <2>2. /\ worker[w].pc = "save_acl" /\ worker'[w].pc = "attach"
        /\ SameRequest(w) /\ SameProgress(w)
    BY <1>0, <1>12, TaskMoved
  <2>3. Creating(w) /\ Creating(w)'
    BY <1>0, <2>2 DEF MemoryIsCurrent, Creating, SameRequest
  <2>4. memberAcl' = NotLoaded /\ HeadRuns'
    BY <1>0, <2>1, <2>3 DEF CreatorHasAll, HeadRuns
  <2>5. Absorbed(worker[w].cache)'
    BY <1>0, <2>1, <2>2, <2>3
    DEF CreatorHasAll, SameProgress, Absorbed, ReadQueued, EditQueued, LastEditIs
  <2> QED
    BY <2>3, <2>4, <2>5
<1>13. CASE AttachFiles(w)
  <2>1. /\ worker[w].pc = "attach" /\ memberAcl' = acl
        /\ UNCHANGED <<acl, jobs>> /\ worker'[w] = Idle
    BY <1>0, <1>13 DEF AttachFiles, TypeOK
  <2>2. Creating(w) /\ worker[w].cache = acl
    BY <1>0, <2>1 DEF MemoryIsCurrent, Creating
  <2>3. memberAcl = NotLoaded /\ Absorbed(acl)
    BY <1>0, <2>2 DEF CreatorHasAll
  <2>4. HeadRuns'
    BY <1>0, <2>1, <2>3 DEF HeadRuns
  <2>5. MembersReach(acl)'
    BY <2>1, <2>3
    DEF MembersReach, Absorbed, ReadQueued, EditQueued, LastEditIs
  <2>6. memberAcl' # NotLoaded /\ ~Creating(w)'
    BY <1>0, <2>1, RunAssumption DEF TypeOK, Creating, Idle
  <2> QED
    BY <2>4, <2>5, <2>6
<1> QED
  BY <1>4, <1>5, <1>6, <1>7, <1>8, <1>9, <1>10, <1>11, <1>12, <1>13
  DEF WorkerStep

\* A job that runs in its turn gives the members what was due to them.
LEMMA MemberJobStep ==
  ASSUME JobsInOrder, IInv, MembersInv, NEW k \in DOMAIN jobs, JobStep(k)
  PROVE  MembersInv'
<1>0. /\ TypeOK /\ HeadRuns /\ FilesAttached /\ CreatorHasAll
      /\ memberAcl # NotLoaded => MembersReach(acl)
      /\ jobs \in Seq(Job) /\ jobs[k] \in Job /\ jobs # <<>>
  BY DEF IInv, MembersInv, TypeOK
<1>1. k = 1 /\ UNCHANGED <<entity, acl, worker>>
  BY DEF JobStep, StartMemberJob, FinishMemberJob, MayRun, stores
<1>2. entity # NoEntity
  BY <1>0 DEF FilesAttached
<1>3. CASE StartMemberJob(k) /\ memberAcl = NotLoaded
  <2>1. jobs' = RemoveAt(jobs, 1) /\ memberAcl' = NotLoaded
    BY <1>1, <1>3 DEF StartMemberJob
  <2>2. /\ ReadQueued' => ReadQueued
        /\ \A e \in EditMethods : LastEditIs(e)' => LastEditIs(e)
        /\ HeadRuns'
    BY <1>0, <2>1, MethodLeft
  <2>3. CreatorHasAll'
    BY <1>0, <1>1, <2>1, <2>2 DEF CreatorHasAll, Creating, Absorbed, EditMethods
  <2>4. FilesAttached'
    BY <1>0, <1>1, <1>2, <1>3, <2>1 DEF FilesAttached, Creating
  <2> QED
    BY <2>1, <2>2, <2>3, <2>4 DEF MembersInv
<1>4. CASE StartMemberJob(k) /\ memberAcl # NotLoaded
  <2>1. jobs' = [jobs EXCEPT ![1].cache = memberAcl] /\ memberAcl' = memberAcl
    BY <1>1, <1>4 DEF StartMemberJob
  <2>2. /\ DOMAIN jobs' = DOMAIN jobs
        /\ \A j \in DOMAIN jobs : jobs'[j].method = jobs[j].method
        /\ \A j \in DOMAIN jobs :
             jobs'[j].cache = IF j = 1 THEN memberAcl ELSE jobs[j].cache
    <3>1. \A j \in DOMAIN jobs : jobs[j] \in Job
      BY <1>0
    <3> QED
      BY <1>0, <2>1, <3>1 DEF Job
  <2>3. HeadRuns'
    BY <1>0, <2>1, <2>2 DEF HeadRuns
  <2>4. /\ ReadQueued' <=> ReadQueued
        /\ EditQueued' <=> EditQueued
        /\ \A e \in EditMethods : LastEditIs(e)' <=> LastEditIs(e)
    BY <2>2 DEF ReadQueued, EditQueued, LastEditIs
  <2>5. MembersReach(acl)'
    BY <1>0, <1>1, <1>4, <2>1, <2>4 DEF MembersReach, Absorbed, EditMethods
  <2>6. CreatorHasAll' /\ FilesAttached'
    BY <1>0, <1>1, <1>2, <1>4, <2>1 DEF CreatorHasAll, FilesAttached, Creating
  <2> QED
    BY <2>3, <2>5, <2>6 DEF MembersInv
<1>5. CASE FinishMemberJob(k)
  <2> DEFINE method == jobs[1].method
  <2>1. /\ jobs' = RemoveAt(jobs, 1) /\ jobs[1].cache # NotLoaded
        /\ method \in AclMethods
    BY <1>0, <1>1, <1>5 DEF FinishMemberJob, Job
  <2>2. jobs[1].cache = memberAcl /\ memberAcl # NotLoaded
    BY <1>0, <1>1, <2>1 DEF HeadRuns
  <2>3. memberAcl \in SUBSET Modes
    BY <1>0, <2>2 DEF TypeOK, Cache
  <2>4. memberAcl' = Apply(method, memberAcl)
    <3>1. CASE method = "revoke_edit" /\ "edit" \notin memberAcl
      <4>1. memberAcl' = memberAcl
        BY <1>1, <1>5, <2>2, <3>1 DEF FinishMemberJob
      <4>2. Apply(method, memberAcl) = memberAcl \ {"edit"}
        BY <3>1 DEF Apply
      <4> QED
        BY <3>1, <4>1, <4>2
    <3>2. CASE ~(method = "revoke_edit" /\ "edit" \notin memberAcl)
      BY <1>1, <1>5, <2>2, <3>2 DEF FinishMemberJob
    <3> QED
      BY <3>1, <3>2
  <2>5. memberAcl' # NotLoaded
    BY <2>1, <2>3, <2>4, ApplyType, RunAssumption
  <2>6. /\ ReadQueued' \/ method = "grant_read" <=> ReadQueued
        /\ EditQueued' \/ method \in EditMethods <=> EditQueued
        /\ \A e \in EditMethods :
             /\ LastEditIs(e)' => LastEditIs(e)
             /\ method = e /\ ~EditQueued' => LastEditIs(e)
        /\ HeadRuns'
    BY <1>0, <2>1, MethodLeft
  <2> HIDE DEF method
  <2>7. Absorbed(acl) /\ acl' = acl
    BY <1>0, <1>1, <2>2 DEF MembersReach
  <2>8. Absorbed(acl)'
    BY <2>6, <2>7 DEF Absorbed, EditMethods
  <2>9. ~ReadQueued' => ("read" \in acl' <=> "read" \in memberAcl')
    <3>1. CASE method = "grant_read"
      BY <2>4, <2>6, <2>7, <3>1 DEF Absorbed, Apply
    <3>2. CASE method # "grant_read"
      <4>1. "read" \in memberAcl' <=> "read" \in memberAcl
        BY <2>1, <2>4, <3>2 DEF Apply, AclMethods
      <4> QED
        BY <1>0, <2>2, <2>6, <2>7, <3>2, <4>1 DEF MembersReach
    <3> QED
      BY <3>1, <3>2
  <2>10. ~EditQueued' => ("edit" \in acl' <=> "edit" \in memberAcl')
    <3>1. CASE method \in EditMethods
      BY <2>4, <2>6, <2>7, <3>1 DEF Absorbed, Apply, EditMethods
    <3>2. CASE method \notin EditMethods
      <4>1. "edit" \in memberAcl' <=> "edit" \in memberAcl
        BY <2>1, <2>4, <3>2 DEF Apply, AclMethods, EditMethods
      <4> QED
        BY <1>0, <2>2, <2>6, <2>7, <3>2, <4>1 DEF MembersReach
    <3> QED
      BY <3>1, <3>2
  <2>11. CreatorHasAll' /\ FilesAttached'
    BY <1>0, <1>1, <1>2, <2>2, <2>5 DEF CreatorHasAll, FilesAttached, Creating
  <2> QED
    BY <2>6, <2>8, <2>9, <2>10, <2>11 DEF MembersInv, MembersReach
<1> QED
  BY <1>3, <1>4, <1>5 DEF JobStep

LEMMA NextMembersInv ==
  ASSUME Serial, JobsInOrder, DepositAction \notin FailingActions,
         IInv, SerialInv, IndexInv, MembersInv, [Next]_vars
  PROVE  MembersInv'
<1>0. TypeOK
  BY DEF IInv
<1>1. ASSUME NEW w \in Workers, WorkerStep(w) PROVE MembersInv'
  <2>1. \A v \in Workers \ {w} : worker[v].pc = "idle" /\ worker'[v].pc = "idle"
    BY <1>0, <1>1, StartsAlone, OthersUntouched
  <2>2. /\ HeadRuns'
        /\ memberAcl' = NotLoaded => Creating(w)'
        /\ Creating(w)' => memberAcl' = NotLoaded /\ Absorbed(worker[w].cache)'
        /\ memberAcl' # NotLoaded => MembersReach(acl)'
    BY <1>1, <2>1, MembersStep
  <2>3. entity' # NoEntity
    BY <1>1, WorkExists DEF SerialInv
  <2>4. FilesAttached'
    BY <2>2, <2>3 DEF FilesAttached
  <2>5. \A v \in Workers \ {w} : ~Creating(v)'
    BY <2>1 DEF Creating
  <2>6. CreatorHasAll'
    BY <2>2, <2>5 DEF CreatorHasAll
  <2> QED
    BY <2>2, <2>4, <2>6 DEF MembersInv
<1>2. ASSUME NEW k \in DOMAIN jobs, JobStep(k) PROVE MembersInv'
  BY <1>2, MemberJobStep
<1>3. CASE UNCHANGED vars
  BY <1>3
  DEF vars, stores, MembersInv, HeadRuns, FilesAttached, CreatorHasAll,
      Creating, MembersReach, Absorbed, ReadQueued, EditQueued, LastEditIs
<1> QED
  BY <1>1, <1>2, <1>3 DEF Next

\* A work whose requests follow one another and whose jobs are run in turn by
\* one worker, in every workflow whose deposit methods do not fail: when no
\* action is in flight and no job waits, its files have the access it has.
THEOREM MembersCatchUp ==
  ASSUME Serial, JobsInOrder, DepositAction \notin FailingActions
  PROVE  Spec => []MembersFollowWork
<1>1. Init => MembersInv
  BY DEF Init, Idle, MembersInv, HeadRuns, FilesAttached, CreatorHasAll,
         Creating
<1>2. IInv /\ SerialInv /\ IndexInv /\ MembersInv /\ [Next]_vars => MembersInv'
  BY NextMembersInv
<1>3. IInv /\ MembersInv => MembersFollowWork
  <2> SUFFICES ASSUME IInv, MembersInv, Quiet, jobs = <<>>
               PROVE  memberAcl = acl
    BY DEF MembersFollowWork
  <2>1. memberAcl # NotLoaded
    BY DEF MembersInv, FilesAttached, Creating, Quiet
  <2>2. memberAcl \in SUBSET Modes /\ acl \in SUBSET Modes
    BY <2>1 DEF IInv, TypeOK, Cache
  <2>3. ~ReadQueued /\ ~EditQueued
    BY DEF ReadQueued, EditQueued
  <2>4. \A mode \in Modes : mode \in acl <=> mode \in memberAcl
    BY <2>1, <2>3 DEF MembersInv, MembersReach, Modes
  <2> QED
    BY <2>2, <2>4
<1> QED
  BY <1>1, <1>2, <1>3, SerialFacts, PTL DEF Spec

----------------------------------------------------------------------------
(***************************************************************************)
(* The mediated deposit workflow, with any users in its two roles          *)
(***************************************************************************)
Mediated ==
  /\ DepositAction = "deposit"
  /\ Actions = MDActions /\ States = MDStates
  /\ Resulting = MDResulting
  /\ Permissions = MDPermissions
  /\ Methods = MDMethods

LEMMA ResultsOf ==
  ASSUME Mediated
  PROVE  /\ Resulting["deposit"] = "pending_review"
         /\ Resulting["request_changes"] = "changes_required"
         /\ Resulting["approve"] = "deposited"
         /\ Resulting["request_review"] = "pending_review"
         /\ Resulting["comment_only"] = NoState
  BY DEF Mediated, MDResulting

LEMMA MethodsOf ==
  ASSUME Mediated
  PROVE  /\ Methods["deposit"] = <<"grant_read", "deactivate">>
         /\ Methods["request_changes"] = <<"deactivate", "grant_edit">>
         /\ Methods["approve"] = <<"grant_read", "revoke_edit", "activate">>
         /\ Methods["request_review"] = <<>>
         /\ Methods["comment_only"] = <<>>
  BY DEF Mediated, MDMethods

\* Who may do what, and where.
LEMMA PermittedIn ==
  ASSUME Mediated, NEW user \in Users, NEW state, NEW action,
         UserMay(user, state, action)
  PROVE  \/ action = "comment_only"
         \/ /\ action = "approve" /\ state = "pending_review"
            /\ "approving" \in UserRoles[user]
         \/ action = "request_changes" /\ state \in {"pending_review", "deposited"}
         \/ action = "request_review" /\ state = "changes_required"
<1>1. PICK role \in UserRoles[user] : <<state, action, role>> \in MDPermissions
  BY DEF Mediated, UserMay
<1> QED
  BY <1>1 DEF MDPermissions

\* The triggered methods, one by one, and where their list ends.
LEMMA MethodInTurn ==
  ASSUME Mediated, TypeOK, NEW w \in Workers, MethodsLeft(w)
  PROVE  \/ /\ worker[w].action = "deposit"
            /\ \/ worker[w].step = 1 /\ NextMethod(w) = "grant_read"
               \/ worker[w].step = 2 /\ NextMethod(w) = "deactivate"
         \/ /\ worker[w].action = "request_changes"
            /\ \/ worker[w].step = 1 /\ NextMethod(w) = "deactivate"
               \/ worker[w].step = 2 /\ NextMethod(w) = "grant_edit"
         \/ /\ worker[w].action = "approve"
            /\ \/ worker[w].step = 1 /\ NextMethod(w) = "grant_read"
               \/ worker[w].step = 2 /\ NextMethod(w) = "revoke_edit"
               \/ worker[w].step = 3 /\ NextMethod(w) = "activate"
<1>1. /\ worker[w].step \in Nat \ {0} /\ worker[w].action \in MDActions
      /\ worker[w].step <= Len(Methods[worker[w].action])
      /\ NextMethod(w) = Methods[worker[w].action][worker[w].step]
  BY DEF TypeOK, Task, Mediated, MethodsLeft, Triggered, NextMethod
<1>2. CASE worker[w].action = "deposit"
  BY <1>1, <1>2, MethodsOf
<1>3. CASE worker[w].action = "request_changes"
  BY <1>1, <1>3, MethodsOf
<1>4. CASE worker[w].action = "approve"
  <2>1. worker[w].step \in {1, 2, 3}
    BY <1>1, <1>4, MethodsOf
  <2> QED
    BY <1>1, <1>4, <2>1, MethodsOf
<1>5. CASE worker[w].action \in {"request_review", "comment_only"}
  BY <1>1, <1>5, MethodsOf
<1> QED
  BY <1>1, <1>2, <1>3, <1>4, <1>5 DEF MDActions

LEMMA MethodsDone ==
  ASSUME Mediated, TypeOK, NEW w \in Workers,
         worker[w].pc = "methods", ~MethodsLeft(w)
  PROVE  /\ worker[w].action \in {"deposit", "request_changes"} =>
              worker[w].step > 2
         /\ worker[w].action = "approve" => worker[w].step > 3
<1>1. /\ worker[w].step \in Nat
      /\ ~(worker[w].step <= Len(Methods[worker[w].action]))
  BY DEF TypeOK, Task, MethodsLeft, Triggered
<1>2. /\ Len(Methods["deposit"]) = 2 /\ Len(Methods["request_changes"]) = 2
      /\ Len(Methods["approve"]) = 3
  BY MethodsOf
<1>3. ASSUME worker[w].action \in {"deposit", "request_changes"}
      PROVE  worker[w].step > 2
  <2>1. ~(worker[w].step <= 2)
    BY <1>1, <1>2, <1>3
  <2> QED
    BY <1>1, <2>1
<1>4. ASSUME worker[w].action = "approve"
      PROVE  worker[w].step > 3
  <2>1. ~(worker[w].step <= 3)
    BY <1>1, <1>2, <1>4
  <2> QED
    BY <1>1, <2>1
<1> QED
  BY <1>3, <1>4

----------------------------------------------------------------------------
(***************************************************************************)
(* However many requests race, a state is approved by a reviewer only: the *)
(* transaction has deactivated what it will save again, and no other       *)
(* action activates.                                                       *)
(***************************************************************************)
Entitled(w) ==
  worker[w].pc \in {"update", "methods"} =>
    \/ worker[w].action = "deposit"
    \/ UserMay(worker[w].user, worker[w].seen, worker[w].action)

ActivatesByApproval(w) ==
  /\ worker[w].pc \in {"loaded", "update"} =>
       worker[w].state = worker[w].loaded /\ worker[w].step = 1
  /\ worker[w].pc \in {"update", "methods"} /\ worker[w].action = "deposit" =>
       worker[w].loaded = "active"
  /\ worker[w].pc = "methods" /\ worker[w].action = "deposit" =>
       (worker[w].step > 2 => worker[w].state = "inactive")
  /\ worker[w].pc = "methods" /\ worker[w].action \notin {"deposit", "approve"} =>
       (worker[w].state = "active" => worker[w].loaded = "active")
  /\ worker[w].pc \in {"publish", "save_acl", "attach"} =>
       worker[w].loaded = "inactive"

ApprovalInv ==
  /\ \A w \in Workers : Entitled(w) /\ ActivatesByApproval(w)
  /\ IdleBeforeCreation
  /\ entity = NoEntity => object = "active"

LEMMA ApprovalStep ==
  ASSUME Mediated, DepositAction \notin FailingActions,
         TypeOK, ApprovalInv, NEW w \in Workers, WorkerStep(w)
  PROVE  Entitled(w)' /\ ActivatesByApproval(w)'
<1>0. Entitled(w) /\ ActivatesByApproval(w) /\ worker[w] \in Task
  BY DEF ApprovalInv, TypeOK
<1>1. worker'[w] = Idle => Entitled(w)' /\ ActivatesByApproval(w)'
  BY DEF Idle, Entitled, ActivatesByApproval
<1> USE DEF Mediated
<1>2. CASE CreateWork(w)
  BY <1>0, <1>2, TaskCreated DEF Entitled, ActivatesByApproval
<1>3. CASE LoadWork(w)
  BY <1>0, <1>3, TaskLoaded DEF Entitled, ActivatesByApproval
<1>4. CASE OpenForm(w)
  <2>1. worker[w].pc = "loaded"
    BY <1>4 DEF OpenForm
  <2>2. CASE /\ worker'[w].pc = "update" /\ worker'[w].seen = entity
             /\ worker'[w].action # DepositAction
             /\ UserMay(worker'[w].user, entity, worker'[w].action)
             /\ SameMemory(w) /\ SameProgress(w)
    <3>1. Entitled(w)'
      BY <2>2 DEF Entitled, UserMay
    <3>2. ActivatesByApproval(w)'
      BY <1>0, <2>1, <2>2 DEF ActivatesByApproval, SameMemory, SameProgress
    <3> QED
      BY <3>1, <3>2
  <2> QED
    BY <1>1, <1>4, <2>2, TypeOK, FormOpened, TaskOpened
<1>5. CASE UpdateState(w) \/ PublishMetadata(w) \/ SaveAcl(w)
  <2>1. /\ SameRequest(w) /\ SameMemory(w) /\ SameProgress(w)
        /\ \/ worker[w].pc = "update" /\ worker'[w].pc = "methods"
           \/ worker[w].pc = "publish" /\ worker'[w].pc = "save_acl"
           \/ worker[w].pc = "save_acl" /\ worker'[w].pc = "attach"
    BY <1>5, TaskMoved
  <2>2. Entitled(w)'
    BY <1>0, <2>1 DEF Entitled, SameRequest, UserMay
  <2>3. ActivatesByApproval(w)'
    BY <1>0, <2>1
    DEF ActivatesByApproval, SameRequest, SameMemory, SameProgress
  <2> QED
    BY <2>2, <2>3
<1>6. CASE LoadAcl(w) \/ RunAclMethod(w) \/ RunStateMethod(w)
  <2>1. /\ worker[w].pc = "methods" /\ worker'[w].pc = "methods"
        /\ SameRequest(w) /\ worker'[w].loaded = worker[w].loaded
    BY <1>6, TaskTookMethod
  <2>2. Entitled(w)'
    BY <1>0, <2>1 DEF Entitled, SameRequest, UserMay
  <2>3. CASE LoadAcl(w)
    <3>1. worker'[w].state = worker[w].state /\ worker'[w].step = worker[w].step
      BY <2>3, TaskTookMethod DEF LoadAcl, RunStateMethod, AclMethods, StateMethods
    <3> QED
      BY <1>0, <2>1, <2>2, <3>1 DEF ActivatesByApproval, SameRequest
  <2>4. CASE RunAclMethod(w)
    <3>1. /\ worker'[w].state = worker[w].state
          /\ worker'[w].step = worker[w].step + 1
          /\ MethodsLeft(w) /\ NextMethod(w) \in AclMethods
      BY <2>4, TaskTookMethod DEF RunAclMethod, RunStateMethod, AclMethods, StateMethods
    <3>2. worker[w].action = "deposit" => worker'[w].step = 2
      BY <3>1, MethodInTurn DEF AclMethods
    <3>3. ActivatesByApproval(w)'
      BY <1>0, <2>1, <3>1, <3>2 DEF ActivatesByApproval, SameRequest
    <3> QED
      BY <2>2, <3>3
  <2>5. CASE RunStateMethod(w)
    <3>1. /\ worker'[w].state = IF NextMethod(w) = "activate"
                                THEN "active" ELSE "inactive"
          /\ MethodsLeft(w)
      BY <2>5, TaskTookMethod DEF RunStateMethod
    <3>2. worker[w].action # "approve" => worker'[w].state = "inactive"
      BY <3>1, MethodInTurn
    <3>3. ActivatesByApproval(w)'
      BY <1>0, <2>1, <3>2 DEF ActivatesByApproval, SameRequest
    <3> QED
      BY <2>2, <3>3
  <2> QED
    BY <1>6, <2>3, <2>4, <2>5
<1>7. CASE FailMethod(w)
  BY <1>1, <1>7, TaskFailed DEF FailMethod
<1>8. CASE SaveTarget(w)
  <2>1. CASE worker[w].action = "deposit"
    <3>1. /\ worker'[w].pc = "publish" /\ worker'[w].loaded = worker[w].state
          /\ worker[w].pc = "methods" /\ worker[w].step > 2
      BY <1>8, <2>1, TaskSaved, MethodsDone
    <3> QED
      BY <1>0, <2>1, <3>1 DEF Entitled, ActivatesByApproval
  <2> QED
    BY <1>1, <1>8, <2>1, TaskSaved
<1>9. CASE AttachFiles(w)
  BY <1>1, <1>9 DEF AttachFiles, TypeOK
<1> QED
  BY <1>2, <1>3, <1>4, <1>5, <1>6, <1>7, <1>8, <1>9 DEF WorkerStep

LEMMA NextApprovalInv ==
  ASSUME Mediated, DepositAction \notin FailingActions,
         IInv, ApprovalInv, [Next]_vars
  PROVE  ApprovalInv'
<1>0. TypeOK
  BY DEF IInv
<1>1. ASSUME NEW w \in Workers, WorkerStep(w) PROVE ApprovalInv'
  <2>1. \A v \in Workers \ {w} : Entitled(v)' /\ ActivatesByApproval(v)'
    BY <1>0, <1>1, OthersUntouched
    DEF ApprovalInv, Entitled, ActivatesByApproval, UserMay
  <2>2. Entitled(w)' /\ ActivatesByApproval(w)'
    BY <1>0, <1>1, ApprovalStep
  <2>3. entity' # NoEntity
    BY <1>1, WorkExists DEF ApprovalInv
  <2> QED
    BY <2>1, <2>2, <2>3 DEF ApprovalInv, IdleBeforeCreation
<1>2. ASSUME NEW k \in DOMAIN jobs, JobStep(k) PROVE ApprovalInv'
  <2>1. UNCHANGED <<entity, object, worker>>
    BY <1>2 DEF JobStep, StartMemberJob, FinishMemberJob, stores
  <2> QED
    BY <2>1
    DEF ApprovalInv, Entitled, ActivatesByApproval, UserMay, IdleBeforeCreation
<1>3. CASE UNCHANGED vars
  BY <1>3
  DEF vars, stores, ApprovalInv, Entitled, ActivatesByApproval, UserMay,
      IdleBeforeCreation
<1> QED
  BY <1>1, <1>2, <1>3 DEF Next

\* However many requests race on a work of a mediated deposit, whoever has its
\* roles and whichever of the reviewers' methods fail: it is published by no
\* step but an approval by one who may approve.
THEOREM ReviewersPublish ==
  ASSUME Mediated, DepositAction \notin FailingActions
  PROVE  Spec => OnlyApprovalPublishes
<1>1. Init => ApprovalInv
  BY DEF Init, Idle, ApprovalInv, Entitled, ActivatesByApproval,
         IdleBeforeCreation
<1>2. IInv /\ ApprovalInv /\ [Next]_vars => ApprovalInv'
  BY NextApprovalInv
<1>3. ASSUME IInv, ApprovalInv, NEW w \in Workers, SaveTarget(w),
             object = "inactive", object' = "active"
      PROVE  StepOfApproval
  <2>1. /\ worker[w].state = "active" /\ worker[w].loaded # "active"
        /\ worker[w].pc = "methods" /\ TypeOK /\ worker[w] \in Task
    BY <1>3 DEF SaveTarget, IInv, TypeOK
  <2>2. worker[w].action = "approve" /\ Entitled(w)
    BY <1>3, <2>1 DEF ApprovalInv, ActivatesByApproval
  <2>3. "approving" \in UserRoles[worker[w].user]
    BY <2>1, <2>2, PermittedIn DEF Entitled, Task
  <2>4. worker'[w] # worker[w]
    BY <1>3, <2>1, <2>2, TaskSaved DEF Mediated, Idle
  <2> QED
    BY <2>2, <2>3, <2>4 DEF StepOfApproval
<1>4. ASSUME IInv, ApprovalInv, NEW w \in Workers, UpdateState(w),
             entity # "deposited", entity' = "deposited"
      PROVE  StepOfApproval
  <2>1. /\ worker[w].pc = "update" /\ TypeOK /\ worker[w] \in Task
        /\ Resulting[worker[w].action] = "deposited"
    BY <1>4 DEF UpdateState, IInv, TypeOK
  <2>2. worker[w].action = "approve" /\ Entitled(w)
    BY <1>4, <2>1, ResultsOf
    DEF ApprovalInv, Task, Mediated, MDActions, NoState
  <2>3. "approving" \in UserRoles[worker[w].user]
    BY <2>1, <2>2, PermittedIn DEF Entitled, Task
  <2>4. worker'[w] # worker[w]
    BY <1>4, <2>1, TaskMoved
  <2> QED
    BY <2>2, <2>3, <2>4 DEF StepOfApproval
<1>5. IInv /\ ApprovalInv /\ [Next]_vars =>
        [ \/ object = "inactive" /\ object' = "active"
          \/ entity # "deposited" /\ entity' = "deposited"
          => StepOfApproval]_vars
  <2> SUFFICES ASSUME IInv, ApprovalInv, Next,
                      \/ object = "inactive" /\ object' = "active"
                      \/ entity # "deposited" /\ entity' = "deposited"
               PROVE  StepOfApproval
    OBVIOUS
  <2>1. ASSUME NEW k \in DOMAIN jobs, JobStep(k) PROVE FALSE
    BY <2>1 DEF JobStep, StartMemberJob, FinishMemberJob, stores
  <2>2. PICK w \in Workers : WorkerStep(w)
    BY <2>1 DEF Next
  <2>3. ~CreateWork(w)
    BY DEF CreateWork, ApprovalInv, NoState
  <2>4. CASE AttachFiles(w)
    BY <2>4 DEF AttachFiles, ApprovalInv, ActivatesByApproval
  <2>5. SaveTarget(w) \/ UpdateState(w) \/ AttachFiles(w)
    BY <2>2, <2>3
    DEF WorkerStep, LoadWork, OpenForm, LoadAcl, RunAclMethod,
        RunStateMethod, FailMethod, PublishMetadata, SaveAcl, stores
  <2>6. /\ SaveTarget(w) => entity' = entity
        /\ UpdateState(w) => object' = object
    BY DEF SaveTarget, UpdateState
  <2> QED
    BY <1>3, <1>4, <2>4, <2>5, <2>6
<1> QED
  BY <1>1, <1>2, <1>5, SpecIInv, PTL DEF Spec, OnlyApprovalPublishes

----------------------------------------------------------------------------
(***************************************************************************)
(* Requests that follow one another leave the mediated deposit settled:    *)
(* while the methods of an action are run, each has its part of what the   *)
(* next state promises done for good.                                      *)
(***************************************************************************)
Settled ==
  /\ object = "active" <=> entity = "deposited"
  /\ entity = "deposited" => "edit" \notin acl
  /\ entity = "changes_required" => "edit" \in acl
  /\ "read" \in acl

Changing(w) ==
  /\ worker[w].pc = "methods"
  /\ worker[w].action \in {"deposit", "request_changes", "approve"}

Promised(w) ==
  /\ worker[w].action = "deposit" =>
       /\ entity = "pending_review"
       /\ worker[w].step > 1 => "read" \in worker[w].cache
       /\ worker[w].step > 2 => worker[w].state = "inactive"
  /\ worker[w].action = "request_changes" =>
       /\ entity = "changes_required" /\ "read" \in acl
       /\ worker[w].step > 1 => worker[w].state = "inactive"
       /\ worker[w].step > 2 => "edit" \in acl
  /\ worker[w].action = "approve" =>
       /\ entity = "deposited" /\ "read" \in acl
       /\ worker[w].step > 2 => "edit" \notin acl
       /\ worker[w].step > 3 => worker[w].state = "active"

UnderReview(w) ==
  worker[w].pc \in {"publish", "save_acl", "attach"} =>
    entity = "pending_review" /\ object = "inactive" /\ "read" \in worker[w].cache

InOrder(w) ==
  /\ Changing(w) => Promised(w)
  /\ UnderReview(w)
  /\ worker[w].pc = "methods" /\ ~Changing(w) =>
       worker[w].state = worker[w].loaded

Calm(w) == ~Creating(w) /\ ~Changing(w)

WorkflowInv ==
  /\ \A w \in Workers : InOrder(w)
  /\ entity # NoEntity /\ (\A w \in Workers : Calm(w)) => Settled

LEMMA IdleIsInOrder ==
  ASSUME NEW w \in Workers, worker'[w].pc = "idle"
  PROVE  InOrder(w)' /\ Calm(w)'
  BY DEF InOrder, Changing, UnderReview, Calm, Creating

\* An action moves the entity on, from a work that was settled.
LEMMA MovedInOrder ==
  ASSUME Mediated, IInv, SerialInv, IndexInv, NEW w \in Workers, UpdateState(w),
         Calm(w) => Settled
  PROVE  InOrder(w)' /\ (Calm(w)' => Settled')
<1>0. /\ TypeOK /\ worker[w] \in Task /\ worker[w].user \in Users
      /\ MemoryIsCurrent(w)
  BY DEF IInv, TypeOK, Task, IndexInv
<1>1. /\ worker[w].pc = "update" /\ worker'[w].pc = "methods"
      /\ SameRequest(w) /\ SameMemory(w) /\ SameProgress(w)
      /\ UNCHANGED <<object, acl>>
  BY <1>0, TaskMoved DEF UpdateState
<1>2. /\ worker'[w].step = 1 /\ worker'[w].state = worker'[w].loaded
  BY <1>0, <1>1 DEF MemoryIsCurrent, SameMemory, SameProgress
<1>3. worker[w].seen = entity
  BY <1>1 DEF SerialInv, FormIsCurrent
<1>4. worker[w].action # "deposit" =>
        /\ Settled /\ UserMay(worker[w].user, entity, worker[w].action)
  BY <1>1, <1>3
  DEF Mediated, Calm, Creating, Changing, IInv, FormWasPermitted
<1>5. entity' = IF Resulting[worker[w].action] \in {NoState, entity}
                THEN entity ELSE Resulting[worker[w].action]
  BY <1>3 DEF UpdateState
<1>6. CASE worker[w].action = "deposit"
  <2>1. entity = NoState
    BY <1>1, <1>3, <1>6 DEF Mediated, IInv, FormWasPermitted, UserMay, MDPermissions
  <2>2. entity' = "pending_review"
    BY <1>5, <1>6, <2>1, ResultsOf DEF NoState
  <2> QED
    BY <1>1, <1>2, <1>6, <2>2
    DEF Mediated, InOrder, Changing, Promised, UnderReview, Calm, Creating, SameRequest
<1>7. CASE worker[w].action = "approve"
  <2>1. Settled /\ entity = "pending_review"
    BY <1>0, <1>4, <1>7, PermittedIn
  <2>2. entity' = "deposited"
    BY <1>5, <1>7, <2>1, ResultsOf DEF NoState
  <2> QED
    BY <1>1, <1>2, <1>7, <2>1, <2>2
    DEF InOrder, Changing, Promised, UnderReview, Calm, SameRequest, Settled
<1>8. CASE worker[w].action = "request_changes"
  <2>1. Settled /\ entity \in {"pending_review", "deposited"}
    BY <1>0, <1>4, <1>8, PermittedIn
  <2>2. entity' = "changes_required"
    BY <1>5, <1>8, <2>1, ResultsOf DEF NoState
  <2> QED
    BY <1>1, <1>2, <1>8, <2>1, <2>2
    DEF InOrder, Changing, Promised, UnderReview, Calm, SameRequest, Settled
<1>9. CASE worker[w].action \in {"request_review", "comment_only"}
  <2>1. Settled
    BY <1>4, <1>9
  <2>2. worker[w].action = "request_review" =>
          entity = "changes_required" /\ entity' = "pending_review"
    BY <1>0, <1>4, <1>5, <1>9, PermittedIn, ResultsOf DEF NoState
  <2>3. worker[w].action = "comment_only" => entity' = entity
    BY <1>5, ResultsOf
  <2>4. Settled'
    BY <1>1, <1>9, <2>1, <2>2, <2>3 DEF Settled
  <2> QED
    BY <1>1, <1>2, <1>9, <2>4
    DEF InOrder, Changing, UnderReview, SameRequest
<1> QED
  BY <1>0, <1>6, <1>7, <1>8, <1>9 DEF Task, Mediated, MDActions

\* A triggered method keeps what was promised and does its part.
LEMMA MethodInOrder ==
  ASSUME Mediated, IInv, IndexInv, NEW w \in Workers, InOrder(w),
         LoadAcl(w) \/ RunAclMethod(w) \/ RunStateMethod(w)
  PROVE  InOrder(w)' /\ ~Calm(w)'
<1>0. TypeOK /\ MemoryIsCurrent(w) /\ worker[w] \in Task
  BY DEF IInv, TypeOK, IndexInv
<1>1. /\ worker[w].pc = "methods" /\ worker'[w].pc = "methods"
      /\ SameRequest(w) /\ MethodsLeft(w)
      /\ entity' = entity
  BY <1>0, TaskTookMethod DEF LoadAcl, RunAclMethod, RunStateMethod, stores
<1>2. Changing(w) /\ Changing(w)' /\ Promised(w)
  BY <1>0, <1>1, MethodInTurn DEF InOrder, Changing, SameRequest
<1>3. InOrder(w)' <=> Promised(w)'
  BY <1>1, <1>2 DEF InOrder, UnderReview
<1>4. CASE LoadAcl(w)
  <2>1. acl' = acl /\ worker'[w].step = worker[w].step
        /\ worker'[w].state = worker[w].state
    BY <1>0, <1>4, TaskTookMethod
    DEF LoadAcl, RunStateMethod, AclMethods, StateMethods, stores
  <2>2. worker[w].action # "deposit"
    BY <1>0, <1>1, <1>4 DEF LoadAcl, IInv, CreationHasAcl, Mediated
  <2> QED
    BY <1>1, <1>2, <1>3, <2>1, <2>2 DEF Promised, SameRequest, Calm
<1>5. CASE RunAclMethod(w)
  <2>1. /\ worker'[w].state = worker[w].state
        /\ worker'[w].step = worker[w].step + 1
        /\ worker'[w].cache = Apply(NextMethod(w), worker[w].cache)
        /\ NextMethod(w) \in AclMethods /\ worker[w].cache # NotLoaded
    BY <1>0, <1>5, TaskTookMethod
    DEF RunAclMethod, RunStateMethod, AclMethods, StateMethods
  <2>2. worker[w].action # "deposit" => acl' = Apply(NextMethod(w), acl)
    <3>1. Creating(w) \/ worker[w].cache = acl
      BY <1>0, <1>1, <2>1 DEF MemoryIsCurrent
    <3> QED
      BY <1>0, <1>5, <3>1, AclMethodIndexed DEF Creating, Mediated
  <2>3. CASE worker[w].action = "deposit"
    <3>1. worker[w].step = 1 /\ NextMethod(w) = "grant_read"
      BY <1>0, <1>1, <2>1, <2>3, MethodInTurn DEF AclMethods
    <3>2. "read" \in worker'[w].cache
      BY <2>1, <3>1 DEF Apply
    <3> QED
      BY <1>1, <1>2, <1>3, <2>1, <2>3, <3>1, <3>2 DEF Promised, SameRequest, Calm
  <2>4. CASE worker[w].action = "request_changes"
    <3>1. worker[w].step = 2 /\ NextMethod(w) = "grant_edit"
      BY <1>0, <1>1, <2>1, <2>4, MethodInTurn DEF AclMethods
    <3>2. acl' = acl \cup {"edit"}
      BY <2>2, <2>4, <3>1 DEF Apply
    <3> QED
      BY <1>1, <1>2, <1>3, <2>1, <2>4, <3>1, <3>2 DEF Promised, SameRequest, Calm
  <2>5. CASE worker[w].action = "approve"
    <3>1. \/ worker[w].step = 1 /\ NextMethod(w) = "grant_read"
          \/ worker[w].step = 2 /\ NextMethod(w) = "revoke_edit"
      BY <1>0, <1>1, <2>1, <2>5, MethodInTurn DEF AclMethods
    <3>2. /\ worker[w].step = 1 => acl' = acl \cup {"read"}
          /\ worker[w].step = 2 => acl' = acl \ {"edit"}
      BY <2>2, <2>5, <3>1 DEF Apply
    <3> QED
      BY <1>1, <1>2, <1>3, <2>1, <2>5, <3>1, <3>2 DEF Promised, SameRequest, Calm
  <2> QED
    BY <1>2, <2>3, <2>4, <2>5 DEF Changing
<1>6. CASE RunStateMethod(w)
  <2>1. /\ worker'[w].cache = worker[w].cache
        /\ worker'[w].step = worker[w].step + 1 /\ acl' = acl
        /\ worker'[w].state = IF NextMethod(w) = "activate"
                              THEN "active" ELSE "inactive"
        /\ NextMethod(w) \in StateMethods
    BY <1>0, <1>6, TaskTookMethod DEF RunStateMethod, stores
  <2>2. \/ worker[w].action = "deposit" /\ worker[w].step = 2
           /\ NextMethod(w) = "deactivate"
        \/ worker[w].action = "request_changes" /\ worker[w].step = 1
           /\ NextMethod(w) = "deactivate"
        \/ worker[w].action = "approve" /\ worker[w].step = 3
           /\ NextMethod(w) = "activate"
    BY <1>0, <1>1, <2>1, MethodInTurn DEF StateMethods
  <2> QED
    BY <1>1, <1>2, <1>3, <2>1, <2>2 DEF Promised, SameRequest, Calm
<1> QED
  BY <1>4, <1>5, <1>6

\* The save that ends an action settles the work, or leaves the transaction
\* with a work under review.
LEMMA SavedInOrder ==
  ASSUME Mediated, IInv, IndexInv, NEW w \in Workers, SaveTarget(w), InOrder(w),
         Calm(w) => Settled
  PROVE  InOrder(w)' /\ (Calm(w)' => Settled')
<1>0. TypeOK /\ MemoryIsCurrent(w) /\ worker[w] \in Task
  BY DEF IInv, TypeOK, IndexInv
<1>1. /\ worker[w].pc = "methods" /\ ~MethodsLeft(w)
      /\ worker[w].action # DepositAction => worker'[w] = Idle
      /\ worker[w].action = DepositAction =>
           /\ worker'[w].pc = "publish" /\ SameRequest(w) /\ SameProgress(w)
  BY <1>0, TaskSaved
<1>2. object' = worker[w].state /\ UNCHANGED <<entity, acl>>
  BY <1>0, <1>1 DEF SaveTarget, MemoryIsCurrent
<1>3. CASE worker[w].action = "deposit"
  <2>1. /\ entity = "pending_review" /\ "read" \in worker[w].cache
        /\ worker[w].state = "inactive"
    BY <1>0, <1>1, <1>3, MethodsDone DEF InOrder, Changing, Promised, Task
  <2> QED
    BY <1>1, <1>2, <1>3, <2>1
    DEF Mediated, InOrder, Changing, UnderReview, Calm, Creating, SameProgress,
        SameRequest
<1>4. CASE worker[w].action \in {"request_changes", "approve"}
  <2>1. /\ worker[w].action = "request_changes" =>
             /\ entity = "changes_required" /\ "read" \in acl /\ "edit" \in acl
             /\ worker[w].state = "inactive"
        /\ worker[w].action = "approve" =>
             /\ entity = "deposited" /\ "read" \in acl /\ "edit" \notin acl
             /\ worker[w].state = "active"
    BY <1>0, <1>1, <1>4, MethodsDone DEF InOrder, Changing, Promised, Task
  <2>2. Settled'
    BY <1>2, <1>4, <2>1 DEF Settled
  <2>3. InOrder(w)'
    BY <1>1, <1>4, IdleIsInOrder DEF Mediated, Idle
  <2> QED
    BY <2>2, <2>3
<1>5. CASE worker[w].action \in {"request_review", "comment_only"}
  <2>1. object' = object /\ Settled
    BY <1>0, <1>1, <1>2, <1>5
    DEF InOrder, Changing, Calm, Creating, MemoryIsCurrent, Mediated
  <2>2. Settled'
    BY <1>2, <2>1 DEF Settled
  <2>3. InOrder(w)'
    BY <1>1, <1>5, IdleIsInOrder DEF Mediated, Idle
  <2> QED
    BY <2>2, <2>3
<1> QED
  BY <1>0, <1>3, <1>4, <1>5 DEF Task, Mediated, MDActions

LEMMA WorkflowStep ==
  ASSUME Mediated, FailingActions = {}, IInv, SerialInv, IndexInv,
         NEW w \in Workers, WorkerStep(w), InOrder(w),
         entity # NoEntity /\ Calm(w) => Settled
  PROVE  InOrder(w)' /\ (Calm(w)' => Settled')
<1>0. TypeOK /\ MemoryIsCurrent(w) /\ worker[w] \in Task
  BY DEF IInv, TypeOK, IndexInv
<1>1. worker[w].pc # "idle" => entity # NoEntity
  BY DEF SerialInv, IdleBeforeCreation
<1>2. ASSUME UNCHANGED <<entity, object, acl>>, entity # NoEntity, Calm(w)
      PROVE  Settled'
  BY <1>2 DEF Settled
<1>3. CASE CreateWork(w)
  BY <1>0, <1>3, TaskCreated
  DEF InOrder, Changing, UnderReview, Calm, Creating
<1>4. CASE LoadWork(w)
  <2>1. /\ UNCHANGED <<entity, object, acl>> /\ entity # NoEntity
        /\ worker[w].pc = "idle" /\ worker'[w].pc = "loaded"
    BY <1>0, <1>4, TaskLoaded DEF LoadWork, stores
  <2> QED
    BY <1>2, <2>1 DEF InOrder, Changing, UnderReview, Calm, Creating
<1>5. CASE OpenForm(w)
  <2>1. UNCHANGED <<entity, object, acl>> /\ worker[w].pc = "loaded"
    BY <1>5 DEF OpenForm, stores
  <2>2. worker'[w].pc \in {"idle", "update"}
    BY <1>0, <1>5, FormOpened DEF Idle
  <2> QED
    BY <1>1, <1>2, <2>1, <2>2
    DEF InOrder, Changing, UnderReview, Calm, Creating
<1>6. CASE UpdateState(w)
  <2>1. entity # NoEntity
    BY <1>0, <1>1, <1>6, TaskMoved
  <2> QED
    BY <1>6, <2>1, MovedInOrder
<1>7. CASE LoadAcl(w) \/ RunAclMethod(w) \/ RunStateMethod(w)
  BY <1>7, MethodInOrder
<1>8. CASE FailMethod(w)
  BY <1>8 DEF FailMethod
<1>9. CASE SaveTarget(w)
  <2>1. entity # NoEntity
    BY <1>0, <1>1, <1>9, TaskSaved
  <2> QED
    BY <1>9, <2>1, SavedInOrder
<1>10. CASE PublishMetadata(w) \/ SaveAcl(w)
  <2>1. /\ worker[w].pc \in {"publish", "save_acl"}
        /\ worker'[w].pc \in {"save_acl", "attach"}
        /\ SameRequest(w) /\ SameProgress(w)
    BY <1>0, <1>10, TaskMoved
  <2>2. UNCHANGED <<entity, object>>
    BY <1>10 DEF PublishMetadata, SaveAcl
  <2>3. Creating(w)'
    BY <1>0, <2>1 DEF MemoryIsCurrent, Creating, SameRequest
  <2> QED
    BY <2>1, <2>2, <2>3
    DEF InOrder, Changing, UnderReview, Calm, SameProgress
<1>11. CASE AttachFiles(w)
  <2>1. /\ worker[w].pc = "attach" /\ object' = worker[w].loaded
        /\ UNCHANGED <<entity, acl>> /\ worker'[w] = Idle
    BY <1>0, <1>11 DEF AttachFiles, TypeOK
  <2>2. /\ object' = object /\ worker[w].cache = acl
    BY <1>0, <2>1 DEF MemoryIsCurrent
  <2>3. Settled'
    BY <2>1, <2>2 DEF InOrder, UnderReview, Settled
  <2> QED
    BY <2>1, <2>3, IdleIsInOrder DEF Idle
<1> QED
  BY <1>3, <1>4, <1>5, <1>6, <1>7, <1>8, <1>9, <1>10, <1>11 DEF WorkerStep

LEMMA NextWorkflowInv ==
  ASSUME Serial, Mediated, FailingActions = {},
         IInv, SerialInv, IndexInv, WorkflowInv, [Next]_vars
  PROVE  WorkflowInv'
<1>0. TypeOK
  BY DEF IInv
<1>1. ASSUME NEW w \in Workers, WorkerStep(w) PROVE WorkflowInv'
  <2>1. \A v \in Workers \ {w} : worker[v].pc = "idle" /\ worker'[v].pc = "idle"
    BY <1>0, <1>1, StartsAlone, OthersUntouched
  <2>2. \A v \in Workers \ {w} : Calm(v)
    BY <2>1 DEF Calm, Creating, Changing
  <2>3. entity # NoEntity /\ Calm(w) => Settled
    BY <2>2 DEF WorkflowInv
  <2>4. InOrder(w)' /\ (Calm(w)' => Settled')
    BY <1>1, <2>3, WorkflowStep DEF WorkflowInv
  <2>5. \A v \in Workers \ {w} : InOrder(v)'
    BY <2>1, IdleIsInOrder
  <2> QED
    BY <2>4, <2>5 DEF WorkflowInv
<1>2. CASE UNCHANGED <<entity, object, acl, worker>>
  BY <1>2
  DEF WorkflowInv, InOrder, Changing, Promised, UnderReview, Calm, Creating,
      Settled
<1>3. ASSUME NEW k \in DOMAIN jobs, JobStep(k)
      PROVE  UNCHANGED <<entity, object, acl, worker>>
  BY <1>3 DEF JobStep, StartMemberJob, FinishMemberJob, stores
<1>4. CASE UNCHANGED vars
  BY <1>2, <1>4 DEF vars, stores
<1> QED
  BY <1>1, <1>2, <1>3, <1>4 DEF Next

LEMMA MediatedFacts ==
  ASSUME Serial, Mediated, FailingActions = {}
  PROVE  Spec => []WorkflowInv
<1>1. Init => WorkflowInv
  BY DEF Init, Idle, WorkflowInv, InOrder, Changing, UnderReview
<1>2. IInv /\ SerialInv /\ IndexInv /\ WorkflowInv /\ [Next]_vars => WorkflowInv'
  BY NextWorkflowInv
<1> QED
  BY <1>1, <1>2, SerialFacts, PTL DEF Spec

\* A mediated deposit whose requests follow one another and whose methods do
\* not fail, with any users: when no action is in flight the work is active
\* exactly when it was approved.
THEOREM ApprovedIsActive ==
  ASSUME Serial, Mediated, FailingActions = {}
  PROVE  Spec => []SuppressedUntilApproved
<1>1. WorkflowInv => SuppressedUntilApproved
  BY DEF WorkflowInv, SuppressedUntilApproved, Settled, Quiet, Calm, Creating,
         Changing
<1> QED
  BY <1>1, MediatedFacts, PTL

\* Its depositor can then read it, cannot edit it once it was approved, and can
\* when changes were asked for.
THEOREM EditGoesWithTheState ==
  ASSUME Serial, Mediated, FailingActions = {}
  PROVE  Spec => []EditFollowsWorkflow
<1>1. WorkflowInv => EditFollowsWorkflow
  BY DEF WorkflowInv, EditFollowsWorkflow, Settled, Quiet, Calm, Creating,
         Changing
<1> QED
  BY <1>1, MediatedFacts, PTL
=============================================================================
