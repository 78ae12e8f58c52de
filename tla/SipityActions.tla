--------------------------- MODULE SipityActions ---------------------------
(***************************************************************************)
(* Workflow actions on one work of an admin set.  A web worker loads the   *)
(* work, opens a WorkflowActionForm on it, moves the Sipity::Entity to the *)
(* state the action results in, runs the methods the action triggers and   *)
(* saves the work.  The work is deposited by a worker too: the create_work *)
(* transaction makes the entity and takes the deposit action itself.       *)
(*                                                                         *)
(* Four stores are written, each by a statement of its own: the entity     *)
(* (SQL), the work and its access control list (Valkyrie), and the search  *)
(* index.  The members' access is changed by jobs the methods enqueue.     *)
(***************************************************************************)
EXTENDS Integers, Sequences, SequencesExt

CONSTANTS
  Workers,         \* web workers
  Users, Roles,
  Depositor,       \* the user the work belongs to
  UserRoles,       \* the workflow roles each user has on the work
  States,          \* the workflow's states
  Actions,
  DepositAction,   \* the action with no originating state
  Resulting,       \* the state an action leads to, NoState when it has none
  Permissions,     \* <<state, action, role>>: WorkflowStateActionPermission
  Methods,         \* the methods an action triggers, by weight
  FailingActions,  \* the actions whose methods may fail
  OthersCanEdit,   \* does anyone but the depositor have edit access?
  Serial,          \* is a work loaded only when no worker has it?
  JobsInOrder,     \* does one ingest worker run the jobs, first in first out?
  MaxJobs,         \* bound on the jobs waiting
  NotLoaded        \* an access control list that was not read yet

NoEntity == "no entity"
NoState == "no state"
Modes == {"read", "edit"}
AclMethods == {"grant_read", "grant_edit", "revoke_edit"}
StateMethods == {"activate", "deactivate"}
ObjectStates == {"active", "inactive"}

ASSUME UsersAssumption ==
  /\ Depositor \in Users
  /\ UserRoles \in [Users -> SUBSET Roles]
ASSUME WorkflowAssumption ==
  /\ {NoEntity, NoState} \cap States = {}
  /\ DepositAction \in Actions
  /\ Resulting \in [Actions -> States \cup {NoState}]
  /\ Resulting[DepositAction] \in States
  /\ Permissions \subseteq States \X (Actions \ {DepositAction}) \X Roles
  /\ Methods \in [Actions -> Seq(AclMethods \cup StateMethods)]
ASSUME RunAssumption ==
  /\ FailingActions \subseteq Actions
  /\ {OthersCanEdit, Serial, JobsInOrder} \subseteq BOOLEAN
  /\ MaxJobs \in Nat
  /\ \A modes \in SUBSET Modes : NotLoaded # modes

VARIABLES
  entity,     \* workflow_state of the work's Sipity::Entity
  object,     \* the stored work's state: active or inactive
  acl,        \* the depositor's modes in the work's stored AccessControl
  memberAcl,  \* the depositor's modes on the work's file sets, once attached
  index,      \* what the work's Solr document says
  jobs,       \* Grant- and RevokeEditToMembersJobs, oldest first
  worker      \* what each web worker is doing

stores == <<entity, object, acl, index>>
vars == <<entity, object, acl, memberAcl, index, jobs, worker>>

PC == {"idle", "loaded", "update", "methods", "publish", "save_acl", "attach"}
Cache == {NotLoaded} \cup SUBSET Modes
Idle == [pc |-> "idle", user |-> Depositor, action |-> DepositAction,
         seen |-> NoState, loaded |-> "active", state |-> "active",
         cache |-> NotLoaded, step |-> 1]

SolrDocument == [state : States \cup {NoState}, suppressed : BOOLEAN,
                 access : SUBSET Modes]
Job == [method : AclMethods, cache : Cache]
Task ==
  [pc : PC, user : Users, action : Actions,
   seen : States \cup {NoState},  \* workflow state the form was opened in
   loaded : ObjectStates,         \* state of the work in memory
   state : ObjectStates,          \* state in the change set over it
   cache : Cache,                 \* its permission manager's list
   step : Nat \ {0}]              \* the next triggered method

TypeOK ==
  /\ entity \in States \cup {NoEntity, NoState}
  /\ object \in ObjectStates
  /\ acl \in SUBSET Modes
  /\ memberAcl \in Cache
  /\ index \in SolrDocument
  /\ jobs \in Seq(Job)
  /\ worker \in [Workers -> Task]

Init ==
  /\ entity = NoEntity
  /\ object = "active"
  /\ acl = {}
  /\ memberAcl = NotLoaded
  /\ index = [state |-> NoState, suppressed |-> FALSE, access |-> {}]
  /\ jobs = <<>>
  /\ worker = [w \in Workers |-> Idle]

----------------------------------------------------------------------------
\* PermissionQuery.authorized_for_processing?
UserMay(user, state, action) ==
  \E role \in UserRoles[user] : <<state, action, role>> \in Permissions

\* What the indexers make of a work in memory: its state and access are the
\* object's own, the workflow state is read from the entity's row.
Document(inMemory, access) ==
  [state |-> IF entity = NoEntity THEN NoState ELSE entity,
   suppressed |-> inMemory = "inactive",
   access |-> access]

\* Mutant: a grant replaces the modes the user had.
ApplyReplacing(method, access) ==
  CASE method = "grant_read" -> {"read"}
    [] method = "grant_edit" -> {"edit"}
    [] method = "revoke_edit" -> access \ {"edit"}

Apply(method, access) ==
  CASE method = "grant_read" -> access \cup {"read"}
    [] method = "grant_edit" -> access \cup {"edit"}
    [] method = "revoke_edit" -> access \ {"edit"}

\* The work is saved for the first time: object.deposited is published, and
\* the workflow listener's factory creates the entity, whose state is NULL,
\* for the deposit action.  The list in memory holds what the form granted.
CreateWork(w) ==
  /\ entity = NoEntity
  /\ entity' = NoState
  /\ object' = "active"
  /\ \E granted \in SUBSET Modes :
        worker' = [worker EXCEPT ![w] =
                     [Idle EXCEPT !.pc = "update", !.cache = granted]]
  /\ UNCHANGED <<acl, memberAcl, index, jobs>>

\* load_resource of the controller.
LoadWork(w) ==
  /\ worker[w].pc = "idle"
  /\ entity # NoEntity
  /\ Serial => \A v \in Workers : worker[v].pc = "idle"
  /\ worker' = [worker EXCEPT ![w] =
                  [Idle EXCEPT !.pc = "loaded",
                               !.loaded = object, !.state = object]]
  /\ UNCHANGED <<stores, memberAcl, jobs>>

\* Mutant: the user's role is not asked for, only that someone has it.
OpenFormForAnyone(w) ==
  /\ worker[w].pc = "loaded"
  /\ \E user \in Users, action \in Actions, other \in Users :
        /\ UserMay(other, entity, action)
        /\ worker' = [worker EXCEPT ![w].pc = "update", ![w].user = user,
                                    ![w].action = action, ![w].seen = entity]
  /\ UNCHANGED <<stores, memberAcl, jobs>>

\* Mutant: the user's roles are asked for, and not the state of the work.
OpenFormInAnyState(w) ==
  /\ worker[w].pc = "loaded"
  /\ \E user \in Users, action \in Actions, state \in States :
        /\ UserMay(user, state, action)
        /\ worker' = [worker EXCEPT ![w].pc = "update", ![w].user = user,
                                    ![w].action = action, ![w].seen = entity]
  /\ UNCHANGED <<stores, memberAcl, jobs>>

\* The form reads the entity and asks whether the user may take the action in
\* the state it has read.
OpenForm(w) ==
  /\ worker[w].pc = "loaded"
  /\ \E user \in Users, action \in Actions :
        \/ /\ UserMay(user, entity, action)
           /\ worker' = [worker EXCEPT
                           ![w].pc = "update", ![w].user = user,
                           ![w].action = action, ![w].seen = entity]
        \/ /\ ~UserMay(user, entity, action)
           /\ worker' = [worker EXCEPT ![w] = Idle]
  /\ UNCHANGED <<stores, memberAcl, jobs>>

\* Mutant: an action without a resulting state clears the entity's state.
UpdateStateAlways(w) ==
  /\ worker[w].pc = "update"
  /\ entity' = Resulting[worker[w].action]
  /\ worker' = [worker EXCEPT ![w].pc = "methods"]
  /\ UNCHANGED <<object, acl, index, memberAcl, jobs>>

\* update_sipity_workflow_state: no statement is sent for an action without a
\* resulting state, nor when the row is believed to have that state already.
UpdateState(w) ==
  /\ worker[w].pc = "update"
  /\ LET target == Resulting[worker[w].action]
     IN  \/ target \notin {NoState, worker[w].seen} /\ entity' = target
         \/ target \in {NoState, worker[w].seen} /\ UNCHANGED entity
  /\ worker' = [worker EXCEPT ![w].pc = "methods"]
  /\ UNCHANGED <<object, acl, index, memberAcl, jobs>>

----------------------------------------------------------------------------
\* ActionTakenService.call: the triggered methods, in the order of their weight.
Triggered(w) == Methods[worker[w].action]
MethodsLeft(w) ==
  worker[w].pc = "methods" /\ worker[w].step <= Len(Triggered(w))
NextMethod(w) == Triggered(w)[worker[w].step]

\* Where a worker goes when the action is over: the create_work transaction
\* has steps left, a request has none.
AfterAction(w) == IF worker[w].action = DepositAction
                  THEN [worker[w] EXCEPT !.pc = "publish"] ELSE Idle

\* The permission manager reads the stored list, once for the work it is of.
LoadAcl(w) ==
  /\ MethodsLeft(w)
  /\ NextMethod(w) \in AclMethods
  /\ worker[w].cache = NotLoaded
  /\ worker' = [worker EXCEPT ![w].cache = acl]
  /\ UNCHANGED <<stores, memberAcl, jobs>>

\* AccessControlList.save has nothing to do when its change set is unchanged:
\* a revocation of what was not granted, with no other editor to grant again.
Pending(method, access) ==
  method = "revoke_edit" => OthersCanEdit \/ "edit" \in access

\* Grant- and RevokeEditToDepositor: the list in memory is changed and
\* replaces the stored one, the work is indexed, and the members' job queued.
RunAclMethod(w) ==
  /\ MethodsLeft(w)
  /\ NextMethod(w) \in AclMethods
  /\ worker[w].cache # NotLoaded
  /\ Len(jobs) < MaxJobs
  /\ LET old == worker[w].cache
         new == Apply(NextMethod(w), old)
     IN  /\ worker' = [worker EXCEPT ![w].cache = new, ![w].step = @ + 1]
         /\ \/ /\ Pending(NextMethod(w), old)
               /\ acl' = new
               /\ index' = Document(worker[w].loaded, new)
            \/ /\ ~Pending(NextMethod(w), old)
               /\ UNCHANGED <<acl, index>>
  /\ jobs' = Append(jobs, [method |-> NextMethod(w), cache |-> NotLoaded])
  /\ UNCHANGED <<entity, object, memberAcl>>

\* Mutant: the state is set on the model under the change set.
RunStateMethodOnModel(w) ==
  /\ MethodsLeft(w)
  /\ NextMethod(w) \in StateMethods
  /\ LET state == IF NextMethod(w) = "activate" THEN "active" ELSE "inactive"
     IN  worker' = [worker EXCEPT ![w].loaded = state, ![w].state = state,
                                  ![w].step = @ + 1]
  /\ UNCHANGED <<stores, memberAcl, jobs>>

\* Activate- and DeactivateObject set the state of the change set.
RunStateMethod(w) ==
  /\ MethodsLeft(w)
  /\ NextMethod(w) \in StateMethods
  /\ worker' = [worker EXCEPT
                  ![w].state = IF NextMethod(w) = "activate" THEN "active"
                                                             ELSE "inactive",
                  ![w].step = @ + 1]
  /\ UNCHANGED <<stores, memberAcl, jobs>>

\* A method that cannot be resolved answers nil: the rest are not called and
\* the work is not saved.  A method or a save that raises takes its whole
\* caller down, the create_work transaction too.
FailMethod(w) ==
  /\ worker[w].pc = "methods"
  /\ worker[w].action \in FailingActions
  /\ Triggered(w) # <<>>
  /\ \/ MethodsLeft(w) /\ worker' = [worker EXCEPT ![w] = AfterAction(w)]
     \/ worker' = [worker EXCEPT ![w] = Idle]
  /\ UNCHANGED <<stores, memberAcl, jobs>>

\* What the worker holds once its change set was applied and the work saved.
Synced(w) == [worker[w] EXCEPT !.loaded = worker[w].state]
AfterSave(w) == IF worker[w].action = DepositAction
                THEN [Synced(w) EXCEPT !.pc = "publish"] ELSE Idle

\* Mutant: the work is saved and the index is not told.
SaveTargetUnindexed(w) ==
  /\ worker[w].pc = "methods"
  /\ ~MethodsLeft(w)
  /\ object' = worker[w].state
  /\ worker' = [worker EXCEPT ![w] = AfterSave(w)]
  /\ UNCHANGED <<entity, acl, index, memberAcl, jobs>>

\* save_target: the change set is applied and the work saved and indexed, if
\* the change set differs from the work that was loaded.
SaveTarget(w) ==
  /\ worker[w].pc = "methods"
  /\ ~MethodsLeft(w)
  /\ \/ /\ worker[w].state # worker[w].loaded
        /\ object' = worker[w].state
        /\ index' = Document(worker[w].state,
                             IF worker[w].cache = NotLoaded
                             THEN acl ELSE worker[w].cache)
     \/ /\ worker[w].state = worker[w].loaded
        /\ UNCHANGED <<object, index>>
  /\ worker' = [worker EXCEPT ![w] = AfterSave(w)]
  /\ UNCHANGED <<entity, acl, memberAcl, jobs>>

----------------------------------------------------------------------------
(***************************************************************************)
(* The rest of the create_work transaction, over the work it has in memory *)
(***************************************************************************)

\* object.metadata.updated: the work is indexed.
PublishMetadata(w) ==
  /\ worker[w].pc = "publish"
  /\ index' = Document(worker[w].loaded, worker[w].cache)
  /\ worker' = [worker EXCEPT ![w].pc = "save_acl"]
  /\ UNCHANGED <<entity, object, acl, memberAcl, jobs>>

\* apply_permission_template grants the managers of the admin set and save_acl
\* writes the list in memory.
SaveAcl(w) ==
  /\ worker[w].pc = "save_acl"
  /\ acl' = worker[w].cache
  /\ index' = Document(worker[w].loaded, worker[w].cache)
  /\ worker' = [worker EXCEPT ![w].pc = "attach"]
  /\ UNCHANGED <<entity, object, memberAcl, jobs>>

\* add_file_sets: the file sets get a copy of the stored list, and the work in
\* memory is saved again with its members and indexed.
AttachFiles(w) ==
  /\ worker[w].pc = "attach"
  /\ memberAcl' = acl
  /\ object' = worker[w].loaded
  /\ index' = Document(worker[w].loaded, worker[w].cache)
  /\ worker' = [worker EXCEPT ![w] = Idle]
  /\ UNCHANGED <<entity, acl, jobs>>

----------------------------------------------------------------------------
(***************************************************************************)
(* Grant- and RevokeEditToMembersJob                                       *)
(***************************************************************************)
MayRun(k) == JobsInOrder => k = 1

\* The job finds the file sets of the work, if it has any yet, and their list.
StartMemberJob(k) ==
  /\ MayRun(k)
  /\ jobs[k].cache = NotLoaded
  /\ jobs' = IF memberAcl = NotLoaded THEN RemoveAt(jobs, k)
             ELSE [jobs EXCEPT ![k].cache = memberAcl]
  /\ UNCHANGED <<stores, memberAcl, worker>>

\* Mutant: the revocation is not written.
FinishGrantJob(k) ==
  /\ MayRun(k)
  /\ jobs[k].cache # NotLoaded
  /\ memberAcl' = jobs[k].cache \cup Apply(jobs[k].method, jobs[k].cache)
  /\ jobs' = RemoveAt(jobs, k)
  /\ UNCHANGED <<stores, worker>>

\* The list is changed and saved, when that changes it.
FinishMemberJob(k) ==
  /\ MayRun(k)
  /\ jobs[k].cache # NotLoaded
  /\ \/ /\ jobs[k].method = "revoke_edit" /\ "edit" \notin jobs[k].cache
        /\ UNCHANGED memberAcl
     \/ /\ jobs[k].method = "revoke_edit" => "edit" \in jobs[k].cache
        /\ memberAcl' = Apply(jobs[k].method, jobs[k].cache)
  /\ jobs' = RemoveAt(jobs, k)
  /\ UNCHANGED <<stores, worker>>

----------------------------------------------------------------------------
WorkerStep(w) ==
  \/ CreateWork(w) \/ LoadWork(w) \/ OpenForm(w) \/ UpdateState(w)
  \/ LoadAcl(w) \/ RunAclMethod(w) \/ RunStateMethod(w) \/ FailMethod(w)
  \/ SaveTarget(w) \/ PublishMetadata(w) \/ SaveAcl(w) \/ AttachFiles(w)

JobStep(k) == StartMemberJob(k) \/ FinishMemberJob(k)

Next ==
  \/ \E w \in Workers : WorkerStep(w)
  \/ \E k \in DOMAIN jobs : JobStep(k)

Spec == Init /\ [][Next]_vars

----------------------------------------------------------------------------
Quiet == entity # NoEntity /\ \A w \in Workers : worker[w].pc = "idle"

\* Someone may take an action that leads from one state to the other.
Permitted(from, to) ==
  \E user \in Users, action \in Actions :
     UserMay(user, from, action) /\ Resulting[action] = to

\* workflow_action_form.rb:8, "The form enforces that the action taken is
\* valid": a work only moves from the state it is in by an action that someone
\* is permitted to take in that state, however many forms are open on it.
MovesByPermittedActions ==
  [][entity' # entity /\ entity \in States => Permitted(entity, entity')]_vars

\* When no action is in flight the index suppresses the work exactly when the
\* work is inactive, and answers for the depositor's access, which abilities
\* are computed from, with the stored list.  Nothing is claimed of the workflow
\* state there: an action that triggers no method leaves the former one.
IndexShowsObject ==
  Quiet => /\ index.suppressed <=> object = "inactive"
           /\ index.access = acl

\* When no action is in flight and the members' jobs have run, the depositor
\* has the same access to the files as to the work.
MembersFollowWork == Quiet /\ jobs = <<>> => memberAcl = acl

\* A NULL state is one the deposit action is about to replace: no action leaves
\* an entity without a state, where nobody could ever act on it again.
NullStateIsTransient ==
  entity = NoState =>
     \E w \in Workers : worker[w].pc = "update"
                        /\ worker[w].action = DepositAction
=============================================================================
