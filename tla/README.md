# Hyrax, checked

TLA+ models of the parts of Hyrax (the Samvera repository engine, a Rails
engine under `src/`) in which several actors write the same state, with TLC
runs on small instances and TLAPS proofs for all of them.

Hyrax keeps its state in four places that no transaction spans: a SQL database
(operations, Sipity entities, uploaded files, transfer requests), a Valkyrie
persister (works, file sets, permission lists, each saved as a whole document),
a Solr index written by listeners on `Hyrax.publisher`, and Redis (the job queue
and one lock). Web requests and background jobs read one store, decide, and
write another. That is where the first group of models looks.

The pages it serves keep state of their own: which rows, stars and boxes they
show, what jQuery and Bootstrap remember, requests that have not been answered
and timers that have not fired. Their scripts (`app/assets/javascripts/hyrax`)
update a page by guessing what the server did. The second group models those
scripts together with the controllers that answer them.

## Contents

| Module | What it is |
| --- | --- |
| `BatchOperations` | batch uploads: the parent and child `Operation` rows and the two jobs |
| `SipityActions` | workflow actions on one work, for any workflow |
| `MediatedDeposit` | the mediated deposit workflow as data for `SipityActions`, and what it promises |
| `WorkUploads` | `AttachFilesToWorkJob` and `WorkUploadsHandler` on one work, under the Redis lock |
| `Transfers` | transfers of the ownership of one work: requests, answers, the two jobs |
| `BatchEdit` | the batch edit page: a queue of saves, two timers, requests that are combined |
| `BatchSelection` | the boxes of a list of works and the form that deletes what is selected |
| `CollectionModals` | the modals that delete, remove and add collections |
| `FeaturedWorks`, `FeatureLinks` | the list of featured works on the homepage; the two links on the page of a work |
| `Trophies` | the stars that highlight works on a profile |
| `SingleUseLinks` | the table of single use links |
| `ProxyRights` | the table of users who may deposit for another |
| `NavSafety` | tabs with forms, and the question before edits are lost |
| `LinkedRecord` | the form that creates a record from within a compound field |
| `FormRows`, `RowList` | repeatable rows of a form; the list they are meant to be |
| `Subsequences` | parts of a list, defined so that both of these can be proved about |
| `UploadGate` | the counter of uploads that decides whether a work can be saved |
| `Sidebar` | the sections of the dashboard menu, in several windows |
| `Pages` | the browser with any one of these pages open |
| `MC...` | instances for TLC |
| `..._proofs` | theorems, checked by `tlapm` |

`PROJECT.json` lists the runs, the source lines each definition translates, a
mutation of the code model that breaks each property, the findings, the hazards
and the theorems. To repeat a run: `tlc -config sipity.cfg MCMediatedDeposit`; a
proof: `tlapm SipityActions_proofs.tla`.

## Inventory

Each entry: state; operations; interactions; what is hard; what makes it correct.

1. **Workflow actions (Sipity)**, `app/services/hyrax/workflow`,
   `app/forms/hyrax/forms/workflow_action_form.rb`. State: the entity's
   `workflow_state`, the work's `state`, its permission list, its index document.
   Operations: deposit (from `object.deposited`), an action saved through the
   form, the triggered methods. Interacts with the `create_work` transaction,
   permission lists, the indexing listeners, the members' jobs. Hard: a form
   opened before another action; four stores written one after the other;
   methods that fail midway. Correct: a work is public exactly when its workflow
   says so; moves are permitted ones; nobody is left with access the workflow
   took.
2. **Workflow definition and activation**, `workflow_importer.rb`,
   `state_machine_generator.rb`, `sipity/workflow.rb`,
   `apply_workflow_on_admin_set_change.rb`. State: workflows, states, actions,
   permissions, the active flag. Hard: import over live entities; two
   activations. Correct: one active workflow per template, no entity in a state
   that is not its workflow's.
3. **Access control lists**, `access_control_list.rb`, `permission_manager.rb`.
   State: one document per object, cached per object in memory. Operations:
   grant, revoke, copy, save. Hard: read-modify-write of whole lists, jobs for
   the members. Correct: what was decided last is what is stored and indexed, for
   the work and for its files.
4. **Attaching uploads**, `work_uploads_handler.rb`,
   `attach_files_to_work_job.rb`. State: `member_ids`, `representative_id`,
   `file_set_uri` of each upload. Interacts with the lock, the ingest jobs. Hard:
   jobs that die and are retried, a work loaded before the lock, a lock that
   expires. Correct: nothing lost, nothing attached twice, no dangling
   representative, no unprotected member.
5. **Work lock**, `lock_manager.rb`, `lockable.rb`. State: one Redis key with a
   time to live. Correct: one holder inside.
6. **Batch uploads and operations**, `operation.rb`, `batch_create_job.rb`,
   `create_work_job.rb`. State: `status` of a tree of rows. Hard: children that
   report while others are created; discarded jobs. Correct: the parent's verdict
   is that of its children.
7. **File ingest, characterization, derivatives**, `valkyrie_upload.rb`,
   `valkyrie_*_job.rb`, `file_listener.rb`. State: `file_ids` of a file set, file
   metadata, versions. Hard: an unlocked read-modify-write of `file_ids` by
   concurrent jobs, retried uploads. Correct: one original, no lost derivative.
8. **Transactions**, `lib/hyrax/transactions`. Chains of steps without rollback.
   Hard: a step that fails after others have written, stale resources passed
   down the chain. Correct: what is left is consistent.
9. **Embargoes and leases**. State: embargo objects, visibility, expiry found in
   the index. Hard: a stale index, members with embargoes of their own. Correct:
   what expired is released once, members with it.
10. **Proxy deposit and transfers**, `proxy_deposit_request.rb`,
    `transfers_controller.rb`, `change_depositor_service.rb`. State: requests with
    a status; the depositor of a work, its permission list and its index document;
    the depositor and permissions of its files; the activity stream; the users who
    may deposit for another (entry 20). Operations: ask, accept (with or without a
    reset of the permissions), reject, cancel; the jobs. Interacts with permission
    lists and their listener. Hard: the status is asked when a request is loaded
    and not when it is stored, four stores are written one after the other, jobs
    run late and overtake each other. Correct: the work, its permissions, its index
    document and its files end with the user who accepted last; an answered request
    stays answered; the stream tells what happened.
11. **Fixity audit logs**. State: log rows. An algorithm: pruning keeps the
    latest, the failures and their neighbours.
12. **Default admin set**. A find-or-create across two stores.
13. **Redirect paths**. Rows with a unique path; the form is entry 23.
14. **Indexing**. Listeners write what they hold in memory: the order of events is
    the order of documents.
15. **Collections and membership rules; Wings, Freyja; flexible schemas, forms;
    controllers, presenters, views, analytics, manifests, generators; the legacy
    actor stack**. Not modelled: queries, adapters of external stores, data
    mapping, presentation, or superseded code. See `PROJECT.json`.
16. **Batch edit page**, `batch_edit.js`. State: `ajaxManager`'s queue, flag and
    timers, the disabled forms. Interacts with the server through requests that
    may fail. Hard: `run` does not ask whether a request is in flight; queued
    saves are merged by a prefix of their keys. Correct: one request at a time,
    what a form says is saved is stored, no form is left disabled.
17. **Selection of works**, `batch_select_all.js`, `batch_select.es6`. State:
    boxes, hidden fields. Hard: the fields are added before the reader confirms.
    Correct: what is deleted is what is selected.
18. **Collection modals**, `collections.js`. State: one modal for all rows and
    what `data()` has kept of it. Hard: the url posted to is that of an earlier
    row. Correct: a request is for the row shown, passes its guard, is sent once.
19. **Featured works, trophies, single use links**, `featured_works.js`,
    `trophy.js`, `single_use_links_manager.js` and their controllers. State: rows
    in the database, rows and links on the page, a global variable, animations.
    Hard: overlapping requests, answers in any order, a check before an insert.
    Correct: at rest the page shows what is stored.
20. **Proxy rights**, `proxy_rights.js`, `depositors_controller.rb`. As 19.
21. **Unsaved edits**, `nav_safety.js`, `tabs.js`. State: the active tab, one
    dirty flag, the modal. Hard: change events that come when the field is left,
    the back button. Correct: no tab out of sight has unsaved edits.
22. **Linked records**, `compound_metadata.js`. State: the create form and its
    requests. Hard: a check answered after the form was closed or changed.
    Correct: no record is created twice, or beside a similar one, unasked.
23. **Repeatable rows**, `compound_metadata.js`, `redirects.js`, the populators.
    State: rows under indices, flags, radio buttons. Correct: it is a list.
24. **Uploads before a save**, `uploader.js`, `uploaded_files.es6`,
    `save_work_control.es6`, `browse_everything.js`. State: a counter. Correct: no
    running upload is lost by saving.
25. **Dashboard menu**, `collapse.js`. State: localStorage shared by windows.
26. **Other scripts**: form widgets (permissions, relationships, file manager,
    visibility), menus, search, editors, charts, the Clover viewer. Not modelled.

## The models

### BatchOperations

`BatchUploadsController` creates the parent row and enqueues `BatchCreateJob`,
whose loop creates a child row per file and enqueues its `CreateWorkJob`; that
job marks its child `success!` or `fail!`, and then the parent takes the verdict
of its children in `rollup_status`. A row has no status until `pending_job`
gives it one: `"null"` is a status of its own, because `rollup_status` looks for
`pending` and `performing` only. One action is one SQL statement or the block of
one `with_lock`: `MarkChild` (the child's own row) and `Rollup` (the parent's,
locked, with the callbacks that tell the depositor) are two steps, and the jobs
of the children interleave between them. `Discard` is `discard_on`.

A retry of `BatchCreateJob` (it would create the children a second time) is not
modelled.

### SipityActions and MediatedDeposit

`SipityActions` is parameterised by a workflow: states, actions, who may take
which action in which state, the state an action leads to, the methods it
triggers. A worker (a web request, or the transaction that creates the work)
goes through these steps, each of which writes at most one store and what its
listeners write with it:

| Step | Code |
| --- | --- |
| `CreateWork` | the `object.deposited` event: `WorkflowFactory#create` makes the entity, with a NULL state, and takes the deposit action |
| `LoadWork` | `load_resource` of the controller |
| `OpenForm` | the form reads the entity, validates `authorized_for_processing?` |
| `UpdateState` | `WorkflowActionService#update_sipity_workflow_state` |
| `LoadAcl`, `RunAclMethod` | the permission list is read once, then changed, saved, indexed, and the members' job queued |
| `RunStateMethod` | `ActivateObject`, `DeactivateObject`, on the change set |
| `FailMethod` | a method answers nil or raises |
| `SaveTarget` | `save_target`: `change_set.apply` if the change set changed anything |
| `PublishMetadata`, `SaveAcl`, `AttachFiles` | the rest of the `create_work` transaction, over the work it has in memory |
| `StartMemberJob`, `FinishMemberJob` | `GrantReadToMembersJob`, `GrantEditToMembersJob`, `RevokeEditFromMembersJob` |

The access modelled is the depositor's; `OthersCanEdit` says whether revoking it
also re-grants someone else's, which decides whether the list has pending
changes. The work is indexed with what the worker has in memory, as the
listeners do. Comments, notifications and logging are left out. A work has its
file sets in one step (`AttachFiles`), whose own interleavings are
`WorkUploads`.

`MediatedDeposit` gives the constants the values of
`mediated_deposit_workflow.json.erb` and states what that workflow is for: the
work is public exactly when it was approved, and the depositor may edit it
exactly when asked for changes.

### WorkUploads

A job loads the work and its uploads when it starts (`StartJob`), waits for the
lock, and inside it makes a file set per upload (`MakeFileSet`), writes its id to
the upload (`LinkFile`), copies the permissions and appends it to the work in
memory (`CopyPermissions`), then saves that work over the stored one
(`SaveWork`), enqueues the ingest jobs and releases the lock. `Crash` kills a job
at any point inside: when the process dies the lock stays until `ExpireLock`;
when the job raises it is released; in both cases the queue runs the job again.
`MayExpire` says whether the time to live can end while its holder is inside.
No run lets it: that two jobs are then inside is plain, and the proofs cover what
holds nevertheless.
`stale` is a ghost: the stored work was overwritten by a job that had not seen
it.

Nothing else writes the work in this module; the removal of file sets is not
modelled.

### Transfers

A web worker takes one request through these steps, each of which writes at most
one store and what its listener writes with it:

| Step | Code |
| --- | --- |
| `CheckRequest`, `InsertRequest` | `create`: the ability asks the index for the depositor, the validation looks for open requests; then the row is inserted |
| `LoadRequest` | `accept`, `reject`, `destroy`: the request is loaded, and must be pending |
| `FindWork` | `transfer!` finds the work; nothing is done for its own depositor |
| `ResetAcl` | an empty permission list is saved; the listener indexes the work as it was found |
| `GrantAcl` | the new depositor is assigned in memory, then granted access; the list is saved and the work indexed |
| `SaveWork` | the work is saved, without an event; both jobs are queued |
| `ValidateAnswer`, `Fulfill` | `save!`: the validation looks for other open requests; then the row is updated |
| `StartPropagation`, `FinishPropagation` | `PropagateChangeDepositorJob` on the files: read and reset, then grant and save |
| `LogEvent` | `ChangeDepositorEventJob`, which reads the work when it runs |

Web requests overlap as they like, and jobs run at any time and in any order.
A permission list to which somebody
is added has a change even if they were on it (`permissions += [...]`), so it is
saved and indexed; one that is emptied only if it had something. `made`,
`overlapped` and `overtaken` are ghosts: what was transferred, whether a web
request started while another was under way, and whether a job was started before
an earlier one had ended. Several properties claim something only until then: of
two acceptances that overlap the last save of each store wins, and a job that was
overtaken gives the files to an earlier depositor. Overlapping or not, two open
requests bar each other, but only from the time when no answer to one of them has
passed its validation (`Barred`): the second may be inserted between the
validation and the update, and then the first is still answered.

A process that dies between two of these writes is not modelled.

Left out are administrators, the option to accept from a sender always, messages,
and works kept by ActiveFedora, which takes a path of its own. The files of a work
are one, since a job does the same with each.

### The pages

Each of these modules has the state of one page, the requests under way, and as
much of the server as answers them. A step is one event handler, timer or
callback with everything it calls, or one request as the controller handles it;
a controller that reads before it writes takes two steps, so that two requests
overlap (`FindTrophy` and `ToggleTrophy`, `LookUpProxy` and `GrantProxy`). Answers
come in any order. A request may fail before the server has handled it, or its
answer be lost afterwards. Most scripts have no callback for either, so the page then
differs from what is stored until it is loaded again. A ghost of each module names what was lost
(`astray`, `unlisted`, `lostRemovals`, `entangled`, ...), so that its property excepts
just that. What Bootstrap, jQuery and the plugins
do is modelled as these scripts rely on it and marked external in `PROJECT.json`.

| Module | Where the code's oddities are |
| --- | --- |
| `BatchEdit` | `CombinedValue`: the requests behind the head are popped from the last, and only fields whose key has the `data-model` of their form as its first 12 characters are taken over (`Matching`); `Reparsed`: a value is cut at its `=`; `RunNow` is called, not passed to `setTimeout`; `Answer`: `complete` enables the forms of a combined request even if it failed, nothing enables that of a single one |
| `BatchSelection` | `ClickDelete` adds fields before `data-confirm` asks; `CancelDelete` leaves them |
| `CollectionModals` | `OpenFor`: an attribute is written, `data()` keeps the first value (`cached`); the buttons that delete are disabled and not enabled again |
| `FeaturedWorks` | the row an answer removes is a global; the order saved is that of the list at that time; a removal asked for before the page was loaded again may be handled after it (`HandleLate`); one that was stored and not answered (`LoseRemoval`) leaves a row at which "Save order" stops |
| `FeatureLinks` | a press inserts a row whether or not one exists; the limit is counted before |
| `Trophies` | `gid`: the row a faded-out callback removes; the class that tells what a toggle did, wrongly after one whose answer was lost (`LoseToggle`) |
| `SingleUseLinks` | `done: ...remove()` is evaluated at the click, not when the request is done; a lost answer to a POST (`LoseCreateAnswer`) or a failed reload (`FailList`) leaves the table as it was |
| `ProxyRights` | a row is removed at the click and appended with the answer |
| `NavSafety` | `dirty` is one flag for all forms; `ResetsOf`: `getElementById` finds the first form of that id; `GoBack` leaves without a change event |
| `LinkedRecord` | `AnswerCheck` acts on the form as it is when the answer comes |
| `FormRows` | `PostedRow`: of two rows under one index the last is heard; a card's picker hides its field for works that have a title |
| `UploadGate` | failed uploads are never counted off; a choice in the cloud is counted off once without having been counted |
| `Sidebar` | what is kept is flipped by every press, what is shown only if nothing slides |

Exceptions that the code really makes are written into the properties by name,
as ghost variables (`history` in the declarations): a property says exactly under
which circumstances the page shows something else than what is stored.

`RowList` is the abstract specification of `FormRows`: a list to which an entry is
added, filled, marked or deleted, and that is stored without its blanks.
`FormIsRowList` is the refinement: indices, `_destroy` flags, hidden fields and
radio buttons disappear in `ShownEntries`. What is posted is read in the order of
the indices and what is seen is a part of the rows; both are written with
`Subsequences` (`Ascending`, `TakeAt`), which says what such a list is by counting,
where `SetToSortSeq` and `SelectSeq` say it by recursion that no prover expands.

`Pages` opens one of the pages, whose steps then leave the variables of the others
alone. They are concatenated into one script and share no variable but one: `anchor`
is an implicit global of both `featured_works.js` and `trophy.js`. No page has links
for both (profiles and the menus of lists of works have stars, the homepage and the
page of a work have the others), so each module has its own.

## The runs

| Run | Instance | States | Shows |
| --- | --- | --- | --- |
| `batch` | 3 files, jobs may be discarded | 2 148 | the verdict is right in the end, never a false failure, never taken back, always reached |
| `batch_early` | same | | the verdict may come before all jobs are complete |
| `sipity` | 2 workers, one action at a time, jobs in order, 3 jobs | 888 | visibility, access, members and index follow the workflow |
| `sipity_concurrent` | 2 workers that overlap, failing methods | 487 000 | no entity without a state; only an approval publishes |
| `form_stale` | 2 workers that overlap | | an action is taken in a state where it is not permitted |
| `uploads` | 2 jobs, 3 files (one shared), 2 deaths | 30 642 | the work is consistent, nothing twice, only two ways to lose an upload, every job ends |
| `uploads_lost` | no deaths, no expiry | | the second job overwrites the first |
| `transfers` | 3 users, 2 requests, 2 transfers, 2 workers | 1 314 829 | until requests overlap, work, permissions, index and files end with the user who accepted last; however they overlap, the activity stream tells no lies and two open requests bar each other unless one was already validated |
| `two_open` | same | | two requests for a work are open |
| `pages` | see below | 540 048 | each page shows what is stored, with the exceptions its property names; the queue of the batch edit page drains |
| `delete_selected` | 2 works | | works of a cancelled deletion are deleted with the next |
| `modal_row` | 2 rows | | a modal posts for the row it was opened for first |

The six runs that end in a counterexample are disagreements between the code
and a sentence of its own documentation; `PROJECT.json` quotes each.

**Bounds.** Three files are enough for one child that is late, one that fails
and one that succeeds, in every order, and for a sibling that does not exist
yet. Two workers are enough for a request inside another; a third adds no new
pair of overlapping writes. Three waiting jobs are what two approvals can queue
before the first job runs; with overlapping requests one is enough because the
two properties of that run do not read the members' lists. Two jobs with two
files each put a save between the load and the save of another, two deaths let a
retry die again. The runs with `Serial` TRUE separate what concurrency breaks
from what is broken without it.

What these settings and the ghosts leave out is broken by the code (with the setting
the other way, or without the exception, TLC finds each property violated), and no
property claims otherwise: permission lists and documents written by overlapping actions
(`Serial`), members' jobs out of order (`JobsInOrder`), a lock that expires under its
holder (`MayExpire`), answers to a transfer that overlap (`overlapped`), jobs that
overtake each other (`overtaken`), a link pressed during a request (`entangled`), a
section pressed during its slide or in another window (`disturbed`). The hazards in
`PROJECT.json` say so where a property covers a part of one only.

In the runs of `Transfers` three users are the depositor, the one asked, and one
who was given edit access by others, or a second receiver; the initial lists of
permissions are all that have the depositor. Two requests (`MaxRequests`) that are
accepted (`MaxTransfers`) let a work return to its former depositor, and one job
overtake another; overlapping, they are the smallest number that can be open
together, and two workers answer both, or one twice. Users and workers are
symmetric: no definition tells them apart.

In `pages`: three forms are two that the combination recognises, one of them with
an `=` in its value, and one it does not, whose button is bound twice; two saves of
each put a newer value behind an older one. Three rows of collections are an
ordinary one, one that may not be edited, and an admin set with works. Three
works, two of them highlighted at most, let one row fade while the answer for
another comes, and a third press meet the limit; two requests overlap. One removal
whose answer is lost (`MaxLost`) already leaves a row that is posted for nothing. Four tabs
are three with forms, one of them untracked, and one whose form has the id of
another's. Indices up to 3 let a row be removed between two others and one be
added after it. Three files are one that fails, one from the cloud and one that is
still being sent. Two windows with two sections are enough for a press in another
window on the same or the other section.

**Deadlock** is checked in the workflow runs. Once the bound on requests is spent
and the last is answered a transfer run ends. The batch and the uploads really end,
so `CHECK_DEADLOCK FALSE` is set there too and a liveness property says that
they end well. A page may rest when its reader has spent the presses the bounds allow,
so `pages` does not check for deadlock either.

**Fairness.** `BatchEdit`: a request is answered or its connection fails, and a
timer that was set fires (weak fairness of `Answer` and of `FireAgain`); the reader
need not press anything, and the idle timer need not fire, as every press runs
the queue. `BatchOperations`: the queue hands every job to a worker, and a
worker runs it to its end or dies (weak fairness of each job's next step).
`WorkUploads`: the same, and Redis expires a key nobody holds (weak fairness of
`ExpireLock`). A job that gives up the lock (`UnableToAcquireLockError`, after
600 tries) is put back, which the fairness does not exclude: `UploadsConclude`
holds because the other holders end. `SipityActions` has no fairness and no
liveness property: a reviewer need never act. Nor has `Transfers`: nobody need
answer a request, and two that bar each other are never answered.

## What is proved

Every invariant and action property of the passing runs, and the refinement, are
theorems. Proofs hold for every value of the constants that satisfies the named
assumptions in the modules (`UsersAssumption`, `WorkflowAssumption`,
`RunAssumption`, `FilesAssumption`, ...), which TLC evaluates in the runs.

* **BatchOperations_proofs.** `TypeCorrect`, `FailureHasACause`,
  `RollupIsComplete`, `FailureIsAnnounced`, `FailureStands` for a batch of any
  size. The properties are not inductive alone: the invariant `IInv` adds that the
  loop has created nothing before it starts, that a child's row and job go
  together (`JobMatchesRow`: a child that has reported has its verdict, one that
  has no status has no job), and that the depositor was told of the failure the
  parent has, and of no other (`ToldOfFailure`). The heart is `RollupIsComplete`:
  of children that finish together, the one that locks the parent last sees every
  verdict.
* **SipityActions_proofs.** For any workflow: `TypeCorrect`; `EntityKeepsAState`,
  for any overlap: it needs that a worker about to take a deposit is the only one
  (`OneDeposit`) and that the action of every open form was permitted in a state
  of the workflow (`FormWasPermitted`), so it is not the deposit. With `Serial`
  (works are loaded one action at a time):
  `SerialMovesArePermitted`, by the invariant that the state an open form has seen
  is the entity's (`FormIsCurrent`): with `form_stale` this says that overlap is
  the one cause of forbidden moves; `SerialIndexIsCurrent`, because the work and the
  list in a worker's memory are the stored ones, but for the list that
  `create_work` has yet to save (`MemoryIsCurrent`); and with `JobsInOrder`,
  `MembersCatchUp`: the members are behind, but what the queued jobs will do to
  their access can be read off the queue, and that is what the work has
  (`MembersReach`).

  Of mediated deposit (`Mediated`: the constants are those of `MediatedDeposit`,
  for any workers): `ReviewersPublish`, for any overlap: a change set that would
  make an inactive work active is that of an approval (`ActivatesByApproval`), opened
  by a user who was entitled to it (`Entitled`), and what `create_work` saves in the
  end is the work it has deactivated. `ApprovedIsActive` and `EditGoesWithTheState`, with
  `Serial`: while the methods of an action run, each that has run has kept its part
  of what the next state promises (`Promised`), so the work is as the workflow says
  once they have (`Settled`).

  What is assumed of failures is needed. If a method of the deposit raises, the
  transaction stops before the work has its files, and there are no members to
  catch up; if one fails and the transaction goes on, it saves at its end the work
  that was not deactivated, over whatever deactivation came in between. So
  `MembersCatchUp` and `ReviewersPublish` assume that the deposit does not fail (TLC
  finds both counterexamples when it may). Any action that fails
  after the entity was moved leaves the work short of the new state's promises, so
  the last two assume that none does, as the run `sipity` does.
* **WorkUploads_proofs.** `TypeCorrect`, `MembersStayReady`,
  `RepresentativeStays`, `AttachedOnce` hold for any jobs and files, even when
  two jobs are inside at once. They are one argument: what a job holds in memory
  is well formed by the same standard as what is stored (`WellFormed`), what is
  ready stays ready and a `file_set_uri` is never cleared (`StaysSound`), so it
  does not matter whose version a save overwrites; and a job never has an upload
  to attach that its version of the work already has (`Sound`). `LockExcludes`
  assumes that nothing takes longer than the time to live, and follows from: who
  is inside has the lock. `OnlyDeathOrStaleSaveLoses`: while no job has died and no
  stale work was saved, an upload that has a file set is in the stored work or in
  the memory of a job that will save it, and every other upload of a job that was
  started has yet to be attached by it (`LossFree`).
* **BatchEdit_proofs.** `RequestsGoOneAtATime`, `CombiningForgetsNoForm`,
  `WhatIsSavedIsStored`, for any forms. `OneRequestInFlight` is inductive with the
  types. The other two rest on what the queue looks like (`QueueSound`): only its
  head may be combined, a recognised form is named by at most one request, which
  carries its current value, and the form is disabled meanwhile, so the value
  cannot change; `CombineSound` shows that combining keeps that, because the
  value of a form comes from the one request that names it
  (`CombinedValueIsCarried`).
* **LocalPages_proofs.** `SavingLosesNoUpload`, by counting: the uploads that run
  or have failed are as many as the counter and the choices in the cloud together
  (`CounterCounts`). `DeletesSelectedAndAbandoned`, `EditsStayInSight` (only the
  active tab has edits that could be lost, and then the page is dirty or about to
  be: `EditsAreGuarded`), `MenuIsKept`.
* **ServerPages_proofs.** The pages whose requests a server answers, for any rows
  and any number of requests answered in any order (`Answered`: an answer takes its
  request from those under way, and the others keep their order).
  `RequestsPassTheGuard`: what `data()` keeps for a modal passed the guard of the
  same modal (`KeptRowsPermitted`), and the guard does not change while the page is
  shown. `ModalDeletesOnce`: a modal that has sent its request is disabled
  (`SpentIsDisabled`). `StarsTellTheTrophies`: a work that was not pressed twice at
  a time, and of which no answer to a stored toggle was lost, has one request at most,
  and its star is behind only while that was handled and not answered
  (`StarInOrder`). `ProxiesHaveTheirRows`: a right has a row, will
  have it when a grant is answered, or lost it at a click whose request is under way
  (`ProxyInOrder`). `TableShowsTheLinks`: the table may be behind but the newest
  reload is not, unless the news of a link was lost and nothing reloaded since
  (`NothingHidden`, `NothingLeft`). `DuplicatesAreWarnedOf`: the latch
  that allows a creation, and each check under way, are about the name in the form
  (`LatchIsFresh`, `CheckIsFresh`). `LinksShowTheRow`: a request under way is the
  only one and its link is the one shown (`OnlyItsLink`). `ListShowsFeatured`: one
  work is asked to go at a time, it is the one of the global, and its row is there;
  any other row without a featured work is one whose removal was stored and not
  answered (`NoRowAstray`). `ArrangementIsKept`: from a drag on, the weights ascend down the
  list whatever is removed, and a set has one ascending order (`AscendingIs`).

  `FormImplementsList` is the refinement: every step of `FormRows` is a step of
  `RowList` on `ShownEntries`, or a stutter. Its invariant `RowInv` says that
  indices climb down the form and stay below `data-next-index` (`IndicesClimb`), a
  hidden field has what its picker shows and the button of an alias that is not
  blank can be posted (`RowInOrder`), and one button at most is pressed
  (`OneButton`). The heart is `PostIsWhatIsSeen`: as indices climb, no row hides
  another under its index and the order of the indices is that of the rows, so what
  the populators make of the post is what is seen without its blanks.
* **Pages_proofs.** `PagesKeepTheirTypes`, `PagesKeepTheirPromises`,
  `PagesShowTheServer`, `PagesKeepTheOrder`, `PagesFormIsRowList`: all of this holds of
  `PagesSpec`, the specification the run checks, because a step of the browser is a
  step of each page or leaves it alone.
* **Transfers_proofs.** `TransferTypesCorrect`, `StreamIsTrue` and
  `DuplicatesBarEachOther`, for any users, workers and overlap. The stream is true
  because the stored work always tells of a transfer that was made once an event
  job waits (`WorkTellsOfTransfer`); two open requests of which no answer was validated
  bar each other because a task that answers has a request of its own
  (`TasksAreSound`) and its validation sees the other. `SerialTransfersSettle` and `SerialTransfersGiveAccess` are about the time
  before web requests overlap: the stores are not settled while an acceptance writes
  them, so the invariant (`SerialTransfers`) says what the one worker at work knows
  of them at each of its steps (`TaskSeesStores`): what it read is still what is
  stored, and how far each store has got. `SerialTransfersAreSingle` says that
  `two_open` needs overlap. `FilesCatchUp`: what the files will have once the queued
  jobs are done, read off the queue (`EditorsAhead`, `DepositorAhead`), is what the
  work has, or will have when the task at work has ended (`FilesAhead`).

The type invariants of the modules outside the pages, `FailureIsSticky` and
`OneDeletionPerModal` are proved and therefore in no run.

Only model-checked: the liveness properties `BatchConcludes`, `UploadsConclude` and
`QueueDrains`, which need fairness and `ENABLED`, beyond the prover; and the
counterexamples of the runs that expect one.

## Not modelled

* **Ingest and derivatives.** What two concurrent saves of `file_ids` leave depends
  on the optimistic locking of the Valkyrie adapter an installation chooses, which
  is not in this repository. The hazards are listed.
* **Destroying works, embargo expiry, activation of workflows, the default admin
  set, fixity logs.** Short sequences of calls to stores or queries over dates; what
  interleaves in them is listed among the hazards where it is real, or in the
  components' notes. They are the next candidates.
* **Redirect paths in the database.** A unique index decides.
* **Wings, Freyja, schemas, presenters, views, IIIF, generators, the legacy actor
  stack; the scripts of entry 26.** Adapters, data mapping and presentation without
  state that other parts read.
