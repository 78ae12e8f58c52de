---------------------------- MODULE WorkUploads ----------------------------
(***************************************************************************)
(* Attaching uploaded files to one work: WorkUploadsHandler as the         *)
(* AttachFilesToWorkJob runs it.  A job loads the work with its arguments, *)
(* waits for the work's Redis lock, makes a file set for each file, saves  *)
(* the work with the file sets as members, and enqueues a ValkyrieIngestJob*)
(* for each file.  A job that raises or whose process dies is run again.   *)
(*                                                                         *)
(* The order of the files in one request is left out: todo and members are *)
(* sets.  The representative stands for the thumbnail too, which is set in *)
(* the same way.                                                           *)
(***************************************************************************)
EXTENDS Naturals, FiniteSets

CONSTANTS
  Jobs,         \* AttachFilesToWorkJobs for the work
  Files,        \* Hyrax::UploadedFiles
  FilesOf,      \* the files each job was given
  MaxCrashes,   \* bound on the jobs that die
  MayExpire,    \* may attaching take longer than the lock's time to live?
  NoOne,        \* no job
  NoFileSet     \* no file set

\* A file set is known by its file and by how many were made for that file.
FileSets == Files \X (Nat \ {0})

ASSUME FilesAssumption == FilesOf \in [Jobs -> SUBSET Files]
ASSUME RunAssumption ==
  /\ MaxCrashes \in Nat
  /\ MayExpire \in BOOLEAN
  /\ NoOne \notin Jobs
ASSUME NoFileSetAssumption == NoFileSet \notin FileSets

VARIABLES
  work,      \* the stored work: member_ids and representative_id
  made,      \* how many file sets were saved for each file
  uri,       \* file_set_uri of each uploaded file, 0 when it is blank
  ready,     \* the file sets that have the work's permissions
  ingest,    \* the files whose ValkyrieIngestJob was enqueued
  lock,      \* the job that has the lock of the work
  handler,   \* what each job is doing
  crashes,   \* how many jobs died so far
  stale      \* was the work saved over a version the job had not seen?

files == <<made, uri, ready>>
vars == <<work, made, uri, ready, ingest, lock, handler, crashes, stale>>

Work == [members : SUBSET FileSets,
         representative : {NoFileSet} \cup FileSets]
Inside == {"making", "linking", "copying", "enqueueing"}
PC == {"queued", "waiting", "done"} \cup Inside
Handler ==
  [pc : PC,
   seen : Work,               \* the work as the job loaded it
   work : Work,               \* the work in memory
   todo : SUBSET Files,       \* files without a file set yet
   fileSet : {NoFileSet} \cup FileSets,  \* the one being attached
   payload : SUBSET Files]    \* files whose ingest job is to be enqueued

TypeOK ==
  /\ work \in Work
  /\ made \in [Files -> Nat]
  /\ uri \in [Files -> Nat]
  /\ ready \in SUBSET FileSets
  /\ ingest \in SUBSET Files
  /\ lock \in {NoOne} \cup Jobs
  /\ handler \in [Jobs -> Handler]
  /\ crashes \in 0..MaxCrashes
  /\ stale \in BOOLEAN

EmptyWork == [members |-> {}, representative |-> NoFileSet]
Queued == [pc |-> "queued", seen |-> EmptyWork, work |-> EmptyWork,
           todo |-> {}, fileSet |-> NoFileSet, payload |-> {}]
Done == [Queued EXCEPT !.pc = "done"]

Init ==
  /\ work = EmptyWork
  /\ made = [f \in Files |-> 0]
  /\ uri = [f \in Files |-> 0]
  /\ ready = {}
  /\ ingest = {}
  /\ lock = NoOne
  /\ handler = [j \in Jobs |-> Queued]
  /\ crashes = 0
  /\ stale = FALSE

----------------------------------------------------------------------------
\* Mutant: files that have a file set are taken again.
StartJobWithAll(j) ==
  /\ handler[j].pc = "queued"
  /\ handler' = [handler EXCEPT ![j] =
                   [Queued EXCEPT !.pc = "waiting", !.seen = work,
                                  !.work = work, !.todo = FilesOf[j]]]
  /\ UNCHANGED <<work, files, ingest, lock, crashes, stale>>

\* The work and the files are loaded, and add drops the files that have a
\* file_set_uri.  Without files left attach is done.
StartJob(j) ==
  /\ handler[j].pc = "queued"
  /\ LET todo == {f \in FilesOf[j] : uri[f] = 0}
     IN  handler' = [handler EXCEPT ![j] =
           IF todo = {} THEN Done
           ELSE [Queued EXCEPT !.pc = "waiting", !.seen = work,
                               !.work = work, !.todo = todo]]
  /\ UNCHANGED <<work, files, ingest, lock, crashes, stale>>

\* Mutant: the job goes on without the lock.
AcquireLockAnyway(j) ==
  /\ handler[j].pc = "waiting"
  /\ lock' = IF lock = NoOne THEN j ELSE lock
  /\ handler' = [handler EXCEPT ![j].pc = "making"]
  /\ UNCHANGED <<work, files, ingest, crashes, stale>>

AcquireLock(j) ==
  /\ handler[j].pc = "waiting"
  /\ lock = NoOne
  /\ lock' = j
  /\ handler' = [handler EXCEPT ![j].pc = "making"]
  /\ UNCHANGED <<work, files, ingest, crashes, stale>>

\* UnableToAcquireLockError: the job is put back in the queue.
GiveUpLock(j) ==
  /\ handler[j].pc = "waiting"
  /\ lock # NoOne
  /\ handler' = [handler EXCEPT ![j] = Queued]
  /\ UNCHANGED <<work, files, ingest, lock, crashes, stale>>

\* make_file_set_and_ingest: the file set is saved ...
MakeFileSet(j) ==
  /\ handler[j].pc = "making"
  /\ \E f \in handler[j].todo :
        /\ made' = [made EXCEPT ![f] = @ + 1]
        /\ handler' = [handler EXCEPT ![j].pc = "linking",
                                      ![j].fileSet = <<f, made[f] + 1>>,
                                      ![j].todo = @ \ {f}]
  /\ UNCHANGED <<work, uri, ready, ingest, lock, crashes, stale>>

\* ... the uploaded file is told of it ...
LinkFile(j) ==
  /\ handler[j].pc = "linking"
  /\ uri' = [uri EXCEPT ![handler[j].fileSet[1]] = handler[j].fileSet[2]]
  /\ handler' = [handler EXCEPT ![j].pc = "copying"]
  /\ UNCHANGED <<work, made, ready, ingest, lock, crashes, stale>>

\* Mutant: the file set replaces the ones that were appended before.
AppendOnly(inMemory, fileSet) == [inMemory EXCEPT !.members = {fileSet}]

\* append_to_work, in memory.
Append(inMemory, fileSet) ==
  [members |-> inMemory.members \cup {fileSet},
   representative |-> IF inMemory.representative = NoFileSet
                      THEN fileSet ELSE inMemory.representative]

\* Mutant: the permissions are not copied.
CopyNothing(j) ==
  /\ handler[j].pc = "copying"
  /\ handler' = [handler EXCEPT
                   ![j].pc = "making", ![j].fileSet = NoFileSet,
                   ![j].work = Append(@, handler[j].fileSet),
                   ![j].payload = @ \cup {handler[j].fileSet[1]}]
  /\ UNCHANGED <<work, files, ingest, lock, crashes, stale>>

\* ... gets a copy of the work's permissions, and is appended to the work.
CopyPermissions(j) ==
  /\ handler[j].pc = "copying"
  /\ ready' = ready \cup {handler[j].fileSet}
  /\ handler' = [handler EXCEPT
                   ![j].pc = "making", ![j].fileSet = NoFileSet,
                   ![j].work = Append(@, handler[j].fileSet),
                   ![j].payload = @ \cup {handler[j].fileSet[1]}]
  /\ UNCHANGED <<work, made, uri, ingest, lock, crashes, stale>>

\* The work in memory replaces the stored one, whatever that has become.
SaveWork(j) ==
  /\ handler[j].pc = "making"
  /\ handler[j].todo = {}
  /\ work' = handler[j].work
  /\ stale' = (stale \/ work # handler[j].seen)
  /\ handler' = [handler EXCEPT ![j].pc = "enqueueing"]
  /\ UNCHANGED <<files, ingest, lock, crashes>>

EnqueueIngest(j) ==
  /\ handler[j].pc = "enqueueing"
  /\ \E f \in handler[j].payload :
        /\ ingest' = ingest \cup {f}
        /\ handler' = [handler EXCEPT ![j].payload = @ \ {f}]
  /\ UNCHANGED <<work, files, lock, crashes, stale>>

\* Mutant: the job ends with the first payload, and leaves the lock to expire.
KeepLock(j) ==
  /\ handler[j].pc = "enqueueing"
  /\ handler' = [handler EXCEPT ![j] = Done]
  /\ UNCHANGED <<work, files, ingest, lock, crashes, stale>>

\* The lock is released by the job that still has it.
ReleaseLock(j) ==
  /\ handler[j].pc = "enqueueing"
  /\ handler[j].payload = {}
  /\ lock' = IF lock = j THEN NoOne ELSE lock
  /\ handler' = [handler EXCEPT ![j] = Done]
  /\ UNCHANGED <<work, files, ingest, crashes, stale>>

----------------------------------------------------------------------------
\* A job raises, and releases the lock, or its process dies with it.  The
\* queue runs the job again.
Crash(j) ==
  /\ crashes < MaxCrashes
  /\ handler[j].pc \in Inside
  /\ crashes' = crashes + 1
  /\ handler' = [handler EXCEPT ![j] = Queued]
  /\ lock' \in {lock, IF lock = j THEN NoOne ELSE lock}
  /\ UNCHANGED <<work, files, ingest, stale>>

\* The lock's time to live is over: nobody renews it.
ExpireLock ==
  /\ lock # NoOne
  /\ MayExpire \/ handler[lock].pc \notin Inside
  /\ lock' = NoOne
  /\ UNCHANGED <<work, files, ingest, handler, crashes, stale>>

Step(j) ==
  \/ StartJob(j) \/ AcquireLock(j) \/ GiveUpLock(j) \/ MakeFileSet(j)
  \/ LinkFile(j) \/ CopyPermissions(j) \/ SaveWork(j) \/ EnqueueIngest(j)
  \/ ReleaseLock(j)

Next == ExpireLock \/ \E j \in Jobs : Step(j) \/ Crash(j)

\* A queued job is run and a running one goes on; a lock expires in the end.
Fairness == WF_vars(ExpireLock) /\ \A j \in Jobs : WF_vars(Step(j))

Spec == Init /\ [][Next]_vars /\ Fairness

----------------------------------------------------------------------------
\* Only one job at a time mutates the work: it has the lock (Lockable).
OneMutatorAtATime ==
  \A j, k \in Jobs :
     handler[j].pc \in Inside /\ handler[k].pc \in Inside => j = k

\* A file set becomes a member of the stored work only when its upload knows
\* it and it has the work's permissions: nobody ever finds a member of the
\* work that is open to others than the work, whichever job died where.
MembersAreReady ==
  \A fileSet \in work.members :
     fileSet \in ready /\ uri[fileSet[1]] # 0

\* The work has a representative as soon as it has members, and it is one of
\* them, even when a job overwrites the members another job saved.
RepresentativeIsMember ==
  IF work.members = {} THEN work.representative = NoFileSet
  ELSE work.representative \in work.members

\* However often a job is run again, and even when two jobs are given the
\* same upload, the work never gets two file sets for one upload: add drops
\* the uploads with a file_set_uri.
NoFileAttachedTwice ==
  \A s, t \in work.members : s[1] = t[1] => s = t

Given == UNION {FilesOf[j] : j \in Jobs}
Attached == {fileSet[1] : fileSet \in work.members}
AllDone == \A j \in Jobs : handler[j].pc = "done"

\* When every job is done, every upload is attached (attach returns true "if
\* all requested files were attached").
NothingLost == AllDone => Given \subseteq Attached

\* The only ways to lose an upload for good are a job that dies half way, and
\* a job that saves the work over a version it has not seen.
NothingElseLosesUploads == crashes = 0 /\ ~stale => NothingLost

\* Every job comes to an end, whoever else holds the lock or dies with it,
\* and if none died the bytes of every upload are on their way to storage.
UploadsConclude ==
  <>[](AllDone /\ (crashes = 0 => Given \subseteq ingest))
=============================================================================
