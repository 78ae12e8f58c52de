------------------------ MODULE WorkUploads_proofs -------------------------
(***************************************************************************)
(* Proofs about WorkUploads, for any number of jobs and uploads, any       *)
(* overlap of the jobs, any number of deaths, and (except for              *)
(* OneMutatorAtATime) locks that may expire at any time: what holds of the *)
(* work whatever happens, and that only a death or the save of a stale     *)
(* work loses an upload.                                                   *)
(***************************************************************************)
EXTENDS WorkUploads, TLAPS

\* The uploads that have a file set among the members of a work.
AttachedTo(w) == {fileSet[1] : fileSet \in w.members}

\* What a work looks like, stored or in the memory of a job, when rd are the
\* file sets with permissions and ur are the file_set_uris.
WellFormed(w, rd, ur) ==
  /\ IF w.members = {} THEN w.representative = NoFileSet
     ELSE w.representative \in w.members
  /\ \A fileSet \in w.members : fileSet \in rd /\ ur[fileSet[1]] # 0
  /\ \A s, t \in w.members : s[1] = t[1] => s = t

\* A job never has an upload to attach that its work in memory already has.
Sound(h, rd, ur) ==
  /\ WellFormed(h.work, rd, ur)
  /\ h.todo \cap AttachedTo(h.work) = {}
  /\ h.pc \in {"linking", "copying"} =>
        /\ h.fileSet \in FileSets
        /\ h.fileSet[1] \notin h.todo
        /\ h.fileSet[1] \notin AttachedTo(h.work)
  /\ h.pc = "copying" => ur[h.fileSet[1]] # 0

AllSound == \A j \in Jobs : Sound(handler[j], ready, uri)

IInv ==
  /\ TypeOK
  /\ WellFormed(work, ready, uri)
  /\ AllSound

----------------------------------------------------------------------------
LEMMA HandlerFields ==
  ASSUME NEW h \in Handler
  PROVE  /\ h.pc \in PC
         /\ h.seen \in Work
         /\ h.work \in Work
         /\ h.todo \in SUBSET Files
         /\ h.fileSet \in {NoFileSet} \cup FileSets
         /\ h.payload \in SUBSET Files
  BY DEF Handler

LEMMA HandlerEnds ==
  /\ EmptyWork \in Work
  /\ Queued \in Handler
  /\ Done \in Handler
  BY DEF Queued, Done, EmptyWork, Handler, Work, PC, Inside

\* A job that is queued or done holds on to nothing.
LEMMA IdleIsSound ==
  ASSUME NEW rd, NEW ur
  PROVE  /\ WellFormed(EmptyWork, rd, ur)
         /\ Sound(Queued, rd, ur)
         /\ Sound(Done, rd, ur)
  BY DEF Queued, Done, EmptyWork, Sound, WellFormed, AttachedTo

\* Permissions and file_set_uris are never taken away, so what is well formed
\* stays so.
LEMMA StaysSound ==
  ASSUME NEW rd, NEW ur, NEW rd2, NEW ur2, rd \subseteq rd2,
         \A f \in Files : ur[f] # 0 => ur2[f] # 0
  PROVE  /\ \A w \in Work : WellFormed(w, rd, ur) => WellFormed(w, rd2, ur2)
         /\ \A h \in Handler : Sound(h, rd, ur) => Sound(h, rd2, ur2)
  <1>1. ASSUME NEW w \in Work, WellFormed(w, rd, ur)
        PROVE  WellFormed(w, rd2, ur2)
    <2>1. \A s \in w.members : s[1] \in Files
      BY DEF Work, FileSets
    <2> QED
      BY <1>1, <2>1 DEF WellFormed
  <1>2. ASSUME NEW h \in Handler, Sound(h, rd, ur)
        PROVE  Sound(h, rd2, ur2)
    <2>1. WellFormed(h.work, rd2, ur2)
      BY <1>1, <1>2, HandlerFields DEF Sound
    <2>2. ASSUME h.pc = "copying" PROVE ur2[h.fileSet[1]] # 0
      BY <1>2, <2>2 DEF Sound, FileSets
    <2> QED
      BY <1>2, <2>1, <2>2 DEF Sound
  <1> QED
    BY <1>1, <1>2

\* append_to_work keeps a work well formed, given a ready file set for an
\* upload that has none yet.
LEMMA AppendIsWellFormed ==
  ASSUME NEW w \in Work, NEW s \in FileSets, NEW rd, NEW ur,
         WellFormed(w, rd, ur), s \in rd, ur[s[1]] # 0,
         s[1] \notin AttachedTo(w)
  PROVE  /\ Append(w, s) \in Work
         /\ WellFormed(Append(w, s), rd, ur)
         /\ AttachedTo(Append(w, s)) = AttachedTo(w) \cup {s[1]}
  <1> DEFINE a == Append(w, s)
  <1>1. a.members = w.members \cup {s}
    BY DEF Append
  <1>2. a.representative \in w.members \cup {s}
    <2>1. CASE w.members = {}
      BY <2>1 DEF WellFormed, Append
    <2>2. CASE w.members # {}
      BY <2>2 DEF WellFormed, Append
    <2> QED
      BY <2>1, <2>2
  <1>3. a \in Work
    BY DEF Append, Work
  <1>4. AttachedTo(a) = AttachedTo(w) \cup {s[1]}
    BY <1>1 DEF AttachedTo
  <1>5. WellFormed(a, rd, ur)
    <2>1. \A t \in w.members : t[1] # s[1]
      BY DEF AttachedTo
    <2> HIDE DEF a
    <2> QED
      BY <1>1, <1>2, <2>1 DEF WellFormed
  <1> QED
    BY <1>3, <1>4, <1>5

\* A step of one job leaves the others sound.
LEMMA OthersStaySound ==
  ASSUME IInv, NEW j \in Jobs, NEW h \in Handler,
         handler' = [handler EXCEPT ![j] = h],
         Sound(h, ready', uri'), ready \subseteq ready',
         \A f \in Files : uri[f] # 0 => uri'[f] # 0
  PROVE  /\ handler' \in [Jobs -> Handler]
         /\ AllSound'
         /\ WellFormed(work, ready', uri')
  <1>1. handler \in [Jobs -> Handler] /\ work \in Work
    BY DEF IInv, TypeOK
  <1>2. WellFormed(work, ready', uri')
    BY <1>1, StaysSound DEF IInv
  <1>3. ASSUME NEW k \in Jobs PROVE Sound(handler'[k], ready', uri')
    <2>1. CASE k = j
      BY <1>1, <2>1
    <2>2. CASE k # j
      <3>1. handler'[k] = handler[k]
        BY <1>1, <2>2
      <3>2. Sound(handler[k], ready, uri)
        BY DEF IInv, AllSound
      <3> QED
        BY <1>1, <3>1, <3>2, StaysSound
    <2> QED
      BY <2>1, <2>2
  <1> QED
    BY <1>1, <1>2, <1>3 DEF AllSound

LEMMA InitIInv == Init => IInv
  <1> SUFFICES ASSUME Init PROVE IInv
    OBVIOUS
  <1>1. TypeOK
    <2>1. made \in [Files -> Nat] /\ uri \in [Files -> Nat]
      BY DEF Init
    <2>2. handler \in [Jobs -> Handler]
      BY HandlerEnds DEF Init
    <2>3. crashes \in 0..MaxCrashes
      BY RunAssumption DEF Init
    <2>4. work \in Work /\ ready \in SUBSET FileSets /\ ingest \in SUBSET Files
      BY HandlerEnds DEF Init
    <2> QED
      BY <2>1, <2>2, <2>3, <2>4 DEF Init, TypeOK
  <1>2. WellFormed(work, ready, uri)
    BY IdleIsSound DEF Init
  <1>3. ASSUME NEW j \in Jobs PROVE Sound(handler[j], ready, uri)
    <2>1. handler[j] = Queued
      BY DEF Init
    <2> QED
      BY <2>1, IdleIsSound
  <1> QED
    BY <1>1, <1>2, <1>3 DEF IInv, AllSound

----------------------------------------------------------------------------
\* The invariant, step by step.
LEMMA StartJobIInv ==
  ASSUME IInv, NEW j \in Jobs, StartJob(j)
  PROVE  IInv'
  <1> DEFINE todo == {f \in FilesOf[j] : uri[f] = 0}
             started == [Queued EXCEPT !.pc = "waiting", !.seen = work,
                                       !.work = work, !.todo = todo]
             h == IF todo = {} THEN Done ELSE started
  <1>0. TypeOK /\ WellFormed(work, ready, uri)
    BY DEF IInv
  <1>1. started \in Handler
    BY <1>0, FilesAssumption, HandlerEnds DEF TypeOK, Handler, Queued, PC
  <1>2. started.work = work /\ started.todo = todo /\ started.pc = "waiting"
    BY DEF Queued
  <1>3. \A s \in work.members : uri[s[1]] # 0
    BY <1>0 DEF WellFormed
  <1>4. Sound(started, ready, uri)
    <2> HIDE DEF started
    <2> QED
      BY <1>0, <1>2, <1>3 DEF Sound, AttachedTo
  <1>5. h \in Handler /\ Sound(h, ready, uri)
    <2> HIDE DEF started, todo
    <2> QED
      BY <1>1, <1>4, HandlerEnds, IdleIsSound
  <1>6. handler' = [handler EXCEPT ![j] = h]
        /\ UNCHANGED <<work, files, ingest, lock, crashes, stale>>
    BY DEF StartJob
  <1>7. ready' = ready /\ uri' = uri /\ work' = work /\ made' = made
    BY <1>6 DEF files
  <1>8. handler' \in [Jobs -> Handler] /\ AllSound'
        /\ WellFormed(work, ready', uri')
    <2> HIDE DEF h
    <2> QED
      BY <1>5, <1>6, <1>7, OthersStaySound
  <1> QED
    BY <1>0, <1>6, <1>7, <1>8 DEF IInv, TypeOK

\* A step that changes the job's place only, or the files it is to enqueue.
LEMMA MoveIsSound ==
  ASSUME IInv, NEW j \in Jobs, NEW pc \in PC \ {"linking", "copying"},
         NEW payload \in SUBSET Files
  PROVE  LET h == [handler[j] EXCEPT !.pc = pc, !.payload = payload]
         IN  h \in Handler /\ Sound(h, ready, uri)
  <1> DEFINE h == [handler[j] EXCEPT !.pc = pc, !.payload = payload]
  <1>1. handler[j] \in Handler /\ Sound(handler[j], ready, uri)
    BY DEF IInv, TypeOK, AllSound
  <1>2. h \in Handler
    BY <1>1 DEF Handler
  <1>3. h.work = handler[j].work /\ h.todo = handler[j].todo /\ h.pc = pc
    BY <1>1 DEF Handler
  <1>4. Sound(h, ready, uri)
    <2> HIDE DEF h
    <2> QED
      BY <1>1, <1>3 DEF Sound
  <1> QED
    BY <1>2, <1>4

\* What such a step leaves to show.
LEMMA HandlerStepIInv ==
  ASSUME IInv, NEW j \in Jobs, NEW h \in Handler, Sound(h, ready, uri),
         handler' = [handler EXCEPT ![j] = h], UNCHANGED <<work, files>>,
         ingest' \in SUBSET Files, lock' \in {NoOne} \cup Jobs,
         crashes' \in 0..MaxCrashes, stale' \in BOOLEAN
  PROVE  IInv'
  <1>1. work' = work /\ made' = made /\ uri' = uri /\ ready' = ready
    BY DEF files
  <1>2. handler' \in [Jobs -> Handler] /\ AllSound'
        /\ WellFormed(work, ready', uri')
    BY <1>1, OthersStaySound
  <1> QED
    BY <1>1, <1>2 DEF IInv, TypeOK

LEMMA AcquireLockIInv ==
  ASSUME IInv, NEW j \in Jobs, AcquireLock(j)
  PROVE  IInv'
  <1> DEFINE h == [handler[j] EXCEPT !.pc = "making",
                                     !.payload = handler[j].payload]
  <1>1. handler[j] \in Handler /\ ingest \in SUBSET Files
        /\ crashes \in 0..MaxCrashes /\ stale \in BOOLEAN
    BY DEF IInv, TypeOK
  <1>2. h \in Handler /\ Sound(h, ready, uri)
    BY <1>1, MoveIsSound, HandlerFields DEF PC, Inside
  <1>3. handler' = [handler EXCEPT ![j] = h]
    BY <1>1 DEF AcquireLock, IInv, TypeOK, Handler
  <1> HIDE DEF h
  <1> QED
    BY <1>1, <1>2, <1>3, HandlerStepIInv DEF AcquireLock, files

LEMMA GiveUpLockIInv ==
  ASSUME IInv, NEW j \in Jobs, GiveUpLock(j)
  PROVE  IInv'
  <1>1. ingest \in SUBSET Files /\ lock \in {NoOne} \cup Jobs
        /\ crashes \in 0..MaxCrashes /\ stale \in BOOLEAN
    BY DEF IInv, TypeOK
  <1> QED
    BY <1>1, IdleIsSound, HandlerEnds, HandlerStepIInv
    DEF GiveUpLock, files

LEMMA ReleaseLockIInv ==
  ASSUME IInv, NEW j \in Jobs, ReleaseLock(j)
  PROVE  IInv'
  <1>1. ingest \in SUBSET Files /\ lock \in {NoOne} \cup Jobs
        /\ crashes \in 0..MaxCrashes /\ stale \in BOOLEAN
    BY DEF IInv, TypeOK
  <1> QED
    BY <1>1, IdleIsSound, HandlerEnds, HandlerStepIInv
    DEF ReleaseLock, files

LEMMA CrashIInv ==
  ASSUME IInv, NEW j \in Jobs, Crash(j)
  PROVE  IInv'
  <1>1. ingest \in SUBSET Files /\ lock \in {NoOne} \cup Jobs
        /\ crashes \in 0..MaxCrashes /\ stale \in BOOLEAN
    BY DEF IInv, TypeOK
  <1>2. crashes' \in 0..MaxCrashes /\ lock' \in {NoOne} \cup Jobs
    BY <1>1, RunAssumption DEF Crash
  <1> QED
    BY <1>1, <1>2, IdleIsSound, HandlerEnds, HandlerStepIInv
    DEF Crash, files

LEMMA EnqueueIngestIInv ==
  ASSUME IInv, NEW j \in Jobs, EnqueueIngest(j)
  PROVE  IInv'
  <1>1. handler[j] \in Handler /\ ingest \in SUBSET Files
        /\ lock \in {NoOne} \cup Jobs
        /\ crashes \in 0..MaxCrashes /\ stale \in BOOLEAN
    BY DEF IInv, TypeOK
  <1>2. PICK f \in handler[j].payload :
          /\ ingest' = ingest \cup {f}
          /\ handler' = [handler EXCEPT ![j].payload = @ \ {f}]
    BY DEF EnqueueIngest
  <1> DEFINE h == [handler[j] EXCEPT !.pc = "enqueueing",
                                     !.payload = handler[j].payload \ {f}]
  <1>3. h \in Handler /\ Sound(h, ready, uri)
    BY <1>1, MoveIsSound, HandlerFields DEF PC, Inside
  <1>4. handler' = [handler EXCEPT ![j] = h]
    BY <1>1, <1>2 DEF EnqueueIngest, IInv, TypeOK, Handler
  <1>5. ingest' \in SUBSET Files
    BY <1>1, <1>2, HandlerFields
  <1> HIDE DEF h
  <1> QED
    BY <1>1, <1>3, <1>4, <1>5, HandlerStepIInv DEF EnqueueIngest, files

\* The stored work is replaced by one that is as well formed.
LEMMA SaveWorkIInv ==
  ASSUME IInv, NEW j \in Jobs, SaveWork(j)
  PROVE  IInv'
  <1> DEFINE h == [handler[j] EXCEPT !.pc = "enqueueing",
                                     !.payload = handler[j].payload]
  <1>1. handler[j] \in Handler /\ Sound(handler[j], ready, uri) /\ TypeOK
    BY DEF IInv, TypeOK, AllSound
  <1>2. h \in Handler /\ Sound(h, ready, uri)
    BY <1>1, MoveIsSound, HandlerFields DEF PC, Inside
  <1>3. handler' = [handler EXCEPT ![j] = h]
    BY <1>1 DEF SaveWork, TypeOK, Handler
  <1>4. work' = handler[j].work /\ UNCHANGED <<files, ingest, lock, crashes>>
        /\ stale' = (stale \/ work # handler[j].seen)
    BY DEF SaveWork
  <1>5. ready' = ready /\ uri' = uri /\ made' = made
    BY <1>4 DEF files
  <1>6. handler' \in [Jobs -> Handler] /\ AllSound'
    <2> HIDE DEF h
    <2> QED
      BY <1>2, <1>3, <1>5, OthersStaySound
  <1>7. WellFormed(work', ready', uri') /\ work' \in Work
    BY <1>1, <1>4, <1>5, HandlerFields DEF Sound
  <1> QED
    BY <1>1, <1>4, <1>5, <1>6, <1>7 DEF IInv, TypeOK

LEMMA MakeFileSetIInv ==
  ASSUME IInv, NEW j \in Jobs, MakeFileSet(j)
  PROVE  IInv'
  <1>1. TypeOK /\ handler[j] \in Handler /\ Sound(handler[j], ready, uri)
    BY DEF IInv, TypeOK, AllSound
  <1>2. PICK f \in handler[j].todo :
          /\ made' = [made EXCEPT ![f] = @ + 1]
          /\ handler' = [handler EXCEPT ![j].pc = "linking",
                                        ![j].fileSet = <<f, made[f] + 1>>,
                                        ![j].todo = @ \ {f}]
    BY DEF MakeFileSet
  <1> DEFINE s == <<f, made[f] + 1>>
             h == [handler[j] EXCEPT !.pc = "linking", !.fileSet = s,
                                     !.todo = handler[j].todo \ {f}]
  <1>3. f \in Files /\ made[f] \in Nat
    BY <1>1, HandlerFields DEF TypeOK
  <1>4. s \in FileSets /\ s[1] = f
    BY <1>3 DEF FileSets
  <1>5. handler' = [handler EXCEPT ![j] = h]
    BY <1>1, <1>2 DEF TypeOK
  <1> HIDE DEF s
  <1>6. h \in Handler
    BY <1>1, <1>4, HandlerFields DEF Handler, PC, Inside
  <1>7. /\ h.work = handler[j].work /\ h.pc = "linking"
        /\ h.fileSet = s /\ h.todo = handler[j].todo \ {f}
    BY <1>1 DEF Handler
  <1> HIDE DEF h
  <1>8. Sound(h, ready, uri)
    BY <1>1, <1>4, <1>7 DEF Sound
  <1>9. UNCHANGED <<work, uri, ready, ingest, lock, crashes, stale>>
    BY DEF MakeFileSet
  <1>10. handler' \in [Jobs -> Handler] /\ AllSound'
         /\ WellFormed(work, ready', uri')
    BY <1>5, <1>6, <1>8, <1>9, OthersStaySound
  <1>11. made' \in [Files -> Nat]
    BY <1>1, <1>2, <1>3 DEF TypeOK
  <1> QED
    BY <1>1, <1>9, <1>10, <1>11 DEF IInv, TypeOK

LEMMA LinkFileIInv ==
  ASSUME IInv, NEW j \in Jobs, LinkFile(j)
  PROVE  IInv'
  <1> DEFINE s == handler[j].fileSet
             h == [handler[j] EXCEPT !.pc = "copying"]
  <1>1. TypeOK /\ handler[j] \in Handler /\ Sound(handler[j], ready, uri)
    BY DEF IInv, TypeOK, AllSound
  <1>2. handler[j].pc = "linking" /\ uri' = [uri EXCEPT ![s[1]] = s[2]]
        /\ handler' = [handler EXCEPT ![j].pc = "copying"]
        /\ UNCHANGED <<work, made, ready, ingest, lock, crashes, stale>>
    BY DEF LinkFile
  <1>3. s \in FileSets
    BY <1>1, <1>2 DEF Sound
  <1>4. s[1] \in Files /\ s[2] \in Nat /\ s[2] # 0
    BY <1>3 DEF FileSets
  <1>5. handler' = [handler EXCEPT ![j] = h]
    BY <1>1, <1>2 DEF TypeOK
  <1>6. h \in Handler
    BY <1>1 DEF Handler, PC, Inside
  <1>7. /\ h.work = handler[j].work /\ h.pc = "copying"
        /\ h.fileSet = s /\ h.todo = handler[j].todo
    BY <1>1 DEF Handler
  <1> HIDE DEF h, s
  <1>8. uri' \in [Files -> Nat] /\ uri'[s[1]] # 0
        /\ \A f \in Files : uri[f] # 0 => uri'[f] # 0
    BY <1>1, <1>2, <1>4 DEF TypeOK
  <1>9. Sound(handler[j], ready, uri')
    BY <1>1, <1>8, StaysSound
  <1>10. Sound(h, ready, uri')
    BY <1>2, <1>3, <1>7, <1>8, <1>9 DEF Sound, s
  <1>11. handler' \in [Jobs -> Handler] /\ AllSound'
         /\ WellFormed(work, ready', uri')
    BY <1>2, <1>5, <1>6, <1>8, <1>10, OthersStaySound
  <1> QED
    BY <1>1, <1>2, <1>8, <1>11 DEF IInv, TypeOK

LEMMA CopyPermissionsIInv ==
  ASSUME IInv, NEW j \in Jobs, CopyPermissions(j)
  PROVE  IInv'
  <1> DEFINE s == handler[j].fileSet
             w == Append(handler[j].work, s)
             h == [handler[j] EXCEPT !.pc = "making", !.fileSet = NoFileSet,
                                     !.work = w, !.payload = @ \cup {s[1]}]
  <1>1. TypeOK /\ handler[j] \in Handler /\ Sound(handler[j], ready, uri)
    BY DEF IInv, TypeOK, AllSound
  <1>2. handler[j].pc = "copying" /\ ready' = ready \cup {s}
        /\ UNCHANGED <<work, made, uri, ingest, lock, crashes, stale>>
    BY DEF CopyPermissions
  <1>3. handler' = [handler EXCEPT ![j] = h]
    BY <1>1 DEF TypeOK, CopyPermissions
  <1>4. s \in FileSets /\ uri[s[1]] # 0 /\ s[1] \notin handler[j].todo
        /\ s[1] \notin AttachedTo(handler[j].work)
    BY <1>1, <1>2 DEF Sound
  <1>5. s[1] \in Files
    BY <1>4 DEF FileSets
  <1>6. handler[j].work \in Work
        /\ WellFormed(handler[j].work, ready', uri)
    <2>1. Sound(handler[j], ready', uri)
      BY <1>1, <1>2, StaysSound
    <2> QED
      BY <1>1, <2>1, HandlerFields DEF Sound
  <1>7. w \in Work /\ WellFormed(w, ready', uri)
        /\ AttachedTo(w) = AttachedTo(handler[j].work) \cup {s[1]}
    <2> HIDE DEF s
    <2> QED
      BY <1>2, <1>4, <1>6, AppendIsWellFormed
  <1> HIDE DEF w, s
  <1>8. h \in Handler
    BY <1>1, <1>5, <1>7 DEF Handler, PC, Inside
  <1>9. h.work = w /\ h.pc = "making" /\ h.todo = handler[j].todo
    BY <1>1 DEF Handler
  <1> HIDE DEF h
  <1>10. Sound(h, ready', uri')
    BY <1>1, <1>2, <1>4, <1>7, <1>9 DEF Sound
  <1>11. handler' \in [Jobs -> Handler] /\ AllSound'
         /\ WellFormed(work, ready', uri')
    BY <1>2, <1>3, <1>8, <1>10, OthersStaySound
  <1>12. ready' \in SUBSET FileSets
    BY <1>1, <1>2, <1>4 DEF TypeOK
  <1> QED
    BY <1>1, <1>2, <1>11, <1>12 DEF IInv, TypeOK

LEMMA NextIInv == IInv /\ [Next]_vars => IInv'
  <1> SUFFICES ASSUME IInv, [Next]_vars PROVE IInv'
    OBVIOUS
  <1>1. CASE ExpireLock
    BY <1>1 DEF ExpireLock, IInv, TypeOK, AllSound, files
  <1>2. ASSUME NEW j \in Jobs, Step(j) PROVE IInv'
    BY <1>2, StartJobIInv, AcquireLockIInv, GiveUpLockIInv, MakeFileSetIInv,
       LinkFileIInv, CopyPermissionsIInv, SaveWorkIInv, EnqueueIngestIInv,
       ReleaseLockIInv DEF Step
  <1>3. ASSUME NEW j \in Jobs, Crash(j) PROVE IInv'
    BY <1>3, CrashIInv
  <1>4. CASE UNCHANGED vars
    BY <1>4 DEF vars, files, IInv, TypeOK, AllSound
  <1> QED
    BY <1>1, <1>2, <1>3, <1>4 DEF Next

LEMMA Invariance == Spec => []IInv
  BY InitIInv, NextIInv, PTL DEF Spec

----------------------------------------------------------------------------
\* Every variable keeps its type.
THEOREM TypeCorrect == Spec => []TypeOK
  <1>1. IInv => TypeOK
    BY DEF IInv
  <1> QED
    BY <1>1, Invariance, PTL

\* Whichever jobs die and whenever the lock expires, the stored work has no
\* member without the work's permissions or unknown to its upload.
THEOREM MembersStayReady == Spec => []MembersAreReady
  <1>1. IInv => MembersAreReady
    BY DEF IInv, WellFormed, MembersAreReady
  <1> QED
    BY <1>1, Invariance, PTL

\* The representative is a member, whatever a stale save overwrites.
THEOREM RepresentativeStays == Spec => []RepresentativeIsMember
  <1>1. IInv => RepresentativeIsMember
    BY DEF IInv, WellFormed, RepresentativeIsMember
  <1> QED
    BY <1>1, Invariance, PTL

\* No number of retries, and no number of jobs that are given the same upload
\* or that lost the lock, attach an upload twice.
THEOREM AttachedOnce == Spec => []NoFileAttachedTwice
  <1>1. IInv => NoFileAttachedTwice
    BY DEF IInv, WellFormed, NoFileAttachedTwice
  <1> QED
    BY <1>1, Invariance, PTL

----------------------------------------------------------------------------
\* The jobs that mutate the work have its lock.
LockIsHeld == \A j \in Jobs : handler[j].pc \in Inside => lock = j

\* As long as nothing takes longer than the lock's time to live, the lock is
\* enough: one job at a time mutates the work, whichever jobs die.
THEOREM LockExcludes ==
  ASSUME ~MayExpire
  PROVE  Spec => []OneMutatorAtATime
  <1>1. Init => LockIsHeld
    BY DEF Init, LockIsHeld, Queued, Inside
  <1>2. TypeOK /\ LockIsHeld /\ [Next]_vars => LockIsHeld'
    <2> SUFFICES ASSUME TypeOK, LockIsHeld, [Next]_vars,
                        NEW k \in Jobs, handler'[k].pc \in Inside
                 PROVE  lock' = k
      BY DEF LockIsHeld
    <2>0. handler \in [Jobs -> Handler] /\ lock \in {NoOne} \cup Jobs
      BY DEF TypeOK
    <2>1. CASE ExpireLock
      BY <2>1, <2>0, RunAssumption DEF ExpireLock, LockIsHeld
    <2>2. ASSUME NEW j \in Jobs, Step(j) PROVE lock' = k
      <3>1. CASE k = j
        <4>1. CASE AcquireLock(j)
          BY <3>1, <4>1 DEF AcquireLock
        <4>2. CASE MakeFileSet(j) \/ LinkFile(j) \/ CopyPermissions(j)
                   \/ SaveWork(j) \/ EnqueueIngest(j)
          <5>1. handler[j].pc \in Inside /\ lock' = lock
            BY <4>2 DEF MakeFileSet, LinkFile, CopyPermissions, SaveWork,
                        EnqueueIngest, Inside
          <5> QED
            BY <3>1, <5>1 DEF LockIsHeld
        <4>3. CASE StartJob(j)
          <5>1. handler'[j].pc \in {"done", "waiting"}
            BY <4>3, <2>0 DEF StartJob, Queued, Done
          <5> QED
            BY <3>1, <5>1 DEF Inside
        <4>4. CASE GiveUpLock(j)
          BY <3>1, <4>4, <2>0 DEF GiveUpLock, Queued, Inside
        <4>5. CASE ReleaseLock(j)
          BY <3>1, <4>5, <2>0 DEF ReleaseLock, Queued, Done, Inside
        <4> QED
          BY <2>2, <4>1, <4>2, <4>3, <4>4, <4>5 DEF Step
      <3>2. CASE k # j
        <4>1. handler'[k] = handler[k]
          BY <3>2, <2>0, <2>2
          DEF Step, StartJob, AcquireLock, GiveUpLock, MakeFileSet, LinkFile,
              CopyPermissions, SaveWork, EnqueueIngest, ReleaseLock
        <4>2. lock = k
          BY <4>1 DEF LockIsHeld
        <4>3. lock' = lock
          BY <3>2, <4>2, <2>2, RunAssumption
          DEF Step, StartJob, AcquireLock, GiveUpLock, MakeFileSet, LinkFile,
              CopyPermissions, SaveWork, EnqueueIngest, ReleaseLock
        <4> QED
          BY <4>2, <4>3
      <3> QED
        BY <3>1, <3>2
    <2>3. ASSUME NEW j \in Jobs, Crash(j) PROVE lock' = k
      <3>1. handler' = [handler EXCEPT ![j] = Queued] 
             /\ lock' \in {lock, IF lock = j THEN NoOne ELSE lock}
        BY <2>3 DEF Crash
      <3>2. k # j
        BY <3>1, <2>0 DEF Queued, Inside
      <3>3. lock = k
        BY <3>1, <3>2, <2>0 DEF LockIsHeld
      <3> QED
        BY <3>1, <3>2, <3>3
    <2>4. CASE UNCHANGED vars
      BY <2>4 DEF vars, LockIsHeld
    <2> QED
      BY <2>1, <2>2, <2>3, <2>4 DEF Next
  <1>3. Spec => []LockIsHeld
    BY <1>1, <1>2, TypeCorrect, PTL DEF Spec
  <1>4. LockIsHeld => OneMutatorAtATime
    BY DEF LockIsHeld, OneMutatorAtATime
  <1> QED
    BY <1>3, <1>4, PTL

----------------------------------------------------------------------------
(***************************************************************************)
(* No upload is lost while no job dies and none saves over a version it    *)
(* has not seen: an upload with a file_set_uri is a member of the work, or *)
(* in the memory of a job that will make it one; and an upload of a job    *)
(* that was started is one of those, or has yet to be attached.            *)
(***************************************************************************)
Smooth == crashes = 0 /\ ~stale

Attaching == {"making", "linking", "copying"}

\* The job has the upload in its memory, not to be dropped before it saves.
Carries(h, f) ==
  /\ h.pc \in Attaching
  /\ \/ f \in AttachedTo(h.work)
     \/ h.pc \in {"linking", "copying"} /\ h.fileSet[1] = f

Safe(f) == f \in Attached \/ \E k \in Jobs : Carries(handler[k], f)

\* The job has yet to make a file set for the upload.
Takes(h, f) == h.pc \in {"waiting"} \cup Attaching /\ f \in h.todo

\* What a job saves has every member it found when it loaded the work.
Grown(h) ==
  h.pc \in {"waiting"} \cup Attaching => h.seen.members \subseteq h.work.members

LossFree ==
  Smooth =>
    /\ \A f \in Files : uri[f] # 0 => Safe(f)
    /\ \A j \in Jobs : \A f \in FilesOf[j] :
         handler[j].pc = "queued" \/ Takes(handler[j], f) \/ Safe(f)
    /\ \A j \in Jobs : Grown(handler[j])

\* What is left to show of a step of one job: it drops nothing it carries, it
\* gives a file_set_uri only to an upload it carries, and it keeps or forgets
\* about all of its uploads.
LEMMA StepLosesNothing ==
  ASSUME IInv, LossFree, Smooth, NEW j \in Jobs, NEW h \in Handler,
         handler' = [handler EXCEPT ![j] = h],
         Attached \subseteq Attached',
         \A f \in Files : Carries(handler[j], f) => Carries(h, f) \/ f \in Attached',
         \A f \in Files : uri'[f] # 0 => uri[f] # 0 \/ Carries(h, f),
         \A f \in FilesOf[j] :
            h.pc = "queued" \/ Takes(h, f) \/ Carries(h, f) \/ Safe(f),
         Grown(h)
  PROVE  LossFree'
  <1>1. handler \in [Jobs -> Handler]
    BY DEF IInv, TypeOK
  <1>2. handler'[j] = h /\ \A k \in Jobs : k # j => handler'[k] = handler[k]
    BY <1>1
  <1>3. ASSUME NEW f \in Files, Safe(f)
        PROVE  Safe(f)'
    BY <1>2, <1>3 DEF Safe
  <1>4. ASSUME NEW f, Carries(h, f)
        PROVE  Safe(f)'
    BY <1>2, <1>4 DEF Safe
  <1>5. \A f \in Files : uri'[f] # 0 => Safe(f)'
    BY <1>3, <1>4 DEF LossFree
  <1>6. ASSUME NEW k \in Jobs, NEW f \in FilesOf[k]
        PROVE  handler'[k].pc = "queued" \/ Takes(handler'[k], f) \/ Safe(f)'
    <2>1. f \in Files
      BY FilesAssumption
    <2>2. CASE k = j
      BY <1>2, <1>3, <1>4, <2>1, <2>2
    <2>3. CASE k # j
      BY <1>2, <1>3, <2>1, <2>3 DEF LossFree
    <2> QED
      BY <2>2, <2>3
  <1>7. \A k \in Jobs : Grown(handler'[k])
    BY <1>2 DEF LossFree
  <1> QED
    BY <1>5, <1>6, <1>7 DEF LossFree

\* An idle job carries nothing, and owes nothing when it is queued.
LEMMA IdleCarriesNothing ==
  /\ Grown(Queued) /\ Grown(Done) /\ Queued.pc = "queued" /\ Done.pc = "done"
  BY DEF Grown, Queued, Done, Attaching, EmptyWork

LEMMA StartJobLosesNothing ==
  ASSUME IInv, LossFree, Smooth, NEW j \in Jobs, StartJob(j)
  PROVE  LossFree'
  <1> DEFINE todo == {f \in FilesOf[j] : uri[f] = 0}
             started == [Queued EXCEPT !.pc = "waiting", !.seen = work,
                                       !.work = work, !.todo = todo]
             h == IF todo = {} THEN Done ELSE started
  <1>0. work \in Work /\ FilesOf[j] \subseteq Files
    BY FilesAssumption DEF IInv, TypeOK
  <1>1. started \in Handler
    BY <1>0, HandlerEnds DEF Handler, Queued, PC
  <1>2. /\ started.pc = "waiting" /\ started.todo = todo
        /\ started.seen = work /\ started.work = work
    BY DEF Queued
  <1>3. h \in Handler /\ Grown(h)
    <2>1. Grown(started)
      <3> HIDE DEF started
      <3> QED
        BY <1>2 DEF Grown
    <2> HIDE DEF started, todo
    <2> QED
      BY <1>1, <2>1, HandlerEnds, IdleCarriesNothing
  <1>4. handler' = [handler EXCEPT ![j] = h] /\ handler[j].pc = "queued"
        /\ work' = work /\ uri' = uri
    BY DEF StartJob, files
  <1>5. ASSUME NEW f \in FilesOf[j]
        PROVE  Takes(h, f) \/ Safe(f)
    <2>1. CASE uri[f] = 0
      <3>1. f \in todo /\ h = started
        BY <2>1
      <3> HIDE DEF started, todo, h
      <3> QED
        BY <1>2, <3>1 DEF Takes
    <2>2. CASE uri[f] # 0
      BY <1>0, <2>2 DEF LossFree
    <2> QED
      BY <2>1, <2>2
  <1>6. \A f : ~Carries(handler[j], f)
    BY <1>4 DEF Carries, Attaching
  <1>7. Attached' = Attached
    BY <1>4 DEF Attached
  <1> HIDE DEF h
  <1> QED
    BY <1>3, <1>4, <1>5, <1>6, <1>7, StepLosesNothing

\* A job that starts to attach, or that saved, or goes back to the queue.
LEMMA MoveLosesNothing ==
  ASSUME IInv, LossFree, Smooth, NEW j \in Jobs,
         AcquireLock(j) \/ GiveUpLock(j) \/ EnqueueIngest(j) \/ ReleaseLock(j)
  PROVE  LossFree'
  <1>1. handler[j] \in Handler /\ handler \in [Jobs -> Handler]
    BY DEF IInv, TypeOK
  <1>2. /\ work' = work /\ uri' = uri
        /\ Attached' = Attached
        /\ \A f : ~Carries(handler[j], f)
    BY DEF AcquireLock, GiveUpLock, EnqueueIngest, ReleaseLock, files, Attached,
           Carries, Attaching
  <1>3. Grown(handler[j])
    BY DEF LossFree
  <1>4. \A f \in FilesOf[j] :
          handler[j].pc = "queued" \/ Takes(handler[j], f) \/ Safe(f)
    BY DEF LossFree
  <1>5. CASE AcquireLock(j)
    <2> DEFINE h == [handler[j] EXCEPT !.pc = "making"]
    <2>1. h \in Handler /\ h.pc = "making" /\ h.todo = handler[j].todo
          /\ h.seen = handler[j].seen /\ h.work = handler[j].work
      BY <1>1 DEF Handler, PC, Inside
    <2>2. handler' = [handler EXCEPT ![j] = h] /\ handler[j].pc = "waiting"
      BY <1>1, <1>5 DEF AcquireLock
    <2> HIDE DEF h
    <2>3. Grown(h) /\ \A f : Takes(handler[j], f) => Takes(h, f)
      BY <1>3, <2>1, <2>2 DEF Grown, Takes, Attaching
    <2> QED
      BY <1>2, <1>4, <2>1, <2>2, <2>3, StepLosesNothing
  <1>6. CASE GiveUpLock(j)
    <2>1. handler' = [handler EXCEPT ![j] = Queued]
      BY <1>6 DEF GiveUpLock
    <2> QED
      BY <1>2, <2>1, HandlerEnds, IdleCarriesNothing, StepLosesNothing
  <1>7. CASE EnqueueIngest(j)
    <2>1. PICK f \in handler[j].payload :
            handler' = [handler EXCEPT ![j].payload = @ \ {f}]
      BY <1>7 DEF EnqueueIngest
    <2> DEFINE h == [handler[j] EXCEPT !.payload = @ \ {f}]
    <2>2. h \in Handler /\ h.pc = "enqueueing"
      BY <1>1, <1>7, HandlerFields DEF EnqueueIngest, Handler
    <2>3. handler' = [handler EXCEPT ![j] = h]
      BY <1>1, <2>1
    <2> HIDE DEF h
    <2>4. Grown(h) /\ \A g : ~Takes(handler[j], g)
      BY <1>7, <2>2 DEF Grown, Takes, Attaching, EnqueueIngest
    <2>5. handler[j].pc # "queued"
      BY <1>7 DEF EnqueueIngest
    <2> QED
      BY <1>2, <1>4, <2>2, <2>3, <2>4, <2>5, StepLosesNothing
  <1>8. CASE ReleaseLock(j)
    <2>1. handler' = [handler EXCEPT ![j] = Done]
      BY <1>8 DEF ReleaseLock
    <2>2. \A f \in FilesOf[j] : Safe(f)
      BY <1>4, <1>8 DEF ReleaseLock, Takes, Attaching
    <2> QED
      BY <1>2, <2>1, <2>2, HandlerEnds, IdleCarriesNothing, StepLosesNothing
  <1> QED
    BY <1>5, <1>6, <1>7, <1>8

LEMMA MakeFileSetLosesNothing ==
  ASSUME IInv, LossFree, Smooth, NEW j \in Jobs, MakeFileSet(j)
  PROVE  LossFree'
  <1>1. handler[j] \in Handler /\ handler \in [Jobs -> Handler]
        /\ made \in [Files -> Nat]
    BY DEF IInv, TypeOK
  <1>2. PICK f \in handler[j].todo :
          handler' = [handler EXCEPT ![j].pc = "linking",
                                     ![j].fileSet = <<f, made[f] + 1>>,
                                     ![j].todo = @ \ {f}]
    BY DEF MakeFileSet
  <1> DEFINE s == <<f, made[f] + 1>>
             h == [handler[j] EXCEPT !.pc = "linking", !.fileSet = s,
                                     !.todo = @ \ {f}]
  <1>3. s \in FileSets /\ s[1] = f
    BY <1>1, HandlerFields DEF FileSets
  <1>4. handler' = [handler EXCEPT ![j] = h]
    BY <1>1, <1>2
  <1> HIDE DEF s
  <1>5. h \in Handler
    BY <1>1, <1>3, HandlerFields DEF Handler, PC, Inside
  <1>6. /\ h.pc = "linking" /\ h.fileSet = s /\ h.todo = handler[j].todo \ {f}
        /\ h.seen = handler[j].seen /\ h.work = handler[j].work
    BY <1>1 DEF Handler
  <1> HIDE DEF h
  <1>7. work' = work /\ uri' = uri /\ handler[j].pc = "making"
    BY DEF MakeFileSet
  <1>8. \A g : Carries(handler[j], g) => Carries(h, g)
    BY <1>6, <1>7 DEF Carries, Attaching
  <1>9. ASSUME NEW g \in FilesOf[j]
        PROVE  Takes(h, g) \/ Carries(h, g) \/ Safe(g)
    <2>1. Takes(handler[j], g) \/ Safe(g)
      BY <1>7 DEF LossFree
    <2> QED
      BY <1>3, <1>6, <2>1 DEF Takes, Carries, Attaching
  <1>10. Grown(h)
    BY <1>6, <1>7 DEF Grown, LossFree, Attaching
  <1>11. Attached' = Attached
    BY <1>7 DEF Attached
  <1> QED
    BY <1>4, <1>5, <1>7, <1>8, <1>9, <1>10, <1>11, StepLosesNothing

LEMMA LinkFileLosesNothing ==
  ASSUME IInv, LossFree, Smooth, NEW j \in Jobs, LinkFile(j)
  PROVE  LossFree'
  <1> DEFINE h == [handler[j] EXCEPT !.pc = "copying"]
  <1>1. handler[j] \in Handler /\ handler \in [Jobs -> Handler]
        /\ uri \in [Files -> Nat]
    BY DEF IInv, TypeOK
  <1>2. handler' = [handler EXCEPT ![j] = h] /\ h \in Handler
    BY <1>1 DEF LinkFile, Handler, PC, Inside
  <1>3. /\ h.pc = "copying" /\ h.fileSet = handler[j].fileSet
        /\ h.todo = handler[j].todo /\ h.seen = handler[j].seen
        /\ h.work = handler[j].work
    BY <1>1 DEF Handler
  <1> HIDE DEF h
  <1>4. work' = work /\ handler[j].pc = "linking"
        /\ uri' = [uri EXCEPT ![handler[j].fileSet[1]] = handler[j].fileSet[2]]
    BY DEF LinkFile
  <1>5. \A f \in Files : uri'[f] # 0 => uri[f] # 0 \/ Carries(h, f)
    BY <1>1, <1>3, <1>4 DEF Carries, Attaching
  <1>6. \A g : Carries(handler[j], g) => Carries(h, g)
    BY <1>3, <1>4 DEF Carries, Attaching
  <1>7. \A g \in FilesOf[j] : Takes(h, g) \/ Safe(g)
    BY <1>3, <1>4 DEF LossFree, Takes, Attaching
  <1>8. Grown(h)
    BY <1>3, <1>4 DEF Grown, LossFree, Attaching
  <1>9. Attached' = Attached
    BY <1>4 DEF Attached
  <1> QED
    BY <1>2, <1>5, <1>6, <1>7, <1>8, <1>9, StepLosesNothing

LEMMA CopyPermissionsLosesNothing ==
  ASSUME IInv, LossFree, Smooth, NEW j \in Jobs, CopyPermissions(j)
  PROVE  LossFree'
  <1> DEFINE s == handler[j].fileSet
             w == Append(handler[j].work, s)
             h == [handler[j] EXCEPT !.pc = "making", !.fileSet = NoFileSet,
                                     !.work = w, !.payload = @ \cup {s[1]}]
  <1>1. /\ handler[j] \in Handler /\ handler \in [Jobs -> Handler]
        /\ handler'[j] \in Handler
        /\ Sound(handler[j], ready, uri)
    BY CopyPermissionsIInv DEF IInv, TypeOK, AllSound
  <1>2. handler' = [handler EXCEPT ![j] = h]
    BY <1>1 DEF CopyPermissions
  <1>3. h \in Handler
    BY <1>1, <1>2
  <1>4. /\ handler[j].pc = "copying" /\ work' = work /\ uri' = uri
        /\ w.members = handler[j].work.members \cup {s}
    BY DEF CopyPermissions, Append
  <1> HIDE DEF w
  <1>5. /\ h.pc = "making" /\ h.todo = handler[j].todo
        /\ h.seen = handler[j].seen /\ h.work = w
    BY <1>1 DEF Handler
  <1> HIDE DEF h, s
  <1>6. ASSUME NEW g, Carries(handler[j], g)
        PROVE  Carries(h, g)
    <2>1. g \in AttachedTo(handler[j].work) \/ s[1] = g
      BY <1>4, <1>6 DEF Carries, s
    <2>2. g \in AttachedTo(w)
      BY <1>4, <2>1 DEF AttachedTo
    <2> QED
      BY <1>5, <2>2 DEF Carries, Attaching
  <1>7. \A g \in FilesOf[j] : Takes(h, g) \/ Safe(g)
    BY <1>4, <1>5 DEF LossFree, Takes, Attaching
  <1>8. Grown(h)
    <2>1. Grown(handler[j])
      BY DEF LossFree
    <2> QED
      BY <1>4, <1>5, <2>1 DEF Grown, Attaching
  <1>9. Attached' = Attached
    BY <1>4 DEF Attached
  <1> QED
    BY <1>2, <1>3, <1>4, <1>6, <1>7, <1>8, <1>9, StepLosesNothing

\* The save is where an upload would be lost: not if the work is as it was.
LEMMA SaveWorkLosesNothing ==
  ASSUME IInv, LossFree, Smooth, Smooth', NEW j \in Jobs, SaveWork(j)
  PROVE  LossFree'
  <1> DEFINE h == [handler[j] EXCEPT !.pc = "enqueueing"]
  <1>1. handler[j] \in Handler /\ handler \in [Jobs -> Handler]
    BY DEF IInv, TypeOK
  <1>2. /\ handler[j].pc = "making" /\ handler[j].todo = {}
        /\ work' = handler[j].work /\ work = handler[j].seen /\ uri' = uri
        /\ handler' = [handler EXCEPT ![j] = h]
    BY <1>1 DEF SaveWork, Smooth, files
  <1>3. h \in Handler /\ h.pc = "enqueueing"
    BY <1>1 DEF Handler, PC, Inside
  <1> HIDE DEF h
  <1>4. Attached' = AttachedTo(handler[j].work)
    BY <1>2 DEF Attached, AttachedTo
  <1>5. Attached \subseteq Attached'
    <2>1. handler[j].seen.members \subseteq handler[j].work.members
      BY <1>2 DEF LossFree, Grown, Attaching
    <2> QED
      BY <1>2, <1>4, <2>1 DEF Attached, AttachedTo
  <1>6. \A g : Carries(handler[j], g) => g \in Attached'
    BY <1>2, <1>4 DEF Carries
  <1>7. \A g \in FilesOf[j] : Safe(g)
    BY <1>2 DEF LossFree, Takes
  <1>8. Grown(h)
    BY <1>3 DEF Grown, Attaching
  <1> QED
    BY <1>2, <1>3, <1>5, <1>6, <1>7, <1>8, StepLosesNothing

LEMMA NextLosesNothing == IInv /\ LossFree /\ [Next]_vars => LossFree'
  <1> SUFFICES ASSUME IInv, LossFree, [Next]_vars, Smooth'
               PROVE  LossFree'
    BY DEF LossFree
  <1>1. CASE ExpireLock
    BY <1>1 DEF ExpireLock, LossFree, Smooth, Safe, Attached, files
  <1>2. ASSUME NEW j \in Jobs, Step(j) PROVE LossFree'
    <2>1. Smooth
      <3>1. CASE SaveWork(j)
        BY <3>1 DEF SaveWork, Smooth
      <3>2. CASE ~SaveWork(j)
        <4>1. UNCHANGED <<crashes, stale>>
          BY <1>2, <3>2
          DEF Step, StartJob, AcquireLock, GiveUpLock, MakeFileSet, LinkFile,
              CopyPermissions, EnqueueIngest, ReleaseLock
        <4> QED
          BY <4>1 DEF Smooth
      <3> QED
        BY <3>1, <3>2
    <2> QED
      BY <1>2, <2>1, StartJobLosesNothing, MoveLosesNothing,
         MakeFileSetLosesNothing, LinkFileLosesNothing,
         CopyPermissionsLosesNothing, SaveWorkLosesNothing DEF Step
  <1>3. ASSUME NEW j \in Jobs, Crash(j) PROVE LossFree'
    BY <1>3, RunAssumption DEF Crash, Smooth, IInv, TypeOK
  <1>4. CASE UNCHANGED vars
    BY <1>4 DEF vars, files, LossFree, Smooth, Safe, Attached
  <1> QED
    BY <1>1, <1>2, <1>3, <1>4 DEF Next

\* Whatever the jobs and the uploads they share: when none died, none saved over
\* a version it had not seen and all are done, every upload is attached.
THEOREM OnlyDeathOrStaleSaveLoses == Spec => []NothingElseLosesUploads
  <1>1. Init => LossFree
    BY IdleCarriesNothing, FilesAssumption DEF Init, LossFree
  <1>2. LossFree => NothingElseLosesUploads
    <2> SUFFICES ASSUME LossFree, Smooth, AllDone, NEW j \in Jobs,
                        NEW f \in FilesOf[j]
                 PROVE  f \in Attached
      BY DEF NothingElseLosesUploads, NothingLost, Smooth, Given
    <2>1. \A k \in Jobs : handler[k].pc = "done"
      BY DEF AllDone
    <2>2. Safe(f)
      BY <2>1 DEF LossFree, Takes, Attaching
    <2> QED
      BY <2>1, <2>2 DEF Safe, Carries, Attaching
  <1> QED
    BY <1>1, <1>2, NextLosesNothing, Invariance, PTL DEF Spec
=============================================================================
