-------------------------- MODULE Transfers_proofs -------------------------
(***************************************************************************)
(* Transfers among any users, by any number of web workers.  Requests that *)
(* overlap may open a second transfer, and then no answer to either passes *)
(* its validation; the activity stream tells only of transfers that were   *)
(* made.  If web requests come one at a time, one transfer is open at      *)
(* most, and whenever none is under way the work belongs to the last user  *)
(* who accepted it, who may edit it and is its depositor in the index; and *)
(* if the jobs run in their order, its files end with the same user.       *)
(***************************************************************************)
EXTENDS Transfers, SequenceTheorems, TLAPS

\* What a worker has in memory is of the types its next step needs.
TasksAreSound ==
  \A w \in Workers :
    /\ worker[w].pc = "insert" => worker[w].from \in Users
    /\ Busy(w) => worker[w].to \in Users
    /\ worker[w].pc \notin {"idle", "insert"} => worker[w].request \in DOMAIN requests
    /\ worker[w].pc \in {"reset", "grant", "save"} => worker[w].depositor \in Users

\* An event waits for a transfer, and the work tells of one that was made.
WorkTellsOfTransfer ==
  /\ events > 0 => made # <<>>
  /\ made # <<>> => \E i \in DOMAIN made :
       made[i] = [from |-> work.proxy, to |-> work.depositor]

TransferInv ==
  /\ TransferTypeOK
  /\ TasksAreSound
  /\ WorkTellsOfTransfer
  /\ StreamNamesTransfers
-----------------------------------------------------------------------------
LEMMA IdleIsATask == Idle \in Task
  BY DEF Idle, Task, User, Answers

LEMMA TransferInitially == TransferInit => TransferInv
<1> SUFFICES ASSUME TransferInit PROVE TransferInv
  OBVIOUS
<1>1. TransferTypeOK
  <2>1. PICK owner \in Users :
          /\ work = [depositor |-> owner, proxy |-> NoUser]
          /\ editors \in SUBSET Users /\ indexed = owner
          /\ file = [depositor |-> owner, editors |-> editors]
    BY DEF TransferInit
  <2>2. /\ requests = <<>> /\ propagations = <<>> /\ made = <<>>
        /\ events = 0 /\ logged = {} /\ overlapped = FALSE /\ overtaken = FALSE
        /\ worker = [w \in Workers |-> Idle]
    BY DEF TransferInit
  <2>3. worker \in [Workers -> Task]
    BY <2>2, IdleIsATask
  <2>4. /\ requests \in Seq(Request) /\ propagations \in Seq(Propagation)
        /\ made \in Seq(Transfer)
    BY <2>2
  <2>5. /\ work \in [depositor : Users, proxy : User]
        /\ file \in [depositor : Users, editors : SUBSET Users]
    BY <2>1 DEF User
  <2> QED
    BY <2>1, <2>2, <2>3, <2>4, <2>5 DEF TransferTypeOK
<1>2. TasksAreSound
  BY DEF TransferInit, TasksAreSound, Idle, Busy
<1>3. WorkTellsOfTransfer /\ StreamNamesTransfers
  BY DEF TransferInit, WorkTellsOfTransfer, StreamNamesTransfers
<1> QED
  BY <1>1, <1>2, <1>3 DEF TransferInv

\* A job that has ended leaves the queue in its order.
LEMMA QueueWithoutOne ==
  ASSUME NEW S, NEW q \in Seq(S), NEW i \in DOMAIN q
  PROVE  RemoveAt(q, i) \in Seq(S)
<1>1. SubSeq(q, 1, i - 1) \in Seq(S) /\ SubSeq(q, i + 1, Len(q)) \in Seq(S)
  OBVIOUS
<1> QED
  BY <1>1 DEF RemoveAt

\* A step that only changes what a worker has in memory.
LEMMA MemoryStep ==
  ASSUME TransferInv, NEW w \in Workers, NEW t \in Task,
         worker' = [worker EXCEPT ![w] = t],
         t.pc = "insert" => t.from \in Users,
         t.pc # "idle" => t.to \in Users,
         t.pc \notin {"idle", "insert"} => t.request \in DOMAIN requests,
         t.pc \in {"reset", "grant", "save"} => t.depositor \in Users
  PROVE  worker' \in [Workers -> Task] /\ (DOMAIN requests \subseteq DOMAIN requests' => TasksAreSound')
<1>1. worker' \in [Workers -> Task]
  BY DEF TransferInv, TransferTypeOK
<1>2. ASSUME DOMAIN requests \subseteq DOMAIN requests'
      PROVE  TasksAreSound'
  BY <1>2 DEF TransferInv, TransferTypeOK, TasksAreSound, Busy
<1> QED
  BY <1>1, <1>2

LEMMA WebStepInv ==
  ASSUME TransferInv, NEW w \in Workers, WebStep(w)
  PROVE  TransferInv'
<1>0. TransferTypeOK /\ TasksAreSound /\ WorkTellsOfTransfer /\ StreamNamesTransfers
  BY DEF TransferInv
<1>t. worker \in [Workers -> Task] /\ worker[w] \in Task
  BY <1>0 DEF TransferTypeOK
<1>1. ASSUME NEW from \in Users, NEW to \in Users, CheckRequest(w, from, to)
      PROVE  TransferInv'
  <2> DEFINE t == [worker[w] EXCEPT !.pc = "insert", !.from = from, !.to = to]
  <2>1. t \in Task /\ t.pc = "insert" /\ t.from = from /\ t.to = to
    BY <1>t DEF Task, User
  <2>2. worker' = [worker EXCEPT ![w] = t]
    BY <1>1, <1>t DEF CheckRequest
  <2>3. /\ UNCHANGED <<requests, documents, jobs, made>>
        /\ overlapped' \in BOOLEAN
    BY <1>1 DEF CheckRequest, StartRequest
  <2> HIDE DEF t
  <2>4. worker' \in [Workers -> Task] /\ TasksAreSound'
    BY <2>1, <2>2, <2>3, MemoryStep
  <2> QED
    BY <1>0, <2>3, <2>4
    DEF TransferInv, TransferTypeOK, WorkTellsOfTransfer, StreamNamesTransfers,
        documents, jobs, history
<1>2. ASSUME InsertRequest(w)
      PROVE  TransferInv'
  <2>1. worker[w].from \in Users /\ worker[w].to \in Users
    BY <1>0, <1>2 DEF InsertRequest, TasksAreSound, Busy
  <2>2. /\ requests' = Append(requests, [from |-> worker[w].from,
                                         to |-> worker[w].to, status |-> "pending"])
        /\ worker' = [worker EXCEPT ![w] = Idle]
        /\ UNCHANGED <<documents, jobs, history>>
    BY <1>2 DEF InsertRequest
  <2>3. requests' \in Seq(Request) /\ DOMAIN requests \subseteq DOMAIN requests'
    BY <1>0, <2>1, <2>2 DEF TransferTypeOK, Request
  <2>4. worker' \in [Workers -> Task] /\ TasksAreSound'
    <3>1. Idle.pc = "idle"
      BY DEF Idle
    <3> QED
      BY <2>2, <2>3, <3>1, IdleIsATask, MemoryStep
  <2> QED
    BY <1>0, <2>2, <2>3, <2>4
    DEF TransferInv, TransferTypeOK, WorkTellsOfTransfer, StreamNamesTransfers,
        documents, jobs, history
<1>3. ASSUME NEW r \in DOMAIN requests, NEW answer \in Answers, NEW reset \in BOOLEAN,
             LoadRequest(w, r, answer, reset)
      PROVE  TransferInv'
  <2> DEFINE t == [pc |-> IF answer = "accepted" THEN "find" ELSE "fulfill",
                   from |-> requests[r].from, to |-> requests[r].to, request |-> r,
                   answer |-> answer, reset |-> reset, depositor |-> NoUser,
                   seen |-> {}]
  <2>1. /\ worker' = [worker EXCEPT ![w] = t]
        /\ UNCHANGED <<requests, documents, jobs, made>>
        /\ overlapped' \in BOOLEAN
    BY <1>3 DEF LoadRequest, TakeRequest, StartRequest
  <2>2. requests[r] \in Request /\ r \in Nat
    BY <1>0 DEF TransferTypeOK
  <2>3. t \in Task
    BY <2>2 DEF Task, User, Request
  <2>4. /\ t.pc \in {"find", "fulfill"} /\ t.to \in Users
        /\ t.request \in DOMAIN requests
    BY <2>2 DEF Request
  <2> HIDE DEF t
  <2>5. worker' \in [Workers -> Task] /\ TasksAreSound'
    BY <2>1, <2>3, <2>4, MemoryStep
  <2> QED
    BY <1>0, <2>1, <2>5
    DEF TransferInv, TransferTypeOK, WorkTellsOfTransfer, StreamNamesTransfers,
        documents, jobs, history
<1>4. ASSUME FindWork(w)
      PROVE  TransferInv'
  <2> DEFINE t == [worker[w] EXCEPT
                     !.pc = IF worker[w].to = work.depositor THEN "fulfill"
                            ELSE IF worker[w].reset THEN "reset" ELSE "grant",
                     !.depositor = work.depositor, !.seen = editors]
  <2>1. /\ worker' = [worker EXCEPT ![w] = t]
        /\ UNCHANGED <<requests, documents, jobs, history>>
        /\ worker[w].pc = "find"
    BY <1>4, <1>t DEF FindWork
  <2>2. t \in Task /\ t.depositor \in Users
    BY <1>0, <1>t DEF TransferTypeOK, Task, User
  <2>3. /\ t.pc \in {"fulfill", "reset", "grant"}
        /\ t.to = worker[w].to /\ t.request = worker[w].request
    BY <1>t DEF Task
  <2> HIDE DEF t
  <2>4. worker' \in [Workers -> Task] /\ TasksAreSound'
    BY <1>0, <2>1, <2>2, <2>3, MemoryStep DEF TasksAreSound, Busy
  <2> QED
    BY <1>0, <2>1, <2>4
    DEF TransferInv, TransferTypeOK, WorkTellsOfTransfer, StreamNamesTransfers,
        documents, jobs, history
<1>5. ASSUME ResetAcl(w)
      PROVE  TransferInv'
  <2> DEFINE t == [worker[w] EXCEPT !.pc = "grant", !.seen = {}]
  <2>1. /\ worker' = [worker EXCEPT ![w] = t]
        /\ UNCHANGED <<requests, work, file, jobs, history>>
        /\ worker[w].pc = "reset"
        /\ \/ UNCHANGED <<editors, indexed>>
           \/ editors' = {} /\ indexed' = worker[w].depositor
    BY <1>5, <1>t DEF ResetAcl
  <2>2. /\ t \in Task /\ t.pc = "grant" /\ t.to = worker[w].to
        /\ t.request = worker[w].request /\ t.depositor = worker[w].depositor
    BY <1>t DEF Task
  <2> HIDE DEF t
  <2>3. /\ worker' \in [Workers -> Task] /\ TasksAreSound'
        /\ worker[w].depositor \in Users
    BY <1>0, <2>1, <2>2, MemoryStep DEF TasksAreSound, Busy
  <2> QED
    BY <1>0, <2>1, <2>3
    DEF TransferInv, TransferTypeOK, WorkTellsOfTransfer, StreamNamesTransfers, jobs, history
<1>6. ASSUME GrantAcl(w)
      PROVE  TransferInv'
  <2> DEFINE t == [worker[w] EXCEPT !.pc = "save"]
  <2>1. /\ worker' = [worker EXCEPT ![w] = t]
        /\ UNCHANGED <<requests, work, file, jobs, history>>
        /\ worker[w].pc = "grant"
        /\ editors' = worker[w].seen \cup {worker[w].to}
        /\ indexed' = worker[w].to
    BY <1>6, <1>t DEF GrantAcl, ExtendAcl
  <2>2. /\ t \in Task /\ t.pc = "save" /\ t.to = worker[w].to
        /\ t.request = worker[w].request /\ t.depositor = worker[w].depositor
    BY <1>t DEF Task
  <2> HIDE DEF t
  <2>3. worker' \in [Workers -> Task] /\ TasksAreSound' /\ worker[w].to \in Users
    BY <1>0, <2>1, <2>2, MemoryStep DEF TasksAreSound, Busy
  <2>4. editors' \subseteq Users /\ indexed' \in Users
    BY <1>0, <1>t, <2>1, <2>3 DEF TransferTypeOK, Task
  <2> QED
    BY <1>0, <2>1, <2>3, <2>4
    DEF TransferInv, TransferTypeOK, WorkTellsOfTransfer, StreamNamesTransfers, jobs, history
<1>7. ASSUME SaveWork(w)
      PROVE  TransferInv'
  <2> DEFINE t == [worker[w] EXCEPT !.pc = "fulfill"]
             given == [from |-> worker[w].depositor, to |-> worker[w].to]
             job == [to |-> worker[w].to, reset |-> worker[w].reset,
                     started |-> FALSE, seen |-> {}]
  <2>1. /\ worker' = [worker EXCEPT ![w] = t]
        /\ worker[w].pc = "save"
        /\ work' = [depositor |-> worker[w].to, proxy |-> worker[w].depositor]
        /\ made' = Append(made, given)
        /\ propagations' = Append(propagations, job)
        /\ events' = events + 1
        /\ UNCHANGED <<requests, editors, indexed, file, logged, overlapped, overtaken>>
    BY <1>7, <1>t DEF SaveWork, GiveWork
  <2>2. /\ t \in Task /\ t.pc = "fulfill" /\ t.to = worker[w].to
        /\ t.request = worker[w].request
    BY <1>t DEF Task
  <2> HIDE DEF t
  <2>3. /\ worker' \in [Workers -> Task] /\ TasksAreSound'
        /\ worker[w].to \in Users /\ worker[w].depositor \in Users
    BY <1>0, <2>1, <2>2, MemoryStep DEF TasksAreSound, Busy
  <2>4. given \in Transfer /\ job \in Propagation
    BY <1>t, <2>3 DEF Transfer, Propagation, Task
  <2>5. TransferTypeOK'
    <3>1. work' \in [depositor : Users, proxy : User]
      BY <2>1, <2>3 DEF User
    <3> HIDE DEF given, job
    <3> QED
      BY <1>0, <2>1, <2>3, <2>4, <3>1 DEF TransferTypeOK
  <2>6. /\ Len(made') = Len(made) + 1 /\ made' \in Seq(Transfer)
        /\ made'[Len(made) + 1] = given
        /\ \A i \in DOMAIN made : made'[i] = made[i]
    <3> HIDE DEF given
    <3> QED
      BY <1>0, <2>1, <2>4 DEF TransferTypeOK
  <2>7. WorkTellsOfTransfer'
    <3>1. Len(made) + 1 \in DOMAIN made' /\ made' # <<>>
      BY <1>0, <2>6 DEF TransferTypeOK
    <3> QED
      BY <2>1, <2>6, <3>1 DEF WorkTellsOfTransfer
  <2>8. StreamNamesTransfers'
    <3>1. DOMAIN made \subseteq DOMAIN made'
      BY <1>0, <2>6 DEF TransferTypeOK
    <3> QED
      BY <1>0, <2>1, <2>6, <3>1 DEF StreamNamesTransfers, Range
  <2> QED
    BY <2>3, <2>5, <2>7, <2>8 DEF TransferInv
<1>8. ASSUME ValidateAnswer(w)
      PROVE  TransferInv'
  <2>1. /\ \/ worker' = [worker EXCEPT ![w].pc = "store"]
           \/ worker' = [worker EXCEPT ![w] = Idle]
        /\ UNCHANGED <<requests, documents, jobs, history>>
        /\ worker[w].pc = "fulfill"
    BY <1>8 DEF ValidateAnswer, Validated
  <2>2. PICK u \in Task : u = [worker[w] EXCEPT !.pc = "store"]
    BY <1>t DEF Task
  <2>3. u.pc = "store" /\ u.to = worker[w].to /\ u.request = worker[w].request
    BY <1>t, <2>2 DEF Task
  <2>4. PICK t \in {u, Idle} : worker' = [worker EXCEPT ![w] = t]
    BY <1>t, <2>1, <2>2
  <2>5. t \in Task /\ Idle.pc = "idle"
    BY <2>4, IdleIsATask DEF Idle
  <2>6. worker' \in [Workers -> Task] /\ TasksAreSound'
    BY <1>0, <2>1, <2>3, <2>4, <2>5, MemoryStep DEF TasksAreSound, Busy
  <2> QED
    BY <1>0, <2>1, <2>6
    DEF TransferInv, TransferTypeOK, WorkTellsOfTransfer, StreamNamesTransfers,
        documents, jobs, history
<1>9. ASSUME Fulfill(w)
      PROVE  TransferInv'
  <2>1. /\ requests' = [requests EXCEPT ![worker[w].request].status
                                          = worker[w].answer]
        /\ worker' = [worker EXCEPT ![w] = Idle]
        /\ UNCHANGED <<documents, jobs, history>>
        /\ worker[w].pc = "store"
    BY <1>9 DEF Fulfill
  <2>2. worker[w].request \in DOMAIN requests /\ worker[w].answer \in Answers
    BY <1>0, <1>t, <2>1 DEF TasksAreSound, Task
  <2>3. requests' \in Seq(Request) /\ DOMAIN requests' = DOMAIN requests
    <3> DEFINE r == worker[w].request
               q == [requests[r] EXCEPT !.status = worker[w].answer]
    <3>1. requests \in Seq(Request) /\ r \in DOMAIN requests /\ requests[r] \in Request
      BY <1>0, <2>2 DEF TransferTypeOK
    <3>2. q \in Request
      BY <2>2, <3>1 DEF Request
    <3>3. requests' = [requests EXCEPT ![r] = q]
      BY <2>1
    <3> HIDE DEF q, r
    <3> QED
      BY <3>1, <3>2, <3>3
  <2>4. worker' \in [Workers -> Task] /\ TasksAreSound'
    <3>1. Idle.pc = "idle"
      BY DEF Idle
    <3> QED
      BY <2>1, <2>3, <3>1, IdleIsATask, MemoryStep
  <2> QED
    BY <1>0, <2>1, <2>3, <2>4
    DEF TransferInv, TransferTypeOK, WorkTellsOfTransfer, StreamNamesTransfers,
        documents, jobs, history
<1> QED
  BY <1>1, <1>2, <1>3, <1>4, <1>5, <1>6, <1>7, <1>8, <1>9 DEF WebStep

LEMMA JobStepInv ==
  ASSUME TransferInv, JobStep
  PROVE  TransferInv'
<1>0. TransferTypeOK /\ TasksAreSound /\ WorkTellsOfTransfer /\ StreamNamesTransfers
  BY DEF TransferInv
<1>1. ASSUME NEW i \in DOMAIN propagations, StartPropagation(i)
      PROVE  TransferInv'
  <2> DEFINE seen == IF propagations[i].reset THEN {} ELSE file.editors
             job == [propagations[i] EXCEPT !.started = TRUE, !.seen = seen]
  <2>1. /\ overtaken' = (overtaken \/ i > 1)
        /\ file' = [file EXCEPT !.editors = seen]
        /\ propagations' = [propagations EXCEPT ![i] = job]
        /\ UNCHANGED <<requests, work, editors, indexed, events, logged, history, worker>>
    BY <1>1 DEF StartPropagation
  <2>2. seen \subseteq Users /\ propagations[i] \in Propagation
    BY <1>0 DEF TransferTypeOK
  <2>3. job \in Propagation
    BY <2>2 DEF Propagation
  <2>4. file' \in [depositor : Users, editors : SUBSET Users]
    BY <1>0, <2>1, <2>2 DEF TransferTypeOK
  <2>5. propagations' \in Seq(Propagation) /\ overtaken' \in BOOLEAN
    <3> HIDE DEF job
    <3> QED
      BY <1>0, <2>1, <2>3 DEF TransferTypeOK
  <2> QED
    BY <1>0, <2>1, <2>4, <2>5
    DEF TransferInv, TransferTypeOK, TasksAreSound, Busy, WorkTellsOfTransfer,
        StreamNamesTransfers, history
<1>2. ASSUME NEW i \in DOMAIN propagations, FinishPropagation(i)
      PROVE  TransferInv'
  <2>1. /\ file' = [depositor |-> propagations[i].to,
                     editors |-> propagations[i].seen \cup {propagations[i].to}]
        /\ propagations' = RemoveAt(propagations, i)
        /\ UNCHANGED <<requests, work, editors, indexed, events, logged, history,
                       overtaken, worker>>
    BY <1>2 DEF FinishPropagation
  <2>2. propagations[i] \in Propagation
    BY <1>0 DEF TransferTypeOK
  <2>3. file' \in [depositor : Users, editors : SUBSET Users]
    BY <1>0, <2>1, <2>2 DEF TransferTypeOK, Propagation
  <2>4. propagations' \in Seq(Propagation)
    BY <1>0, <2>1, QueueWithoutOne DEF TransferTypeOK
  <2> QED
    BY <1>0, <2>1, <2>3, <2>4
    DEF TransferInv, TransferTypeOK, TasksAreSound, Busy, WorkTellsOfTransfer,
        StreamNamesTransfers, history
<1>3. CASE LogEvent
  <2> DEFINE told == [from |-> work.proxy, to |-> work.depositor]
  <2>1. /\ events > 0 /\ events' = events - 1 /\ logged' = logged \cup {told}
        /\ UNCHANGED <<requests, documents, propagations, history, overtaken, worker>>
    BY <1>3 DEF LogEvent
  <2>2. PICK i \in DOMAIN made : made[i] = told
    BY <1>0, <2>1 DEF WorkTellsOfTransfer
  <2>3. told \in Transfer
    BY <1>0, <2>2 DEF TransferTypeOK
  <2> HIDE DEF told
  <2>4. events' \in Nat /\ (events' > 0 => made # <<>>)
    BY <1>0, <2>1 DEF TransferTypeOK, WorkTellsOfTransfer
  <2>5. WorkTellsOfTransfer'
    BY <1>0, <2>1, <2>4 DEF WorkTellsOfTransfer, documents, history
  <2>6. StreamNamesTransfers'
    BY <1>0, <2>1, <2>2 DEF StreamNamesTransfers, Range, history
  <2> QED
    BY <1>0, <2>1, <2>3, <2>4, <2>5, <2>6
    DEF TransferInv, TransferTypeOK, TasksAreSound, Busy, documents, history
<1> QED
  BY <1>1, <1>2, <1>3 DEF JobStep

LEMMA TransferInductive ==
  ASSUME TransferInv, [TransferNext]_transferVars
  PROVE  TransferInv'
<1>1. CASE JobStep
  BY <1>1, JobStepInv
<1>2. ASSUME NEW w \in Workers, WebStep(w)
      PROVE  TransferInv'
  BY <1>2, WebStepInv
<1>3. CASE UNCHANGED transferVars
  BY <1>3
  DEF transferVars, TransferInv, TransferTypeOK, TasksAreSound, Busy,
      WorkTellsOfTransfer, StreamNamesTransfers
<1> QED
  BY <1>1, <1>2, <1>3 DEF TransferNext

LEMMA TransferInvariant == TransferSpec => []TransferInv
  BY TransferInitially, TransferInductive, PTL DEF TransferSpec

\* Requests, documents, jobs and workers keep to their types, for any users and
\* workers (ProxyDepositRequest, ChangeDepositorService).
THEOREM TransferTypesCorrect == TransferSpec => []TransferTypeOK
<1>1. TransferInv => TransferTypeOK
  BY DEF TransferInv
<1> QED
  BY <1>1, TransferInvariant, PTL

\* However requests and jobs overlap, what ChangeDepositorEventJob writes to the
\* activity stream is a transfer that was made.
THEOREM StreamIsTrue == TransferSpec => []StreamNamesTransfers
<1>1. TransferInv => StreamNamesTransfers
  BY DEF TransferInv
<1> QED
  BY <1>1, TransferInvariant, PTL

\* However they overlap, two requests that are open with no validated answer to
\* either stay open: each makes the validation of the other fail, so no answer to
\* them is ever validated (proxy_deposit_request.rb).
THEOREM DuplicatesBarEachOther == TransferSpec => DuplicatesNeverClose
<1>1. ASSUME TransferInv, [TransferNext]_transferVars,
             NEW r \in DOMAIN requests, NEW s \in DOMAIN requests, Barred(r, s)
      PROVE  Barred(r, s)'
  <2>1. requests \in Seq(Request) /\ worker \in [Workers -> Task]
    BY <1>1 DEF TransferInv, TransferTypeOK
  <2>2. r # s /\ r \in Open /\ s \in Open
    BY <1>1 DEF Barred
  <2>3. ASSUME \/ requests' = requests
               \/ \E q : requests' = Append(requests, q),
               \A w \in Workers : worker'[w].pc = "store" =>
                 worker'[w].request \notin {r, s}
        PROVE  Barred(r, s)'
    <3>1. \A i \in DOMAIN requests :
            i \in DOMAIN requests' /\ requests'[i] = requests[i]
      BY <2>1, <2>3
    <3>2. r \in Open' /\ s \in Open'
      BY <2>2, <3>1 DEF Open
    <3> QED
      BY <2>2, <2>3, <3>2 DEF Barred
  <2>4. ASSUME UNCHANGED <<requests, worker>>
        PROVE  Barred(r, s)'
    BY <1>1, <2>4 DEF Barred, Open
  <2>5. CASE JobStep
    BY <2>4, <2>5 DEF JobStep, StartPropagation, FinishPropagation, LogEvent
  <2>6. CASE UNCHANGED transferVars
    BY <2>4, <2>6 DEF transferVars
  <2>7. ASSUME NEW w \in Workers, WebStep(w)
        PROVE  Barred(r, s)'
    <3>1. ASSUME NEW t, worker' = [worker EXCEPT ![w] = t], t.pc # "store"
          PROVE  \A v \in Workers : worker'[v].pc = "store" =>
                   worker'[v].request \notin {r, s}
      BY <1>1, <2>1, <3>1 DEF Barred
    <3>2. Idle.pc # "store"
      BY DEF Idle
    <3>t. worker[w] \in Task
      BY <2>1
    <3>3. CASE ValidateAnswer(w)
      <4>1. requests' = requests
        BY <3>3 DEF ValidateAnswer, Validated
      <4>2. CASE Open \subseteq {worker[w].request}
        BY <2>2, <4>2
      <4>3. CASE ~(Open \subseteq {worker[w].request})
        <5>1. worker' = [worker EXCEPT ![w] = Idle]
          BY <3>3, <4>3 DEF ValidateAnswer, Validated
        <5> QED
          BY <2>3, <3>1, <3>2, <4>1, <5>1
      <4> QED
        BY <4>2, <4>3
    <3>4. CASE Fulfill(w)
      <4> DEFINE n == worker[w].request
      <4>1. n \notin {r, s}
        BY <1>1, <3>4 DEF Fulfill, Barred
      <4>2. /\ requests' = [requests EXCEPT ![n].status = worker[w].answer]
            /\ worker' = [worker EXCEPT ![w] = Idle]
        BY <3>4 DEF Fulfill
      <4> HIDE DEF n
      <4>3. /\ DOMAIN requests' = DOMAIN requests
            /\ requests'[r] = requests[r] /\ requests'[s] = requests[s]
        BY <2>1, <4>1, <4>2
      <4>4. r \in Open' /\ s \in Open'
        BY <2>2, <4>3 DEF Open
      <4> QED
        BY <2>2, <3>1, <3>2, <4>2, <4>4 DEF Barred
    <3>5. CASE InsertRequest(w)
      <4>1. /\ worker' = [worker EXCEPT ![w] = Idle]
            /\ \E q : requests' = Append(requests, q)
        BY <3>5 DEF InsertRequest
      <4> QED
        BY <2>3, <3>1, <3>2, <4>1
    <3>6. ASSUME NEW from \in Users, NEW to \in Users, CheckRequest(w, from, to)
          PROVE  Barred(r, s)'
      BY <2>2, <3>6 DEF CheckRequest
    <3>7. ASSUME NEW n \in DOMAIN requests, NEW answer \in Answers,
                 NEW reset \in BOOLEAN, LoadRequest(w, n, answer, reset)
          PROVE  Barred(r, s)'
      <4>1. /\ requests' = requests
            /\ \A v \in Workers \ {w} : worker'[v] = worker[v]
            /\ worker'[w].pc \in {"find", "fulfill"}
        BY <2>1, <3>7 DEF LoadRequest, TakeRequest
      <4> QED
        BY <1>1, <2>3, <4>1 DEF Barred
    <3>8. ASSUME FindWork(w) \/ ResetAcl(w) \/ GrantAcl(w) \/ SaveWork(w)
          PROVE  Barred(r, s)'
      <4>1. requests' = requests
        BY <3>8 DEF FindWork, ResetAcl, GrantAcl, ExtendAcl, SaveWork, GiveWork
      <4>2. \A v \in Workers \ {w} : worker'[v] = worker[v]
        BY <2>1, <3>8
        DEF FindWork, ResetAcl, GrantAcl, ExtendAcl, SaveWork, GiveWork
      <4>3. worker'[w].pc \in {"fulfill", "reset", "grant", "save"}
        <5>1. CASE FindWork(w)
          <6>1. worker'[w].pc = IF worker[w].to = work.depositor THEN "fulfill"
                                ELSE IF worker[w].reset THEN "reset" ELSE "grant"
            BY <2>1, <3>t, <5>1 DEF FindWork, Task
          <6> QED
            BY <6>1
        <5>2. CASE ResetAcl(w)
          BY <2>1, <3>t, <5>2 DEF ResetAcl, Task
        <5>3. CASE GrantAcl(w)
          BY <2>1, <3>t, <5>3 DEF GrantAcl, ExtendAcl, Task
        <5>4. CASE SaveWork(w)
          BY <2>1, <3>t, <5>4 DEF SaveWork, GiveWork, Task
        <5> QED
          BY <3>8, <5>1, <5>2, <5>3, <5>4
      <4> QED
        BY <1>1, <2>3, <4>1, <4>2, <4>3 DEF Barred
    <3> QED
      BY <2>7, <3>3, <3>4, <3>5, <3>6, <3>7, <3>8 DEF WebStep
  <2> QED
    BY <1>1, <2>5, <2>6, <2>7 DEF TransferNext
<1>2. TransferInv /\ [TransferNext]_transferVars =>
        [\A r, s \in DOMAIN requests : Barred(r, s) => Barred(r, s)']_transferVars
  BY <1>1
<1> QED
  BY <1>2, TransferInvariant, PTL DEF TransferSpec, DuplicatesNeverClose

(***************************************************************************)
(* Web requests one at a time.  The state between them is settled; the     *)
(* worker that is at work knows how far the stores are from it.            *)
(***************************************************************************)

\* The last user to accept has the work.
AcceptedLast ==
  Accepted # {} =>
    \E r \in Accepted :
      (\A s \in Accepted : s <= r) /\ work.depositor = requests[r].to

\* Who has the work may edit it, and the index says so.
AccessSettled == work.depositor \in editors /\ indexed = work.depositor

\* How the stores look to a task that is under way.
TaskSeesStores(t) ==
  /\ t.pc = "insert" => Open = {}
  /\ t.pc \notin {"idle", "insert"} => t.request \in Open /\ t.to = requests[t.request].to
  /\ t.pc \in {"find", "reset", "grant", "save"} => t.answer = "accepted"
  /\ t.pc \in {"reset", "grant"} => t.depositor = work.depositor /\ t.seen = editors
  /\ t.pc = "reset" => t.reset
  /\ t.pc = "grant" /\ t.reset => editors = {} /\ indexed = work.depositor
  /\ t.pc = "save" => t.to \in editors /\ indexed = t.to
  /\ t.pc # "save" /\ ~(t.pc = "grant" /\ t.reset) => AccessSettled
  /\ IF t.pc \in {"fulfill", "store"} /\ t.answer = "accepted"
     THEN work.depositor = t.to
     ELSE AcceptedLast

SerialTransfers ==
  /\ \A v, w \in Workers : Busy(v) /\ Busy(w) => v = w
  /\ \A r \in Open : r = Len(requests)
  /\ \A w \in Workers : Busy(w) => TaskSeesStores(worker[w])
  /\ NoneUnderWay => AccessSettled /\ AcceptedLast
-----------------------------------------------------------------------------
\* A request starts when nothing is under way, and changes no store.
LEMMA SerialStart ==
  ASSUME ~overlapped', TransferInv, SerialTransfers, NEW w \in Workers, StartRequest(w),
         NEW t \in Task, t.pc # "idle",
         worker' = [worker EXCEPT ![w] = t],
         UNCHANGED <<requests, documents>>,
         NoneUnderWay /\ AccessSettled /\ AcceptedLast => TaskSeesStores(t)
  PROVE  SerialTransfers'
<1>1. \A v \in Workers : ~Busy(v)
  BY DEF StartRequest
<1>2. NoneUnderWay /\ AccessSettled /\ AcceptedLast
  BY <1>1 DEF NoneUnderWay, SerialTransfers
<1>3. TaskSeesStores(t)
  BY <1>2
<1>4. /\ TaskSeesStores(t)' /\ Open' = Open
  BY <1>3 DEF TaskSeesStores, AccessSettled, AcceptedLast, Accepted, Open, documents
<1>5. \A v \in Workers : Busy(v)' => v = w /\ worker'[v] = t
  BY <1>1 DEF Busy, TransferInv, TransferTypeOK
<1>6. Busy(w)'
  BY DEF Busy, TransferInv, TransferTypeOK
<1>7. \A v \in Workers : Busy(v)' => TaskSeesStores(worker[v])'
  BY <1>4, <1>5 DEF TaskSeesStores, AccessSettled, AcceptedLast, Accepted, Open
<1> QED
  BY <1>4, <1>5, <1>6, <1>7 DEF SerialTransfers, NoneUnderWay

\* A step of the one request under way goes on with it, or ends it in a settled
\* state.
LEMMA SerialGoesOn ==
  ASSUME TransferInv, SerialTransfers, NEW w \in Workers, Busy(w),
         NEW t \in Task, worker' = [worker EXCEPT ![w] = t],
         \A r \in Open' : r = Len(requests'),
         IF t.pc = "idle" THEN (AccessSettled /\ AcceptedLast)' ELSE TaskSeesStores(t)'
  PROVE  SerialTransfers'
<1>1. \A v \in Workers : Busy(v)' => v = w /\ t.pc # "idle" /\ worker'[v] = t
  BY DEF Busy, TransferInv, TransferTypeOK, SerialTransfers
<1>2. ~Busy(w)' => t.pc = "idle"
  BY DEF Busy, TransferInv, TransferTypeOK
<1>3. \A v \in Workers : Busy(v)' => TaskSeesStores(worker[v])'
  BY <1>1 DEF TaskSeesStores, AccessSettled, AcceptedLast, Accepted, Open
<1> QED
  BY <1>1, <1>2, <1>3 DEF SerialTransfers, NoneUnderWay

LEMMA SerialWebStep ==
  ASSUME ~overlapped', TransferInv, SerialTransfers, NEW w \in Workers, WebStep(w)
  PROVE  SerialTransfers'
<1>0. TransferTypeOK /\ TasksAreSound
  BY DEF TransferInv
<1>t. worker \in [Workers -> Task] /\ worker[w] \in Task
  BY <1>0 DEF TransferTypeOK
<1>r. requests \in Seq(Request)
  BY <1>0 DEF TransferTypeOK
<1>o. \A r \in Open : r = Len(requests)
  BY DEF SerialTransfers
<1>b. Busy(w) => TaskSeesStores(worker[w])
  BY DEF SerialTransfers
<1>1. ASSUME NEW from \in Users, NEW to \in Users, CheckRequest(w, from, to)
      PROVE  SerialTransfers'
  <2>1. PICK t \in Task : t = [worker[w] EXCEPT !.pc = "insert", !.from = from, !.to = to]
    BY <1>t DEF Task, User
  <2>2. /\ worker' = [worker EXCEPT ![w] = t] /\ t.pc = "insert"
        /\ StartRequest(w) /\ Open = {} /\ UNCHANGED <<requests, documents>>
    BY <1>1, <1>t, <2>1 DEF CheckRequest, Task
  <2>3. AccessSettled /\ AcceptedLast => TaskSeesStores(t)
    BY <2>2 DEF TaskSeesStores
  <2> QED
    BY <2>2, <2>3, SerialStart
<1>2. ASSUME InsertRequest(w)
      PROVE  SerialTransfers'
  <2> DEFINE q == [from |-> worker[w].from, to |-> worker[w].to, status |-> "pending"]
  <2>1. /\ worker[w].pc = "insert"
        /\ requests' = Append(requests, q)
        /\ worker' = [worker EXCEPT ![w] = Idle]
        /\ UNCHANGED <<documents, jobs, history>>
    BY <1>2 DEF InsertRequest
  <2>2. Busy(w) /\ Open = {} /\ AccessSettled /\ AcceptedLast
    BY <1>b, <2>1 DEF Busy, TaskSeesStores
  <2>3. q.status = "pending"
    OBVIOUS
  <2> HIDE DEF q
  <2>4. /\ Len(requests') = Len(requests) + 1
        /\ DOMAIN requests' = DOMAIN requests \cup {Len(requests')}
        /\ requests'[Len(requests')] = q
        /\ \A r \in DOMAIN requests : requests'[r] = requests[r]
        /\ Len(requests') \notin DOMAIN requests
    BY <1>r, <2>1
  <2>5. \A r \in Open' : r = Len(requests')
    BY <2>2, <2>4 DEF Open
  <2>6. Accepted' = Accepted
    BY <2>3, <2>4 DEF Accepted
  <2>7. (AccessSettled /\ AcceptedLast)'
    <3>1. Accepted \subseteq DOMAIN requests
      BY DEF Accepted
    <3> QED
      BY <2>1, <2>2, <2>4, <2>6, <3>1 DEF AccessSettled, AcceptedLast, documents
  <2>8. Idle.pc = "idle"
    BY DEF Idle
  <2> QED
    BY <2>1, <2>2, <2>5, <2>7, <2>8, IdleIsATask, SerialGoesOn
<1>3. ASSUME NEW r \in DOMAIN requests, NEW answer \in Answers, NEW reset \in BOOLEAN,
             LoadRequest(w, r, answer, reset)
      PROVE  SerialTransfers'
  <2> DEFINE u == [pc |-> IF answer = "accepted" THEN "find" ELSE "fulfill",
                   from |-> requests[r].from, to |-> requests[r].to, request |-> r,
                   answer |-> answer, reset |-> reset, depositor |-> NoUser, seen |-> {}]
  <2>0. requests[r] \in Request /\ r \in Nat
    BY <1>r
  <2>1. u \in Task
    BY <2>0 DEF Task, User, Request
  <2>2. PICK t \in Task : t = u
    BY <2>1
  <2>3. /\ worker' = [worker EXCEPT ![w] = t]
        /\ StartRequest(w) /\ UNCHANGED <<requests, documents>>
        /\ r \in Open
    BY <1>3, <2>2 DEF LoadRequest, TakeRequest, Open
  <2>4. /\ t.pc \in {"find", "fulfill"} /\ (t.pc = "find" <=> t.answer = "accepted")
        /\ t.request = r /\ t.to = requests[r].to
    BY <2>2
  <2>5. AccessSettled /\ AcceptedLast => TaskSeesStores(t)
    BY <2>3, <2>4 DEF TaskSeesStores
  <2> QED
    BY <2>3, <2>4, <2>5, SerialStart
<1>4. ASSUME FindWork(w)
      PROVE  SerialTransfers'
  <2> DEFINE u == [worker[w] EXCEPT
                     !.pc = IF worker[w].to = work.depositor THEN "fulfill"
                            ELSE IF worker[w].reset THEN "reset" ELSE "grant",
                     !.depositor = work.depositor, !.seen = editors]
  <2>0. u \in Task
    BY <1>0, <1>t DEF TransferTypeOK, Task, User
  <2>1. PICK t \in Task : t = u
    BY <2>0
  <2>2. /\ worker' = [worker EXCEPT ![w] = t]
        /\ UNCHANGED <<requests, documents>>
        /\ worker[w].pc = "find"
    BY <1>4, <1>t, <2>1 DEF FindWork
  <2>3. /\ t.to = worker[w].to /\ t.request = worker[w].request
        /\ t.answer = worker[w].answer
        /\ t.depositor = work.depositor /\ t.seen = editors
        /\ \/ t.pc = "fulfill" /\ work.depositor = t.to
           \/ t.pc = "reset" /\ t.reset
           \/ t.pc = "grant" /\ ~t.reset
    BY <1>t, <2>1 DEF Task
  <2>4. Busy(w) /\ TaskSeesStores(worker[w]) /\ worker[w].answer = "accepted"
    BY <1>b, <2>2 DEF Busy, TaskSeesStores
  <2>5. TaskSeesStores(t)
    BY <2>2, <2>3, <2>4 DEF TaskSeesStores
  <2>6. TaskSeesStores(t)'
    BY <2>2, <2>5
    DEF TaskSeesStores, AccessSettled, AcceptedLast, Accepted, Open, documents
  <2>7. \A r \in Open' : r = Len(requests')
    BY <1>o, <2>2 DEF Open
  <2> QED
    BY <2>2, <2>3, <2>4, <2>6, <2>7, SerialGoesOn
<1>5. ASSUME ResetAcl(w)
      PROVE  SerialTransfers'
  <2>1. PICK t \in Task : t = [worker[w] EXCEPT !.pc = "grant", !.seen = {}]
    BY <1>t DEF Task
  <2>2. /\ worker' = [worker EXCEPT ![w] = t]
        /\ UNCHANGED <<requests, work>>
        /\ worker[w].pc = "reset"
        /\ worker[w].seen # {} => editors' = {} /\ indexed' = worker[w].depositor
    BY <1>5, <1>t, <2>1 DEF ResetAcl
  <2>3. /\ t.to = worker[w].to /\ t.request = worker[w].request
        /\ t.answer = worker[w].answer /\ t.reset = worker[w].reset
        /\ t.depositor = worker[w].depositor /\ t.seen = {} /\ t.pc = "grant"
    BY <1>t, <2>1 DEF Task
  <2>4. Busy(w) /\ TaskSeesStores(worker[w])
    BY <1>b, <2>2 DEF Busy
  <2>5. worker[w].depositor = work.depositor /\ AcceptedLast /\ worker[w].reset
        /\ worker[w].answer = "accepted" /\ worker[w].request \in Open
        /\ worker[w].to = requests[worker[w].request].to
    BY <2>2, <2>4 DEF TaskSeesStores
  <2>6. editors' = {} /\ indexed' = worker[w].depositor
    BY <2>2, <2>4 DEF TaskSeesStores, AccessSettled
  <2>7. TaskSeesStores(t)'
    BY <2>2, <2>3, <2>5, <2>6
    DEF TaskSeesStores, AcceptedLast, Accepted, Open
  <2>8. \A r \in Open' : r = Len(requests')
    BY <1>o, <2>2 DEF Open
  <2> QED
    BY <2>2, <2>3, <2>4, <2>7, <2>8, SerialGoesOn
<1>6. ASSUME GrantAcl(w)
      PROVE  SerialTransfers'
  <2>1. PICK t \in Task : t = [worker[w] EXCEPT !.pc = "save"]
    BY <1>t DEF Task
  <2>2. /\ worker' = [worker EXCEPT ![w] = t]
        /\ UNCHANGED <<requests, work>>
        /\ worker[w].pc = "grant"
        /\ editors' = worker[w].seen \cup {worker[w].to}
        /\ indexed' = worker[w].to
    BY <1>6, <1>t, <2>1 DEF GrantAcl, ExtendAcl
  <2>3. /\ t.to = worker[w].to /\ t.request = worker[w].request
        /\ t.answer = worker[w].answer /\ t.pc = "save"
    BY <1>t, <2>1 DEF Task
  <2>4. Busy(w) /\ TaskSeesStores(worker[w])
    BY <1>b, <2>2 DEF Busy
  <2>5. /\ AcceptedLast
        /\ worker[w].answer = "accepted" /\ worker[w].request \in Open
        /\ worker[w].to = requests[worker[w].request].to
    BY <2>2, <2>4 DEF TaskSeesStores
  <2>6. t.to \in editors' /\ indexed' = t.to
    BY <2>2, <2>3
  <2>7. TaskSeesStores(t)'
    BY <2>2, <2>3, <2>5, <2>6 DEF TaskSeesStores, AcceptedLast, Accepted, Open
  <2>8. \A r \in Open' : r = Len(requests')
    BY <1>o, <2>2 DEF Open
  <2> QED
    BY <2>2, <2>3, <2>4, <2>7, <2>8, SerialGoesOn
<1>7. ASSUME SaveWork(w)
      PROVE  SerialTransfers'
  <2>1. PICK t \in Task : t = [worker[w] EXCEPT !.pc = "fulfill"]
    BY <1>t DEF Task
  <2>2. /\ worker' = [worker EXCEPT ![w] = t]
        /\ UNCHANGED <<requests, editors, indexed>>
        /\ worker[w].pc = "save" /\ work'.depositor = worker[w].to
    BY <1>7, <1>t, <2>1 DEF SaveWork, GiveWork
  <2>3. /\ t.to = worker[w].to /\ t.request = worker[w].request
        /\ t.answer = worker[w].answer /\ t.pc = "fulfill"
    BY <1>t, <2>1 DEF Task
  <2>4. Busy(w) /\ TaskSeesStores(worker[w])
    BY <1>b, <2>2 DEF Busy
  <2>5. TaskSeesStores(t)'
    BY <2>2, <2>3, <2>4 DEF TaskSeesStores, AccessSettled, Open
  <2>6. \A r \in Open' : r = Len(requests')
    BY <1>o, <2>2 DEF Open
  <2> QED
    BY <2>2, <2>3, <2>4, <2>5, <2>6, SerialGoesOn
<1>8. ASSUME ValidateAnswer(w)
      PROVE  SerialTransfers'
  <2>1. /\ worker[w].pc = "fulfill" /\ UNCHANGED <<requests, documents>>
        /\ Open \subseteq {worker[w].request} =>
             worker' = [worker EXCEPT ![w].pc = "store"]
    BY <1>8 DEF ValidateAnswer, Validated
  <2>2. Busy(w) /\ TaskSeesStores(worker[w]) /\ worker[w].request \in Open
    BY <1>b, <2>1 DEF Busy, TaskSeesStores
  <2>3. Open \subseteq {worker[w].request}
    BY <1>o, <2>2
  <2>4. PICK t \in Task : t = [worker[w] EXCEPT !.pc = "store"]
    BY <1>t DEF Task
  <2>5. /\ worker' = [worker EXCEPT ![w] = t]
        /\ t.to = worker[w].to /\ t.request = worker[w].request
        /\ t.answer = worker[w].answer /\ t.pc = "store"
    BY <1>t, <2>1, <2>3, <2>4 DEF Task
  <2>6. TaskSeesStores(t)
    BY <2>1, <2>2, <2>5 DEF TaskSeesStores
  <2>7. TaskSeesStores(t)'
    BY <2>1, <2>6
    DEF TaskSeesStores, AccessSettled, AcceptedLast, Accepted, Open, documents
  <2>8. \A r \in Open' : r = Len(requests')
    BY <1>o, <2>1 DEF Open
  <2> QED
    BY <2>2, <2>5, <2>7, <2>8, SerialGoesOn
<1>9. ASSUME Fulfill(w)
      PROVE  SerialTransfers'
  <2> DEFINE r == worker[w].request
             answer == worker[w].answer
  <2>1. /\ worker[w].pc = "store"
        /\ worker' = [worker EXCEPT ![w] = Idle]
        /\ UNCHANGED documents
        /\ requests' = [requests EXCEPT ![r].status = answer]
    BY <1>9 DEF Fulfill
  <2>2. Busy(w) /\ TaskSeesStores(worker[w]) /\ r \in Open
    BY <1>b, <2>1 DEF Busy, TaskSeesStores
  <2>3. /\ AccessSettled /\ answer \in Answers
        /\ IF answer = "accepted" THEN work.depositor = requests[r].to ELSE AcceptedLast
    BY <1>t, <2>1, <2>2 DEF TaskSeesStores, Task
  <2>4. /\ r = Len(requests) /\ Open = {r} /\ r \in DOMAIN requests
    BY <1>o, <2>2 DEF Open
  <2>5. /\ DOMAIN requests' = DOMAIN requests
        /\ requests'[r].status = answer /\ requests'[r].to = requests[r].to
        /\ \A s \in DOMAIN requests : s # r => requests'[s] = requests[s]
    <3>1. requests[r] \in Request /\ requests' = [requests EXCEPT ![r].status = answer]
      BY <1>r, <2>1, <2>4
    <3> QED
      BY <1>r, <2>4, <3>1 DEF Request
  <2> HIDE DEF r, answer
  <2>6. Open' = {}
    BY <2>3, <2>4, <2>5 DEF Open, Answers
  <2>7. AcceptedLast'
    <3>1. CASE answer = "accepted"
      <4>1. r \in Accepted' /\ \A s \in Accepted' : s <= r
        BY <1>r, <2>4, <2>5, <3>1 DEF Accepted
      <4> QED
        BY <2>1, <2>3, <2>5, <3>1, <4>1 DEF AcceptedLast, documents
    <3>2. CASE answer # "accepted"
      <4>1. Accepted' = Accepted /\ r \notin Accepted /\ Accepted \subseteq DOMAIN requests
        BY <2>2, <2>5, <3>2 DEF Accepted, Open
      <4> QED
        BY <2>1, <2>3, <2>5, <3>2, <4>1 DEF AcceptedLast, documents
    <3> QED
      BY <3>1, <3>2
  <2>8. AccessSettled' /\ Idle.pc = "idle"
    BY <2>1, <2>3 DEF AccessSettled, Idle, documents
  <2> QED
    BY <2>1, <2>2, <2>6, <2>7, <2>8, IdleIsATask, SerialGoesOn
<1> QED
  BY <1>1, <1>2, <1>3, <1>4, <1>5, <1>6, <1>7, <1>8, <1>9 DEF WebStep

LEMMA OverlapStays ==
  ASSUME TransferInv, [TransferNext]_transferVars, ~overlapped'
  PROVE  ~overlapped
<1>1. CASE JobStep
  BY <1>1 DEF JobStep, StartPropagation, FinishPropagation, LogEvent, history
<1>2. ASSUME NEW w \in Workers, WebStep(w)
      PROVE  ~overlapped
  BY <1>2
  DEF WebStep, CheckRequest, InsertRequest, LoadRequest, TakeRequest, StartRequest,
      FindWork, ResetAcl, GrantAcl, ExtendAcl, SaveWork, GiveWork, Fulfill,
      ValidateAnswer, Validated, history
<1>3. CASE UNCHANGED transferVars
  BY <1>3 DEF transferVars
<1> QED
  BY <1>1, <1>2, <1>3 DEF TransferNext

LEMMA SerialInductive ==
  ASSUME ~overlapped', TransferInv, SerialTransfers, [TransferNext]_transferVars
  PROVE  SerialTransfers'
<1>1. ASSUME UNCHANGED <<requests, work, editors, indexed, worker>>
      PROVE  SerialTransfers'
  BY <1>1
  DEF SerialTransfers, TaskSeesStores, AccessSettled, AcceptedLast, Accepted, Open,
      Busy, NoneUnderWay
<1>2. CASE JobStep
  BY <1>1, <1>2
  DEF JobStep, StartPropagation, FinishPropagation, LogEvent, documents
<1>3. ASSUME NEW w \in Workers, WebStep(w)
      PROVE  SerialTransfers'
  BY <1>3, SerialWebStep
<1>4. CASE UNCHANGED transferVars
  BY <1>1, <1>4 DEF transferVars
<1> QED
  BY <1>2, <1>3, <1>4 DEF TransferNext

\* Once requests have overlapped nothing more is claimed.
LEMMA SerialUntilOverlap ==
  TransferSpec => []((~overlapped => SerialTransfers) /\ TransferInv)
<1>1. TransferInit => SerialTransfers
  BY DEF TransferInit, SerialTransfers, AccessSettled, AcceptedLast, Accepted, Open,
         Busy, Idle
<1>2. ASSUME TransferInv, ~overlapped => SerialTransfers, [TransferNext]_transferVars
      PROVE  ~overlapped' => SerialTransfers'
  BY <1>2, OverlapStays, SerialInductive
<1> QED
  BY <1>1, <1>2, TransferInvariant, PTL DEF TransferSpec

\* Until web requests overlap, with any number of users and requests: whenever
\* none is under way the work belongs to the last user who accepted it
\* (proxy_deposit_request.rb).
THEOREM SerialTransfersSettle == TransferSpec => []LastToAcceptOwns
<1>1. (~overlapped => SerialTransfers) => LastToAcceptOwns
  BY DEF SerialTransfers, LastToAcceptOwns, WebAtRest, AcceptedLast
<1> QED
  BY <1>1, SerialUntilOverlap, PTL

\* And they may edit it, and it is theirs in the index too
\* (change_depositor_service.rb).
THEOREM SerialTransfersGiveAccess == TransferSpec => []AccessFollowsDepositor
<1>1. (~overlapped => SerialTransfers) => AccessFollowsDepositor
  BY DEF SerialTransfers, AccessFollowsDepositor, WebAtRest, AccessSettled
<1> QED
  BY <1>1, SerialUntilOverlap, PTL

\* And only one request is open at a time (proxy_deposit_request.rb).
THEOREM SerialTransfersAreSingle ==
  TransferSpec => [](~overlapped => \A r, s \in Open : r = s)
<1>1. (~overlapped => SerialTransfers) => (~overlapped => \A r, s \in Open : r = s)
  BY DEF SerialTransfers
<1> QED
  BY <1>1, SerialUntilOverlap, PTL

(***************************************************************************)
(* The files.  What they will be when the queued jobs are done can be read *)
(* off the queue: a user who is given them may edit them unless a later    *)
(* job resets the permissions, and the last job names the depositor.       *)
(***************************************************************************)

\* The job is followed by none that resets the permissions.
NotResetAfter(i) ==
  \A k \in DOMAIN propagations : k > i => ~propagations[k].reset

EditorsAhead ==
  {u \in Users :
     \/ \E i \in DOMAIN propagations : propagations[i].to = u /\ NotResetAfter(i)
     \/ u \in file.editors /\ NotResetAfter(0)}

DepositorAhead ==
  IF propagations = <<>> THEN file.depositor
  ELSE propagations[Len(propagations)].to

\* Only the first job was started, and nobody touched the files since.
JobsInTurn ==
  \A i \in DOMAIN propagations :
    propagations[i].started =>
      /\ i = 1
      /\ propagations[i].seen = file.editors
      /\ propagations[i].reset => file.editors = {}

\* How far the list of the work is from what the files will have, for a task
\* under way.
TaskSeesFiles(t) ==
  editors = IF t.pc = "grant" /\ t.reset THEN {}
            ELSE IF t.pc = "save"
            THEN (IF t.reset THEN {} ELSE EditorsAhead) \cup {t.to}
            ELSE EditorsAhead

FilesAhead ==
  /\ JobsInTurn
  /\ DepositorAhead = work.depositor
  /\ \A w \in Workers : Busy(w) => TaskSeesFiles(worker[w])
  /\ NoneUnderWay => editors = EditorsAhead

Orderly == ~overlapped /\ ~overtaken
-----------------------------------------------------------------------------
\* The first job leaves the queue, and the others move up.
LEMMA QueueWithoutFirst ==
  ASSUME NEW S, NEW q \in Seq(S), q # <<>>
  PROVE  /\ RemoveAt(q, 1) \in Seq(S)
         /\ Len(RemoveAt(q, 1)) = Len(q) - 1
         /\ \A k \in 1 .. Len(q) - 1 : RemoveAt(q, 1)[k] = q[k + 1]
<1>1. SubSeq(q, 1, 0) = <<>>
  OBVIOUS
<1>2. /\ SubSeq(q, 2, Len(q)) \in Seq(S)
      /\ Len(SubSeq(q, 2, Len(q))) = Len(q) - 1
      /\ \A k \in 1 .. Len(q) - 1 : SubSeq(q, 2, Len(q))[k] = q[k + 1]
  <2>1. Len(q) \in Nat /\ Len(q) # 0 /\ \A k \in 2 .. Len(q) : q[k] \in S
    OBVIOUS
  <2>2. \A k \in 1 .. Len(q) - 2 + 1 : SubSeq(q, 2, Len(q))[k] = q[2 + k - 1]
    BY <2>1, SubSeqProperties
  <2>3. /\ SubSeq(q, 2, Len(q)) \in Seq(S)
        /\ Len(SubSeq(q, 2, Len(q))) = IF 2 <= Len(q) THEN Len(q) - 2 + 1 ELSE 0
    BY <2>1, SubSeqProperties
  <2>4. Len(SubSeq(q, 2, Len(q))) = Len(q) - 1
    BY <2>1, <2>3
  <2>5. ASSUME NEW k \in 1 .. Len(q) - 1
        PROVE  SubSeq(q, 2, Len(q))[k] = q[k + 1]
    <3>1. k \in 1 .. Len(q) - 2 + 1 /\ 2 + k - 1 = k + 1
      BY <2>1
    <3>2. SubSeq(q, 2, Len(q))[k] = q[2 + k - 1]
      BY <2>2, <3>1
    <3> QED
      BY <3>1, <3>2
  <2> QED
    BY <2>3, <2>4, <2>5
<1>3. <<>> \o SubSeq(q, 2, Len(q)) = SubSeq(q, 2, Len(q))
  BY <1>2
<1>4. RemoveAt(q, 1) = SubSeq(q, 1, 1 - 1) \o SubSeq(q, 1 + 1, Len(q))
  BY DEF RemoveAt
<1>5. RemoveAt(q, 1) = SubSeq(q, 2, Len(q))
  BY <1>1, <1>3, <1>4
<1> QED
  BY <1>2, <1>5

\* A job that starts in its turn does not change what is ahead.
LEMMA StartKeepsAhead ==
  ASSUME TransferInv, JobsInTurn, ~overtaken', NEW i \in DOMAIN propagations,
         StartPropagation(i)
  PROVE  JobsInTurn' /\ EditorsAhead' = EditorsAhead /\ DepositorAhead' = DepositorAhead
<1> DEFINE seen == IF propagations[i].reset THEN {} ELSE file.editors
           job == [propagations[i] EXCEPT !.started = TRUE, !.seen = seen]
<1>1. /\ propagations \in Seq(Propagation) /\ propagations[i] \in Propagation
      /\ file \in [depositor : Users, editors : SUBSET Users] /\ i \in Nat
  BY DEF TransferInv, TransferTypeOK
<1>2. /\ file' = [file EXCEPT !.editors = seen]
      /\ propagations' = [propagations EXCEPT ![i] = job]
      /\ i = 1
  <2>1. ~(i > 1)
    BY DEF StartPropagation
  <2>2. i = 1
    BY <1>1, <2>1
  <2>3. /\ file' = [file EXCEPT !.editors = seen]
        /\ propagations' = [propagations EXCEPT ![i] = job]
    BY <1>1 DEF StartPropagation
  <2> QED
    BY <2>2, <2>3
<1>3. /\ job.to = propagations[i].to /\ job.reset = propagations[i].reset
      /\ job.seen = seen
  BY <1>1 DEF Propagation
<1>4. /\ DOMAIN propagations' = DOMAIN propagations
      /\ Len(propagations') = Len(propagations)
      /\ propagations'[i] = job
      /\ \A k \in DOMAIN propagations : k # i => propagations'[k] = propagations[k]
  BY <1>1, <1>2
<1>5. file'.editors = seen /\ file'.depositor = file.depositor
  BY <1>1, <1>2
<1> HIDE DEF job
<1>6. \A k \in DOMAIN propagations :
        /\ propagations'[k].to = propagations[k].to
        /\ propagations'[k].reset = propagations[k].reset
  BY <1>3, <1>4
<1>7. \A k \in Nat : NotResetAfter(k)' <=> NotResetAfter(k)
  BY <1>4, <1>6 DEF NotResetAfter
<1>8. NotResetAfter(0) => file'.editors = file.editors
  BY <1>1, <1>2, <1>5 DEF NotResetAfter
<1>9. EditorsAhead' = EditorsAhead
  BY <1>1, <1>4, <1>6, <1>7, <1>8 DEF EditorsAhead
<1>10. DepositorAhead' = DepositorAhead
  BY <1>1, <1>4, <1>5, <1>6 DEF DepositorAhead
<1>11. JobsInTurn'
  BY <1>1, <1>2, <1>3, <1>4, <1>5 DEF JobsInTurn
<1> QED
  BY <1>9, <1>10, <1>11

\* A job that ends in its turn gives the files what was ahead of it.
LEMMA FinishKeepsAhead ==
  ASSUME TransferInv, JobsInTurn, NEW i \in DOMAIN propagations, FinishPropagation(i)
  PROVE  JobsInTurn' /\ EditorsAhead' = EditorsAhead /\ DepositorAhead' = DepositorAhead
<1> DEFINE q == propagations
           n == Len(propagations)
<1>1. q \in Seq(Propagation) /\ q[i] \in Propagation /\ n \in Nat /\ DOMAIN q = 1 .. n
  BY DEF TransferInv, TransferTypeOK
<1>2. /\ i = 1 /\ q[1].seen = file.editors
      /\ q[1].reset => file.editors = {}
      /\ file' = [depositor |-> q[1].to, editors |-> q[1].seen \cup {q[1].to}]
      /\ propagations' = RemoveAt(q, 1)
  BY DEF FinishPropagation, JobsInTurn
<1>3. /\ Len(propagations') = n - 1 /\ DOMAIN propagations' = 1 .. n - 1
      /\ propagations' \in Seq(Propagation)
      /\ \A k \in 1 .. n - 1 : propagations'[k] = q[k + 1]
  <2>1. q # <<>>
    BY <1>1
  <2>2. /\ RemoveAt(q, 1) \in Seq(Propagation)
        /\ Len(RemoveAt(q, 1)) = n - 1
        /\ \A k \in 1 .. n - 1 : RemoveAt(q, 1)[k] = q[k + 1]
    BY <1>1, <2>1, QueueWithoutFirst
  <2>3. propagations' \in Seq(Propagation) /\ Len(propagations') = n - 1
    BY <1>2, <2>2
  <2>4. DOMAIN propagations' = 1 .. n - 1
    BY <2>3
  <2>5. \A k \in 1 .. n - 1 : propagations'[k] = q[k + 1]
    BY <1>2, <2>2
  <2> QED
    BY <2>3, <2>4, <2>5
<1>4. \A k \in 2 .. n : ~q[k].started
  <2>1. \A k \in 2 .. n : k \in DOMAIN q /\ k # 1
    BY <1>1
  <2> QED
    BY <2>1 DEF JobsInTurn
<1>5. JobsInTurn'
  BY <1>1, <1>3, <1>4 DEF JobsInTurn
<1>6. \A k \in 0 .. n - 1 : NotResetAfter(k)' <=> NotResetAfter(k + 1)
  <2> TAKE k \in 0 .. n - 1
  <2>1. ASSUME NotResetAfter(k + 1), NEW m \in 1 .. n - 1, m > k
        PROVE  ~propagations'[m].reset
    <3>1. m + 1 \in DOMAIN q /\ m + 1 > k + 1
      BY <1>1, <2>1
    <3>2. ~q[m + 1].reset
      BY <2>1, <3>1 DEF NotResetAfter
    <3> QED
      BY <1>3, <3>2
  <2>2. ASSUME NotResetAfter(k)', NEW m \in 1 .. n, m > k + 1
        PROVE  ~q[m].reset
    <3>1. m - 1 \in 1 .. n - 1 /\ m - 1 > k /\ (m - 1) + 1 = m
      BY <1>1, <2>2
    <3>2. ~propagations'[m - 1].reset
      BY <1>3, <2>2, <3>1 DEF NotResetAfter
    <3> QED
      BY <1>3, <3>1, <3>2
  <2> QED
    BY <1>1, <1>3, <2>1, <2>2 DEF NotResetAfter
<1>7. NotResetAfter(0) <=> NotResetAfter(1) /\ ~q[1].reset
  BY <1>1, <1>2 DEF NotResetAfter
<1>8. ASSUME NEW u \in Users
      PROVE  u \in EditorsAhead' <=> u \in EditorsAhead
  <2>1. (\E k \in DOMAIN propagations' : propagations'[k].to = u /\ NotResetAfter(k)')
          <=> \E k \in 2 .. n : q[k].to = u /\ NotResetAfter(k)
    <3>1. ASSUME NEW k \in 1 .. n - 1, propagations'[k].to = u, NotResetAfter(k)'
          PROVE  \E m \in 2 .. n : q[m].to = u /\ NotResetAfter(m)
      <4>1. k + 1 \in 2 .. n /\ q[k + 1].to = u /\ NotResetAfter(k + 1)
        BY <1>1, <1>3, <1>6, <3>1
      <4> QED
        BY <4>1
    <3>2. ASSUME NEW k \in 2 .. n, q[k].to = u, NotResetAfter(k)
          PROVE  \E m \in 1 .. n - 1 : propagations'[m].to = u /\ NotResetAfter(m)'
      <4>1. k - 1 \in 1 .. n - 1 /\ (k - 1) + 1 = k
        BY <1>1
      <4>2. propagations'[k - 1].to = u /\ NotResetAfter(k - 1)'
        BY <1>3, <1>6, <3>2, <4>1
      <4> QED
        BY <4>1, <4>2
    <3> QED
      BY <1>3, <3>1, <3>2
  <2>2. (u \in file'.editors /\ NotResetAfter(0)')
          <=> (u \in file.editors \/ u = q[1].to) /\ NotResetAfter(1)
    BY <1>1, <1>2, <1>6
  <2>3. (\E k \in DOMAIN q : q[k].to = u /\ NotResetAfter(k))
          <=> \/ q[1].to = u /\ NotResetAfter(1)
              \/ \E k \in 2 .. n : q[k].to = u /\ NotResetAfter(k)
    BY <1>1, <1>2
  <2>4. (u \in file.editors /\ NotResetAfter(0)) <=> u \in file.editors /\ NotResetAfter(1)
    BY <1>2, <1>7
  <2> QED
    BY <2>1, <2>2, <2>3, <2>4 DEF EditorsAhead
<1>9. EditorsAhead' = EditorsAhead
  BY <1>8 DEF EditorsAhead
<1>10. DepositorAhead' = DepositorAhead
  <2>1. CASE n = 1
    BY <1>1, <1>2, <1>3, <2>1 DEF DepositorAhead
  <2>2. CASE n # 1
    <3>1. n - 1 \in 1 .. n - 1 /\ (n - 1) + 1 = n /\ q # <<>> /\ propagations' # <<>>
      BY <1>1, <1>2, <1>3, <2>2
    <3> QED
      BY <1>3, <3>1 DEF DepositorAhead
  <2> QED
    BY <2>1, <2>2
<1> QED
  BY <1>5, <1>9, <1>10

\* Saving the work puts one more job ahead.
LEMMA SaveExtendsAhead ==
  ASSUME TransferInv, JobsInTurn, NEW w \in Workers, SaveWork(w)
  PROVE  /\ JobsInTurn'
         /\ DepositorAhead' = worker[w].to
         /\ EditorsAhead' = (IF worker[w].reset THEN {} ELSE EditorsAhead)
                              \cup {worker[w].to}
<1> DEFINE q == propagations
           n == Len(propagations)
           job == [to |-> worker[w].to, reset |-> worker[w].reset,
                   started |-> FALSE, seen |-> {}]
<1>1. /\ q \in Seq(Propagation) /\ n \in Nat /\ DOMAIN q = 1 .. n
      /\ worker[w] \in Task /\ worker[w].to \in Users
  BY DEF TransferInv, TransferTypeOK, TasksAreSound, Busy, SaveWork, GiveWork
<1>2. job \in Propagation
  BY <1>1 DEF Propagation, Task
<1>3. propagations' = Append(q, job) /\ file' = file
  BY DEF SaveWork, GiveWork
<1>4. job.to = worker[w].to /\ job.reset = worker[w].reset /\ ~job.started
  OBVIOUS
<1> HIDE DEF job
<1>5. /\ Len(propagations') = n + 1 /\ DOMAIN propagations' = 1 .. n + 1
      /\ propagations' # <<>>
      /\ propagations'[n + 1] = job
      /\ \A k \in 1 .. n : propagations'[k] = q[k]
  BY <1>1, <1>2, <1>3
<1>6. JobsInTurn'
  BY <1>1, <1>3, <1>4, <1>5 DEF JobsInTurn
<1>7. DepositorAhead' = worker[w].to
  BY <1>4, <1>5 DEF DepositorAhead
<1>8. \A k \in 0 .. n : NotResetAfter(k)' <=> NotResetAfter(k) /\ ~job.reset
  BY <1>1, <1>5 DEF NotResetAfter
<1>9. \A k \in {n + 1} : NotResetAfter(k)'
  BY <1>1, <1>5 DEF NotResetAfter
<1>10. ASSUME NEW u \in Users
       PROVE  u \in EditorsAhead' <=> u = job.to \/ (~job.reset /\ u \in EditorsAhead)
  <2>1. (\E k \in 1 .. n + 1 : propagations'[k].to = u /\ NotResetAfter(k)')
          <=> \/ job.to = u
              \/ \E k \in 1 .. n : q[k].to = u /\ NotResetAfter(k) /\ ~job.reset
    <3>1. \A k \in 1 .. n + 1 : k \in 1 .. n \/ k = n + 1
      BY <1>1
    <3>2. n + 1 \in 1 .. n + 1 /\ 1 .. n \subseteq 1 .. n + 1 /\ 1 .. n \subseteq 0 .. n
      BY <1>1
    <3>3. ASSUME NEW k \in 1 .. n + 1, propagations'[k].to = u, NotResetAfter(k)'
          PROVE  \/ job.to = u
                 \/ \E m \in 1 .. n : q[m].to = u /\ NotResetAfter(m) /\ ~job.reset
      BY <1>5, <1>8, <3>1, <3>2, <3>3
    <3>4. ASSUME NEW k \in 1 .. n, q[k].to = u, NotResetAfter(k), ~job.reset
          PROVE  propagations'[k].to = u /\ NotResetAfter(k)' /\ k \in 1 .. n + 1
      BY <1>5, <1>8, <3>2, <3>4
    <3>5. ASSUME job.to = u
          PROVE  \E k \in 1 .. n + 1 : propagations'[k].to = u /\ NotResetAfter(k)'
      <4>1. propagations'[n + 1].to = u
        BY <1>5, <3>5
      <4> QED
        BY <1>9, <3>2, <4>1, Zenon
    <3>6. (\E k \in 1 .. n + 1 : propagations'[k].to = u /\ NotResetAfter(k)')
            => \/ job.to = u
               \/ \E k \in 1 .. n : q[k].to = u /\ NotResetAfter(k) /\ ~job.reset
      BY <3>3, Zenon
    <3>7. (\E k \in 1 .. n : q[k].to = u /\ NotResetAfter(k) /\ ~job.reset)
            => \E k \in 1 .. n + 1 : propagations'[k].to = u /\ NotResetAfter(k)'
      BY <3>4, Zenon
    <3> QED
      BY <3>5, <3>6, <3>7, Zenon
  <2>2. (u \in file'.editors /\ NotResetAfter(0)')
          <=> u \in file.editors /\ NotResetAfter(0) /\ ~job.reset
    BY <1>1, <1>3, <1>8
  <2> QED
    BY <1>1, <1>5, <2>1, <2>2 DEF EditorsAhead
<1>11. EditorsAhead \subseteq Users /\ EditorsAhead' \subseteq Users
  BY DEF EditorsAhead
<1>12. EditorsAhead' = (IF worker[w].reset THEN {} ELSE EditorsAhead) \cup {worker[w].to}
  BY <1>1, <1>4, <1>10, <1>11
<1> QED
  BY <1>6, <1>7, <1>12

\* A step of a request that is no save leaves what is ahead, and brings the list
\* of the work nearer to it.
LEMMA WebKeepsFilesAhead ==
  ASSUME ~overlapped', TransferInv, SerialTransfers, FilesAhead, NEW w \in Workers,
         WebStep(w)
  PROVE  FilesAhead'
<1>t. worker \in [Workers -> Task] /\ worker[w] \in Task
  BY DEF TransferInv, TransferTypeOK
<1>b. Busy(w) => TaskSeesFiles(worker[w])
  BY DEF FilesAhead
<1>s. Busy(w) => TaskSeesStores(worker[w])
  BY DEF SerialTransfers
<1>1. ASSUME UNCHANGED <<propagations, file, work>>, NEW t \in Task,
             worker' = [worker EXCEPT ![w] = t], Busy(w) \/ NoneUnderWay,
             IF t.pc = "grant" /\ t.reset THEN editors' = {}
             ELSE IF t.pc = "save"
             THEN editors' = (IF t.reset THEN {} ELSE EditorsAhead) \cup {t.to}
             ELSE editors' = EditorsAhead
      PROVE  FilesAhead'
  <2>1. JobsInTurn' /\ EditorsAhead' = EditorsAhead /\ DepositorAhead' = DepositorAhead
    BY <1>1 DEF FilesAhead, JobsInTurn, EditorsAhead, DepositorAhead, NotResetAfter
  <2>2. \A v \in Workers : Busy(v)' => v = w /\ worker'[v] = t
    BY <1>1, <1>t DEF Busy, NoneUnderWay, SerialTransfers
  <2>3. TaskSeesFiles(t)'
    BY <1>1, <2>1 DEF TaskSeesFiles
  <2>4. \A v \in Workers : Busy(v)' => TaskSeesFiles(worker[v])'
    BY <2>2, <2>3 DEF TaskSeesFiles
  <2>5. NoneUnderWay' => editors' = EditorsAhead'
    <3>1. NoneUnderWay' => t.pc = "idle"
      BY <1>1, <1>t DEF NoneUnderWay, Busy
    <3> QED
      BY <2>3, <3>1 DEF TaskSeesFiles
  <2> QED
    BY <1>1, <2>1, <2>4, <2>5 DEF FilesAhead
<1>2. ASSUME NEW from \in Users, NEW to \in Users, CheckRequest(w, from, to)
      PROVE  FilesAhead'
  <2>1. PICK t \in Task : t = [worker[w] EXCEPT !.pc = "insert", !.from = from, !.to = to]
    BY <1>t DEF Task, User
  <2>2. /\ worker' = [worker EXCEPT ![w] = t] /\ t.pc = "insert"
        /\ UNCHANGED <<propagations, file, work, editors>> /\ NoneUnderWay
    BY <1>2, <1>t, <2>1
    DEF CheckRequest, StartRequest, NoneUnderWay, documents, jobs, Task
  <2> QED
    BY <1>1, <2>2 DEF FilesAhead
<1>3. CASE InsertRequest(w)
  <2>1. /\ worker' = [worker EXCEPT ![w] = Idle] /\ Idle.pc = "idle" /\ Busy(w)
        /\ worker[w].pc = "insert" /\ UNCHANGED <<propagations, file, work, editors>>
    BY <1>3 DEF InsertRequest, Busy, Idle, documents, jobs
  <2> QED
    BY <1>1, <1>b, <2>1, IdleIsATask DEF TaskSeesFiles
<1>4. ASSUME NEW r \in DOMAIN requests, NEW answer \in Answers, NEW reset \in BOOLEAN,
             LoadRequest(w, r, answer, reset)
      PROVE  FilesAhead'
  <2> DEFINE u == [pc |-> IF answer = "accepted" THEN "find" ELSE "fulfill",
                   from |-> requests[r].from, to |-> requests[r].to, request |-> r,
                   answer |-> answer, reset |-> reset, depositor |-> NoUser, seen |-> {}]
  <2>0. requests[r] \in Request /\ r \in Nat
    BY DEF TransferInv, TransferTypeOK
  <2>1. u \in Task
    BY <2>0 DEF Task, User, Request
  <2>2. PICK t \in Task : t = u
    BY <2>1
  <2>3. /\ worker' = [worker EXCEPT ![w] = t] /\ t.pc \in {"find", "fulfill"}
        /\ UNCHANGED <<propagations, file, work, editors>> /\ NoneUnderWay
    BY <1>4, <2>2
    DEF LoadRequest, TakeRequest, StartRequest, NoneUnderWay, documents, jobs
  <2> QED
    BY <1>1, <2>3 DEF FilesAhead
<1>5. CASE FindWork(w)
  <2> DEFINE u == [worker[w] EXCEPT
                     !.pc = IF worker[w].to = work.depositor THEN "fulfill"
                            ELSE IF worker[w].reset THEN "reset" ELSE "grant",
                     !.depositor = work.depositor, !.seen = editors]
  <2>0. u \in Task
    BY <1>t DEF TransferInv, TransferTypeOK, Task, User
  <2>1. PICK t \in Task : t = u
    BY <2>0
  <2>2. /\ worker' = [worker EXCEPT ![w] = t] /\ Busy(w) /\ worker[w].pc = "find"
        /\ UNCHANGED <<propagations, file, work, editors>>
    BY <1>5, <1>t, <2>1 DEF FindWork, Busy, documents, jobs
  <2>3. /\ t.pc = IF worker[w].to = work.depositor THEN "fulfill"
                  ELSE IF worker[w].reset THEN "reset" ELSE "grant"
        /\ t.reset = worker[w].reset
    BY <1>t, <2>1 DEF Task
  <2>4. t.pc # "save" /\ ~(t.pc = "grant" /\ t.reset)
    BY <2>3
  <2> QED
    BY <1>1, <1>b, <2>2, <2>4 DEF TaskSeesFiles
<1>6. CASE ResetAcl(w)
  <2>1. PICK t \in Task : t = [worker[w] EXCEPT !.pc = "grant", !.seen = {}]
    BY <1>t DEF Task
  <2>2. /\ worker' = [worker EXCEPT ![w] = t] /\ Busy(w) /\ worker[w].pc = "reset"
        /\ UNCHANGED <<propagations, file, work>>
        /\ t.pc = "grant" /\ t.reset = worker[w].reset
        /\ IF worker[w].seen = {} THEN editors' = editors ELSE editors' = {}
    BY <1>6, <1>t, <2>1 DEF ResetAcl, Busy, jobs, Task
  <2>3. worker[w].reset /\ worker[w].seen = editors
    BY <1>s, <2>2 DEF TaskSeesStores
  <2> QED
    BY <1>1, <2>2, <2>3
<1>7. CASE GrantAcl(w)
  <2>1. PICK t \in Task : t = [worker[w] EXCEPT !.pc = "save"]
    BY <1>t DEF Task
  <2>2. /\ worker' = [worker EXCEPT ![w] = t] /\ Busy(w) /\ worker[w].pc = "grant"
        /\ UNCHANGED <<propagations, file, work>>
        /\ t.pc = "save" /\ t.reset = worker[w].reset /\ t.to = worker[w].to
        /\ editors' = worker[w].seen \cup {worker[w].to}
    BY <1>7, <1>t, <2>1 DEF GrantAcl, ExtendAcl, Busy, jobs, Task
  <2>3. worker[w].seen = IF worker[w].reset THEN {} ELSE EditorsAhead
    BY <1>b, <1>s, <2>2 DEF TaskSeesStores, TaskSeesFiles
  <2> QED
    BY <1>1, <2>2, <2>3
<1>8. CASE SaveWork(w)
  <2>1. PICK t \in Task : t = [worker[w] EXCEPT !.pc = "fulfill"]
    BY <1>t DEF Task
  <2>2. /\ worker' = [worker EXCEPT ![w] = t] /\ Busy(w) /\ worker[w].pc = "save"
        /\ editors' = editors /\ work'.depositor = worker[w].to /\ t.pc = "fulfill"
    BY <1>8, <1>t, <2>1 DEF SaveWork, GiveWork, Busy, Task
  <2>3. /\ JobsInTurn' /\ DepositorAhead' = worker[w].to
        /\ EditorsAhead' = (IF worker[w].reset THEN {} ELSE EditorsAhead)
                             \cup {worker[w].to}
    BY <1>8, SaveExtendsAhead DEF FilesAhead
  <2>4. editors' = EditorsAhead'
    BY <1>b, <2>2, <2>3 DEF TaskSeesFiles
  <2>5. \A v \in Workers : Busy(v)' => v = w /\ worker'[v] = t
    BY <1>t, <2>2 DEF Busy, SerialTransfers
  <2>6. \A v \in Workers : Busy(v)' => TaskSeesFiles(worker[v])'
    BY <2>2, <2>4, <2>5 DEF TaskSeesFiles
  <2> QED
    BY <2>2, <2>3, <2>4, <2>6 DEF FilesAhead
<1>9. CASE ValidateAnswer(w)
  <2>1. PICK u \in Task : u = [worker[w] EXCEPT !.pc = "store"]
    BY <1>t DEF Task
  <2>2. /\ Busy(w) /\ worker[w].pc = "fulfill"
        /\ UNCHANGED <<propagations, file, work, editors>>
        /\ \/ worker' = [worker EXCEPT ![w].pc = "store"]
           \/ worker' = [worker EXCEPT ![w] = Idle]
    BY <1>9 DEF ValidateAnswer, Validated, Busy, documents, jobs
  <2>3. PICK t \in {u, Idle} : worker' = [worker EXCEPT ![w] = t]
    BY <1>t, <2>1, <2>2
  <2>4. t \in Task /\ t.pc \in {"store", "idle"}
    BY <1>t, <2>1, <2>3, IdleIsATask DEF Idle, Task
  <2> QED
    BY <1>1, <1>b, <2>2, <2>3, <2>4 DEF TaskSeesFiles
<1>10. CASE Fulfill(w)
  <2>1. /\ worker' = [worker EXCEPT ![w] = Idle] /\ Idle.pc = "idle" /\ Busy(w)
        /\ worker[w].pc = "store" /\ UNCHANGED <<propagations, file, work, editors>>
    BY <1>10 DEF Fulfill, Busy, Idle, documents, jobs
  <2> QED
    BY <1>1, <1>b, <2>1, IdleIsATask DEF TaskSeesFiles
<1> QED
  BY <1>2, <1>3, <1>4, <1>5, <1>6, <1>7, <1>8, <1>9,
     <1>10 DEF WebStep

LEMMA FilesAheadInductive ==
  ASSUME TransferInv, SerialTransfers, FilesAhead, [TransferNext]_transferVars,
         Orderly'
  PROVE  FilesAhead'
<1>1. ASSUME UNCHANGED <<work, editors, worker>>, JobsInTurn',
             EditorsAhead' = EditorsAhead, DepositorAhead' = DepositorAhead
      PROVE  FilesAhead'
  BY <1>1 DEF FilesAhead, TaskSeesFiles, Busy, NoneUnderWay
<1>2. ASSUME NEW i \in DOMAIN propagations, StartPropagation(i)
      PROVE  FilesAhead'
  <2>1. ~overtaken' /\ JobsInTurn
    BY DEF Orderly, FilesAhead
  <2>2. UNCHANGED <<work, editors, worker>>
    BY <1>2 DEF StartPropagation
  <2> QED
    BY <1>1, <1>2, <2>1, <2>2, StartKeepsAhead
<1>3. ASSUME NEW i \in DOMAIN propagations, FinishPropagation(i)
      PROVE  FilesAhead'
  <2>1. UNCHANGED <<work, editors, worker>>
    BY <1>3 DEF FinishPropagation
  <2> QED
    BY <1>1, <1>3, <2>1, FinishKeepsAhead DEF FilesAhead
<1>4. ASSUME UNCHANGED <<work, editors, worker, propagations, file>>
      PROVE  FilesAhead'
  BY <1>1, <1>4
  DEF FilesAhead, JobsInTurn, EditorsAhead, DepositorAhead, NotResetAfter
<1>5. CASE LogEvent
  BY <1>4, <1>5 DEF LogEvent, documents
<1>6. ASSUME NEW w \in Workers, WebStep(w)
      PROVE  FilesAhead'
  BY <1>6, WebKeepsFilesAhead DEF Orderly
<1>7. CASE UNCHANGED transferVars
  BY <1>4, <1>7 DEF transferVars
<1> QED
  BY <1>2, <1>3, <1>5, <1>6, <1>7 DEF TransferNext, JobStep

LEMMA OvertakingStays ==
  ASSUME [TransferNext]_transferVars, ~overtaken'
  PROVE  ~overtaken
<1>1. CASE JobStep
  BY <1>1 DEF JobStep, StartPropagation, FinishPropagation, LogEvent
<1>2. ASSUME NEW w \in Workers, WebStep(w)
      PROVE  ~overtaken
  BY <1>2
  DEF WebStep, CheckRequest, InsertRequest, LoadRequest, TakeRequest, FindWork,
      ResetAcl, GrantAcl, ExtendAcl, SaveWork, GiveWork, Fulfill,
      ValidateAnswer, Validated, jobs
<1>3. CASE UNCHANGED transferVars
  BY <1>3 DEF transferVars
<1> QED
  BY <1>1, <1>2, <1>3 DEF TransferNext

\* Until web requests overlap or a job overtakes another, however many transfers
\* are waiting for their files: once the queue is empty the files have the work's
\* depositor and may be edited by those who may edit the work
\* (propagate_change_depositor_job.rb).
THEOREM FilesCatchUp == TransferSpec => []FilesFollowWork
<1>1. TransferInit => FilesAhead
  <2> SUFFICES ASSUME TransferInit PROVE FilesAhead
    OBVIOUS
  <2>1. /\ propagations = <<>> /\ worker = [w \in Workers |-> Idle]
        /\ editors \in SUBSET Users
        /\ file = [depositor |-> work.depositor, editors |-> editors]
    BY DEF TransferInit
  <2>2. EditorsAhead = editors /\ DepositorAhead = work.depositor /\ JobsInTurn
    BY <2>1 DEF EditorsAhead, DepositorAhead, JobsInTurn, NotResetAfter
  <2> QED
    BY <2>1, <2>2 DEF FilesAhead, Busy, Idle
<1>2. ASSUME TransferInv, ~overlapped => SerialTransfers, Orderly => FilesAhead,
             [TransferNext]_transferVars
      PROVE  Orderly' => FilesAhead'
  <2> SUFFICES ASSUME Orderly' PROVE FilesAhead'
    OBVIOUS
  <2>1. ~overlapped /\ ~overtaken
    BY <1>2, OverlapStays, OvertakingStays DEF Orderly
  <2> QED
    BY <1>2, <2>1, FilesAheadInductive DEF Orderly
<1>3. ASSUME TransferInv, Orderly => FilesAhead
      PROVE  FilesFollowWork
  <2> SUFFICES ASSUME AtRest, ~overtaken
               PROVE  file = [depositor |-> work.depositor, editors |-> editors]
    BY DEF FilesFollowWork
  <2>1. FilesAhead /\ NoneUnderWay /\ propagations = <<>>
    BY <1>3 DEF AtRest, WebAtRest, Orderly
  <2>2. file \in [depositor : Users, editors : SUBSET Users]
    BY <1>3 DEF TransferInv, TransferTypeOK
  <2>3. DOMAIN propagations = {}
    BY <2>1
  <2>4. EditorsAhead = file.editors /\ DepositorAhead = file.depositor
    BY <2>1, <2>2, <2>3 DEF EditorsAhead, DepositorAhead, NotResetAfter
  <2>5. file.depositor = work.depositor /\ file.editors = editors
    BY <2>1, <2>4 DEF FilesAhead
  <2> QED
    BY <2>2, <2>5
<1> QED
  BY <1>1, <1>2, <1>3, SerialUntilOverlap, PTL DEF TransferSpec
=============================================================================
