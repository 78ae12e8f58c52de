----------------------------- MODULE Transfers -----------------------------
(***************************************************************************)
(* Transfers of the ownership of one work (ProxyDepositRequest,            *)
(* TransfersController, ChangeDepositorService).  Its depositor asks a     *)
(* user to take it; that user accepts or rejects, or the depositor         *)
(* cancels.  Accepting writes the work's list of permissions, its document *)
(* in the index, the work and the request, one after the other, and leaves *)
(* the work's files and the activity stream to jobs.                       *)
(*                                                                         *)
(* Of the permissions only who may edit is modelled, and of users those    *)
(* who are not administrators.  The files of a work, which one job treats  *)
(* alike, are one.  The work is kept by an adapter of Valkyrie, not Wings. *)
(***************************************************************************)
EXTENDS Naturals, Sequences, FiniteSets, SequencesExt

CONSTANTS
  Users,
  Workers,      \* web workers
  NoUser,       \* the previous depositor of a work never transferred
  MaxRequests,  \* bound on the requests for a transfer
  MaxTransfers  \* bound on the answers that accept one

ASSUME UsersAssumption == NoUser \notin Users
ASSUME RunAssumption == {MaxRequests, MaxTransfers} \subseteq Nat

VARIABLES
  requests,      \* the ProxyDepositRequests, oldest first
  work,          \* the stored depositor and proxy_depositor
  editors,       \* who may edit, in the work's AccessControl
  indexed,       \* the depositor in the work's Solr document
  file,          \* the depositor of the work's files, and who may edit them
  propagations,  \* the PropagateChangeDepositorJobs, oldest first
  events,        \* how many ChangeDepositorEventJobs wait
  logged,        \* the transfers the activity stream tells of
  made,          \* history: the transfers that were made, in their order
  overlapped,    \* history: did a web request start while another was under way?
  overtaken,     \* history: was a job started before an earlier one had ended?
  worker         \* what each web worker is doing

documents == <<work, editors, indexed, file>>
jobs == <<propagations, events, logged, overtaken>>
history == <<made, overlapped>>
transferVars ==
  <<requests, work, editors, indexed, file, propagations, events, logged, made,
    overlapped, overtaken, worker>>

User == Users \cup {NoUser}
Answers == {"accepted", "rejected", "canceled"}
Request == [from : Users, to : Users, status : {"pending"} \cup Answers]
Transfer == [from : Users, to : Users]
\* seen: who may edit the file, as far as the job has read it
Propagation == [to : Users, reset : BOOLEAN, started : BOOLEAN, seen : SUBSET Users]
Task ==
  [pc : {"idle", "insert", "find", "reset", "grant", "save", "fulfill",
         "store"},
   from : User, to : User,  \* the users of the request
   request : Nat,           \* its place in requests, once it has one
   answer : Answers, reset : BOOLEAN,
   depositor : User,        \* of the work in memory
   seen : SUBSET Users]     \* who may edit, of the list in memory
Idle == [pc |-> "idle", from |-> NoUser, to |-> NoUser, request |-> 0,
         answer |-> "rejected", reset |-> FALSE, depositor |-> NoUser, seen |-> {}]

TransferTypeOK ==
  /\ requests \in Seq(Request)
  /\ work \in [depositor : Users, proxy : User]
  /\ editors \subseteq Users
  /\ indexed \in Users
  /\ file \in [depositor : Users, editors : SUBSET Users]
  /\ propagations \in Seq(Propagation)
  /\ events \in Nat
  /\ logged \subseteq Transfer
  /\ made \in Seq(Transfer)
  /\ overlapped \in BOOLEAN /\ overtaken \in BOOLEAN
  /\ worker \in [Workers -> Task]

Open == {r \in DOMAIN requests : requests[r].status = "pending"}
Busy(w) == worker[w].pc # "idle"

\* A work just deposited, on which others may have been given edit access.
TransferInit ==
  \E owner \in Users :
    /\ requests = <<>>
    /\ work = [depositor |-> owner, proxy |-> NoUser]
    /\ editors \in {e \in SUBSET Users : owner \in e}
    /\ indexed = owner
    /\ file = [depositor |-> owner, editors |-> editors]
    /\ propagations = <<>> /\ events = 0 /\ logged = {}
    /\ made = <<>> /\ overlapped = FALSE /\ overtaken = FALSE
    /\ worker = [w \in Workers |-> Idle]
-----------------------------------------------------------------------------
(* Web requests.                                                           *)

StartRequest(w) ==
  /\ ~Busy(w)
  /\ overlapped' = (overlapped \/ \E v \in Workers : Busy(v))

\* TransfersController#create: the ability asks the index who the depositor is,
\* and should_not_be_already_part_of_a_transfer looks for open requests ...
CheckRequest(w, from, to) ==
  /\ StartRequest(w)
  /\ Len(requests)
       + Cardinality({v \in Workers : worker[v].pc = "insert"}) < MaxRequests
  /\ from = indexed
  /\ from # to
  /\ Open = {}
  /\ worker' = [worker EXCEPT ![w].pc = "insert", ![w].from = from, ![w].to = to]
  /\ UNCHANGED <<requests, documents, jobs, made>>

\* ... before the row is inserted.
InsertRequest(w) ==
  /\ worker[w].pc = "insert"
  /\ requests' = Append(requests, [from |-> worker[w].from, to |-> worker[w].to,
                                   status |-> "pending"])
  /\ worker' = [worker EXCEPT ![w] = Idle]
  /\ UNCHANGED <<documents, jobs, history>>

\* Those made, and those being made.
TransferCount == Len(made)
  + Cardinality({v \in Workers :
                   /\ worker[v].answer = "accepted"
                   /\ worker[v].pc \notin {"fulfill", "store"}})

TakeRequest(w, r, answer, reset) ==
  /\ StartRequest(w)
  /\ reset => answer = "accepted"
  /\ answer = "accepted" => TransferCount < MaxTransfers
  /\ worker' = [worker EXCEPT ![w] =
       [pc |-> IF answer = "accepted" THEN "find" ELSE "fulfill",
        from |-> requests[r].from, to |-> requests[r].to, request |-> r,
        answer |-> answer, reset |-> reset, depositor |-> NoUser, seen |-> {}]]
  /\ UNCHANGED <<requests, documents, jobs, made>>

\* accept, reject and destroy load a request, and the ability wants it pending.
LoadRequest(w, r, answer, reset) ==
  /\ requests[r].status = "pending"
  /\ TakeRequest(w, r, answer, reset)

\* transfer!: the work is found, and its list of permissions read; nobody is
\* given what they have.
FindWork(w) ==
  /\ worker[w].pc = "find"
  /\ worker' = [worker EXCEPT
       ![w].pc = IF worker[w].to = work.depositor THEN "fulfill"
                 ELSE IF worker[w].reset THEN "reset" ELSE "grant",
       ![w].depositor = work.depositor, ![w].seen = editors]
  /\ UNCHANGED <<requests, documents, jobs, history>>

\* reset: an empty list is saved, unless it was empty, and its listener indexes
\* the work as it was found.
ResetAcl(w) ==
  /\ worker[w].pc = "reset"
  /\ IF worker[w].seen = {}
     THEN UNCHANGED <<editors, indexed>>
     ELSE editors' = {} /\ indexed' = worker[w].depositor
  /\ worker' = [worker EXCEPT ![w].pc = "grant", ![w].seen = {}]
  /\ UNCHANGED <<requests, work, file, jobs, history>>

ExtendAcl(w, depositor) ==
  /\ worker[w].pc = "grant"
  /\ editors' = worker[w].seen \cup {worker[w].to}
  /\ indexed' = depositor
  /\ worker' = [worker EXCEPT ![w].pc = "save"]
  /\ UNCHANGED <<requests, work, file, jobs, history>>

\* Mutant: the depositor is assigned after the access is granted.
GrantAclBeforeDepositor(w) == ExtendAcl(w, worker[w].depositor)

\* apply_depositor_metadata: the list is saved, even if the user was on it, for it
\* has a change; the listener indexes the work, which has its new depositor by now.
GrantAcl(w) == ExtendAcl(w, worker[w].to)

GiveWork(w, proxy, reset) ==
  /\ worker[w].pc = "save"
  /\ work' = [depositor |-> worker[w].to, proxy |-> proxy]
  /\ made' = Append(made, [from |-> worker[w].depositor, to |-> worker[w].to])
  /\ propagations' = Append(propagations,
       [to |-> worker[w].to, reset |-> reset, started |-> FALSE, seen |-> {}])
  /\ events' = events + 1
  /\ worker' = [worker EXCEPT ![w].pc = "fulfill"]
  /\ UNCHANGED <<requests, editors, indexed, file, logged, overlapped, overtaken>>

\* Mutant: the files keep their permissions.
SaveWorkKeepingFiles(w) == GiveWork(w, worker[w].depositor, FALSE)

\* Mutant: the previous depositor is not kept.
SaveWorkWithoutProxy(w) == GiveWork(w, NoUser, worker[w].reset)

\* The work is saved, without an event that would index it, and the jobs queued.
SaveWork(w) == GiveWork(w, worker[w].depositor, worker[w].reset)

Validated(w, valid) ==
  /\ worker[w].pc = "fulfill"
  /\ worker' = IF valid THEN [worker EXCEPT ![w].pc = "store"]
               ELSE [worker EXCEPT ![w] = Idle]
  /\ UNCHANGED <<requests, documents, jobs, history>>

\* Mutant: the validation is for new requests.
ValidateAlways(w) == Validated(w, TRUE)

\* fulfill!: save! validates again that no other request is open, and raises if
\* there is one; it does not ask whether this one still is ...
ValidateAnswer(w) == Validated(w, Open \subseteq {worker[w].request})

\* ... before the row is updated.
Fulfill(w) ==
  /\ worker[w].pc = "store"
  /\ requests' = [requests EXCEPT ![worker[w].request].status = worker[w].answer]
  /\ worker' = [worker EXCEPT ![w] = Idle]
  /\ UNCHANGED <<documents, jobs, history>>
-----------------------------------------------------------------------------
(* Jobs.                                                                   *)

\* PropagateChangeDepositorJob reads the files and resets their permissions ...
StartPropagation(i) ==
  LET job == propagations[i]
      seen == IF job.reset THEN {} ELSE file.editors IN
  /\ ~job.started
  /\ overtaken' = (overtaken \/ i > 1)
  /\ file' = [file EXCEPT !.editors = seen]
  /\ propagations' = [propagations EXCEPT ![i].started = TRUE, ![i].seen = seen]
  /\ UNCHANGED <<requests, work, editors, indexed, events, logged, history, worker>>

\* ... and gives them to the depositor it was told.
FinishPropagation(i) ==
  LET job == propagations[i] IN
  /\ job.started
  /\ file' = [depositor |-> job.to, editors |-> job.seen \cup {job.to}]
  /\ propagations' = RemoveAt(propagations, i)
  /\ UNCHANGED <<requests, work, editors, indexed, events, logged, history, overtaken,
                 worker>>

\* ChangeDepositorEventJob is told the work's id, and reads the work when it runs.
LogEvent ==
  /\ events > 0
  /\ logged' = logged \cup {[from |-> work.proxy, to |-> work.depositor]}
  /\ events' = events - 1
  /\ UNCHANGED <<requests, documents, propagations, history, overtaken, worker>>

WebStep(w) ==
  \/ \E from, to \in Users : CheckRequest(w, from, to)
  \/ InsertRequest(w)
  \/ \E r \in DOMAIN requests, answer \in Answers, reset \in BOOLEAN :
       LoadRequest(w, r, answer, reset)
  \/ FindWork(w)
  \/ ResetAcl(w)
  \/ GrantAcl(w)
  \/ SaveWork(w)
  \/ ValidateAnswer(w)
  \/ Fulfill(w)

JobStep ==
  \/ \E i \in DOMAIN propagations : StartPropagation(i)
  \/ \E i \in DOMAIN propagations : FinishPropagation(i)
  \/ LogEvent

TransferNext == JobStep \/ \E w \in Workers : WebStep(w)

TransferSpec == TransferInit /\ [][TransferNext]_transferVars
-----------------------------------------------------------------------------
(* What holds when no web requests have overlapped.                         *)

NoneUnderWay == \A w \in Workers : ~Busy(w)
WebAtRest == ~overlapped /\ NoneUnderWay
AtRest == WebAtRest /\ propagations = <<>>
Accepted == {r \in DOMAIN requests : requests[r].status = "accepted"}

\* Although the files are given away by a job that is told the user, and the work
\* by the request: when all is done they have the same depositor, and the same
\* users may edit them, unless a transfer overtook an earlier one in the queue.
FilesFollowWork ==
  AtRest /\ ~overtaken => file = [depositor |-> work.depositor, editors |-> editors]

\* Although permissions are emptied and granted by separate saves, and saving the
\* work does not index it: whoever a work belongs to may edit it, and is its
\* depositor in the index, which decides who may ask another to take it.
AccessFollowsDepositor ==
  WebAtRest => work.depositor \in editors /\ indexed = work.depositor

\* Although the answer is stored after the work is given away: the work belongs to
\* the user who was the last to accept it.
LastToAcceptOwns ==
  WebAtRest /\ Accepted # {} =>
    \E r \in Accepted :
      (\A s \in Accepted : s <= r) /\ work.depositor = requests[r].to
-----------------------------------------------------------------------------
(* What holds however they overlap.                                        *)

\* Both are open, and no answer to either is about to be stored, having passed
\* the validation before the other was inserted.
Barred(r, s) ==
  /\ r # s /\ {r, s} \subseteq Open
  /\ \A w \in Workers : worker[w].pc = "store" => worker[w].request \notin {r, s}

\* Although fulfill! does not ask whether its own request is still open, and checks
\* and stores by two statements: two open requests bar each other for good, and
\* neither is ever answered, unless an answer was already validated when the
\* second of them came.
DuplicatesNeverClose ==
  [][\A r, s \in DOMAIN requests : Barred(r, s) => Barred(r, s)']_transferVars

\* Although the job reads the work when it runs: what the activity stream says is
\* a transfer that was made, from one user to one other.
StreamNamesTransfers == logged \subseteq Range(made)

\* Violated: a work has one open request.
OneOpenTransfer == Cardinality(Open) <= 1
=============================================================================
