------------------------- MODULE PoolRegistryProofs -------------------------
(***************************************************************************)
(* The pool implements Registry, for every number of clients, mailboxes,   *)
(* jobs and accounts: ImplementsRegistry.  Most steps of the pool are      *)
(* stutters of the registry; the others are the INSERT of a job, the call  *)
(* of the backend, the INSERT of an account and a write that links a       *)
(* mailbox.  From the same invariant: KeepaliveOnOwnMailbox.               *)
(***************************************************************************)
EXTENDS PoolProofs

(***************************************************************************)
(* What a step changes of tasks and owners.                                *)
(***************************************************************************)

TaskKept(j) == /\ jobs'[j].type = jobs[j].type /\ jobs'[j].email = jobs[j].email
               /\ jobs'[j].account = jobs[j].account
               /\ Exists(j)' <=> Exists(j)
TasksKept == \A j \in Ids : TaskKept(j)
OwnersKept == \A a \in AccountIds : /\ accounts'[a].email = accounts[a].email
                                    /\ a \in InsertedAccounts' <=> a \in InsertedAccounts

LEMMA TaskFrame ==
  ASSUME TypeOK, RefsValid, Next
  PROVE  TasksKept \/ \E r \in Requests : JobInsert(r)
<1>1. ASSUME NEW j \in InsertedJobs, NEW status \in JobStatus, jobs' = [jobs EXCEPT ![j].status = status]
      PROVE  TasksKept
  BY <1>1 DEF TasksKept, TaskKept, InsertedJobs, Exists, TypeOK, JobRow, JobStatus
<1>2. {"cancelled", "running", "succeeded", "blocked", "failed"} \subseteq JobStatus
  BY DEF JobStatus
<1>3. ASSUME NEW r \in Requests, CancelJob(r) PROVE TasksKept
  <2>1. req[r].job \in InsertedJobs
    BY <1>3 DEF CancelJob, At, RefsValid, RequestFits, WithJob
  <2>. QED
    BY <1>1, <1>2, <1>3, <2>1 DEF CancelJob
<1>4. ASSUME WorkerClaim \/ OkJob \/ FailJob PROVE TasksKept
  <2>1. worker.job \in InsertedJobs
    BY <1>4 DEF WorkerClaim, OkJob, FailJob, RefsValid, WorkerFits
  <2>. QED
    BY <1>1, <1>2, <1>4, <2>1 DEF WorkerClaim, OkJob, FailJob
<1>5. ASSUME UNCHANGED jobs PROVE TasksKept
  BY <1>5 DEF TasksKept, TaskKept, Exists
<1>. QED
  BY <1>3, <1>4, <1>5, CallWrites, EnqueueWrites, CancelWrites, MailboxStepWrites,
     AccountStepWrites, WorkerWrites, OtherWrites DEF Next, HandlerSteps

LEMMA OwnerFrame ==
  ASSUME TypeOK, RefsValid, Next
  PROVE  OwnersKept \/ OkAccount
<1>1. ASSUME NEW r \in Requests, ReleaseWrite(r) PROVE OwnersKept
  <2>1. req[r].account \in InsertedAccounts
    BY <1>1 DEF ReleaseWrite, At, RefsValid, RequestFits
  <2>. QED
    BY <1>1, <2>1 DEF ReleaseWrite, OwnersKept, InsertedAccounts, TypeOK, AccountRow
<1>2. ASSUME NEW r \in Requests, NEW a \in AccountIds, CheckoutLease(r, a) PROVE OwnersKept
  <2>1. a \in InsertedAccounts
    BY <1>2 DEF CheckoutLease, RefsValid, RequestFits
  <2>. QED
    BY <1>2, <2>1 DEF CheckoutLease, OwnersKept, InsertedAccounts, TypeOK, AccountRow
<1>3. ASSUME NEW r \in Requests, NEW a \in AccountIds, DisableCall(r, a) PROVE OwnersKept
  BY <1>3 DEF DisableCall, OwnersKept, InsertedAccounts, TypeOK, AccountRow
<1>4. CASE UNCHANGED accounts
  BY <1>4 DEF OwnersKept, InsertedAccounts
<1>. QED
  BY <1>1, <1>2, <1>3, <1>4, CallWrites, EnqueueWrites, CancelWrites, MailboxStepWrites,
     AccountStepWrites, WorkerWrites, OtherWrites DEF Next, HandlerSteps

LEMMA OwnsStays ==
  ASSUME TypeOK, RefsValid, Next, NEW account, NEW email, Owns(account, email)
  PROVE  Owns(account, email)'
BY AccountsStay DEF Owns, AccountsKept

LEMMA PresentStays ==
  ASSUME TypeOK, RefsValid, LinkInv, Next, NEW email \in Emails, Present(email)
  PROVE  Present(email)'
BY MailboxesFit DEF Present, RowFits

(***************************************************************************)
(* CalledOnce.                                                             *)
(***************************************************************************)

\* How the worker comes to work on a job that was called.
LEMMA WorkerCalls ==
  ASSUME TypeOK, Next
  PROVE  \/ UNCHANGED worker
         \/ WorkerLaunch
         \/ /\ OkLease /\ worker'.job = worker.job
            /\ jobs[worker.job].type = "keepalive" => worker'.step = "ok_restore"
         \/ /\ worker.step \in Called /\ worker'.job = worker.job
            /\ worker'.step # "ok_account"
         \/ worker'.step \notin Called
<1>1. worker \in WorkerState
  BY DEF TypeOK
<1>2. \A step : Goto(step) => worker'.step = step /\ worker'.job = worker.job
  BY <1>1 DEF Goto, WorkerState
<1>3. CASE WorkerPoll \/ WorkerNoBackend
  BY <1>1, <1>3 DEF WorkerPoll, WorkerNoBackend, WorkerState, Called
<1>4. CASE WorkerClaim \/ WorkerDies \/ OkRestore \/ OkBind \/ FailJob \/ FailMailbox
  BY <1>2, <1>4 DEF WorkerClaim, WorkerDies, OkRestore, OkBind, FailJob, FailMailbox, Called
<1>5. CASE BackendStep
  BY <1>1, <1>5 DEF BackendStep, BackendReturns, WorkerState, Called
<1>6. CASE OkJob
  BY <1>2, <1>6 DEF OkJob, Called
<1>7. CASE OkLease
  BY <1>2, <1>7 DEF OkLease
<1>8. CASE OkAccount \/ FailRead
  BY <1>1, <1>8 DEF OkAccount, FailRead, WorkerState, Called
<1>9. CASE OkEvent \/ FailLease \/ Restart
  BY <1>9 DEF OkEvent, FailLease, Restart, IdleWorker, Called
<1>10. CASE WorkerError
  <2>1. \/ worker' = [worker EXCEPT !.step = "dead"]
        \/ worker' = [worker EXCEPT !.step = "fail_job", !.outcome = "check_fail"]
    BY <1>10 DEF WorkerError
  <2>. QED
    BY <1>1, <2>1 DEF WorkerState, Called
<1>. QED
  BY <1>3, <1>4, <1>5, <1>6, <1>7, <1>8, <1>9, <1>10, CallWrites, EnqueueWrites, CancelWrites,
     MailboxStepWrites, AccountStepWrites, OtherWrites
     DEF Next, HandlerSteps, WorkerNext, ClaimSteps, SuccessSteps, FailureSteps

LEMMA LaunchFrame ==
  ASSUME Next
  PROVE  UNCHANGED launched \/ WorkerLaunch
BY CallWrites, EnqueueWrites, CancelWrites, MailboxStepWrites, AccountStepWrites, WorkerWrites,
   OtherWrites DEF Next, HandlerSteps

\* The launch is the first one of its job.
LEMMA LaunchIsFirst ==
  ASSUME TypeOK, RefsValid, LaunchInv, WorkerLaunch
  PROVE  /\ worker.job \in InsertedJobs /\ launched[worker.job] = 0
         /\ launched' = [launched EXCEPT ![worker.job] = 1]
         /\ worker'.job = worker.job /\ worker'.step = "backend"
<1>1. worker.job \in InsertedJobs /\ worker.step = "load"
  BY DEF WorkerLaunch, RefsValid, WorkerFits
<1>2. launched[worker.job] = 0
  BY <1>1 DEF LaunchInv
<1>3. launched' = [launched EXCEPT ![worker.job] = launched[worker.job] + 1]
  BY DEF WorkerLaunch
<1>4. worker'.job = worker.job /\ worker'.step = "backend"
  BY DEF WorkerLaunch, Goto, TypeOK, WorkerState
<1>. QED
  BY <1>1, <1>2, <1>3, <1>4

LEMMA CalledStays ==
  ASSUME TypeOK, RefsValid, LaunchInv, CalledOnce, Next
  PROVE  CalledOnce'
<1>1. worker.step \in Called => /\ worker.job \in InsertedJobs
                                /\ jobs'[worker.job].type = jobs[worker.job].type
  BY JobsStay DEF Called, RefsValid, WorkerFits, JobsKept
<1>2. launched \in [Ids -> Nat] /\ jobs \in [Ids -> JobRow]
  BY DEF TypeOK
<1>3. CASE WorkerLaunch
  BY <1>2, <1>3, LaunchIsFirst DEF CalledOnce, Called, InsertedJobs
<1>4. CASE UNCHANGED launched /\ UNCHANGED worker
  BY <1>1, <1>4 DEF CalledOnce, Called
<1>5. ASSUME UNCHANGED launched, OkLease, worker'.job = worker.job,
             jobs[worker.job].type = "keepalive" => worker'.step = "ok_restore"
      PROVE  CalledOnce'
  <2>1. worker.step \in Called
    BY <1>5 DEF OkLease, Called
  <2>2. jobs[worker.job].type \in {"register", "keepalive"}
    BY <1>1, <1>2, <2>1 DEF InsertedJobs, JobRow
  <2>. QED
    BY <1>1, <1>5, <2>1, <2>2 DEF CalledOnce, Called
<1>6. ASSUME UNCHANGED launched, worker.step \in Called, worker'.job = worker.job,
             worker'.step # "ok_account"
      PROVE  CalledOnce'
  BY <1>6 DEF CalledOnce
<1>7. CASE worker'.step \notin Called
  BY <1>7 DEF CalledOnce, Called
<1>. QED
  BY <1>3, <1>4, <1>5, <1>6, <1>7, WorkerCalls, LaunchFrame

(***************************************************************************)
(* What a request is about to insert.                                      *)
(***************************************************************************)

\* A request that is not about to insert a job for an account.
Taskless(q) == /\ q.step \notin {"lease_insert", "job_insert"}
               /\ q.step \in {"idle", "register_pick"} => q.account = 0

LEMMA TasklessTask == ASSUME NEW q, Taskless(q) PROVE RequestTask(q)
BY DEF Taskless, RequestTask

LEMMA IdleTaskless == Taskless(IdleRequest)
BY DEF Taskless, IdleRequest

LEMMA CallTasks ==
  ASSUME TypeOK, RegistryInv, NEW r \in Requests, RequestCalls(r), ~UNCHANGED req
  PROVE  Taskless(req'[r])
<1>. USE DEF Continue, Request, Taskless
<1>1. req \in [Requests -> Request]
  BY DEF TypeOK
<1>2. ASSUME NEW m \in EmailRefs, RegisterCall(r, m) PROVE Taskless(req'[r])
  BY <1>1, <1>2 DEF RegisterCall, Receives, RegistryInv, RequestTask
<1>3. ASSUME NEW j \in Ids, CancelCall(r, j) PROVE Taskless(req'[r])
  BY <1>1, <1>3 DEF CancelCall
<1>4. ASSUME NEW j \in Ids, RetryCall(r, j) PROVE Taskless(req'[r])
  BY <1>1, <1>4 DEF RetryCall
<1>5. ASSUME NEW m \in Emails, ImportCall(r, m) PROVE Taskless(req'[r])
  BY <1>1, <1>5 DEF ImportCall
<1>6. ASSUME NEW m \in Emails, CheckCall(r, m) PROVE Taskless(req'[r])
  BY <1>1, <1>6 DEF CheckCall
<1>7. ASSUME NEW m \in Emails, PatchDisableCall(r, m) PROVE Taskless(req'[r])
  BY <1>1, <1>7 DEF PatchDisableCall
<1>8. ASSUME NEW batch \in SUBSET AccountIds, CheckoutCall(r, batch) PROVE Taskless(req'[r])
  BY <1>1, <1>8 DEF CheckoutCall
<1>9. ASSUME NEW a \in AccountIds, KeepaliveCall(r, a) PROVE Taskless(req'[r])
  BY <1>1, <1>9 DEF KeepaliveCall
<1>10. ASSUME NEW a \in AccountIds, ReleaseCall(r, a) PROVE Taskless(req'[r])
  BY <1>1, <1>10 DEF ReleaseCall
<1>11. ASSUME NEW a \in AccountIds, DisableCall(r, a) PROVE Taskless(req'[r])
  BY <1>1, <1>11 DEF DisableCall
<1>12. ASSUME NEW l \in Ids, RotateCall(r, l) PROVE Taskless(req'[r])
  BY <1>1, <1>12 DEF RotateCall
<1>13. ASSUME \/ \E m \in Emails : PatchReady(r, m) \/ PatchClear(r, m)
              \/ LeaseCreate(r)
              \/ \E l \in Ids : LeaseRelease(r, l)
              \/ \E value \in BOOLEAN : SetPaused(r, value)
       PROVE  UNCHANGED req
  BY <1>13, Zenon DEF PatchReady, PatchClear, LeaseCreate, LeaseRelease, SetPaused
<1>. HIDE DEF Taskless
<1>. QED
  BY <1>2, <1>3, <1>4, <1>5, <1>6, <1>7, <1>8, <1>9, <1>10, <1>11, <1>12, <1>13 DEF RequestCalls

\* The email a keepalive picks is that of its account, whichever condition of
\* the SELECT found the mailbox.
LEMMA EnqueueTasks ==
  ASSUME TypeOK, LinkInv, RegistryInv, NEW r \in Requests, EnqueueSteps(r)
  PROVE  RequestTask(req'[r])
<1>. USE DEF Continue, Finish, Request
<1>1. req \in [Requests -> Request] /\ RequestTask(req[r])
  BY DEF TypeOK, RegistryInv
<1>2. CASE RegisterRefused(r) \/ KeepaliveRefused(r) \/ LeaseRefused(r) \/ LinkLease(r)
  <2>1. Taskless(req'[r])
    BY <1>1, <1>2, IdleTaskless DEF RegisterRefused, KeepaliveRefused, LeaseRefused, LinkLease
  <2>. QED
    BY <2>1, TasklessTask
<1>3. ASSUME RegisterPick(r) PROVE RequestTask(req'[r])
  BY <1>1, <1>3 DEF RegisterPick, MailboxUsable, Present, At, RequestTask
<1>4. ASSUME KeepalivePick(r) PROVE RequestTask(req'[r])
  <2>. DEFINE a == req[r].account
  <2>1. PICK m \in MailboxesOf(a) : req' = [req EXCEPT ![r] = [req[r] EXCEPT !.step = "lease_insert", !.email = m]]
    BY <1>4 DEF KeepalivePick
  <2>2. a # 0 => a \in InsertedAccounts
    BY <1>1, <1>4 DEF KeepalivePick, InsertedAccounts, AccountRefs, AccountIds
  <2>3. a # 0 => accounts[a].email = m
    BY <2>1, <2>2 DEF MailboxesOf, LinkInv, LinksAgree, InsertedAccounts
  <2>4. req'[r].account = a /\ req'[r].email = m /\ req'[r].step = "lease_insert"
    BY <1>1, <2>1
  <2>5. Present(m)
    BY <2>1 DEF MailboxesOf, Present
  <2>. QED
    BY <2>2, <2>3, <2>4, <2>5 DEF RequestTask, Owns
<1>5. ASSUME LeaseInsert(r) PROVE RequestTask(req'[r])
  BY <1>1, <1>5 DEF LeaseInsert, At, RequestTask
<1>6. ASSUME JobInsert(r) PROVE RequestTask(req'[r])
  BY <1>1, <1>6 DEF JobInsert, RequestTask
<1>7. ASSUME MarkInUse(r) PROVE RequestTask(req'[r])
  BY <1>1, <1>7 DEF MarkInUse, RequestTask
<1>. QED
  BY <1>2, <1>3, <1>4, <1>5, <1>6, <1>7 DEF EnqueueSteps

LEMMA HandlerTasks ==
  ASSUME TypeOK, RefsValid, RegistryInv, NEW r \in Requests, HandlerSteps(r), ~EnqueueSteps(r)
  PROVE  Taskless(req'[r])
<1>. USE DEF Continue, Finish, Request
<1>1. req \in [Requests -> Request]
  BY DEF TypeOK
<1>2. CASE CancelSteps(r)
  <2>1. ASSUME CancelJob(r) PROVE Taskless(req'[r])
    BY <1>1, <2>1 DEF CancelJob, Taskless
  <2>2. ASSUME CancelRead(r) PROVE Taskless(req'[r])
    BY <1>1, <2>2 DEF CancelRead, Taskless
  <2>3. ASSUME CancelMailbox(r) PROVE Taskless(req'[r])
    BY <1>1, <2>3 DEF CancelMailbox, Taskless
  <2>4. ASSUME CancelLease(r) PROVE Taskless(req'[r])
    BY <1>1, <2>4, IdleTaskless DEF CancelLease
  <2>. QED
    BY <1>2, <2>1, <2>2, <2>3, <2>4 DEF CancelSteps
<1>3. ASSUME RetryMailbox(r) PROVE Taskless(req'[r])
  <2>. DEFINE job == jobs[req[r].job]
  <2>1. req[r].job \in InsertedJobs
    BY <1>3 DEF RetryMailbox, At, RefsValid, RequestFits, WithJob
  <2>2. job.type \in {"register", "keepalive"} /\ (job.type = "register" => job.account = 0)
    BY <2>1 DEF InsertedJobs, TypeOK, JobRow, RegistryInv, JobTask
  <2>. QED
    BY <1>1, <1>3, <2>2, IdleTaskless DEF RetryMailbox, IdleRequest, Taskless
<1>4. CASE ImportSteps(r) \/ PatchDisable(r) \/ CheckSteps(r)
  <2>1. ASSUME ImportUpdate(r) PROVE Taskless(req'[r])
    BY <1>1, <2>1 DEF ImportUpdate, Taskless
  <2>2. ASSUME ImportInsert(r) PROVE Taskless(req'[r])
    BY <1>1, <2>2 DEF ImportInsert, Taskless
  <2>3. ASSUME ImportConflict(r) \/ ImportSecret(r) \/ PatchDisable(r) \/ CheckNoSecret(r) \/ CheckOk(r)
        PROVE  Taskless(req'[r])
    BY <1>1, <2>3, IdleTaskless DEF ImportConflict, ImportSecret, PatchDisable, CheckNoSecret, CheckOk
  <2>4. ASSUME NEW class \in {"token_dead", "check_fail"}, CheckFail(r, class) PROVE Taskless(req'[r])
    BY <1>1, <2>4, IdleTaskless DEF CheckFail
  <2>. QED
    BY <1>4, <2>1, <2>2, <2>3, <2>4 DEF ImportSteps, CheckSteps
<1>5. CASE AccountSteps(r) \/ RotateInsert(r) \/ RotateRefused(r)
  <2>1. ASSUME CheckoutHealth(r) PROVE Taskless(req'[r])
    BY <1>1, <2>1, IdleTaskless DEF CheckoutHealth, Taskless
  <2>2. ASSUME NEW a \in AccountIds, CheckoutLease(r, a) PROVE Taskless(req'[r])
    BY <1>1, <2>2, IdleTaskless DEF CheckoutLease, At, Taskless
  <2>3. ASSUME ReleaseWrite(r) \/ DisableMailbox(r) \/ RotateInsert(r) \/ RotateRefused(r)
        PROVE  Taskless(req'[r])
    BY <1>1, <2>3, IdleTaskless DEF ReleaseWrite, DisableMailbox, RotateInsert, RotateRefused
  <2>4. ASSUME DisableRead(r) PROVE Taskless(req'[r])
    <3>1. \/ Finish(r)
          \/ \E m \in Emails : Continue(r, [req[r] EXCEPT !.step = "disable_mailbox", !.email = m])
      <4>. HIDE DEF Continue, Finish
      <4>. QED
        BY <2>4, Zenon DEF DisableRead
    <3>2. CASE Finish(r)
      BY <1>1, <3>2, IdleTaskless
    <3>3. ASSUME NEW m \in Emails,
                 Continue(r, [req[r] EXCEPT !.step = "disable_mailbox", !.email = m])
          PROVE  Taskless(req'[r])
      BY <1>1, <3>3 DEF Taskless
    <3>. HIDE DEF Continue, Finish
    <3>. QED
      BY <3>1, <3>2, <3>3, Zenon
  <2>. QED
    BY <1>5, <2>1, <2>2, <2>3, <2>4 DEF AccountSteps, CheckoutSteps
<1>. QED
  BY <1>2, <1>3, <1>4, <1>5 DEF HandlerSteps

LEMMA RequestTasksStay ==
  ASSUME TypeOK, RefsValid, LinkInv, RegistryInv, Next
  PROVE  \A r \in Requests : RequestTask(req[r])'
<1>. DEFINE After(q) == /\ q.step \in {"idle", "register_pick"} => q.account = 0
                        /\ q.step \in {"lease_insert", "job_insert"} =>
                             /\ mailboxes'[q.email].status # "absent"
                             /\ q.account # 0 => /\ q.account \in InsertedAccounts'
                                                 /\ accounts'[q.account].email = q.email
<1>1. ASSUME NEW q, RequestTask(q), q.step \in {"lease_insert", "job_insert"} => q.email \in Emails
      PROVE  After(q)
  BY <1>1, OwnsStays, PresentStays DEF RequestTask, Owns, Present
<1>2. \A r \in Requests : After(req[r])
  BY <1>1 DEF RegistryInv, RefsValid, RequestFits, WithEmail
<1>3. After(IdleRequest)
  BY <1>1, IdleTaskless, TasklessTask DEF IdleRequest
<1>. HIDE DEF After
<1>4. ASSUME NEW r \in Requests, RequestCalls(r) \/ HandlerSteps(r) \/ RequestError(r), ~UNCHANGED req
      PROVE  After(req'[r])
  <2>1. CASE RequestCalls(r)
    BY <1>1, <1>4, <2>1, CallTasks, TasklessTask DEF Taskless
  <2>2. CASE EnqueueSteps(r)
    BY <1>1, <2>2, EnqueueTasks, EnqueueFits DEF Fits, RequestFits, WithEmail
  <2>3. CASE HandlerSteps(r) /\ ~EnqueueSteps(r)
    BY <1>1, <2>3, HandlerTasks, TasklessTask DEF Taskless
  <2>4. CASE RequestError(r)
    BY <1>3, <2>4 DEF RequestError, Finish, Continue, TypeOK
  <2>. QED
    BY <1>4, <2>1, <2>2, <2>3, <2>4
<1>5. \A r \in Requests : After(req'[r])
  <2>1. ASSUME NEW r \in Requests, NEW locals, Continue(r, locals), After(req'[r])
        PROVE  \A q \in Requests : After(req'[q])
    BY <1>2, <2>1 DEF Continue, TypeOK
  <2>. QED
    BY <1>2, <1>3, <1>4, <2>1, RequestFrame
<1>. QED
  BY <1>5 DEF After, RequestTask, Owns, Present

(***************************************************************************)
(* RegistryInv.                                                            *)
(***************************************************************************)

LEMMA TasksStay ==
  ASSUME TypeOK, RefsValid, LinkInv, RegistryInv, Next
  PROVE  /\ \A j \in Ids \ InsertedJobs' :
              jobs'[j].type = "register" /\ jobs'[j].email = None /\ jobs'[j].account = 0
         /\ \A j \in InsertedJobs' : JobTask(jobs[j])'
<1>1. /\ \A a, m : Owns(a, m) => Owns(a, m)'
      /\ \A m \in Emails : Present(m) => Present(m)'
      /\ \A j \in InsertedJobs : jobs[j].email \in Emails
  BY OwnsStays, PresentStays DEF RefsValid, JobFits
<1>2. CASE TasksKept
  BY <1>1, <1>2 DEF TasksKept, TaskKept, InsertedJobs, RegistryInv, AbsentBlank, JobTask
<1>3. ASSUME NEW r \in Requests, JobInsert(r)
      PROVE  /\ \A j \in Ids \ InsertedJobs' :
                  jobs'[j].type = "register" /\ jobs'[j].email = None /\ jobs'[j].account = 0
             /\ \A j \in InsertedJobs' : JobTask(jobs[j])'
  <2>0. PICK j \in Ids : jobs' = [jobs EXCEPT ![j] =
                   [status |-> "queued",
                    type |-> IF req[r].account = 0 THEN "register" ELSE "keepalive",
                    email |-> req[r].email, lease |-> req[r].lease, account |-> req[r].account]]
    BY <1>3 DEF JobInsert
  <2>1. PICK row :
          /\ jobs' = [jobs EXCEPT ![j] = row]
          /\ row = [status |-> "queued",
                    type |-> IF req[r].account = 0 THEN "register" ELSE "keepalive",
                    email |-> req[r].email, lease |-> req[r].lease, account |-> req[r].account]
    BY <2>0
  <2>2. /\ req[r].email \in Emails /\ Present(req[r].email)
        /\ req[r].account # 0 => Owns(req[r].account, req[r].email)
    BY <1>3 DEF JobInsert, At, RegistryInv, RequestTask, RefsValid, RequestFits, WithEmail
  <2>3. JobTask(row)
    BY <2>1, <2>2 DEF JobTask
  <2>4. JobTask(row)'
    BY <1>1, <2>1, <2>2, <2>3 DEF JobTask
  <2>5. row.status # "absent"
    BY <2>1
  <2>6. /\ jobs'[j] = row
        /\ \A i \in Ids \ {j} : jobs'[i] = jobs[i]
    BY <2>1 DEF TypeOK
  <2>7. \A i \in Ids \ {j} : i \in InsertedJobs' <=> i \in InsertedJobs
    BY <2>6 DEF InsertedJobs, Exists
  <2>8. \A i \in InsertedJobs : JobTask(jobs[i])
    BY DEF RegistryInv
  <2>9. j \in InsertedJobs'
    BY <2>5, <2>6 DEF InsertedJobs, Exists
  <2>10. \A i \in InsertedJobs' : JobTask(jobs[i])'
    <3>1. ASSUME NEW i \in InsertedJobs \ {j} PROVE JobTask(jobs[i])'
      BY <1>1, <2>6, <2>8, <3>1 DEF JobTask, InsertedJobs
    <3>. QED
      BY <2>4, <2>6, <2>7, <3>1 DEF InsertedJobs, JobTask
  <2>. QED
    BY <2>6, <2>7, <2>9, <2>10 DEF RegistryInv, AbsentBlank
<1>. QED
  BY <1>2, <1>3, TaskFrame

LEMMA OwnersStay ==
  ASSUME TypeOK, RefsValid, RegistryInv, Next
  PROVE  \A a \in AccountIds : IF a \in InsertedAccounts' THEN accounts'[a].email \in Emails
                               ELSE accounts'[a].email = None
<1>1. CASE OwnersKept
  BY <1>1 DEF OwnersKept, RegistryInv, AbsentBlank
<1>2. CASE OkAccount
  <2>1. jobs[worker.job].email \in Emails
    BY <1>2, Targets DEF OkAccount
  <2>. QED
    BY <1>2, <2>1 DEF OkAccount, NextAccount, InsertedAccounts, RegistryInv, AbsentBlank, TypeOK, AccountRow
<1>. QED
  BY <1>1, <1>2, OwnerFrame

LEMMA RegistryHolds == Spec => []RegistryInv
<1>1. Init => RegistryInv
  BY DEF Init, RegistryInv, CalledOnce, AbsentBlank, JobTask, RequestTask, InsertedJobs, Exists,
         InsertedAccounts, Called, NoJob, NoAccount, IdleRequest, IdleWorker
<1>2. TypeOK /\ RefsValid /\ LinkInv /\ LaunchInv /\ RegistryInv /\ [Next]_vars => RegistryInv'
  <2>1. CASE UNCHANGED vars
    BY <2>1 DEF vars, RegistryInv, CalledOnce, AbsentBlank, JobTask, RequestTask, InsertedJobs, Exists,
                InsertedAccounts, Owns, Present
  <2>2. ASSUME TypeOK, RefsValid, LinkInv, LaunchInv, RegistryInv, Next PROVE RegistryInv'
    <3>1. CalledOnce'
      BY <2>2, CalledStays DEF RegistryInv
    <3>2. AbsentBlank'
      BY <2>2, TasksStay, OwnersStay DEF AbsentBlank
    <3>3. \A j \in InsertedJobs' : JobTask(jobs[j])'
      BY <2>2, TasksStay
    <3>4. \A r \in Requests : RequestTask(req[r])'
      BY <2>2, RequestTasksStay
    <3>. QED
      BY <3>1, <3>2, <3>3, <3>4 DEF RegistryInv
  <2>. QED
    BY <2>1, <2>2
<1>. QED
  BY <1>1, <1>2, TypeCorrect, LinksHold, LaunchesHold, PTL DEF Spec

\* A keepalive is for the account of its mailbox, whichever condition of the
\* SELECT found the mailbox and whatever was bound meanwhile.
THEOREM KeepaliveIsOnOwn == Spec => []KeepaliveOnOwnMailbox
<1>1. RegistryInv => KeepaliveOnOwnMailbox
  BY DEF RegistryInv, KeepaliveOnOwnMailbox, JobTask, Owns, Present, InsertedJobs
<1>. QED
  BY <1>1, RegistryHolds, PTL

(***************************************************************************)
(* The refinement.                                                         *)
(***************************************************************************)

task == [j \in Ids |-> [type |-> jobs[j].type, email |-> jobs[j].email, account |-> jobs[j].account]]
owner == [a \in AccountIds |-> accounts[a].email]
link == [m \in Emails |-> mailboxes[m].account]

\* Where the registry stands, read from the invariants.
LEMMA RegistryView ==
  ASSUME TypeOK, RefsValid, RegistryInv
  PROVE  /\ \A j \in Ids : task[j] = Registered!NoTask <=> j \notin InsertedJobs
         /\ \A a \in AccountIds : owner[a] = None <=> a \notin InsertedAccounts
<1>1. ASSUME NEW j \in Ids PROVE task[j] = Registered!NoTask <=> j \notin InsertedJobs
  BY NoneAssumption DEF task, Registered!NoTask, RegistryInv, AbsentBlank, RefsValid, JobFits
<1>2. ASSUME NEW a \in AccountIds PROVE owner[a] = None <=> a \notin InsertedAccounts
  BY NoneAssumption DEF owner, RegistryInv, AbsentBlank
<1>. QED
  BY <1>1, <1>2

\* At most one of the four facts changes in a step.
LEMMA OneFactMoves ==
  ASSUME TypeOK, RefsValid, LinkInv, Next
  PROVE  \/ UNCHANGED <<task, launched, owner>>
         \/ UNCHANGED <<launched, owner, mailboxes>> /\ \E r \in Requests : JobInsert(r)
         \/ UNCHANGED <<task, owner, mailboxes>> /\ WorkerLaunch
         \/ UNCHANGED <<task, launched, mailboxes>> /\ OkAccount
<1>1. TasksKept => UNCHANGED task
  BY DEF TasksKept, TaskKept, task
<1>2. OwnersKept => UNCHANGED owner
  BY DEF OwnersKept, owner
<1>3. ASSUME NEW r \in Requests, JobInsert(r) PROVE UNCHANGED <<launched, accounts, mailboxes>>
  BY <1>3 DEF JobInsert
<1>4. WorkerLaunch => UNCHANGED <<jobs, accounts, mailboxes>>
  BY DEF WorkerLaunch, tables
<1>5. OkAccount => UNCHANGED <<jobs, launched, mailboxes>>
  BY DEF OkAccount
<1>6. UNCHANGED jobs => UNCHANGED task
  BY DEF task
<1>7. UNCHANGED accounts => UNCHANGED owner
  BY DEF owner
<1>. QED
  BY <1>1, <1>2, <1>3, <1>4, <1>5, <1>6, <1>7, TaskFrame, OwnerFrame, LaunchFrame

\* The INSERT of a job is the submission of its task.
LEMMA InsertSubmits ==
  ASSUME TypeOK, RefsValid, RegistryInv, NEW r \in Requests, JobInsert(r),
         UNCHANGED <<launched, owner, mailboxes>>
  PROVE  \E j \in Ids : \/ \E m \in Emails : Registered!SubmitRegister(j, m)
                        \/ \E a \in AccountIds : Registered!SubmitKeepalive(j, a)
<1>. DEFINE q == req[r]
<1>1. PICK j \in Ids : /\ NextJob(j)
                       /\ jobs' = [jobs EXCEPT ![j] =
                            [status |-> "queued",
                             type |-> IF q.account = 0 THEN "register" ELSE "keepalive",
                             email |-> q.email, lease |-> q.lease, account |-> q.account]]
  BY DEF JobInsert
<1>2. task[j] = Registered!NoTask
  BY <1>1, RegistryView DEF NextJob, InsertedJobs, Exists
<1>3. q.email \in Emails /\ (q.account # 0 => Owns(q.account, q.email))
  BY DEF JobInsert, At, RefsValid, RequestFits, WithEmail, RegistryInv, RequestTask
<1>4. task' = [task EXCEPT ![j] = [type |-> IF q.account = 0 THEN "register" ELSE "keepalive",
                                   email |-> q.email, account |-> q.account]]
  BY <1>1 DEF task, TypeOK
<1>5. UNCHANGED link
  BY DEF link
<1>6. CASE q.account = 0
  <2>1. PICK m \in Emails : m = q.email
    BY <1>3
  <2>2. Registered!SubmitRegister(j, m)
    BY <1>2, <1>4, <1>5, <1>6, <2>1 DEF Registered!SubmitRegister, task, owner, link
  <2>. QED
    BY <2>2
<1>7. CASE q.account # 0
  <2>1. PICK a \in AccountIds : a = q.account
    BY <1>3, <1>7 DEF Owns, InsertedAccounts
  <2>2. owner[a] = q.email
    BY <1>3, <1>7, <2>1 DEF Owns, owner
  <2>3. Registered!SubmitKeepalive(j, a)
    BY <1>2, <1>3, <1>4, <1>5, <1>7, <2>1, <2>2, NoneAssumption
       DEF Registered!SubmitKeepalive, task, owner, link
  <2>. QED
    BY <2>3
<1>. QED
  BY <1>6, <1>7

\* The launch of a job is the call for it.
LEMMA LaunchCalls ==
  ASSUME TypeOK, RefsValid, LaunchInv, RegistryInv, WorkerLaunch, UNCHANGED <<task, owner, mailboxes>>
  PROVE  \E j \in Ids : Registered!Call(j)
<1>1. worker.job \in Ids /\ task[worker.job] # Registered!NoTask
  BY LaunchIsFirst, RegistryView DEF InsertedJobs
<1>2. UNCHANGED link
  BY DEF link
<1>. QED
  BY <1>1, <1>2, LaunchIsFirst DEF Registered!Call, task, owner, link

\* The INSERT of an account opens it; setting one to registered again is no
\* step of the registry.
LEMMA AccountOpens ==
  ASSUME TypeOK, RefsValid, RegistryInv, OkAccount, UNCHANGED <<task, launched, mailboxes>>
  PROVE  UNCHANGED <<task, launched, owner, link>> \/ \E j \in Ids, a \in AccountIds : Registered!Open(a, j)
<1>1. PICK j \in Ids, email \in Emails :
        /\ j = worker.job /\ email = jobs[j].email
        /\ jobs[j].type = "register" /\ launched[j] = 1
  BY Targets DEF OkAccount, RegistryInv, CalledOnce, Called
<1>2. UNCHANGED link
  BY DEF link
<1>3. PICK a \in AccountIds :
        \/ accounts' = [accounts EXCEPT ![a].status = "registered", ![a].job = j]
        \/ /\ \A b \in AccountIds : accounts[b].status # "absent" => accounts[b].email # email
           /\ NextAccount(a)
           /\ accounts' = [accounts EXCEPT ![a] =
                [status |-> "registered", email |-> email, holder |-> None, job |-> j]]
  BY <1>1 DEF OkAccount
<1>4. CASE accounts' = [accounts EXCEPT ![a].status = "registered", ![a].job = j]
  BY <1>2, <1>4 DEF owner, TypeOK, AccountRow
<1>5. ASSUME \A b \in AccountIds : accounts[b].status # "absent" => accounts[b].email # email,
             NextAccount(a),
             accounts' = [accounts EXCEPT ![a] =
                [status |-> "registered", email |-> email, holder |-> None, job |-> j]]
      PROVE  Registered!Open(a, j)
  <2>1. owner[a] = None /\ \A b \in AccountIds : owner[b] # email
    BY <1>1, <1>5, RegistryView, NoneAssumption DEF NextAccount, InsertedAccounts, owner
  <2>2. owner' = [owner EXCEPT ![a] = email]
    BY <1>5 DEF owner, TypeOK
  <2>3. task[j].type = "register" /\ task[j].email = email
    BY <1>1 DEF task
  <2>. QED
    BY <1>1, <1>2, <2>1, <2>2, <2>3 DEF Registered!Open, task, owner, link
<1>. QED
  BY <1>1, <1>3, <1>4, <1>5

\* A write to a mailbox links it to the account of its email, if it changes the
\* link at all.
LEMMA WriteLinks ==
  ASSUME TypeOK, RefsValid, LinkInv, RegistryInv, Next, UNCHANGED <<task, launched, owner>>
  PROVE  UNCHANGED link \/ \E m \in Emails, a \in AccountIds : Registered!LinkTo(m, a)
<1>1. CASE UNCHANGED mailboxes
  BY <1>1 DEF link
<1>2. CASE FittingWrite
  <2>0. PICK m \in Emails : \E row : Write(m, row) /\ RowFits(m, row)
    BY <1>2 DEF FittingWrite
  <2>1. PICK row : Write(m, row) /\ RowFits(m, row)
    BY <2>0
  <2>2. link' = [link EXCEPT ![m] = row.account]
    BY <2>1 DEF Write, link, TypeOK
  <2>3. CASE Linked(m)
    <3>1. row.account \in InsertedAccounts /\ accounts[row.account].email = m
      BY <2>1, <2>3 DEF RowFits
    <3>2. /\ mailboxes[m].account \in InsertedAccounts
          /\ accounts[mailboxes[m].account].email = m
      BY <2>3 DEF Linked, LinkInv, LinksAgree, InsertedAccounts, TypeOK, MailboxRow, AccountRefs, AccountIds
    <3>3. row.account = mailboxes[m].account
      BY <3>1, <3>2 DEF LinkInv, LinksAgree, InsertedAccounts
    <3>. QED
      BY <2>2, <3>3 DEF link
  <2>4. CASE ~Linked(m) /\ row.account = 0
    BY <2>2, <2>4 DEF Linked, link
  <2>5. CASE ~Linked(m) /\ row.account # 0
    <3>1. row.account \in AccountIds /\ owner[row.account] = m /\ link[m] = 0
      BY <2>1, <2>5 DEF RowFits, Linked, InsertedAccounts, owner, link
    <3>2. Registered!LinkTo(m, row.account)
      BY <2>2, <3>1 DEF Registered!LinkTo, task, owner, link
    <3>. QED
      BY <3>1, <3>2
  <2>. QED
    BY <2>3, <2>4, <2>5
<1>. QED
  BY <1>1, <1>2, WritesFit

LEMMA StepRefines ==
  ASSUME TypeOK, RefsValid, LinkInv, LaunchInv, RegistryInv, Next
  PROVE  Registered!Next \/ UNCHANGED <<task, launched, owner, link>>
<1>1. CASE UNCHANGED <<task, launched, owner>>
  BY <1>1, WriteLinks DEF Registered!Next
<1>2. ASSUME UNCHANGED <<launched, owner, mailboxes>>, NEW r \in Requests, JobInsert(r)
      PROVE  Registered!Next
  BY <1>2, InsertSubmits DEF Registered!Next
<1>3. CASE UNCHANGED <<task, owner, mailboxes>> /\ WorkerLaunch
  BY <1>3, LaunchCalls DEF Registered!Next
<1>4. CASE UNCHANGED <<task, launched, mailboxes>> /\ OkAccount
  BY <1>4, AccountOpens DEF Registered!Next
<1>. QED
  BY <1>1, <1>2, <1>3, <1>4, OneFactMoves

\* The pool implements the registry, however many requests, restarts and
\* failing statements interleave with the worker: tasks, calls, accounts and
\* links are each recorded once, in this order, and never taken back.
THEOREM PoolImplementsRegistry == Spec => ImplementsRegistry
<1>1. Init => Registered!Init
  BY DEF Init, Registered!Init, Registered!NoTask, NoJob, NoAccount, NoMailbox
<1>2. TypeOK /\ RefsValid /\ LinkInv /\ LaunchInv /\ RegistryInv /\ [Next]_vars
      => [Registered!Next]_(Registered!vars)
  <2>1. UNCHANGED vars => UNCHANGED Registered!vars
    BY DEF vars, Registered!vars
  <2>2. UNCHANGED <<task, launched, owner, link>> => UNCHANGED Registered!vars
    BY DEF Registered!vars, task, owner, link
  <2>. QED
    BY <2>1, <2>2, StepRefines
<1>. QED
  BY <1>1, <1>2, TypeCorrect, LinksHold, LaunchesHold, RegistryHolds, PTL
     DEF Spec, ImplementsRegistry, Registered!Spec

=============================================================================
