--------------------------- MODULE PoolInvariants ---------------------------
(***************************************************************************)
(* What the properties rest on: the facts about the local variables of the *)
(* handlers and of the worker that make the invariants of PoolProperties   *)
(* inductive.                                                              *)
(***************************************************************************)
EXTENDS PoolProperties

(***************************************************************************)
(* References.                                                             *)
(***************************************************************************)
WithEmail == {"lease_insert", "job_insert", "mark_in_use", "link_lease", "import_write",
              "import_secret", "patch_disable", "check_write", "disable_mailbox"}
WithJob == {"mark_in_use", "link_lease", "cancel_job", "cancel_read", "cancel_mailbox",
            "cancel_lease", "retry_mailbox"}
WithLease == {"job_insert", "mark_in_use", "link_lease"}
WithAccount == {"keepalive_pick", "release_write", "disable_read", "disable_mailbox"}

InsertedJobs == {j \in Ids : Exists(j)}
InsertedAccounts == {a \in AccountIds : accounts[a].status # "absent"}

\* An inserted job names a mailbox and a lease, and a keepalive its account.
JobFits(job) == /\ job.email \in Emails
                /\ job.lease \in Ids
                /\ job.type = "keepalive" => job.account \in AccountIds

\* A handler has in hand what its next statement needs, among the jobs and the
\* accounts that are there.
RequestFits(q, jobIds, accountIds) ==
  /\ q.step \in WithEmail => q.email \in Emails
  /\ q.step \in WithJob => q.job \in jobIds
  /\ q.step \in WithLease => q.lease \in Ids
  /\ q.step \in WithAccount => q.account \in AccountIds
  /\ q.step = "release_write" => q.account \in accountIds
  /\ q.todo \subseteq accountIds

\* So has the worker.
WorkerFits(w, jobIds) ==
  /\ w.step \notin {"poll", "dead"} => w.job \in jobIds
  /\ w.step = "ok_bind" => w.account \in AccountIds

\* Every reference a step will follow leads to a row.
RefsValid ==
  /\ \A j \in InsertedJobs : JobFits(jobs[j])
  /\ \A r \in Requests : RequestFits(req[r], InsertedJobs, InsertedAccounts)
  /\ WorkerFits(worker, InsertedJobs)

(***************************************************************************)
(* For AtMostOnce.                                                         *)
(***************************************************************************)

\* A job that was launched can never be found queued again, and one the worker
\* is about to launch was not launched before.
LaunchInv ==
  /\ \A j \in Ids : launched[j] # 0 => launched[j] = 1 /\ jobs[j].status \notin {"absent", "queued"}
  /\ worker.step \in {"claim", "load"} => launched[worker.job] = 0
  /\ worker.step = "load" => jobs[worker.job].status # "queued"

(***************************************************************************)
(* For BoundMeansLinked and LinksAgree.                                    *)
(***************************************************************************)
Linked(m) == mailboxes[m].account # 0

\* A link or a 'bound' status that was read earlier is still linked when the
\* status computed from it is written.
RequestLinks(q) ==
  /\ q.step = "import_write" /\ q.seen.status = "bound" => Linked(q.email)
  /\ q.step = "check_write" => /\ q.seen.status \notin {"absent", "in_use"}
                               /\ q.seen.account # 0 => Linked(q.email)
  /\ q.step = "cancel_mailbox" /\ q.seen.account # 0 => Linked(jobs[q.job].email)
WorkerLinks(w) ==
  w.step = "fail_mailbox" /\ w.seen.account # 0 => Linked(jobs[w.job].email)
SeenLinksHold == (\A r \in Requests : RequestLinks(req[r])) /\ WorkerLinks(worker)

\* The account the worker is about to bind is that of the job's email.
BindTargetAgrees ==
  worker.step = "ok_bind" =>
    /\ accounts[worker.account].status # "absent"
    /\ accounts[worker.account].email = jobs[worker.job].email

\* The INSERT of an import, which starts without a link, loses none.
AbsentUnlinked == \A m \in Emails : mailboxes[m].status = "absent" => ~Linked(m)

LinkInv == /\ BoundMeansLinked /\ LinksAgree
           /\ AbsentUnlinked /\ SeenLinksHold /\ BindTargetAgrees

(***************************************************************************)
(* For KeepaliveOnOwnMailbox and ImplementsRegistry.                       *)
(***************************************************************************)

\* An account is opened for a job the backend was called for: a register job.
Called == {"backend", "ok_job", "ok_lease", "ok_account"}
CalledOnce == /\ worker.step \in Called => launched[worker.job] = 1
              /\ worker.step = "ok_account" => jobs[worker.job].type = "register"

\* A row that is not there yet says nothing.
AbsentBlank ==
  /\ \A j \in Ids \ InsertedJobs :
       jobs[j].type = "register" /\ jobs[j].email = None /\ jobs[j].account = 0
  /\ \A a \in AccountIds : IF a \in InsertedAccounts THEN accounts[a].email \in Emails
                            ELSE accounts[a].email = None

\* A job, or a request about to insert one, names a mailbox that is there, and
\* an account for a keepalive only: that of the mailbox.
Present(m) == mailboxes[m].status # "absent"
Owns(account, email) == account \in InsertedAccounts /\ accounts[account].email = email
JobTask(job) == /\ Present(job.email)
                /\ IF job.type = "register" THEN job.account = 0 ELSE Owns(job.account, job.email)
RequestTask(q) ==
  /\ q.step \in {"idle", "register_pick"} => q.account = 0
  /\ q.step \in {"lease_insert", "job_insert"} =>
       Present(q.email) /\ (q.account # 0 => Owns(q.account, q.email))

RegistryInv == /\ CalledOnce /\ AbsentBlank
               /\ \A j \in InsertedJobs : JobTask(jobs[j])
               /\ \A r \in Requests : RequestTask(req[r])

(***************************************************************************)
(* For JobOwnsItsLease.                                                    *)
(***************************************************************************)

\* The lease a job is about to be inserted with is there, belongs to no job and
\* is in no other handler's hands; a handler that goes on with its job has the
\* job's lease in hand.
Spare(l) == /\ leases[l].state # "absent" /\ leases[l].job = 0
            /\ \A j \in InsertedJobs : jobs[j].lease # l
LeaseInv ==
  /\ JobOwnsItsLease
  /\ \A r \in Requests :
       /\ req[r].step = "job_insert" =>
            /\ Spare(req[r].lease)
            /\ \A q \in Requests \ {r} : req[q].step = "job_insert" => req[q].lease # req[r].lease
       /\ req[r].step \in {"mark_in_use", "link_lease"} => jobs[req[r].job].lease = req[r].lease

(***************************************************************************)
(* For SuccessLeavesAccount.                                               *)
(***************************************************************************)

\* The worker leaves a job only when it has linked the mailbox, when there is
\* nothing to link, or when it has taken the 'succeeded' back.
SuccessInv ==
  /\ worker.step = "poll" => worker.job = 0
  /\ worker.step \in {"fail_read", "fail_mailbox", "fail_lease"} => jobs[worker.job].status # "succeeded"
  /\ worker.step = "ok_restore" => jobs[worker.job].type = "keepalive"
  /\ worker.step = "ok_event" => \/ jobs[worker.job].type = "keepalive"
                                 \/ Linked(jobs[worker.job].email)

(***************************************************************************)
(* For InUseHasUser, while the process runs and no statement fails.        *)
(***************************************************************************)

\* Nobody finishes or cancels a job before its enqueue is through: the worker
\* and cancel_job work on settled jobs.
LockInv ==
  /\ InUseHasUser
  /\ \A r \in Requests :
       /\ req[r].step = "mark_in_use" => ActiveJob(req[r].job) /\ jobs[req[r].job].email = req[r].email
       /\ req[r].step = "cancel_job" => EnqueueSettled(req[r].job)
  /\ worker.step \notin {"poll", "dead", "claim", "load", "backend"} => EnqueueSettled(worker.job)

(***************************************************************************)
(* For OneActiveJob and DeadIsDisabled.                                    *)
(***************************************************************************)

\* The conditions these two, and the others above, are stated under.
NoFaults == Faults = {}
CarefulClients == Calls \cap {"cancel", "retry", "patch"} = {}

\* Whoever may now take or change m: no job uses it.
Free(m) == /\ mailboxes[m].status # "in_use"
           /\ \A j \in InsertedJobs : jobs[j].email = m => ~Using(j)

OneUser == \A i, j \in InsertedJobs : Using(i) /\ Using(j) /\ jobs[i].email = jobs[j].email => i = j
UserLocks == \A j \in InsertedJobs : Using(j) =>
               \/ mailboxes[jobs[j].email].status = "in_use"
               \/ \E r \in Requests : req[r].step = "mark_in_use" /\ req[r].job = j
TakesFree(q) ==
  /\ q.step \in {"lease_insert", "job_insert", "import_write", "check_write", "disable_mailbox"} =>
       Free(q.email)
  /\ q.step \in {"lease_insert", "job_insert", "mark_in_use"} => mailboxes[q.email].health # "dead"
  /\ q.step \notin {"patch_disable", "cancel_job", "cancel_read", "cancel_mailbox", "retry_mailbox"}
SerialInv == /\ OneUser /\ UserLocks /\ DeadIsDisabled
             /\ \A r \in Requests : TakesFree(req[r])
             /\ worker.step \in {"claim", "load", "backend", "ok_job", "fail_job"} => ActiveJob(worker.job)
             /\ \A j \in InsertedJobs : BeingFinished(j) => ~ActiveJob(j)

=============================================================================
