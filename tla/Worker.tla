------------------------------- MODULE Worker -------------------------------
(***************************************************************************)
(* The background worker: JobQueue._loop and _run_job of                   *)
(* app/services/queue.py with claim_next_job, finish_job_success and       *)
(* finish_job_failure of app/store.py.  There is one worker task.          *)
(***************************************************************************)
EXTENDS PoolTables

Goto(step) == worker' = [worker EXCEPT !.step = step]

\* Mutant: jobs found 'running', as after a restart, are picked up again.
WorkerPollRunning ==
  /\ worker.step = "poll"
  /\ \E j \in Ids :
       /\ ActiveJob(j)
       /\ \A i \in Ids : ActiveJob(i) => j <= i
       /\ worker' = [worker EXCEPT !.step = "claim", !.job = j]
  /\ UNCHANGED <<tables, secrets, paused, sequence, req, launched>>

\* SELECT ... WHERE status='queued' ORDER BY created_at LIMIT 1
WorkerPoll ==
  /\ worker.step = "poll"
  /\ \E j \in Ids :
       /\ jobs[j].status = "queued"
       /\ \A i \in Ids : jobs[i].status = "queued" => j <= i
       /\ worker' = [worker EXCEPT !.step = "claim", !.job = j]
  /\ UNCHANGED <<tables, secrets, paused, sequence, req, launched>>

\* UPDATE jobs SET status='running' WHERE id=?, whatever the status is now.
WorkerClaim ==
  /\ worker.step = "claim"
  /\ jobs' = [jobs EXCEPT ![worker.job].status = "running"]
  /\ Goto("load")
  /\ UNCHANGED <<mailboxes, leases, accounts, secrets, paused, sequence, req, launched>>

\* The secrets are loaded, the stored lease rebuilt and the backend called.
WorkerLaunch ==
  /\ worker.step = "load"
  /\ jobs[worker.job].email \in secrets /\ ImportSettled(jobs[worker.job].email)
  /\ launched' = [launched EXCEPT ![worker.job] = @ + 1]
  /\ Goto("backend")
  /\ UNCHANGED <<tables, secrets, paused, sequence, req>>

\* Without secrets mailbox_secrets raises outside the try block and the
\* exception ends the worker task.
WorkerDies ==
  /\ worker.step = "load"
  /\ jobs[worker.job].email \notin secrets /\ ImportSettled(jobs[worker.job].email)
  /\ Goto("dead")
  /\ UNCHANGED <<tables, secrets, paused, sequence, req, launched>>

\* Mutant: the job is dropped, not finished as a failure.
WorkerNoBackendIgnored ==
  /\ worker.step = "load" /\ EnqueueSettled(worker.job)
  /\ worker' = IdleWorker
  /\ UNCHANGED <<tables, secrets, paused, sequence, req, launched>>

\* default_backend, read from config.json, names no backend.
WorkerNoBackend ==
  /\ worker.step = "load" /\ EnqueueSettled(worker.job)
  /\ worker' = [worker EXCEPT !.step = "fail_job", !.outcome = "check_fail"]
  /\ UNCHANGED <<tables, secrets, paused, sequence, req, launched>>

BackendReturns(outcome) ==
  /\ worker.step = "backend" /\ EnqueueSettled(worker.job)
  /\ worker' = [worker EXCEPT !.step = IF outcome = "ok" THEN "ok_job" ELSE "fail_job",
                              !.outcome = outcome]
  /\ UNCHANGED <<tables, secrets, paused, sequence, req, launched>>
-----------------------------------------------------------------------------
\* finish_job_success
OkJob ==
  /\ worker.step = "ok_job"
  /\ jobs' = [jobs EXCEPT ![worker.job].status = "succeeded"]
  /\ Goto("ok_lease")
  /\ UNCHANGED <<mailboxes, leases, accounts, secrets, paused, sequence, req, launched>>

\* A keepalive then stamps its account (last_keepalive_at, keepalive_due_at)
\* and restores the mailbox.
OkLease ==
  /\ worker.step = "ok_lease"
  /\ leases' = [leases EXCEPT ![jobs[worker.job].lease].state = "released"]
  /\ Goto(IF jobs[worker.job].type = "keepalive" THEN "ok_restore" ELSE "ok_account")
  /\ UNCHANGED <<mailboxes, jobs, accounts, secrets, paused, sequence, req, launched>>

\* Only the worker writes account links, so _release_mailbox_after_job's read
\* and write are one step here.
OkRestore ==
  LET m == jobs[worker.job].email IN
  /\ worker.step = "ok_restore"
  /\ SetStatus(m, Restored(mailboxes[m].account))
  /\ Goto("ok_event")
  /\ UNCHANGED <<jobs, leases, accounts, secrets, paused, sequence, req, launched>>

\* Mutant: the existing account is looked for without the email.
OkAccountAny ==
  LET job == jobs[worker.job] IN
  /\ worker.step = "ok_account"
  /\ \E a \in AccountIds :
       /\ \/ /\ accounts[a].status # "absent"
             /\ accounts' = [accounts EXCEPT ![a].status = "registered", ![a].job = worker.job]
          \/ /\ NextAccount(a)
             /\ accounts' = [accounts EXCEPT ![a] =
                  [status |-> "registered", email |-> job.email, holder |-> None, job |-> worker.job]]
       /\ worker' = [worker EXCEPT !.step = "ok_bind", !.account = a]
  /\ UNCHANGED <<mailboxes, jobs, leases, secrets, paused, sequence, req, launched>>

\* Mutant: the account is inserted without a look for an existing one.
OkAccountInserting ==
  LET job == jobs[worker.job] IN
  /\ worker.step = "ok_account"
  /\ \E a \in AccountIds :
       /\ NextAccount(a)
       /\ accounts' = [accounts EXCEPT ![a] =
            [status |-> "registered", email |-> job.email, holder |-> None, job |-> worker.job]]
       /\ worker' = [worker EXCEPT !.step = "ok_bind", !.account = a]
  /\ UNCHANGED <<mailboxes, jobs, leases, secrets, paused, sequence, req, launched>>

\* Mutant: an existing account loses its holder and keeps its status.
OkAccountKeepingStatus ==
  LET job == jobs[worker.job] IN
  /\ worker.step = "ok_account"
  /\ \E a \in AccountIds :
       /\ \/ /\ accounts[a].status # "absent" /\ accounts[a].email = job.email
             /\ accounts' = [accounts EXCEPT ![a].holder = None, ![a].job = worker.job]
          \/ /\ \A b \in AccountIds : accounts[b].status # "absent" => accounts[b].email # job.email
             /\ NextAccount(a)
             /\ accounts' = [accounts EXCEPT ![a] =
                  [status |-> "registered", email |-> job.email, holder |-> None, job |-> worker.job]]
       /\ worker' = [worker EXCEPT !.step = "ok_bind", !.account = a]
  /\ UNCHANGED <<mailboxes, jobs, leases, secrets, paused, sequence, req, launched>>

\* An account with this email is set to registered again, its holder kept;
\* otherwise a new one is inserted.  Only the worker writes emails, so the
\* SELECT and the write are one step.
OkAccount ==
  LET job == jobs[worker.job] IN
  /\ worker.step = "ok_account"
  /\ \E a \in AccountIds :
       /\ \/ /\ accounts[a].status # "absent" /\ accounts[a].email = job.email
             /\ accounts' = [accounts EXCEPT ![a].status = "registered", ![a].job = worker.job]
          \/ /\ \A b \in AccountIds : accounts[b].status # "absent" => accounts[b].email # job.email
             /\ NextAccount(a)
             /\ accounts' = [accounts EXCEPT ![a] =
                  [status |-> "registered", email |-> job.email, holder |-> None, job |-> worker.job]]
       /\ worker' = [worker EXCEPT !.step = "ok_bind", !.account = a]
  /\ UNCHANGED <<mailboxes, jobs, leases, secrets, paused, sequence, req, launched>>

OkBind ==
  /\ worker.step = "ok_bind"
  /\ Write(jobs[worker.job].email, [mailboxes[jobs[worker.job].email] EXCEPT
       !.status = "bound", !.account = worker.account, !.health = "ok",
       !.fails = 0, !.cooldown = "null"])
  /\ Goto("ok_event")
  /\ UNCHANGED <<jobs, leases, accounts, secrets, paused, sequence, req, launched>>

\* INSERT the risk event and read the job back; then poll again.
OkEvent ==
  /\ worker.step = "ok_event"
  /\ worker' = IdleWorker
  /\ UNCHANGED <<tables, secrets, paused, sequence, req, launched>>
-----------------------------------------------------------------------------
\* finish_job_failure
\* Mutant: the class of the failure is written as the status.
FailJobClass ==
  /\ worker.step = "fail_job"
  /\ jobs' = [jobs EXCEPT ![worker.job].status = worker.outcome]
  /\ Goto("fail_read")
  /\ UNCHANGED <<mailboxes, leases, accounts, secrets, paused, sequence, req, launched>>

FailJob ==
  /\ worker.step = "fail_job"
  /\ jobs' = [jobs EXCEPT ![worker.job].status =
                IF worker.outcome = "blocked" THEN "blocked" ELSE "failed"]
  /\ Goto("fail_read")
  /\ UNCHANGED <<mailboxes, leases, accounts, secrets, paused, sequence, req, launched>>

FailRead ==
  /\ worker.step = "fail_read"
  /\ worker' = [worker EXCEPT !.step = "fail_mailbox",
                              !.seen = SeenOf(mailboxes[jobs[worker.job].email])]
  /\ UNCHANGED <<tables, secrets, paused, sequence, req, launched>>

\* Mutant: the link is looked at before the verdict.
FailMailboxBoundFirst ==
  LET fails == worker.seen.fails + 1
      next  == NextMailboxStatus(fails, MaxFail, worker.outcome) IN
  /\ worker.step = "fail_mailbox"
  /\ Write(jobs[worker.job].email, [mailboxes[jobs[worker.job].email] EXCEPT
       !.status = IF worker.seen.account # 0 THEN "bound" ELSE next,
       !.health = IF next = "disabled" THEN "dead" ELSE "cooling",
       !.fails = Saturate(fails), !.cooldown = "future"])
  /\ Goto("fail_lease")
  /\ UNCHANGED <<jobs, leases, accounts, secrets, paused, sequence, req, launched>>

FailMailbox ==
  LET fails == worker.seen.fails + 1
      next  == NextMailboxStatus(fails, MaxFail, worker.outcome) IN
  /\ worker.step = "fail_mailbox"
  /\ Write(jobs[worker.job].email, [mailboxes[jobs[worker.job].email] EXCEPT
       !.status = IF next = "disabled" THEN "disabled"
                  ELSE IF worker.seen.account # 0 THEN "bound" ELSE "cooling",
       !.health = IF next = "disabled" THEN "dead" ELSE "cooling",
       !.fails = Saturate(fails), !.cooldown = "future"])
  /\ Goto("fail_lease")
  /\ UNCHANGED <<jobs, leases, accounts, secrets, paused, sequence, req, launched>>

FailLease ==
  /\ worker.step = "fail_lease"
  /\ leases' = [leases EXCEPT ![jobs[worker.job].lease].state = "failed"]
  /\ worker' = IdleWorker
  /\ UNCHANGED <<mailboxes, jobs, accounts, secrets, paused, sequence, req, launched>>

-----------------------------------------------------------------------------
\* Mutant: a job whose finishing fails is left as it is.
WorkerErrorSwallowed ==
  /\ "error" \in Faults
  /\ worker.step \notin {"backend", "dead"}
  /\ worker' = IF worker.step \in {"ok_job", "ok_lease", "ok_account", "ok_bind", "ok_restore", "ok_event"}
               THEN IdleWorker
               ELSE [worker EXCEPT !.step = "dead"]
  /\ UNCHANGED <<tables, secrets, paused, sequence, req, launched>>

\* A statement raises.  While the job is being finished as a success that is
\* caught, and the job finished as a failure; anywhere else it ends the task.
WorkerError ==
  /\ "error" \in Faults
  /\ worker.step \notin {"backend", "dead"}
  /\ worker' = IF worker.step \in {"ok_job", "ok_lease", "ok_account", "ok_bind", "ok_restore", "ok_event"}
               THEN [worker EXCEPT !.step = "fail_job", !.outcome = "check_fail"]
               ELSE [worker EXCEPT !.step = "dead"]
  /\ UNCHANGED <<tables, secrets, paused, sequence, req, launched>>

\* store.worker_running, which /ready reports: set by start(), cleared by
\* stop() at shutdown, untouched when the task ends by itself.
WorkerRunning == TRUE

ClaimSteps   == WorkerPoll \/ WorkerClaim \/ WorkerLaunch \/ WorkerDies \/ WorkerNoBackend
BackendStep  == \E outcome \in Outcomes \ {"none"} : BackendReturns(outcome)
SuccessSteps == OkJob \/ OkLease \/ OkRestore \/ OkAccount \/ OkBind \/ OkEvent
FailureSteps == FailJob \/ FailRead \/ FailMailbox \/ FailLease

WorkerNext == ClaimSteps \/ BackendStep \/ SuccessSteps \/ FailureSteps

=============================================================================
