---------------------------- MODULE JobRequests ----------------------------
(***************************************************************************)
(* The job endpoints: enqueue_register, enqueue_batch (which enqueues one  *)
(* job after another and stops at the first error), enqueue_keepalive,     *)
(* cancel_job and retry_job of app/store.py.                               *)
(***************************************************************************)
EXTENDS PoolTables

\* Mutant: a mailbox in use is taken for one that is ready.
MailboxUsableLocked(row) == /\ row.status \in {"ready", "in_use"}
                            /\ row.health \notin {"dead", "cooling"}
                            /\ row.cooldown # "future"
                            /\ row.fails < MaxFail

\* _mailbox_usable
MailboxUsable(row) == /\ row.status = "ready"
                      /\ row.health \notin {"dead", "cooling"}
                      /\ row.cooldown # "future"
                      /\ row.fails < MaxFail

\* The WHERE clause used when no mailbox is named.  imported_at has whole
\* seconds and is rewritten by every import, so any of these may come first.
AutoPickable(row) == /\ row.status = "ready"
                     /\ row.cooldown # "future"
                     /\ row.health \in {"unknown", "ok"}

KeepaliveUsable(row) == /\ row.status # "in_use"
                        /\ row.health # "dead"
                        /\ row.cooldown # "future"

\* POST /v1/jobs/register for mailbox m, or for any mailbox if m = None.
RegisterCall(r, m) ==
  /\ Receives(r, "register")
  /\ ~paused
  /\ Continue(r, [req[r] EXCEPT !.step = "register_pick", !.email = m])
  /\ UNCHANGED <<tables, secrets, paused, sequence, worker, launched>>

RegisterPick(r) ==
  /\ At(r, "register_pick")
  /\ \E m \in Emails :
       /\ IF req[r].email = None THEN AutoPickable(mailboxes[m]) ELSE m = req[r].email
       /\ MailboxUsable(mailboxes[m])
       /\ Continue(r, [req[r] EXCEPT !.step = "lease_insert", !.email = m])
  /\ UNCHANGED <<tables, secrets, paused, sequence, worker, launched>>

\* Refused by the cadence (interval or daily cap), or for want of a mailbox.
RegisterRefused(r) ==
  /\ At(r, "register_pick")
  /\ Finish(r)
  /\ UNCHANGED <<tables, secrets, paused, sequence, worker, launched>>

KeepaliveCall(r, a) ==
  /\ Receives(r, "keepalive")
  /\ ~paused
  /\ Continue(r, [req[r] EXCEPT !.step = "keepalive_pick", !.account = a])
  /\ UNCHANGED <<tables, secrets, paused, sequence, worker, launched>>

\* Mutant: the SELECT has lost its WHERE clause.
KeepalivePickAny(r) ==
  /\ At(r, "keepalive_pick")
  /\ accounts[req[r].account].status \in {"registered", "leased"}
  /\ \E m \in {n \in Emails : mailboxes[n].status # "absent"} :
       /\ KeepaliveUsable(mailboxes[m])
       /\ Continue(r, [req[r] EXCEPT !.step = "lease_insert", !.email = m])
  /\ UNCHANGED <<tables, secrets, paused, sequence, worker, launched>>

KeepalivePick(r) ==
  /\ At(r, "keepalive_pick")
  /\ accounts[req[r].account].status \in {"registered", "leased"}
  /\ \E m \in MailboxesOf(req[r].account) :
       /\ KeepaliveUsable(mailboxes[m])
       /\ Continue(r, [req[r] EXCEPT !.step = "lease_insert", !.email = m])
  /\ UNCHANGED <<tables, secrets, paused, sequence, worker, launched>>

KeepaliveRefused(r) ==
  /\ At(r, "keepalive_pick")
  /\ \/ accounts[req[r].account].status \notin {"registered", "leased"}
     \/ MailboxesOf(req[r].account) = {}
     \/ \E m \in MailboxesOf(req[r].account) : ~KeepaliveUsable(mailboxes[m])
  /\ Finish(r)
  /\ UNCHANGED <<tables, secrets, paused, sequence, worker, launched>>

\* The common tail of both: build and INSERT the lease, INSERT the job, mark
\* the mailbox, then point the lease at the job.
LeaseInsert(r) ==
  /\ At(r, "lease_insert")
  /\ \E l \in Ids :
       /\ NextLease(l)
       /\ leases' = [leases EXCEPT ![l] = [state |-> "held", job |-> 0, sid |-> sequence + 1]]
       /\ Continue(r, [req[r] EXCEPT !.step = "job_insert", !.lease = l])
  /\ sequence' = sequence + 1
  /\ UNCHANGED <<mailboxes, jobs, accounts, secrets, paused, worker, launched>>

\* build_lease raises: no Cliproxy credentials, or a forbidden region.
LeaseRefused(r) ==
  /\ At(r, "lease_insert")
  /\ Finish(r)
  /\ UNCHANGED <<tables, secrets, paused, sequence, worker, launched>>

JobInsert(r) ==
  /\ At(r, "job_insert")
  /\ \E j \in Ids :
       /\ NextJob(j)
       /\ jobs' = [jobs EXCEPT ![j] =
            [status |-> "queued",
             type |-> IF req[r].account = 0 THEN "register" ELSE "keepalive",
             email |-> req[r].email, lease |-> req[r].lease, account |-> req[r].account]]
       /\ Continue(r, [req[r] EXCEPT !.step = "mark_in_use", !.job = j])
  /\ UNCHANGED <<mailboxes, leases, accounts, secrets, paused, sequence, worker, launched>>

MarkInUse(r) ==
  /\ At(r, "mark_in_use")
  /\ SetStatus(req[r].email, "in_use")
  /\ Continue(r, [req[r] EXCEPT !.step = "link_lease"])
  /\ UNCHANGED <<jobs, leases, accounts, secrets, paused, sequence, worker, launched>>

\* Mutant: the lease is linked to the first job still active on the mailbox.
LinkLeaseFirst(r) ==
  /\ At(r, "link_lease")
  /\ \E j \in Ids :
       /\ ActiveJob(j) /\ jobs[j].email = req[r].email
       /\ \A k \in Ids : ActiveJob(k) /\ jobs[k].email = req[r].email => j <= k
       /\ leases' = [leases EXCEPT ![req[r].lease].job = j]
  /\ Finish(r)
  /\ UNCHANGED <<mailboxes, jobs, accounts, secrets, paused, sequence, worker, launched>>

LinkLease(r) ==
  /\ At(r, "link_lease")
  /\ leases' = [leases EXCEPT ![req[r].lease].job = req[r].job]
  /\ Finish(r)
  /\ UNCHANGED <<mailboxes, jobs, accounts, secrets, paused, sequence, worker, launched>>

EnqueueSteps(r) ==
  \/ RegisterPick(r) \/ RegisterRefused(r) \/ KeepalivePick(r) \/ KeepaliveRefused(r)
  \/ LeaseInsert(r) \/ LeaseRefused(r) \/ JobInsert(r) \/ MarkInUse(r) \/ LinkLease(r)
-----------------------------------------------------------------------------
CancelCall(r, j) ==
  /\ Receives(r, "cancel")
  /\ ActiveJob(j) /\ EnqueueSettled(j)
  /\ Continue(r, [req[r] EXCEPT !.step = "cancel_job", !.job = j])
  /\ UNCHANGED <<tables, secrets, paused, sequence, worker, launched>>

CancelJob(r) ==
  /\ At(r, "cancel_job")
  /\ jobs' = [jobs EXCEPT ![req[r].job].status = "cancelled"]
  /\ Continue(r, [req[r] EXCEPT !.step = "cancel_read"])
  /\ UNCHANGED <<mailboxes, leases, accounts, secrets, paused, sequence, worker, launched>>

\* _release_mailbox_after_job: read the row, then write what it implied.
CancelRead(r) ==
  /\ At(r, "cancel_read")
  /\ Continue(r, [req[r] EXCEPT !.step = "cancel_mailbox",
                           !.seen = SeenOf(mailboxes[jobs[req[r].job].email])])
  /\ UNCHANGED <<tables, secrets, paused, sequence, worker, launched>>

\* Mutant: the status read is written back.
CancelMailboxAsSeen(r) ==
  /\ At(r, "cancel_mailbox")
  /\ SetStatus(jobs[req[r].job].email, req[r].seen.status)
  /\ Continue(r, [req[r] EXCEPT !.step = "cancel_lease"])
  /\ UNCHANGED <<jobs, leases, accounts, secrets, paused, sequence, worker, launched>>

CancelMailbox(r) ==
  /\ At(r, "cancel_mailbox")
  /\ SetStatus(jobs[req[r].job].email, Restored(req[r].seen.account))
  /\ Continue(r, [req[r] EXCEPT !.step = "cancel_lease"])
  /\ UNCHANGED <<jobs, leases, accounts, secrets, paused, sequence, worker, launched>>

CancelLease(r) ==
  /\ At(r, "cancel_lease")
  /\ leases' = [leases EXCEPT ![jobs[req[r].job].lease].state = "released"]
  /\ Finish(r)
  /\ UNCHANGED <<mailboxes, jobs, accounts, secrets, paused, sequence, worker, launched>>

CancelSteps(r) == CancelJob(r) \/ CancelRead(r) \/ CancelMailbox(r) \/ CancelLease(r)
-----------------------------------------------------------------------------
RetryCall(r, j) ==
  /\ Receives(r, "retry")
  /\ jobs[j].status \in {"failed", "blocked", "cancelled"}
  /\ Continue(r, [req[r] EXCEPT !.step = "retry_mailbox", !.job = j])
  /\ UNCHANGED <<tables, secrets, paused, sequence, worker, launched>>

\* The mailbox is reset whatever its status, then the job is enqueued anew;
\* that call returns at once if registration is paused.
RetryMailbox(r) ==
  LET job == jobs[req[r].job] IN
  /\ At(r, "retry_mailbox")
  /\ SetStatus(job.email, IF job.type = "keepalive" THEN Restored(mailboxes[job.email].account)
                          ELSE "ready")
  /\ Continue(r, IF paused THEN IdleRequest
       ELSE [IdleRequest EXCEPT
              !.step = IF job.type = "keepalive" THEN "keepalive_pick" ELSE "register_pick",
              !.email = IF job.type = "keepalive" THEN None ELSE job.email,
              !.account = job.account])
  /\ UNCHANGED <<jobs, leases, accounts, secrets, paused, sequence, worker, launched>>

=============================================================================
