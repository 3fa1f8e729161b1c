--------------------------- MODULE PoolProperties ---------------------------
(***************************************************************************)
(* What the pool must keep, and what its documentation says it keeps.      *)
(***************************************************************************)
EXTENDS Pool

Exists(j) == jobs[j].status # "absent"

(***************************************************************************)
(* For every interleaving, restart and failing statement.                  *)
(***************************************************************************)

\* The backend, which signs up at the console and uses up a one-time code, is
\* called at most once for a job: claim_next_job never hands out a job again,
\* after a restart either.
AtMostOnce == \A j \in Ids : launched[j] <= 1

\* A mailbox that says it is bound names its account, though five handlers
\* write 'bound' from a row they read before other handlers ran.
BoundMeansLinked == \A m \in Emails : mailboxes[m].status = "bound" => mailboxes[m].account # 0

\* A mailbox's account link (bound_account_id) and the account's email, which
\* enqueue_keepalive and checkout treat as interchangeable, never disagree, and
\* one email never has two accounts.
LinksAgree ==
  /\ \A m \in Emails : mailboxes[m].account # 0 =>
       /\ accounts[mailboxes[m].account].status # "absent"
       /\ accounts[mailboxes[m].account].email = m
  /\ \A a, b \in AccountIds :
       /\ accounts[a].status # "absent" /\ accounts[b].status # "absent"
       /\ accounts[a].email = accounts[b].email
       => a = b

\* A job's lease is its own: no other job was given it, and its backlink, which
\* is set two statements after the job is visible and copied by rotate_lease,
\* never names another job.
JobOwnsItsLease ==
  \A j \in Ids : Exists(j) =>
    /\ leases[jobs[j].lease].state # "absent"
    /\ leases[jobs[j].lease].job \in {0, j}
    /\ \A i \in Ids \ {j} : Exists(i) => jobs[i].lease # jobs[j].lease

\* A keepalive runs on the mailbox of the account it is for, whichever of the
\* two conditions of enqueue_keepalive's SELECT found it.
KeepaliveOnOwnMailbox ==
  \A j \in Ids : Exists(j) /\ jobs[j].type = "keepalive" =>
    /\ accounts[jobs[j].account].email = jobs[j].email
    /\ mailboxes[jobs[j].email].status # "absent"

\* A leased account has a holder to release it and a disabled one has none,
\* whatever checkout, release, disable and a repeated registration interleave.
HolderMatchesStatus ==
  \A a \in AccountIds :
    /\ accounts[a].status = "leased" => accounts[a].holder # None
    /\ accounts[a].status \in {"absent", "disabled"} => accounts[a].holder = None

\* The worker is done with j, by a step of its own and not by a restart.
Leaves(j) == (WorkerNext \/ WorkerError) /\ worker.job = j /\ worker'.job # j

\* The worker leaves a registration as succeeded only with the mailbox bound to
\* its account, whatever statement of finish_job_success raised half way, upon
\* which _run_job finishes the same job again as a failure, and whatever was
\* cancelled, retried or lost in a restart before.
SuccessLeavesAccount ==
  [][\A j \in Ids : Leaves(j) /\ jobs[j].status = "succeeded" /\ jobs[j].type = "register" =>
       mailboxes[jobs[j].email].account # 0]_vars

\* The registry the pool keeps: its tables without the columns that say how far
\* the work on a row has come.
Registered == INSTANCE Registry WITH
  Jobs <- Ids, Accounts <- AccountIds,
  task <- [j \in Ids |-> [type |-> jobs[j].type, email |-> jobs[j].email,
                          account |-> jobs[j].account]],
  calls <- launched,
  owner <- [a \in AccountIds |-> accounts[a].email],
  link <- [m \in Emails |-> mailboxes[m].account]

\* The pool implements the registry: whatever its handlers and its worker
\* interleave, a job keeps the mailbox and the account it was made for, has one
\* call of the backend at most, an account is opened only for an email that was
\* signed up and has none, and a link never moves.
ImplementsRegistry == Registered!Spec

(***************************************************************************)
(* For every interleaving, while the process runs and no statement fails.  *)
(***************************************************************************)

\* j is done, but its mailbox is still to be given back.
BeingCancelled(j) == \E r \in Requests : req[r].job = j /\ req[r].step \in {"cancel_read", "cancel_mailbox"}
BeingFinished(j) == /\ worker.job = j
                    /\ worker.step \in {"ok_lease", "ok_restore", "ok_account", "ok_bind",
                                        "fail_read", "fail_mailbox"}

\* No mailbox stays locked: one that is in_use, which import, check and disable
\* refuse to touch, has an active job or somebody about to release it.
InUseHasUser ==
  \A m \in Emails : mailboxes[m].status = "in_use" =>
    \E j \in Ids : jobs[j].email = m /\ (ActiveJob(j) \/ BeingCancelled(j) \/ BeingFinished(j))

\* Every queued job is finished, although later jobs may be claimed, requests
\* may cancel it while it runs, and there is one worker.
QueuedJobsFinish == \A j \in Ids : jobs[j].status = "queued" ~> ~(Exists(j) /\ ActiveJob(j))

\* Every in_use mailbox is released in the end.
InUseIsReleased == \A m \in Emails : mailboxes[m].status = "in_use" ~> mailboxes[m].status # "in_use"

(***************************************************************************)
(* For clients whose calls do not overlap on one mailbox, and that neither *)
(* cancel, retry nor set a mailbox ready by hand.  Calls that do overlap   *)
(* both find the mailbox ready and both take it: nothing in the code keeps *)
(* them apart.                                                             *)
(***************************************************************************)
Apart == \A r, s \in Requests : r # s /\ req[r].email # None => req[s].email # req[r].email
ApartSpec == Init /\ [][Next /\ Apart']_vars

\* Two jobs never work on one mailbox: the status check of the enqueue, the
\* in_use mark two statements later and the worker keep one job per mailbox.
OneActiveJob ==
  \A i, j \in Ids : /\ Exists(i) /\ Exists(j) /\ ActiveJob(i) /\ ActiveJob(j)
                    /\ jobs[i].email = jobs[j].email
                    => i = j

\* A mailbox found dead is disabled, so no register job picks it.
DeadIsDisabled == \A m \in Emails : mailboxes[m].health = "dead" => mailboxes[m].status = "disabled"

\* j has, or is about to have, its mailbox in_use, and is still to give it back.
Using(j) == ActiveJob(j) \/ BeingFinished(j)

\* in_use as a lock, with the jobs that use a mailbox as its holders.
Locking == INSTANCE MailboxLock WITH
  Jobs <- Ids,
  users <- [m \in Emails |-> {j \in Ids : Exists(j) /\ jobs[j].email = m /\ Using(j)}],
  locked <- {m \in Emails : mailboxes[m].status = "in_use"},
  begun <- {j \in Ids : Exists(j)}

\* The pool implements the lock: a job takes a mailbox that no job uses, once,
\* though it is tested statements before; it is locked for that job, and nobody
\* unlocks it before the worker has finished the job and writes it back.
ImplementsLock == Locking!Spec

=============================================================================
