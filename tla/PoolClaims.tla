----------------------------- MODULE PoolClaims -----------------------------
(***************************************************************************)
(* What README.md says of the service and the code does not do.  Each      *)
(* property is checked by a run that must find it violated.                *)
(***************************************************************************)
EXTENDS PoolInvariants

\* README.md:42: an import leaves a mailbox that is bound to an account bound.
\* The code keeps it only if its status is 'bound' at that moment; a failed
\* check has made it 'cooling' or 'disabled', and the import makes it 'ready'.
ImportKeepsBound ==
  [][\A r \in Requests :
       ImportUpdate(r) /\ mailboxes[req[r].email].account # 0
       => mailboxes'[req[r].email].status = "bound"]_vars

\* README.md:170: checkout leases accounts that are registered.  The status is
\* read before the health checks and not asked for again by the UPDATE.
CheckoutTakesRegistered ==
  [][\A r \in Requests, a \in AccountIds :
       CheckoutLease(r, a) => accounts[a].status = "registered"]_vars

\* README.md:164: a queued or running job can be cancelled.  The worker's own
\* UPDATEs do not ask for the status: the job runs on and ends as a success.
CancelIsFinal ==
  [][\A j \in Ids : jobs[j].status = "cancelled" => jobs'[j].status = "cancelled"]_jobs

\* README.md:141: /ready says that the worker runs.
ReadyIsTrue == WorkerRunning => worker.step # "dead"

=============================================================================
