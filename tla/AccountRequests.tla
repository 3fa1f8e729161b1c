-------------------------- MODULE AccountRequests --------------------------
(***************************************************************************)
(* The account, lease and control endpoints: checkout, release_account,    *)
(* disable_account, release_lease, rotate_lease and set_paused of          *)
(* app/store.py.                                                           *)
(***************************************************************************)
EXTENDS PoolTables

\* The accounts a checkout of Cardinality(batch) may SELECT.  Too few
\* registered accounts, and the call is refused before any change.
CheckoutCall(r, batch) ==
  /\ Receives(r, "checkout")
  /\ batch # {}
  /\ \A a \in batch : accounts[a].status = "registered"
  /\ Continue(r, [req[r] EXCEPT !.step = "checkout_health", !.todo = batch])
  /\ UNCHANGED <<tables, secrets, paused, sequence, worker, launched>>

UnhealthyMailbox(a) ==
  \E m \in MailboxesOf(a) : mailboxes[m].health \in {"dead", "cooling"}

CheckoutHealth(r) ==
  /\ At(r, "checkout_health")
  /\ IF RequireHealthyMailbox /\ \E a \in req[r].todo : UnhealthyMailbox(a)
     THEN Finish(r)
     ELSE Continue(r, [req[r] EXCEPT !.step = "checkout_lease"])
  /\ UNCHANGED <<tables, secrets, paused, sequence, worker, launched>>

\* One UPDATE for each account of the batch; the request itself stands for
\* leased_to.
CheckoutLease(r, a) ==
  /\ At(r, "checkout_lease") /\ a \in req[r].todo
  /\ accounts' = [accounts EXCEPT ![a].status = "leased", ![a].holder = r]
  /\ IF req[r].todo = {a} THEN Finish(r)
     ELSE Continue(r, [req[r] EXCEPT !.todo = @ \ {a}])
  /\ UNCHANGED <<mailboxes, jobs, leases, secrets, paused, sequence, worker, launched>>

CheckoutSteps(r) == CheckoutHealth(r) \/ \E a \in AccountIds : CheckoutLease(r, a)
-----------------------------------------------------------------------------
ReleaseCall(r, a) ==
  /\ Receives(r, "release")
  /\ accounts[a].status = "leased"
  /\ Continue(r, [req[r] EXCEPT !.step = "release_write", !.account = a])
  /\ UNCHANGED <<tables, secrets, paused, sequence, worker, launched>>

ReleaseWrite(r) ==
  /\ At(r, "release_write")
  /\ accounts' = [accounts EXCEPT ![req[r].account].status = "registered",
                                  ![req[r].account].holder = None]
  /\ Finish(r)
  /\ UNCHANGED <<mailboxes, jobs, leases, secrets, paused, sequence, worker, launched>>

\* disable_account needs the row to exist only: its first step is the UPDATE.
DisableCall(r, a) ==
  /\ Receives(r, "disable")
  /\ accounts[a].status # "absent"
  /\ accounts' = [accounts EXCEPT ![a].status = "disabled", ![a].holder = None]
  /\ Continue(r, [req[r] EXCEPT !.step = "disable_read", !.account = a])
  /\ UNCHANGED <<mailboxes, jobs, leases, secrets, paused, sequence, worker, launched>>

\* Mutant: a mailbox that is in_use is disabled like any other.
DisableReadLocked(r) ==
  /\ At(r, "disable_read")
  /\ \/ \E m \in Emails :
          /\ mailboxes[m].account = req[r].account
          /\ Continue(r, [req[r] EXCEPT !.step = "disable_mailbox", !.email = m])
     \/ /\ \A m \in Emails : mailboxes[m].account # req[r].account
        /\ Finish(r)
  /\ UNCHANGED <<tables, secrets, paused, sequence, worker, launched>>

DisableRead(r) ==
  /\ At(r, "disable_read")
  /\ \/ \E m \in Emails :
          /\ mailboxes[m].account = req[r].account
          /\ IF mailboxes[m].status = "in_use" THEN Finish(r)
             ELSE Continue(r, [req[r] EXCEPT !.step = "disable_mailbox", !.email = m])
     \/ /\ \A m \in Emails : mailboxes[m].account # req[r].account
        /\ Finish(r)
  /\ UNCHANGED <<tables, secrets, paused, sequence, worker, launched>>

DisableMailbox(r) ==
  /\ At(r, "disable_mailbox")
  /\ SetStatus(req[r].email, "disabled")
  /\ Finish(r)
  /\ UNCHANGED <<jobs, leases, accounts, secrets, paused, sequence, worker, launched>>

AccountSteps(r) ==
  CheckoutSteps(r) \/ ReleaseWrite(r) \/ DisableRead(r) \/ DisableMailbox(r)
-----------------------------------------------------------------------------
\* POST /v1/proxy/leases: a lease opened ahead of any job.
LeaseCreate(r) ==
  /\ Receives(r, "lease")
  /\ \E l \in Ids :
       /\ NextLease(l)
       /\ leases' = [leases EXCEPT ![l] = [state |-> "held", job |-> 0, sid |-> sequence + 1]]
  /\ sequence' = sequence + 1
  /\ UNCHANGED <<mailboxes, jobs, accounts, secrets, paused, req, worker, launched>>

LeaseRelease(r, l) ==
  /\ Receives(r, "lease")
  /\ leases[l].state # "absent"
  /\ leases' = [leases EXCEPT ![l].state = "released"]
  /\ UNCHANGED <<mailboxes, jobs, accounts, secrets, paused, sequence, req, worker, launched>>

\* The old lease is marked before the new one is built; its job_id was read
\* before that and is carried over.
RotateCall(r, l) ==
  /\ Receives(r, "lease")
  /\ leases[l].state # "absent"
  /\ leases' = [leases EXCEPT ![l].state = "rotated"]
  /\ Continue(r, [req[r] EXCEPT !.step = "rotate_insert", !.lease = l, !.job = leases[l].job])
  /\ UNCHANGED <<mailboxes, jobs, accounts, secrets, paused, sequence, worker, launched>>

RotateInsert(r) ==
  /\ At(r, "rotate_insert")
  /\ \E l \in Ids :
       /\ NextLease(l)
       /\ leases' = [leases EXCEPT ![l] =
            [state |-> "held", job |-> req[r].job, sid |-> sequence + 1]]
  /\ sequence' = sequence + 1
  /\ Finish(r)
  /\ UNCHANGED <<mailboxes, jobs, accounts, secrets, paused, worker, launched>>

\* build_lease raises after the old lease was marked.
RotateRefused(r) ==
  /\ At(r, "rotate_insert")
  /\ Finish(r)
  /\ UNCHANGED <<tables, secrets, paused, sequence, worker, launched>>

SetPaused(r, value) ==
  /\ Receives(r, "pause")
  /\ paused' = value
  /\ UNCHANGED <<tables, secrets, sequence, req, worker, launched>>

=============================================================================
