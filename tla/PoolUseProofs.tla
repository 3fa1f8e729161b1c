--------------------------- MODULE PoolUseProofs ----------------------------
(***************************************************************************)
(* Who uses what: a job's lease is its own, a mailbox that is in_use has   *)
(* somebody to release it, a success leaves an account, and one job works  *)
(* on a mailbox at a time.  All rest on how a handler comes to a step and  *)
(* leaves it.                                                              *)
(***************************************************************************)
EXTENDS PoolRegistryProofs

(***************************************************************************)
(* How a handler comes to a step.                                          *)
(***************************************************************************)

Arrives(r) ==
  /\ req'[r].step = "lease_insert" => RegisterPick(r) \/ KeepalivePick(r)
  /\ req'[r].step = "job_insert" => LeaseInsert(r)
  /\ req'[r].step = "mark_in_use" => JobInsert(r)
  /\ req'[r].step = "link_lease" => MarkInUse(r)
  /\ req'[r].step = "cancel_job" => \E j \in Ids : CancelCall(r, j)
  /\ req'[r].step = "cancel_read" => CancelJob(r)
  /\ req'[r].step = "cancel_mailbox" => CancelRead(r)
  /\ req'[r].step = "retry_mailbox" => \E j \in Ids : RetryCall(r, j)
  /\ req'[r].step = "import_write" => \E m \in Emails : ImportCall(r, m)
  /\ req'[r].step = "check_write" => \E m \in Emails : CheckCall(r, m)
  /\ req'[r].step = "patch_disable" => \E m \in Emails : PatchDisableCall(r, m)
  /\ req'[r].step = "disable_mailbox" => DisableRead(r)


LEMMA CallArrives ==
  ASSUME TypeOK, NEW r \in Requests, RequestCalls(r), ~UNCHANGED req
  PROVE  Arrives(r)
<1>. USE DEF Continue, Request
<1>1. req \in [Requests -> Request]
  BY DEF TypeOK
<1>2. ASSUME NEW m \in EmailRefs, RegisterCall(r, m) PROVE Arrives(r)
  BY <1>1, <1>2 DEF RegisterCall, Arrives
<1>3. ASSUME NEW j \in Ids, CancelCall(r, j) PROVE Arrives(r)
  <2>1. req'[r].step = "cancel_job"
    BY <1>1, <1>3 DEF CancelCall
  <2>. QED
    BY <1>3, <2>1 DEF Arrives
<1>4. ASSUME NEW j \in Ids, RetryCall(r, j) PROVE Arrives(r)
  <2>1. req'[r].step = "retry_mailbox"
    BY <1>1, <1>4 DEF RetryCall
  <2>. QED
    BY <1>4, <2>1 DEF Arrives
<1>5. ASSUME NEW m \in Emails, ImportCall(r, m) PROVE Arrives(r)
  <2>1. req'[r].step = "import_write"
    BY <1>1, <1>5 DEF ImportCall
  <2>. QED
    BY <1>5, <2>1 DEF Arrives
<1>6. ASSUME NEW m \in Emails, CheckCall(r, m) PROVE Arrives(r)
  <2>1. req'[r].step = "check_write"
    BY <1>1, <1>6 DEF CheckCall
  <2>. QED
    BY <1>6, <2>1 DEF Arrives
<1>7. ASSUME NEW m \in Emails, PatchDisableCall(r, m) PROVE Arrives(r)
  <2>1. req'[r].step = "patch_disable"
    BY <1>1, <1>7 DEF PatchDisableCall
  <2>. QED
    BY <1>7, <2>1 DEF Arrives
<1>8. ASSUME NEW batch \in SUBSET AccountIds, CheckoutCall(r, batch) PROVE Arrives(r)
  BY <1>1, <1>8 DEF CheckoutCall, Arrives
<1>9. ASSUME NEW a \in AccountIds, KeepaliveCall(r, a) PROVE Arrives(r)
  BY <1>1, <1>9 DEF KeepaliveCall, Arrives
<1>10. ASSUME NEW a \in AccountIds, ReleaseCall(r, a) PROVE Arrives(r)
  BY <1>1, <1>10 DEF ReleaseCall, Arrives
<1>11. ASSUME NEW a \in AccountIds, DisableCall(r, a) PROVE Arrives(r)
  BY <1>1, <1>11 DEF DisableCall, Arrives
<1>12. ASSUME NEW l \in Ids, RotateCall(r, l) PROVE Arrives(r)
  BY <1>1, <1>12 DEF RotateCall, Arrives
<1>13. ASSUME \/ \E m \in Emails : PatchReady(r, m) \/ PatchClear(r, m)
              \/ LeaseCreate(r)
              \/ \E l \in Ids : LeaseRelease(r, l)
              \/ \E value \in BOOLEAN : SetPaused(r, value)
       PROVE  UNCHANGED req
  BY <1>13, Zenon DEF PatchReady, PatchClear, LeaseCreate, LeaseRelease, SetPaused
<1>. QED
  BY <1>2, <1>3, <1>4, <1>5, <1>6, <1>7, <1>8, <1>9, <1>10, <1>11, <1>12, <1>13 DEF RequestCalls

LEMMA EnqueueArrives ==
  ASSUME TypeOK, NEW r \in Requests, EnqueueSteps(r)
  PROVE  Arrives(r)
<1>. USE DEF Continue, Finish, Request
<1>1. req \in [Requests -> Request]
  BY DEF TypeOK
<1>2. CASE RegisterRefused(r) \/ KeepaliveRefused(r) \/ LeaseRefused(r) \/ LinkLease(r)
  <2>1. req'[r] = IdleRequest
    BY <1>1, <1>2 DEF RegisterRefused, KeepaliveRefused, LeaseRefused, LinkLease
  <2>. QED
    BY <2>1 DEF IdleRequest, Arrives
<1>3. CASE RegisterPick(r)
  <2>1. req'[r].step = "lease_insert"
    BY <1>1, <1>3 DEF RegisterPick
  <2>. QED
    BY <1>3, <2>1 DEF Arrives
<1>4. CASE KeepalivePick(r)
  <2>1. req'[r].step = "lease_insert"
    BY <1>1, <1>4 DEF KeepalivePick
  <2>. QED
    BY <1>4, <2>1 DEF Arrives
<1>5. CASE LeaseInsert(r)
  <2>1. req'[r].step = "job_insert"
    BY <1>1, <1>5 DEF LeaseInsert
  <2>. QED
    BY <1>5, <2>1 DEF Arrives
<1>6. CASE JobInsert(r)
  <2>1. req'[r].step = "mark_in_use"
    BY <1>1, <1>6 DEF JobInsert
  <2>. QED
    BY <1>6, <2>1 DEF Arrives
<1>7. CASE MarkInUse(r)
  <2>1. req'[r].step = "link_lease"
    BY <1>1, <1>7 DEF MarkInUse
  <2>. QED
    BY <1>7, <2>1 DEF Arrives
<1>. QED
  BY <1>2, <1>3, <1>4, <1>5, <1>6, <1>7 DEF EnqueueSteps

LEMMA HandlerArrives ==
  ASSUME TypeOK, NEW r \in Requests, HandlerSteps(r), ~EnqueueSteps(r)
  PROVE  Arrives(r)
<1>. USE DEF Continue, Finish, Request
<1>1. req \in [Requests -> Request]
  BY DEF TypeOK
<1>2. ASSUME Finish(r) PROVE Arrives(r)
  <2>1. req'[r] = IdleRequest
    BY <1>1, <1>2
  <2>. QED
    BY <2>1 DEF IdleRequest, Arrives
<1>3. CASE CancelSteps(r)
  <2>1. CASE CancelJob(r)
    <3>1. req'[r].step = "cancel_read"
      BY <1>1, <2>1 DEF CancelJob
    <3>. QED
      BY <2>1, <3>1 DEF Arrives
  <2>2. CASE CancelRead(r)
    <3>1. req'[r].step = "cancel_mailbox"
      BY <1>1, <2>2 DEF CancelRead
    <3>. QED
      BY <2>2, <3>1 DEF Arrives
  <2>3. CASE CancelMailbox(r)
    BY <1>1, <2>3 DEF CancelMailbox, Arrives
  <2>4. CASE CancelLease(r)
    BY <1>2, <2>4 DEF CancelLease
  <2>. QED
    BY <1>3, <2>1, <2>2, <2>3, <2>4 DEF CancelSteps
<1>4. CASE RetryMailbox(r)
  <2>1. req'[r].step \in {"idle", "keepalive_pick", "register_pick"}
    BY <1>1, <1>4 DEF RetryMailbox, IdleRequest
  <2>. QED
    BY <2>1 DEF Arrives
<1>5. CASE ImportUpdate(r) \/ ImportInsert(r)
  <2>1. req'[r].step = "import_secret"
    BY <1>1, <1>5 DEF ImportUpdate, ImportInsert
  <2>. QED
    BY <2>1 DEF Arrives
<1>6. CASE \/ ImportConflict(r) \/ ImportSecret(r) \/ PatchDisable(r) \/ CheckSteps(r)
           \/ ReleaseWrite(r) \/ DisableMailbox(r) \/ RotateInsert(r) \/ RotateRefused(r)
  <2>. HIDE DEF Finish
  <2>1. Finish(r)
    BY <1>6, Zenon DEF ImportConflict, ImportSecret, PatchDisable, CheckSteps, CheckNoSecret, CheckOk,
                CheckFail, ReleaseWrite, DisableMailbox, RotateInsert, RotateRefused
  <2>. QED
    BY <1>2, <2>1
<1>7. CASE CheckoutHealth(r)
  <2>1. CASE Finish(r)
    BY <1>2, <2>1
  <2>2. CASE ~Finish(r)
    BY <1>1, <1>7, <2>2 DEF CheckoutHealth, Arrives
  <2>. QED
    BY <2>1, <2>2
<1>8. ASSUME NEW a \in AccountIds, CheckoutLease(r, a) PROVE Arrives(r)
  <2>1. CASE Finish(r)
    BY <1>2, <2>1
  <2>2. CASE ~Finish(r)
    BY <1>1, <1>8, <2>2 DEF CheckoutLease, At, Arrives
  <2>. QED
    BY <2>1, <2>2
<1>9. CASE DisableRead(r)
  <2>1. CASE Finish(r)
    BY <1>2, <2>1
  <2>2. CASE ~Finish(r)
    <3>1. \E m \in Emails : Continue(r, [req[r] EXCEPT !.step = "disable_mailbox", !.email = m])
      <4>. HIDE DEF Continue, Finish
      <4>. QED
        BY <1>9, <2>2, Zenon DEF DisableRead
    <3>2. req'[r].step = "disable_mailbox"
      BY <1>1, <3>1
    <3>. QED
      BY <1>9, <3>2 DEF Arrives
  <2>. QED
    BY <2>1, <2>2
<1>. QED
  <2>. HIDE DEF Continue, Finish, Request
  <2>. QED
    BY <1>3, <1>4, <1>5, <1>6, <1>7, <1>8, <1>9
       DEF HandlerSteps, ImportSteps, AccountSteps, CheckoutSteps

\* A request that moves comes to a step by the action that leads there.
LEMMA RequestArrives ==
  ASSUME TypeOK, Next, NEW r \in Requests, req'[r] # req[r]
  PROVE  Arrives(r)
<1>1. ASSUME req'[r] = IdleRequest PROVE Arrives(r)
  BY <1>1 DEF IdleRequest, Arrives
<1>2. ASSUME NEW p \in Requests, RequestCalls(p) \/ HandlerSteps(p) \/ RequestError(p),
             NEW locals, Continue(p, locals)
      PROVE  Arrives(r)
  <2>1. p = r /\ ~UNCHANGED req
    BY <1>2 DEF Continue
  <2>2. CASE RequestError(p)
    BY <1>1, <2>1, <2>2 DEF RequestError, Finish, Continue, TypeOK
  <2>. QED
    BY <1>2, <2>1, <2>2, CallArrives, EnqueueArrives, HandlerArrives
<1>. QED
  BY <1>1, <1>2, RequestFrame

(***************************************************************************)
(* JobOwnsItsLease.                                                        *)
(***************************************************************************)

\* Leases are never deleted, and LinkLease alone changes the job of one.
LeasesStay == \A l \in Ids : leases[l].state # "absent" =>
                /\ leases'[l].state # "absent" /\ leases'[l].job = leases[l].job

LEMMA LeaseFrame ==
  ASSUME TypeOK, Next
  PROVE  LeasesStay \/ \E r \in Requests : LinkLease(r)
<1>1. leases \in [Ids -> LeaseRow]
  BY DEF TypeOK
<1>2. ASSUME NEW l, NEW state \in {"released", "rotated", "failed"}, leases' = [leases EXCEPT ![l].state = state]
      PROVE  LeasesStay
  BY <1>1, <1>2 DEF LeasesStay, LeaseRow
<1>3. ASSUME NEW l \in Ids, NextLease(l), NEW row, leases' = [leases EXCEPT ![l] = row] PROVE LeasesStay
  BY <1>1, <1>3 DEF NextLease, LeasesStay
<1>4. ASSUME NEW r \in Requests, LeaseInsert(r) \/ LeaseCreate(r) \/ RotateInsert(r) PROVE LeasesStay
  BY <1>3, <1>4 DEF LeaseInsert, LeaseCreate, RotateInsert
<1>5. ASSUME NEW r \in Requests, CancelLease(r) \/ \E l \in Ids : LeaseRelease(r, l) \/ RotateCall(r, l)
      PROVE  LeasesStay
  BY <1>2, <1>5 DEF CancelLease, LeaseRelease, RotateCall
<1>6. CASE OkLease \/ FailLease
  BY <1>2, <1>6 DEF OkLease, FailLease
<1>7. CASE UNCHANGED leases
  BY <1>7 DEF LeasesStay
<1>. QED
  BY <1>4, <1>5, <1>6, <1>7, CallWrites, EnqueueWrites, CancelWrites, MailboxStepWrites,
     AccountStepWrites, WorkerWrites, OtherWrites DEF Next, HandlerSteps


\* The INSERT of a job takes the lease out of its handler's hands.
LEMMA JobTakesLease ==
  ASSUME TypeOK, RefsValid, LeaseInv, NEW r \in Requests, JobInsert(r)
  PROVE  LeaseInv'
<1>. DEFINE row == [status |-> "queued",
                    type |-> IF req[r].account = 0 THEN "register" ELSE "keepalive",
                    email |-> req[r].email, lease |-> req[r].lease, account |-> req[r].account]
<1>1. PICK i \in Ids : /\ NextJob(i) /\ jobs' = [jobs EXCEPT ![i] = row]
                       /\ req' = [req EXCEPT ![r] = [req[r] EXCEPT !.step = "mark_in_use", !.job = i]]
  BY DEF JobInsert, Continue
<1>2. /\ req'[r].step = "mark_in_use" /\ req'[r].job = i /\ req'[r].lease = req[r].lease
      /\ \A q \in Requests \ {r} : req'[q] = req[q]
  BY <1>1 DEF TypeOK, Request
<1>3. /\ jobs'[i].lease = req[r].lease /\ jobs'[i].status = "queued"
      /\ \A j \in Ids \ {i} : jobs'[j] = jobs[j]
      /\ InsertedJobs' = InsertedJobs \cup {i} /\ i \notin InsertedJobs
  BY <1>1 DEF TypeOK, InsertedJobs, Exists, NextJob
<1>4. UNCHANGED leases /\ req[r].step = "job_insert" /\ Spare(req[r].lease)
  BY DEF JobInsert, At, LeaseInv
<1>5. JobOwnsItsLease'
  BY <1>3, <1>4 DEF LeaseInv, JobOwnsItsLease, Spare, InsertedJobs
<1>6. ASSUME NEW q \in Requests, req'[q].step = "job_insert"
      PROVE  /\ Spare(req[q].lease)'
             /\ \A p \in Requests \ {q} : req'[p].step = "job_insert" => req'[p].lease # req'[q].lease
  <2>1. q # r /\ req[q].step = "job_insert" /\ req'[q] = req[q] /\ req[q].lease # req[r].lease
    BY <1>2, <1>4, <1>6 DEF LeaseInv
  <2>2. Spare(req[q].lease)
    BY <2>1 DEF LeaseInv
  <2>3. Spare(req[q].lease)'
    BY <1>3, <1>4, <2>1, <2>2 DEF Spare, InsertedJobs
  <2>. QED
    BY <1>2, <2>1, <2>3 DEF LeaseInv
<1>7. ASSUME NEW q \in Requests, req'[q].step \in {"mark_in_use", "link_lease"}
      PROVE  jobs'[req'[q].job].lease = req'[q].lease
  <2>1. CASE q = r
    BY <1>2, <1>3, <2>1
  <2>2. CASE q # r
    <3>1. req'[q] = req[q] /\ req[q].job \in InsertedJobs
      BY <1>2, <1>7, <2>2 DEF RefsValid, RequestFits, WithJob
    <3>. QED
      BY <1>3, <1>7, <3>1 DEF LeaseInv, InsertedJobs
  <2>. QED
    BY <2>1, <2>2
<1>. QED
  BY <1>5, <1>6, <1>7 DEF LeaseInv

\* A lease comes to be spare in its handler's hands: it was in nobody's.
LEMMA LeaseComesSpare ==
  ASSUME TypeOK, RefsValid, LeaseInv, NEW r \in Requests, LeaseInsert(r)
  PROVE  LeaseInv'
<1>1. PICK l \in Ids : /\ NextLease(l)
                       /\ leases' = [leases EXCEPT ![l] = [state |-> "held", job |-> 0, sid |-> sequence + 1]]
                       /\ req' = [req EXCEPT ![r] = [req[r] EXCEPT !.step = "job_insert", !.lease = l]]
  BY DEF LeaseInsert, Continue
<1>2. /\ req'[r].step = "job_insert" /\ req'[r].lease = l
      /\ \A q \in Requests \ {r} : req'[q] = req[q]
  BY <1>1 DEF TypeOK, Request
<1>3. /\ leases'[l].state = "held" /\ leases'[l].job = 0 /\ leases[l].state = "absent"
      /\ \A k \in Ids \ {l} : leases'[k] = leases[k]
  BY <1>1 DEF TypeOK, NextLease
<1>4. UNCHANGED jobs /\ InsertedJobs' = InsertedJobs
  BY DEF LeaseInsert, InsertedJobs, Exists
<1>5. \A j \in InsertedJobs : jobs[j].lease \in Ids /\ jobs[j].lease # l
  BY <1>3 DEF LeaseInv, JobOwnsItsLease, InsertedJobs, RefsValid, JobFits
<1>6. JobOwnsItsLease'
  BY <1>3, <1>4, <1>5 DEF LeaseInv, JobOwnsItsLease, InsertedJobs, Exists
<1>7. \A q \in Requests : req[q].step = "job_insert" => Spare(req[q].lease) /\ req[q].lease \in Ids \ {l}
  BY <1>3 DEF LeaseInv, Spare, RefsValid, RequestFits, WithLease
<1>8. Spare(l)' /\ \A k \in Ids \ {l} : Spare(k) => Spare(k)'
  BY <1>3, <1>4, <1>5 DEF Spare
<1>9. ASSUME NEW q \in Requests, req'[q].step = "job_insert"
      PROVE  /\ Spare(req[q].lease)'
             /\ \A p \in Requests \ {q} : req'[p].step = "job_insert" => req'[p].lease # req'[q].lease
  <2>1. Spare(req[q].lease)'
    BY <1>2, <1>7, <1>8, <1>9 DEF Spare
  <2>2. \A p \in Requests \ {q} : req'[p].step = "job_insert" => req'[p].lease # req'[q].lease
    BY <1>2, <1>7, <1>9 DEF LeaseInv
  <2>. QED
    BY <2>1, <2>2
<1>10. ASSUME NEW q \in Requests, req'[q].step \in {"mark_in_use", "link_lease"}
       PROVE  jobs'[req'[q].job].lease = req'[q].lease
  BY <1>2, <1>4, <1>10 DEF LeaseInv
<1>. QED
  BY <1>6, <1>9, <1>10 DEF LeaseInv

\* The backlink is set to the job that owns the lease.
LEMMA LinkNamesOwner ==
  ASSUME TypeOK, RefsValid, LeaseInv, NEW r \in Requests, LinkLease(r)
  PROVE  LeaseInv'
<1>1. /\ req[r].job \in InsertedJobs /\ req[r].lease \in Ids
      /\ jobs[req[r].job].lease = req[r].lease
  BY DEF LinkLease, At, LeaseInv, RefsValid, RequestFits, WithJob, WithLease
<1>2. /\ req'[r].step = "idle" /\ \A q \in Requests \ {r} : req'[q] = req[q]
  BY DEF LinkLease, Finish, Continue, IdleRequest, TypeOK
<1>3. /\ leases'[req[r].lease].state = leases[req[r].lease].state
      /\ leases'[req[r].lease].job = req[r].job
      /\ \A k \in Ids \ {req[r].lease} : leases'[k] = leases[k]
  BY <1>1 DEF LinkLease, TypeOK, LeaseRow
<1>4. UNCHANGED jobs /\ InsertedJobs' = InsertedJobs
  BY DEF LinkLease, InsertedJobs, Exists
<1>5. JobOwnsItsLease'
  <2>1. ASSUME NEW j \in InsertedJobs
        PROVE  leases'[jobs[j].lease].state # "absent" /\ leases'[jobs[j].lease].job \in {0, j}
    <3>1. /\ jobs[j].lease \in Ids
          /\ leases[jobs[j].lease].state # "absent" /\ leases[jobs[j].lease].job \in {0, j}
      BY DEF RefsValid, JobFits, LeaseInv, JobOwnsItsLease, InsertedJobs
    <3>2. jobs[j].lease = req[r].lease => j = req[r].job
      BY <1>1 DEF LeaseInv, JobOwnsItsLease, InsertedJobs
    <3>. QED
      BY <1>3, <3>1, <3>2
  <2>. QED
    BY <1>4, <2>1 DEF LeaseInv, JobOwnsItsLease, InsertedJobs, Exists
<1>6. ASSUME NEW q \in Requests, req'[q].step = "job_insert"
      PROVE  /\ Spare(req[q].lease)'
             /\ \A p \in Requests \ {q} : req'[p].step = "job_insert" => req'[p].lease # req'[q].lease
  <2>1. req'[q] = req[q] /\ Spare(req[q].lease) /\ req[q].lease \in Ids
    BY <1>2, <1>6 DEF LeaseInv, RefsValid, RequestFits, WithLease
  <2>2. req[q].lease # req[r].lease
    BY <1>1, <2>1 DEF Spare
  <2>3. Spare(req[q].lease)'
    BY <1>3, <1>4, <2>1, <2>2 DEF Spare
  <2>. QED
    BY <1>2, <1>6, <2>1, <2>3 DEF LeaseInv
<1>7. ASSUME NEW q \in Requests, req'[q].step \in {"mark_in_use", "link_lease"}
      PROVE  jobs'[req'[q].job].lease = req'[q].lease
  BY <1>2, <1>4, <1>7 DEF LeaseInv
<1>. QED
  BY <1>5, <1>6, <1>7 DEF LeaseInv

\* No other step moves a lease, or a handler that has one in hand but for
\* MarkInUse, which keeps it.
LEMMA LeasesUntouched ==
  ASSUME TypeOK, RefsValid, LeaseInv, Next, TasksKept, LeasesStay,
         \A r \in Requests : ~LeaseInsert(r) /\ ~JobInsert(r)
  PROVE  LeaseInv'
<1>1. /\ InsertedJobs' = InsertedJobs
      /\ \A j \in InsertedJobs : jobs'[j].lease = jobs[j].lease /\ jobs[j].lease \in Ids
  BY JobsStay DEF TasksKept, TaskKept, InsertedJobs, JobsKept, RefsValid, JobFits
<1>2. ASSUME NEW r \in Requests, req'[r].step \in {"job_insert", "mark_in_use"} PROVE req'[r] = req[r]
  BY <1>2, RequestArrives DEF Arrives
<1>3. ASSUME NEW r \in Requests, req'[r].step = "link_lease"
      PROVE  /\ req[r].step \in {"mark_in_use", "link_lease"}
             /\ req'[r].job = req[r].job /\ req'[r].lease = req[r].lease
  <2>1. CASE req'[r] = req[r]
    BY <1>3, <2>1
  <2>2. CASE MarkInUse(r)
    BY <2>2 DEF MarkInUse, At, Continue, TypeOK, Request
  <2>. QED
    BY <1>3, <2>1, <2>2, RequestArrives DEF Arrives
<1>4. JobOwnsItsLease'
  BY <1>1 DEF LeasesStay, LeaseInv, JobOwnsItsLease, InsertedJobs, Exists
<1>5. ASSUME NEW q \in Requests, req'[q].step = "job_insert"
      PROVE  /\ Spare(req[q].lease)'
             /\ \A p \in Requests \ {q} : req'[p].step = "job_insert" => req'[p].lease # req'[q].lease
  <2>1. req'[q] = req[q] /\ Spare(req[q].lease) /\ req[q].lease \in Ids
    BY <1>2, <1>5 DEF LeaseInv, RefsValid, RequestFits, WithLease
  <2>2. Spare(req[q].lease)'
    BY <1>1, <2>1 DEF Spare, LeasesStay
  <2>. QED
    BY <1>2, <1>5, <2>1, <2>2 DEF LeaseInv
<1>6. ASSUME NEW q \in Requests, req'[q].step \in {"mark_in_use", "link_lease"}
      PROVE  jobs'[req'[q].job].lease = req'[q].lease
  <2>1. /\ req[q].step \in {"mark_in_use", "link_lease"}
        /\ req'[q].job = req[q].job /\ req'[q].lease = req[q].lease
    BY <1>2, <1>3, <1>6
  <2>2. req[q].job \in InsertedJobs
    BY <2>1 DEF RefsValid, RequestFits, WithJob
  <2>. QED
    BY <1>1, <2>1, <2>2 DEF LeaseInv
<1>. QED
  BY <1>4, <1>5, <1>6 DEF LeaseInv

\* A job's lease is its own, whatever enqueues, rotations, cancellations and
\* restarts interleave: no other job has it and its backlink names no other.
THEOREM LeaseIsOwn == Spec => []JobOwnsItsLease
<1>1. Init => LeaseInv
  BY DEF Init, LeaseInv, JobOwnsItsLease, Exists, NoJob, IdleRequest
<1>2. TypeOK /\ RefsValid /\ LeaseInv /\ [Next]_vars => LeaseInv'
  <2>1. CASE UNCHANGED vars
    BY <2>1 DEF vars, LeaseInv, JobOwnsItsLease, Exists, Spare, InsertedJobs
  <2>2. ASSUME TypeOK, RefsValid, LeaseInv, Next PROVE LeaseInv'
    BY <2>2, JobTakesLease, LeaseComesSpare, LinkNamesOwner, LeasesUntouched, LeaseFrame, TaskFrame
  <2>. QED
    BY <2>1, <2>2
<1>3. LeaseInv => JobOwnsItsLease
  BY DEF LeaseInv
<1>. QED
  BY <1>1, <1>2, <1>3, TypeCorrect, PTL DEF Spec

(***************************************************************************)
(* How the worker comes to a step.                                         *)
(***************************************************************************)

WorkerComes ==
  /\ worker'.job # worker.job => WorkerPoll \/ OkEvent \/ FailLease \/ Restart
  /\ worker'.step = "poll" => OkEvent \/ FailLease \/ Restart
  /\ worker'.step = "claim" => WorkerPoll
  /\ worker'.step = "load" => WorkerClaim
  /\ worker'.step = "backend" => WorkerLaunch
  /\ worker'.step = "ok_job" => BackendStep
  /\ worker'.step = "fail_job" => WorkerNoBackend \/ BackendStep \/ WorkerError
  /\ worker'.step = "ok_lease" => OkJob
  /\ worker'.step = "ok_restore" => OkLease /\ jobs[worker.job].type = "keepalive"
  /\ worker'.step = "ok_account" => OkLease
  /\ worker'.step = "ok_bind" => OkAccount
  /\ worker'.step = "ok_event" => OkRestore \/ OkBind
  /\ worker'.step = "fail_read" => FailJob
  /\ worker'.step = "fail_mailbox" => FailRead
  /\ worker'.step = "fail_lease" => FailMailbox

LEMMA WorkerArrives ==
  ASSUME TypeOK, Next, worker' # worker
  PROVE  WorkerComes
<1>1. worker \in WorkerState
  BY DEF TypeOK
<1>2. \A step : Goto(step) => worker'.step = step /\ worker'.job = worker.job
  BY <1>1 DEF Goto, WorkerState
<1>3. CASE WorkerPoll
  <2>1. worker'.step = "claim"
    BY <1>1, <1>3 DEF WorkerPoll, WorkerState
  <2>. QED
    BY <1>3, <2>1 DEF WorkerComes
<1>4. CASE WorkerClaim \/ WorkerLaunch \/ WorkerDies
  <2>1. worker'.job = worker.job
    BY <1>2, <1>4 DEF WorkerClaim, WorkerLaunch, WorkerDies
  <2>2. \/ WorkerClaim /\ worker'.step = "load"
        \/ WorkerLaunch /\ worker'.step = "backend"
        \/ worker'.step = "dead"
    BY <1>2, <1>4 DEF WorkerClaim, WorkerLaunch, WorkerDies
  <2>. QED
    BY <2>1, <2>2 DEF WorkerComes
<1>5. CASE WorkerNoBackend \/ BackendStep
  <2>1. worker'.job = worker.job
    BY <1>1, <1>5 DEF WorkerNoBackend, BackendStep, BackendReturns, WorkerState
  <2>2. \/ WorkerNoBackend /\ worker'.step = "fail_job"
        \/ BackendStep /\ worker'.step \in {"ok_job", "fail_job"}
    BY <1>1, <1>5 DEF WorkerNoBackend, BackendStep, BackendReturns, WorkerState
  <2>. QED
    BY <2>1, <2>2 DEF WorkerComes
<1>6. CASE SuccessSteps
  <2>1. CASE OkJob
    BY <1>2, <2>1 DEF OkJob, WorkerComes
  <2>2. CASE OkLease
    <3>1. /\ worker'.job = worker.job
          /\ \/ worker'.step = "ok_restore" /\ jobs[worker.job].type = "keepalive"
             \/ worker'.step = "ok_account"
      BY <1>2, <2>2 DEF OkLease
    <3>. QED
      BY <2>2, <3>1 DEF WorkerComes
  <2>3. CASE OkAccount
    <3>1. worker'.job = worker.job /\ worker'.step = "ok_bind"
      BY <1>1, <2>3 DEF OkAccount, WorkerState
    <3>. QED
      BY <2>3, <3>1 DEF WorkerComes
  <2>4. CASE OkRestore \/ OkBind
    <3>1. worker'.job = worker.job /\ worker'.step = "ok_event"
      BY <1>2, <2>4 DEF OkRestore, OkBind
    <3>. QED
      BY <2>4, <3>1 DEF WorkerComes
  <2>5. CASE OkEvent
    BY <2>5 DEF OkEvent, IdleWorker, WorkerComes
  <2>. QED
    BY <1>6, <2>1, <2>2, <2>3, <2>4, <2>5 DEF SuccessSteps
<1>7. CASE FailureSteps
  <2>1. CASE FailJob
    BY <1>2, <2>1 DEF FailJob, WorkerComes
  <2>2. CASE FailRead
    <3>1. worker'.job = worker.job /\ worker'.step = "fail_mailbox"
      BY <1>1, <2>2 DEF FailRead, WorkerState
    <3>. QED
      BY <2>2, <3>1 DEF WorkerComes
  <2>3. CASE FailMailbox
    <3>1. worker'.job = worker.job /\ worker'.step = "fail_lease"
      BY <1>2, <2>3 DEF FailMailbox
    <3>. QED
      BY <2>3, <3>1 DEF WorkerComes
  <2>4. CASE FailLease
    BY <2>4 DEF FailLease, IdleWorker, WorkerComes
  <2>. QED
    BY <1>7, <2>1, <2>2, <2>3, <2>4 DEF FailureSteps
<1>8. CASE WorkerError
  <2>1. \/ worker' = [worker EXCEPT !.step = "dead"]
        \/ worker' = [worker EXCEPT !.step = "fail_job", !.outcome = "check_fail"]
    BY <1>8 DEF WorkerError
  <2>2. worker'.job = worker.job /\ worker'.step \in {"dead", "fail_job"}
    BY <1>1, <2>1 DEF WorkerState
  <2>. QED
    BY <1>8, <2>2 DEF WorkerComes
<1>9. CASE Restart
  BY <1>9 DEF Restart, IdleWorker, WorkerComes
<1>. QED
  BY <1>3, <1>4, <1>5, <1>6, <1>7, <1>8, <1>9, CallWrites, EnqueueWrites, CancelWrites,
     MailboxStepWrites, AccountStepWrites, OtherWrites
     DEF Next, HandlerSteps, WorkerNext, ClaimSteps

(***************************************************************************)
(* SuccessLeavesAccount.                                                   *)
(***************************************************************************)

\* What a step makes of the status of a job that was inserted.
LEMMA StatusFrame ==
  ASSUME TypeOK, RefsValid, Next, NEW j \in InsertedJobs, jobs'[j].status # jobs[j].status
  PROVE  \/ \E r \in Requests : CancelJob(r) /\ req[r].job = j /\ jobs'[j].status = "cancelled"
         \/ WorkerClaim /\ worker.job = j /\ jobs'[j].status = "running"
         \/ OkJob /\ worker.job = j /\ jobs'[j].status = "succeeded"
         \/ FailJob /\ worker.job = j /\ jobs'[j].status \in {"blocked", "failed"}
<1>1. jobs \in [Ids -> JobRow] /\ j \in Ids /\ jobs[j].status # "absent"
  BY DEF TypeOK, InsertedJobs, Exists
<1>2. ASSUME NEW i, NEW status, jobs' = [jobs EXCEPT ![i].status = status]
      PROVE  i = j /\ jobs'[j].status = status
  BY <1>1, <1>2 DEF JobRow
<1>3. ASSUME NEW r \in Requests, JobInsert(r) PROVE FALSE
  <2>1. PICK i \in Ids : NextJob(i) /\ \E row : jobs' = [jobs EXCEPT ![i] = row]
    BY <1>3 DEF JobInsert
  <2>. QED
    BY <1>1, <2>1 DEF NextJob
<1>4. \A r \in Requests : CancelJob(r) => req[r].job = j /\ jobs'[j].status = "cancelled"
  BY <1>2 DEF CancelJob
<1>5. WorkerClaim => worker.job = j /\ jobs'[j].status = "running"
  BY <1>2 DEF WorkerClaim
<1>6. OkJob => worker.job = j /\ jobs'[j].status = "succeeded"
  BY <1>2 DEF OkJob
<1>7. FailJob => worker.job = j /\ jobs'[j].status \in {"blocked", "failed"}
  BY <1>2 DEF FailJob
<1>. QED
  BY <1>3, <1>4, <1>5, <1>6, <1>7, CallWrites, EnqueueWrites, CancelWrites, MailboxStepWrites,
     AccountStepWrites, WorkerWrites, OtherWrites DEF Next, HandlerSteps

\* A job inserted in a step is queued.
LEMMA InsertedQueued ==
  ASSUME TypeOK, RefsValid, Next, NEW j \in InsertedJobs' \ InsertedJobs
  PROVE  jobs'[j].status = "queued" /\ \E r \in Requests : JobInsert(r) /\ req'[r].job = j
<1>1. PICK r \in Requests : JobInsert(r)
  BY TaskFrame DEF TasksKept, TaskKept, InsertedJobs
<1>2. PICK i \in Ids : /\ \E row : row.status = "queued" /\ jobs' = [jobs EXCEPT ![i] = row]
                       /\ req' = [req EXCEPT ![r] = [req[r] EXCEPT !.step = "mark_in_use", !.job = i]]
  BY <1>1 DEF JobInsert, Continue
<1>. QED
  BY <1>1, <1>2 DEF TypeOK, Request, InsertedJobs, Exists

LEMMA SuccessStep ==
  ASSUME TypeOK, RefsValid, LinkInv, SuccessInv, Next
  PROVE  SuccessInv'
<1>1. /\ \A m \in Emails : Linked(m) => Linked(m)'
      /\ \A j \in InsertedJobs : /\ j \in InsertedJobs' /\ jobs[j].email \in Emails
                                 /\ jobs'[j].email = jobs[j].email /\ jobs'[j].type = jobs[j].type
  BY MailboxesFit, JobsStay DEF RowFits, Linked, JobsKept, RefsValid, JobFits
<1>2. worker.step \notin {"poll", "dead"} => worker.job \in InsertedJobs
  BY DEF RefsValid, WorkerFits
<1>6. worker'.step = "poll" => worker'.job = 0
  <2>1. OkEvent \/ FailLease \/ Restart => worker'.job = 0
    BY DEF OkEvent, FailLease, Restart, IdleWorker
  <2>. QED
    BY <2>1, WorkerArrives DEF WorkerComes, SuccessInv
<1>7. worker'.step \in {"fail_read", "fail_mailbox", "fail_lease"} => jobs'[worker'.job].status # "succeeded"
  <2>1. ASSUME worker.job \in InsertedJobs, ~OkJob, jobs[worker.job].status # "succeeded"
        PROVE  jobs'[worker.job].status # "succeeded"
    BY <2>1, StatusFrame
  <2>2. ASSUME worker'.step = "fail_read", FailJob PROVE jobs'[worker'.job].status # "succeeded"
    <3>1. worker'.job = worker.job
      BY <2>2 DEF FailJob, Goto, TypeOK, WorkerState
    <3>2. worker.job \in InsertedJobs
      BY <1>2, <2>2 DEF FailJob
    <3>3. jobs'[worker.job].status \in {"blocked", "failed"}
      BY <2>2, <3>2 DEF FailJob, InsertedJobs, TypeOK, JobRow
    <3>. QED
      BY <3>1, <3>3
  <2>3. ASSUME FailRead \/ FailMailbox PROVE jobs'[worker'.job].status # "succeeded"
    <3>1. UNCHANGED jobs /\ worker'.job = worker.job /\ worker.step \in {"fail_read", "fail_mailbox"}
      BY <2>3 DEF FailRead, FailMailbox, Goto, tables, TypeOK, WorkerState
    <3>. QED
      BY <3>1 DEF SuccessInv
  <2>4. ASSUME UNCHANGED worker, worker.step \in {"fail_read", "fail_mailbox", "fail_lease"}
        PROVE  jobs'[worker'.job].status # "succeeded"
    BY <1>2, <2>1, <2>4 DEF OkJob, SuccessInv
  <2>. QED
    BY <2>2, <2>3, <2>4, WorkerArrives DEF WorkerComes
<1>8. worker'.step = "ok_restore" => jobs'[worker'.job].type = "keepalive"
  <2>1. ASSUME OkLease, jobs[worker.job].type = "keepalive" PROVE jobs'[worker'.job].type = "keepalive"
    BY <2>1 DEF OkLease, Goto, TypeOK, WorkerState
  <2>2. ASSUME UNCHANGED worker, worker.step = "ok_restore" PROVE jobs'[worker'.job].type = "keepalive"
    BY <1>1, <1>2, <2>2 DEF SuccessInv
  <2>. QED
    BY <2>1, <2>2, WorkerArrives DEF WorkerComes
<1>9. worker'.step = "ok_event" => \/ jobs'[worker'.job].type = "keepalive"
                                   \/ Linked(jobs[worker.job].email)'
  <2>1. CASE OkRestore
    BY <2>1 DEF OkRestore, Goto, TypeOK, WorkerState, SuccessInv
  <2>2. CASE OkBind
    <3>1. worker.account # 0 /\ worker.step = "ok_bind"
      BY <2>2 DEF OkBind, RefsValid, WorkerFits, AccountIds
    <3>2. jobs[worker.job].email \in Emails /\ mailboxes[jobs[worker.job].email] \in MailboxRow
      BY <3>1, Targets
    <3>3. mailboxes'[jobs[worker.job].email].account = worker.account
      BY <2>2, <3>2 DEF OkBind, Write, MailboxRow, TypeOK
    <3>4. worker'.job = worker.job /\ UNCHANGED jobs
      BY <2>2 DEF OkBind, Goto, TypeOK, WorkerState
    <3>. QED
      BY <3>1, <3>3, <3>4 DEF Linked
  <2>3. CASE UNCHANGED worker
    BY <1>1, <1>2, <2>3 DEF SuccessInv, Linked
  <2>. QED
    BY <2>1, <2>2, <2>3, WorkerArrives DEF WorkerComes
<1>. QED
  BY <1>6, <1>7, <1>8, <1>9 DEF SuccessInv

\* The steps of its own in which the worker takes up or leaves a job.
LEMMA JobChanges ==
  ASSUME TypeOK, WorkerNext \/ WorkerError, worker'.job # worker.job
  PROVE  WorkerPoll \/ OkEvent \/ FailLease
<1>1. worker \in WorkerState
  BY DEF TypeOK
<1>2. \A step : ~Goto(step)
  BY <1>1 DEF Goto, WorkerState
<1>3. ClaimSteps => WorkerPoll
  BY <1>1, <1>2 DEF ClaimSteps, WorkerClaim, WorkerLaunch, WorkerDies, WorkerNoBackend, WorkerState
<1>4. ~BackendStep /\ ~WorkerError
  BY <1>1 DEF BackendStep, BackendReturns, WorkerError, WorkerState
<1>5. SuccessSteps => OkEvent
  BY <1>1, <1>2 DEF SuccessSteps, OkJob, OkLease, OkRestore, OkAccount, OkBind, WorkerState
<1>6. FailureSteps => FailLease
  BY <1>1, <1>2 DEF FailureSteps, FailJob, FailRead, FailMailbox, WorkerState
<1>. QED
  BY <1>3, <1>4, <1>5, <1>6 DEF WorkerNext

\* The worker leaves a registration as succeeded only with its mailbox bound to
\* an account, whatever was cancelled, retried or checked meanwhile, whichever
\* statements failed and whatever a restart has lost.
THEOREM SuccessIsBound == Spec => SuccessLeavesAccount
<1>1. Init => SuccessInv
  BY DEF Init, SuccessInv, NoJob, IdleWorker
<1>2. TypeOK /\ RefsValid /\ LinkInv /\ SuccessInv /\ [Next]_vars => SuccessInv'
  <2>1. CASE UNCHANGED vars
    BY <2>1 DEF vars, SuccessInv, Linked
  <2>. QED
    BY <2>1, SuccessStep
<1>3. ASSUME TypeOK, SuccessInv, NEW j \in Ids, Leaves(j), jobs[j].status = "succeeded", jobs[j].type = "register"
      PROVE  mailboxes[jobs[j].email].account # 0
  <2>1. worker.job # 0
    BY <1>3 DEF Leaves, Ids
  <2>2. OkEvent \/ FailLease
    BY <1>3, <2>1, JobChanges DEF Leaves, WorkerPoll, SuccessInv
  <2>. QED
    BY <1>3, <2>2 DEF Leaves, OkEvent, FailLease, SuccessInv, Linked
<1>4. TypeOK /\ SuccessInv /\ [Next]_vars =>
        [\A j \in Ids : Leaves(j) /\ jobs[j].status = "succeeded" /\ jobs[j].type = "register" =>
           mailboxes[jobs[j].email].account # 0]_vars
  BY <1>3
<1>. QED
  BY <1>1, <1>2, <1>4, TypeCorrect, LinksHold, PTL DEF Spec, SuccessLeavesAccount

(***************************************************************************)
(* InUseHasUser, while the process runs and no statement fails.            *)
(***************************************************************************)

\* How a handler, and the worker, leave the steps that the lock rests on.
LEMMA RequestLeaves ==
  ASSUME NoFaults, TypeOK, Next, NEW r \in Requests, req'[r] # req[r]
  PROVE  /\ req[r].step = "mark_in_use" => MarkInUse(r)
         /\ req[r].step = "cancel_read" => CancelRead(r)
         /\ req[r].step = "cancel_mailbox" => CancelMailbox(r)
<1>1. ASSUME RequestCalls(r), ~UNCHANGED req PROVE req[r].step = "idle"
  BY <1>1, Zenon
     DEF RequestCalls, RegisterCall, CancelCall, RetryCall, ImportCall, CheckCall, PatchReady,
         PatchDisableCall, PatchClear, CheckoutCall, KeepaliveCall, ReleaseCall, DisableCall,
         LeaseCreate, LeaseRelease, RotateCall, SetPaused, Receives
<1>2. ASSUME EnqueueSteps(r)
      PROVE  \/ req[r].step = "mark_in_use" /\ MarkInUse(r)
             \/ req[r].step \notin {"mark_in_use", "cancel_read", "cancel_mailbox"}
  BY <1>2 DEF EnqueueSteps, RegisterPick, RegisterRefused, KeepalivePick, KeepaliveRefused, LeaseInsert,
              LeaseRefused, JobInsert, MarkInUse, LinkLease, At
<1>3. ASSUME CancelSteps(r) \/ RetryMailbox(r)
      PROVE  /\ req[r].step # "mark_in_use"
             /\ req[r].step = "cancel_read" => CancelRead(r)
             /\ req[r].step = "cancel_mailbox" => CancelMailbox(r)
  BY <1>3 DEF CancelSteps, CancelJob, CancelRead, CancelMailbox, CancelLease, RetryMailbox, At
<1>4. ASSUME \/ ImportSteps(r) \/ PatchDisable(r) \/ CheckSteps(r)
             \/ AccountSteps(r) \/ RotateInsert(r) \/ RotateRefused(r)
      PROVE  req[r].step \notin {"mark_in_use", "cancel_read", "cancel_mailbox"}
  BY <1>4 DEF ImportSteps, ImportUpdate, ImportInsert, ImportConflict, ImportSecret, PatchDisable,
              CheckSteps, CheckNoSecret, CheckOk, CheckFail, AccountSteps, CheckoutSteps,
              CheckoutHealth, CheckoutLease, ReleaseWrite, DisableRead, DisableMailbox,
              RotateInsert, RotateRefused, At
<1>5. ~Restart /\ ~RequestError(r)
  BY DEF Restart, RequestError, NoFaults
<1>6. (RequestCalls(r) \/ HandlerSteps(r)) /\ ~UNCHANGED req
  <2>1. ASSUME NEW p \in Requests, NEW locals, Continue(p, locals) PROVE p = r
    BY <2>1 DEF Continue
  <2>2. ~UNCHANGED req
    OBVIOUS
  <2>3. req' = [q \in Requests |-> IdleRequest] => Restart \/ \E p \in Requests : \E locals : Continue(p, locals)
    <3>1. CASE \E p \in Requests : RequestCalls(p) \/ HandlerSteps(p) \/ RequestError(p)
      BY <2>2, <3>1, OneRequestMoves
    <3>2. CASE ~\E p \in Requests : RequestCalls(p) \/ HandlerSteps(p) \/ RequestError(p)
      BY <2>2, <3>2, WorkerWrites, OtherWrites DEF Next
    <3>. QED
      BY <3>1, <3>2
  <2>. QED
    BY <1>5, <2>1, <2>2, <2>3, OneRequestMoves, WorkerWrites, OtherWrites DEF Next
<1>. QED
  BY <1>1, <1>2, <1>3, <1>4, <1>6 DEF HandlerSteps

LEMMA WorkerLeaves ==
  ASSUME NoFaults, Next, worker' # worker
  PROVE  /\ worker.step = "ok_lease" => OkLease
         /\ worker.step = "ok_restore" => OkRestore
         /\ worker.step = "ok_account" => OkAccount
         /\ worker.step = "ok_bind" => OkBind
         /\ worker.step = "fail_read" => FailRead
         /\ worker.step = "fail_mailbox" => FailMailbox
<1>1. ~Restart /\ ~WorkerError
  BY DEF Restart, WorkerError, NoFaults
<1>2. WorkerNext
  BY <1>1, CallWrites, EnqueueWrites, CancelWrites, MailboxStepWrites, AccountStepWrites, OtherWrites
     DEF Next, HandlerSteps
<1>3. CASE ClaimSteps \/ BackendStep
  BY <1>3 DEF ClaimSteps, BackendStep, WorkerPoll, WorkerClaim, WorkerLaunch, WorkerDies,
              WorkerNoBackend, BackendReturns
<1>4. CASE SuccessSteps
  BY <1>4 DEF SuccessSteps, OkJob, OkLease, OkRestore, OkAccount, OkBind, OkEvent
<1>5. CASE FailureSteps
  BY <1>5 DEF FailureSteps, FailJob, FailRead, FailMailbox, FailLease
<1>. QED
  BY <1>2, <1>3, <1>4, <1>5 DEF WorkerNext

\* The enqueue of a job is over once and for all.
LEMMA SettledStays ==
  ASSUME TypeOK, RefsValid, Next, NEW j \in InsertedJobs, EnqueueSettled(j)
  PROVE  EnqueueSettled(j)'
<1>1. SUFFICES ASSUME NEW r \in Requests, req'[r].job = j, req'[r].step \in {"mark_in_use", "link_lease"}
               PROVE  FALSE
  BY DEF EnqueueSettled
<1>2. CASE JobInsert(r)
  BY <1>1, <1>2 DEF JobInsert, Continue, NextJob, InsertedJobs, Exists, TypeOK, Request
<1>3. CASE MarkInUse(r)
  <2>1. req[r].job = j /\ req[r].step = "mark_in_use"
    BY <1>1, <1>3 DEF MarkInUse, Continue, At, TypeOK, Request
  <2>. QED
    BY <2>1 DEF EnqueueSettled
<1>4. CASE req'[r] = req[r]
  BY <1>1, <1>4 DEF EnqueueSettled
<1>. QED
  BY <1>1, <1>2, <1>3, <1>4, RequestArrives DEF Arrives

\* A write to a mailbox that leaves it not in_use.
Frees(m) == \E row : Write(m, row) /\ row.status # "in_use"

LEMMA StatusFrees ==
  ASSUME TypeOK, NEW m \in Emails, NEW status, status # "in_use", SetStatus(m, status)
  PROVE  Frees(m)
<1>1. [mailboxes[m] EXCEPT !.status = status].status # "in_use"
  BY DEF TypeOK, MailboxRow
<1>. QED
  BY <1>1 DEF SetStatus, Frees

LEMMA WorkerFrees ==
  ASSUME TypeOK, RefsValid, OkRestore \/ OkBind \/ FailMailbox
  PROVE  jobs[worker.job].email \in Emails /\ Frees(jobs[worker.job].email)
<1>. DEFINE m == jobs[worker.job].email
<1>1. m \in Emails /\ mailboxes[m] \in MailboxRow
  BY Targets DEF OkRestore, OkBind, FailMailbox
<1>2. CASE OkRestore
  <2>1. Restored(mailboxes[m].account) # "in_use"
    BY DEF Restored
  <2>. QED
    BY <1>1, <1>2, <2>1, StatusFrees DEF OkRestore
<1>3. CASE OkBind
  <2>1. [mailboxes[m] EXCEPT !.status = "bound", !.account = worker.account, !.health = "ok",
                             !.fails = 0, !.cooldown = "null"].status # "in_use"
    BY <1>1 DEF MailboxRow
  <2>. QED
    BY <1>1, <1>3, <2>1 DEF OkBind, Frees
<1>4. CASE FailMailbox
  <2>. DEFINE next == NextMailboxStatus(worker.seen.fails + 1, MaxFail, worker.outcome)
              fails == Saturate(worker.seen.fails + 1)
              row == [mailboxes[m] EXCEPT
                        !.status = IF next = "disabled" THEN "disabled"
                                   ELSE IF worker.seen.account # 0 THEN "bound" ELSE "cooling",
                        !.health = IF next = "disabled" THEN "dead" ELSE "cooling",
                        !.fails = fails, !.cooldown = "future"]
  <2>1. Write(m, row)
    BY <1>4 DEF FailMailbox
  <2>2. row.status # "in_use"
    <3>. HIDE DEF next, fails
    <3>. QED
      BY <1>1 DEF MailboxRow
  <2>. HIDE DEF row
  <2>. QED
    BY <1>1, <2>1, <2>2 DEF Frees
<1>. QED
  BY <1>1, <1>2, <1>3, <1>4

LEMMA CancelFrees ==
  ASSUME TypeOK, RefsValid, NEW r \in Requests, CancelMailbox(r)
  PROVE  jobs[req[r].job].email \in Emails /\ Frees(jobs[req[r].job].email)
<1>1. jobs[req[r].job].email \in Emails
  BY Targets DEF CancelMailbox, At, WithJob
<1>2. Restored(req[r].seen.account) # "in_use"
  BY DEF Restored
<1>. QED
  BY <1>1, <1>2, StatusFrees DEF CancelMailbox

\* The statement of MarkInUse is the only one that locks a mailbox.
LEMMA OnlyMarkLocks ==
  ASSUME TypeOK, RefsValid, LinkInv, Next, NEW m \in Emails, mailboxes'[m].status = "in_use"
  PROVE  \/ mailboxes[m].status = "in_use"
         \/ \E r \in Requests : MarkInUse(r) /\ req[r].email = m
<1>0. mailboxes \in [Emails -> MailboxRow]
  BY DEF TypeOK
<1>1. ASSUME NEW n \in Emails, Frees(n) PROVE mailboxes[m].status = "in_use"
  BY <1>0, <1>1 DEF Frees, Write
<1>2. ASSUME NEW r \in Requests, RequestCalls(r) PROVE mailboxes[m].status = "in_use"
  <2>1. ASSUME NEW n \in Emails, PatchReady(r, n) PROVE mailboxes[m].status = "in_use"
    BY <1>1, <2>1, StatusFrees DEF PatchReady
  <2>2. ASSUME NEW n \in Emails, PatchClear(r, n) PROVE mailboxes[m].status = "in_use"
    <3>. DEFINE row == [mailboxes[n] EXCEPT !.cooldown = "null",
                          !.health = IF @ = "cooling" THEN "unknown" ELSE @,
                          !.status = IF @ = "cooling" THEN "ready" ELSE @]
    <3>1. row.status = mailboxes[n].status \/ row.status = "ready"
      BY <1>0 DEF MailboxRow
    <3>2. mailboxes' = [mailboxes EXCEPT ![n] = row]
      BY <2>2 DEF PatchClear, Write
    <3>. HIDE DEF row
    <3>. QED
      BY <1>0, <3>1, <3>2
  <2>. QED
    BY <1>2, <2>1, <2>2, CallWrites
<1>3. ASSUME NEW r \in Requests, MarkInUse(r)
      PROVE  mailboxes[m].status = "in_use" \/ req[r].email = m
  BY <1>0, <1>3 DEF MarkInUse, SetStatus, Write
<1>4. ASSUME NEW r \in Requests, CancelMailbox(r) \/ RetryMailbox(r) PROVE mailboxes[m].status = "in_use"
  <2>1. CASE RetryMailbox(r)
    <3>. DEFINE job == jobs[req[r].job]
                status == IF job.type = "keepalive" THEN Restored(mailboxes[job.email].account) ELSE "ready"
    <3>1. job.email \in Emails /\ SetStatus(job.email, status)
      BY <2>1, Targets DEF RetryMailbox, At, WithJob
    <3>2. status # "in_use"
      BY DEF Restored
    <3>. HIDE DEF job, status
    <3>. QED
      BY <1>1, <3>1, <3>2, StatusFrees
  <2>. QED
    BY <1>1, <1>4, <2>1, CancelFrees
<1>5. ASSUME NEW r \in Requests, PatchDisable(r) \/ DisableMailbox(r) PROVE mailboxes[m].status = "in_use"
  BY <1>1, <1>5, Targets, StatusFrees DEF PatchDisable, DisableMailbox, At, WithEmail
<1>6. ASSUME NEW r \in Requests, ImportUpdate(r) \/ ImportInsert(r) PROVE mailboxes[m].status = "in_use"
  <2>. DEFINE n == req[r].email
              updated == [mailboxes[n] EXCEPT
                            !.status = IF req[r].seen.status = "bound" THEN "bound" ELSE "ready",
                            !.health = "unknown", !.fails = 0, !.cooldown = "null"]
              inserted == [NoMailbox EXCEPT !.status = "ready"]
  <2>1. n \in Emails /\ (Write(n, updated) \/ Write(n, inserted))
    BY <1>6, Targets DEF ImportUpdate, ImportInsert, At, WithEmail
  <2>2. updated.status # "in_use" /\ inserted.status # "in_use"
    BY <1>0, <2>1 DEF MailboxRow, NoMailbox
  <2>. HIDE DEF n, updated, inserted
  <2>. QED
    BY <1>1, <2>1, <2>2 DEF Frees
<1>7. ASSUME NEW r \in Requests, CheckOk(r) PROVE mailboxes[m].status = "in_use"
  <2>. DEFINE n == req[r].email
              status == IF req[r].seen.status \notin {"ready", "cooling", "bound"}
                        THEN req[r].seen.status ELSE Restored(req[r].seen.account)
              row == [mailboxes[n] EXCEPT !.health = "ok", !.fails = 0, !.cooldown = "null",
                                          !.status = status]
  <2>1. n \in Emails /\ Write(n, row)
    BY <1>7, Targets DEF CheckOk, At, WithEmail
  <2>2. status # "in_use"
    BY <1>7 DEF CheckOk, At, LinkInv, SeenLinksHold, RequestLinks, WorkerLinks, Restored
  <2>3. row.status = status
    BY <1>0, <2>1 DEF MailboxRow
  <2>. HIDE DEF n, status, row
  <2>. QED
    BY <1>1, <2>1, <2>2, <2>3 DEF Frees
<1>8. ASSUME NEW r \in Requests, NEW class \in {"token_dead", "check_fail"}, CheckFail(r, class)
      PROVE  mailboxes[m].status = "in_use"
  <2>. DEFINE n == req[r].email
              next == NextMailboxStatus(req[r].seen.fails + 1, MaxFail, class)
              row == [mailboxes[n] EXCEPT
                        !.health = IF next = "disabled" THEN "dead" ELSE "cooling",
                        !.fails = Saturate(req[r].seen.fails + 1), !.cooldown = "future", !.status = next]
  <2>1. n \in Emails /\ Write(n, row)
    BY <1>8, Targets DEF CheckFail, At, WithEmail
  <2>2. next # "in_use"
    BY NextStatusType
  <2>. HIDE DEF next
  <2>3. row.status = next
    BY <1>0, <2>1 DEF MailboxRow
  <2>. HIDE DEF n, row
  <2>. QED
    BY <1>1, <2>1, <2>2, <2>3 DEF Frees
<1>9. ASSUME NEW n \in Emails, CooldownElapses(n) PROVE mailboxes[m].status = "in_use"
  <2>1. mailboxes' = [mailboxes EXCEPT ![n] = [mailboxes[n] EXCEPT !.cooldown = "past"]]
    BY <1>9 DEF CooldownElapses, Write
  <2>. QED
    BY <1>0, <2>1 DEF MailboxRow
<1>10. CASE UNCHANGED mailboxes
  BY <1>10
<1>11. CASE WorkerNext
  BY <1>1, <1>10, <1>11, WorkerFrees, WorkerWrites
<1>. QED
  BY <1>2, <1>3, <1>4, <1>5, <1>6, <1>7, <1>8, <1>9, <1>10, <1>11, EnqueueWrites, CancelWrites,
     MailboxStepWrites, AccountStepWrites, OtherWrites DEF Next, HandlerSteps

\* A job that was active stops being so by the statement that makes somebody
\* responsible for its mailbox.
LEMMA ActiveEnds ==
  ASSUME TypeOK, RefsValid, Next, NEW j \in InsertedJobs, ActiveJob(j), ~ActiveJob(j)'
  PROVE  \/ \E r \in Requests : CancelJob(r) /\ req[r].job = j
         \/ (OkJob \/ FailJob) /\ worker.job = j
<1>1. jobs'[j].status # jobs[j].status
  BY DEF ActiveJob
<1>. QED
  BY <1>1, StatusFrame DEF ActiveJob

\* Somebody is there to give j's mailbox back.
Held(j) == ActiveJob(j) \/ BeingCancelled(j) \/ BeingFinished(j)

\* Whoever is there stays until the mailbox is given back.
LEMMA HolderStays ==
  ASSUME NoFaults, TypeOK, RefsValid, Next, NEW j \in InsertedJobs, Held(j)
  PROVE  Held(j)' \/ (jobs[j].email \in Emails /\ Frees(jobs[j].email))
<1>1. CASE ActiveJob(j) /\ ~ActiveJob(j)'
  <2>1. ASSUME NEW r \in Requests, CancelJob(r), req[r].job = j PROVE BeingCancelled(j)'
    <3>1. req'[r].step = "cancel_read" /\ req'[r].job = j
      BY <2>1 DEF CancelJob, Continue, TypeOK, Request
    <3>. QED
      BY <3>1 DEF BeingCancelled
  <2>2. ASSUME OkJob \/ FailJob, worker.job = j PROVE BeingFinished(j)'
    BY <2>2 DEF OkJob, FailJob, Goto, TypeOK, WorkerState, BeingFinished
  <2>. QED
    BY <1>1, <2>1, <2>2, ActiveEnds DEF Held
<1>2. ASSUME NEW r \in Requests, req[r].job = j, req[r].step \in {"cancel_read", "cancel_mailbox"}
      PROVE  Held(j)' \/ (jobs[j].email \in Emails /\ Frees(jobs[j].email))
  <2>1. CASE req'[r] = req[r]
    BY <1>2, <2>1 DEF Held, BeingCancelled
  <2>2. CASE CancelRead(r)
    <3>1. req'[r].step = "cancel_mailbox" /\ req'[r].job = j
      BY <1>2, <2>2 DEF CancelRead, Continue, TypeOK, Request
    <3>. QED
      BY <3>1 DEF Held, BeingCancelled
  <2>3. CASE CancelMailbox(r)
    BY <1>2, <2>3, CancelFrees
  <2>. QED
    BY <1>2, <2>1, <2>2, <2>3, RequestLeaves
<1>3. CASE BeingFinished(j)
  <2>1. CASE worker' = worker
    BY <1>3, <2>1 DEF Held, BeingFinished
  <2>2. CASE OkLease \/ OkAccount \/ FailRead
    <3>1. /\ worker'.job = worker.job
          /\ worker'.step \in {"ok_restore", "ok_account", "ok_bind", "fail_mailbox"}
      BY <2>2 DEF OkLease, OkAccount, FailRead, Goto, TypeOK, WorkerState
    <3>. QED
      BY <1>3, <3>1 DEF Held, BeingFinished
  <2>3. CASE OkRestore \/ OkBind \/ FailMailbox
    BY <1>3, <2>3, WorkerFrees DEF BeingFinished
  <2>. QED
    BY <1>3, <2>1, <2>2, <2>3, WorkerLeaves DEF BeingFinished
<1>. QED
  BY <1>1, <1>2, <1>3 DEF Held, BeingCancelled

LEMMA LockStep ==
  ASSUME NoFaults, TypeOK, RefsValid, LinkInv, LockInv, Next
  PROVE  LockInv'
<1>1. \A j \in InsertedJobs : /\ j \in InsertedJobs' /\ jobs[j].email \in Emails
                              /\ jobs'[j].email = jobs[j].email
  BY JobsStay DEF JobsKept, RefsValid, JobFits
<1>2. mailboxes \in [Emails -> MailboxRow] /\ ~Restart /\ ~WorkerError
  BY DEF TypeOK, Restart, WorkerError, NoFaults
<1>3. \A j \in Ids : Held(j) => j \in InsertedJobs
  BY DEF Held, ActiveJob, BeingCancelled, BeingFinished, InsertedJobs, Exists, RefsValid,
         RequestFits, WithJob, WorkerFits
<1>4. InUseHasUser'
  <2>1. SUFFICES ASSUME NEW m \in Emails, mailboxes'[m].status = "in_use"
                 PROVE  \E j \in Ids : jobs'[j].email = m /\ Held(j)'
    BY DEF InUseHasUser, Held
  <2>2. CASE mailboxes[m].status = "in_use"
    <3>1. PICK j \in Ids : jobs[j].email = m /\ Held(j)
      BY <2>2 DEF LockInv, InUseHasUser, Held
    <3>2. ~Frees(m)
      BY <1>2, <2>1 DEF Frees, Write
    <3>3. j \in InsertedJobs
      BY <1>3, <3>1
    <3>. QED
      BY <1>1, <3>1, <3>2, <3>3, HolderStays
  <2>3. ASSUME NEW r \in Requests, MarkInUse(r), req[r].email = m
        PROVE  \E j \in Ids : jobs'[j].email = m /\ Held(j)'
    <3>1. PICK j \in Ids : ActiveJob(j) /\ jobs[j].email = m
      BY <2>3, Targets DEF MarkInUse, At, WithJob, LockInv
    <3>2. UNCHANGED jobs
      BY <2>3 DEF MarkInUse
    <3>. QED
      BY <3>1, <3>2 DEF Held, ActiveJob
  <2>. QED
    BY <2>1, <2>2, <2>3, OnlyMarkLocks
<1>5. ASSUME NEW r \in Requests, req'[r].step = "mark_in_use"
      PROVE  ActiveJob(req[r].job)' /\ jobs'[req'[r].job].email = req'[r].email
  <2>1. CASE req'[r] = req[r]
    <3>1. /\ req[r].job \in InsertedJobs /\ ActiveJob(req[r].job)
          /\ jobs[req[r].job].email = req[r].email /\ ~EnqueueSettled(req[r].job)
      BY <1>5, <2>1 DEF LockInv, RefsValid, RequestFits, WithJob, EnqueueSettled
    <3>2. ActiveJob(req[r].job)'
      <4>. DEFINE j == req[r].job
      <4>1. ASSUME NEW q \in Requests, CancelJob(q), req[q].job = j PROVE FALSE
        BY <3>1, <4>1 DEF CancelJob, At, LockInv
      <4>2. ASSUME OkJob \/ FailJob, worker.job = j PROVE FALSE
        BY <3>1, <4>2 DEF OkJob, FailJob, LockInv
      <4>3. jobs'[j].status \in {"queued", "running"}
        BY <3>1, <4>1, <4>2, StatusFrame DEF ActiveJob
      <4>. QED
        BY <2>1, <4>3 DEF ActiveJob
    <3>. QED
      BY <1>1, <2>1, <3>1, <3>2
  <2>2. CASE JobInsert(r)
    <3>1. PICK i \in Ids :
            /\ jobs' = [jobs EXCEPT ![i] =
                 [status |-> "queued",
                  type |-> IF req[r].account = 0 THEN "register" ELSE "keepalive",
                  email |-> req[r].email, lease |-> req[r].lease, account |-> req[r].account]]
            /\ req' = [req EXCEPT ![r] = [req[r] EXCEPT !.step = "mark_in_use", !.job = i]]
      BY <2>2 DEF JobInsert, Continue
    <3>2. req'[r].job = i /\ req'[r].email = req[r].email
      BY <3>1 DEF TypeOK, Request
    <3>3. jobs'[i].status = "queued" /\ jobs'[i].email = req[r].email
      BY <3>1 DEF TypeOK
    <3>. QED
      BY <3>2, <3>3 DEF ActiveJob
  <2>. QED
    BY <1>5, <2>1, <2>2, RequestArrives DEF Arrives
<1>6. ASSUME NEW r \in Requests, req'[r].step = "cancel_job" PROVE EnqueueSettled(req[r].job)'
  <2>1. CASE req'[r] = req[r]
    <3>1. req[r].job \in InsertedJobs /\ EnqueueSettled(req[r].job)
      BY <1>6, <2>1 DEF LockInv, RefsValid, RequestFits, WithJob
    <3>2. PICK j \in InsertedJobs : j = req[r].job
      BY <3>1
    <3>3. EnqueueSettled(j)'
      BY <3>1, <3>2, SettledStays
    <3>. QED
      BY <2>1, <3>2, <3>3 DEF EnqueueSettled
  <2>2. ASSUME NEW j \in Ids, CancelCall(r, j) PROVE EnqueueSettled(req[r].job)'
    <3>1. j \in InsertedJobs /\ EnqueueSettled(j)
      BY <2>2 DEF CancelCall, ActiveJob, InsertedJobs, Exists
    <3>2. EnqueueSettled(j)'
      BY <3>1, SettledStays
    <3>3. req'[r].job = j
      BY <2>2 DEF CancelCall, Continue, TypeOK, Request
    <3>. QED
      BY <3>2, <3>3 DEF EnqueueSettled
  <2>. QED
    BY <1>6, <2>1, <2>2, RequestArrives DEF Arrives
<1>7. worker'.step \notin {"poll", "dead", "claim", "load", "backend"} => EnqueueSettled(worker.job)'
  <2>1. SUFFICES ASSUME worker'.step \notin {"poll", "dead", "claim", "load", "backend"}
                 PROVE  EnqueueSettled(worker.job)'
    OBVIOUS
  <2>2. /\ worker'.job = worker.job /\ worker.job \in InsertedJobs
        /\ EnqueueSettled(worker.job)
    <3>1. CASE worker' = worker
      BY <2>1, <3>1 DEF LockInv, RefsValid, WorkerFits
    <3>2. CASE worker' # worker
      <4>1. worker'.job = worker.job
        <5>1. WorkerPoll => worker'.step = "claim"
          BY DEF WorkerPoll, TypeOK, WorkerState
        <5>2. OkEvent \/ FailLease => worker'.step = "poll"
          BY DEF OkEvent, FailLease, IdleWorker
        <5>. QED
          BY <1>2, <2>1, <3>2, <5>1, <5>2, WorkerArrives DEF WorkerComes
      <4>2. worker.step \notin {"poll", "dead"}
        <5>1. WorkerNext
          BY <1>2, <3>2, CallWrites, EnqueueWrites, CancelWrites, MailboxStepWrites,
             AccountStepWrites, OtherWrites DEF Next, HandlerSteps
        <5>2. ~WorkerPoll
          BY <2>1 DEF WorkerPoll, TypeOK, WorkerState
        <5>. QED
          BY <5>1, <5>2 DEF WorkerNext, ClaimSteps, WorkerClaim, WorkerLaunch, WorkerDies,
             WorkerNoBackend, BackendStep, BackendReturns, SuccessSteps, OkJob, OkLease, OkRestore,
             OkAccount, OkBind, OkEvent, FailureSteps, FailJob, FailRead, FailMailbox, FailLease
      <4>3. \/ WorkerNoBackend \/ BackendStep
            \/ worker.step \notin {"poll", "dead", "claim", "load", "backend"}
        <5>1. ~WorkerClaim /\ ~WorkerLaunch /\ ~WorkerDies
          BY <2>1 DEF WorkerClaim, WorkerLaunch, WorkerDies, Goto, TypeOK, WorkerState
        <5>2. WorkerNext
          BY <1>2, <3>2, CallWrites, EnqueueWrites, CancelWrites, MailboxStepWrites,
             AccountStepWrites, OtherWrites DEF Next, HandlerSteps
        <5>3. ~WorkerPoll
          BY <4>2 DEF WorkerPoll
        <5>. QED
          BY <5>1, <5>2, <5>3 DEF WorkerNext, ClaimSteps, SuccessSteps, OkJob, OkLease, OkRestore,
             OkAccount, OkBind, OkEvent, FailureSteps, FailJob, FailRead, FailMailbox, FailLease
      <4>4. EnqueueSettled(worker.job)
        BY <4>3 DEF WorkerNoBackend, BackendStep, BackendReturns, LockInv
      <4>. QED
        BY <4>1, <4>2, <4>4 DEF RefsValid, WorkerFits
    <3>. QED
      BY <3>1, <3>2
  <2>3. PICK j \in InsertedJobs : j = worker.job
    BY <2>2
  <2>4. EnqueueSettled(j)'
    BY <2>2, <2>3, SettledStays
  <2>. QED
    BY <2>2, <2>3, <2>4 DEF EnqueueSettled
<1>. QED
  BY <1>4, <1>5, <1>6, <1>7 DEF LockInv

LEMMA LocksHold == ASSUME NoFaults PROVE Spec => []LockInv
<1>1. Init => LockInv
  BY DEF Init, LockInv, InUseHasUser, NoMailbox, IdleRequest, IdleWorker
<1>2. TypeOK /\ RefsValid /\ LinkInv /\ LockInv /\ [Next]_vars => LockInv'
  <2>1. CASE UNCHANGED vars
    BY <2>1 DEF vars, LockInv, InUseHasUser, ActiveJob, BeingCancelled, BeingFinished, EnqueueSettled
  <2>. QED
    BY <2>1, LockStep
<1>. QED
  BY <1>1, <1>2, TypeCorrect, LinksHold, PTL DEF Spec

\* While the process runs and no statement fails, a mailbox that is in_use, which
\* import, check and disable refuse to touch, has an active job or somebody
\* about to release it, whatever requests interleave.
THEOREM InUseIsUsed ==
  ASSUME NoFaults
  PROVE  Spec => []InUseHasUser
<1>1. LockInv => InUseHasUser
  BY DEF LockInv
<1>. QED
  BY <1>1, LocksHold, PTL

(***************************************************************************)
(* OneActiveJob and DeadIsDisabled, under careful clients.                 *)
(***************************************************************************)

\* What careful clients' calls leave of the statements that write a mailbox.
LEMMA CarefulWrites ==
  ASSUME CarefulClients, SerialInv, Next
  PROVE  \/ UNCHANGED mailboxes \/ \E m \in Emails : CooldownElapses(m)
         \/ \E r \in Requests : \/ MarkInUse(r) \/ DisableMailbox(r)
                                \/ ImportUpdate(r) \/ ImportInsert(r) \/ CheckOk(r)
                                \/ \E class \in {"token_dead", "check_fail"} : CheckFail(r, class)
         \/ OkRestore \/ OkBind \/ FailMailbox
<1>1. \A r \in Requests, m \in Emails : ~PatchReady(r, m) /\ ~PatchClear(r, m)
  BY DEF PatchReady, PatchClear, Receives, CarefulClients
<1>2. \A r \in Requests : ~PatchDisable(r) /\ ~CancelMailbox(r) /\ ~RetryMailbox(r)
  BY DEF PatchDisable, CancelMailbox, RetryMailbox, At, SerialInv, TakesFree
<1>. QED
  BY <1>1, <1>2, CallWrites, EnqueueWrites, CancelWrites, MailboxStepWrites, AccountStepWrites,
     WorkerWrites, OtherWrites DEF Next, HandlerSteps

\* What such a statement makes of a row: who wrote it, and that no live mailbox
\* is left with a dead health.
Locked(old, new) == new.status = "in_use" /\ new.health = old.health
Clean(new) == new.health = "dead" => new.status = "disabled"
RowStep(m, old, new) ==
  \/ new.status = old.status /\ new.health = old.health
  \/ \E r \in Requests : MarkInUse(r) /\ req[r].email = m /\ Locked(old, new)
  \/ \E r \in Requests : /\ req[r].step \in {"import_write", "check_write", "disable_mailbox"}
                         /\ req'[r].step \in {"idle", "import_secret"}
                         /\ req[r].email = m /\ Clean(new)
  \/ OkRestore /\ jobs[worker.job].email = m /\ new.health = old.health
  \/ (OkBind \/ FailMailbox) /\ jobs[worker.job].email = m /\ Clean(new)

LEMMA HandlerRows ==
  ASSUME TypeOK, RefsValid, NEW m \in Emails, NEW r \in Requests,
         \/ DisableMailbox(r) \/ ImportUpdate(r) \/ ImportInsert(r) \/ CheckOk(r)
         \/ \E class \in {"token_dead", "check_fail"} : CheckFail(r, class)
  PROVE  RowStep(m, mailboxes[m], mailboxes'[m])
<1>. DEFINE n == req[r].email
<1>1. /\ req[r].step \in {"import_write", "check_write", "disable_mailbox"}
      /\ n \in Emails /\ mailboxes[n] \in MailboxRow
  <2>1. req[r].step \in {"import_write", "check_write", "disable_mailbox"}
    BY DEF DisableMailbox, ImportUpdate, ImportInsert, CheckOk, CheckFail, At
  <2>. QED
    BY <2>1, Targets DEF WithEmail
<1>2. req'[r].step \in {"idle", "import_secret"}
  <2>1. \/ Finish(r) \/ Continue(r, [req[r] EXCEPT !.step = "import_secret"])
    BY Zenon DEF DisableMailbox, ImportUpdate, ImportInsert, CheckOk, CheckFail
  <2>. QED
    BY <2>1 DEF Finish, Continue, IdleRequest, TypeOK, Request
<1>3. \E row : Write(n, row) /\ Clean(row)
  <2>1. CASE DisableMailbox(r)
    <3>1. [mailboxes[n] EXCEPT !.status = "disabled"].status = "disabled"
      BY <1>1 DEF MailboxRow
    <3>. QED
      BY <2>1, <3>1 DEF DisableMailbox, SetStatus, Clean
  <2>2. CASE ImportUpdate(r) \/ ImportInsert(r)
    <3>. DEFINE updated == [mailboxes[n] EXCEPT
                              !.status = IF req[r].seen.status = "bound" THEN "bound" ELSE "ready",
                              !.health = "unknown", !.fails = 0, !.cooldown = "null"]
                inserted == [NoMailbox EXCEPT !.status = "ready"]
    <3>1. Write(n, updated) \/ Write(n, inserted)
      BY <2>2 DEF ImportUpdate, ImportInsert
    <3>2. updated.health = "unknown" /\ inserted.health = "unknown"
      BY <1>1 DEF MailboxRow, NoMailbox
    <3>. HIDE DEF n, updated, inserted
    <3>. QED
      BY <3>1, <3>2 DEF Clean
  <2>3. CASE CheckOk(r)
    <3>. DEFINE status == IF req[r].seen.status \notin {"ready", "cooling", "bound"}
                          THEN req[r].seen.status ELSE Restored(req[r].seen.account)
                row == [mailboxes[n] EXCEPT !.health = "ok", !.fails = 0, !.cooldown = "null",
                                            !.status = status]
    <3>1. Write(n, row)
      BY <2>3 DEF CheckOk
    <3>2. row.health = "ok"
      BY <1>1 DEF MailboxRow
    <3>. HIDE DEF n, row
    <3>. QED
      BY <3>1, <3>2 DEF Clean
  <2>4. ASSUME NEW class \in {"token_dead", "check_fail"}, CheckFail(r, class)
        PROVE  \E row : Write(n, row) /\ Clean(row)
    <3>. DEFINE next == NextMailboxStatus(req[r].seen.fails + 1, MaxFail, class)
                fails == Saturate(req[r].seen.fails + 1)
                row == [mailboxes[n] EXCEPT
                          !.health = IF next = "disabled" THEN "dead" ELSE "cooling",
                          !.fails = fails, !.cooldown = "future", !.status = next]
    <3>1. Write(n, row)
      BY <2>4 DEF CheckFail
    <3>. HIDE DEF next, fails
    <3>2. row.status = next /\ row.health = IF next = "disabled" THEN "dead" ELSE "cooling"
      BY <1>1 DEF MailboxRow
    <3>. HIDE DEF n, row
    <3>. QED
      BY <3>1, <3>2 DEF Clean
  <2>. QED
    BY <2>1, <2>2, <2>3, <2>4
<1>4. CASE m = n
  BY <1>1, <1>2, <1>3, <1>4 DEF RowStep, Write, TypeOK
<1>5. CASE m # n
  BY <1>3, <1>5 DEF RowStep, Write, TypeOK
<1>. QED
  BY <1>4, <1>5

LEMMA WorkerRows ==
  ASSUME TypeOK, RefsValid, NEW m \in Emails, OkRestore \/ OkBind \/ FailMailbox
  PROVE  RowStep(m, mailboxes[m], mailboxes'[m])
<1>. DEFINE n == jobs[worker.job].email
<1>1. n \in Emails /\ mailboxes[n] \in MailboxRow
  BY Targets DEF OkRestore, OkBind, FailMailbox
<1>2. CASE OkRestore
  <2>. DEFINE row == [mailboxes[n] EXCEPT !.status = Restored(mailboxes[n].account)]
  <2>1. mailboxes' = [mailboxes EXCEPT ![n] = row]
    BY <1>2 DEF OkRestore, SetStatus, Write
  <2>2. row.health = mailboxes[n].health
    BY <1>1 DEF MailboxRow
  <2>. HIDE DEF row
  <2>. QED
    BY <1>1, <1>2, <2>1, <2>2 DEF RowStep, TypeOK
<1>3. CASE OkBind
  <2>. DEFINE row == [mailboxes[n] EXCEPT !.status = "bound", !.account = worker.account,
                                          !.health = "ok", !.fails = 0, !.cooldown = "null"]
  <2>1. mailboxes' = [mailboxes EXCEPT ![n] = row]
    BY <1>3 DEF OkBind, Write
  <2>2. row.health = "ok"
    BY <1>1 DEF MailboxRow
  <2>. HIDE DEF row
  <2>. QED
    BY <1>1, <1>3, <2>1, <2>2 DEF RowStep, Clean, TypeOK
<1>4. CASE FailMailbox
  <2>. DEFINE next == NextMailboxStatus(worker.seen.fails + 1, MaxFail, worker.outcome)
              fails == Saturate(worker.seen.fails + 1)
              row == [mailboxes[n] EXCEPT
                        !.status = IF next = "disabled" THEN "disabled"
                                   ELSE IF worker.seen.account # 0 THEN "bound" ELSE "cooling",
                        !.health = IF next = "disabled" THEN "dead" ELSE "cooling",
                        !.fails = fails, !.cooldown = "future"]
  <2>1. mailboxes' = [mailboxes EXCEPT ![n] = row]
    BY <1>4 DEF FailMailbox, Write
  <2>2. Clean(row)
    <3>. HIDE DEF next, fails
    <3>. QED
      BY <1>1 DEF MailboxRow, Clean
  <2>. HIDE DEF row
  <2>. QED
    BY <1>1, <1>4, <2>1, <2>2 DEF RowStep, TypeOK
<1>. QED
  BY <1>2, <1>3, <1>4

LEMMA CarefulRows ==
  ASSUME CarefulClients, TypeOK, RefsValid, SerialInv, Next, NEW m \in Emails
  PROVE  RowStep(m, mailboxes[m], mailboxes'[m])
<1>0. mailboxes \in [Emails -> MailboxRow]
  BY DEF TypeOK
<1>1. ASSUME NEW r \in Requests, MarkInUse(r) PROVE RowStep(m, mailboxes[m], mailboxes'[m])
  <2>. DEFINE n == req[r].email
              row == [mailboxes[n] EXCEPT !.status = "in_use"]
  <2>1. n \in Emails /\ mailboxes' = [mailboxes EXCEPT ![n] = row]
    BY <1>1, Targets DEF MarkInUse, At, SetStatus, Write, WithEmail
  <2>2. Locked(mailboxes[n], row)
    BY <1>0, <2>1 DEF MailboxRow, Locked
  <2>. HIDE DEF row
  <2>. QED
    BY <1>0, <1>1, <2>1, <2>2 DEF RowStep
<1>2. ASSUME NEW n \in Emails, CooldownElapses(n) PROVE RowStep(m, mailboxes[m], mailboxes'[m])
  <2>. DEFINE row == [mailboxes[n] EXCEPT !.cooldown = "past"]
  <2>1. mailboxes' = [mailboxes EXCEPT ![n] = row]
    BY <1>2 DEF CooldownElapses, Write
  <2>2. row.status = mailboxes[n].status /\ row.health = mailboxes[n].health
    BY <1>0 DEF MailboxRow
  <2>. HIDE DEF row
  <2>. QED
    BY <1>0, <2>1, <2>2 DEF RowStep
<1>3. CASE UNCHANGED mailboxes
  BY <1>3 DEF RowStep
<1>. QED
  BY <1>1, <1>2, <1>3, CarefulWrites, HandlerRows, WorkerRows

\* The worker comes to finish a job from that job's earlier steps.
LEMMA ComesToFinish ==
  ASSUME NoFaults, TypeOK, Next, worker' # worker, NEW j, BeingFinished(j)'
  PROVE  /\ OkJob \/ FailJob \/ OkLease \/ OkAccount \/ FailRead
         /\ worker.step \in {"ok_job", "fail_job", "ok_lease", "ok_account", "fail_read"}
         /\ worker.job = j
<1>1. WorkerComes /\ ~Restart
  BY WorkerArrives DEF Restart, NoFaults
<1>2. worker'.job = j /\ worker'.step \in {"ok_lease", "ok_restore", "ok_account", "ok_bind",
                                           "fail_read", "fail_mailbox"}
  BY DEF BeingFinished
<1>3. OkJob \/ FailJob \/ OkLease \/ OkAccount \/ FailRead
  BY <1>1, <1>2 DEF WorkerComes
<1>4. worker.step \in {"ok_job", "fail_job", "ok_lease", "ok_account", "fail_read"}
  BY <1>3 DEF OkJob, FailJob, OkLease, OkAccount, FailRead
<1>5. ~WorkerPoll /\ ~OkEvent /\ ~FailLease
  BY <1>4 DEF WorkerPoll, OkEvent, FailLease
<1>. QED
  BY <1>1, <1>2, <1>3, <1>4, <1>5 DEF WorkerComes

\* Only the worker moves once a job is claimed, and it does not start a job anew.
LEMMA UsingBefore ==
  ASSUME NoFaults, TypeOK, RefsValid, SerialInv, Next, NEW j \in InsertedJobs, Using(j)'
  PROVE  Using(j)
<1>1. ~Restart /\ ~WorkerError
  BY DEF Restart, WorkerError, NoFaults
<1>2. CASE ActiveJob(j)' /\ ~ActiveJob(j)
  <2>1. WorkerClaim /\ worker.job = j
    BY <1>2, StatusFrame DEF ActiveJob
  <2>. QED
    BY <2>1 DEF WorkerClaim, SerialInv, Using
<1>3. CASE BeingFinished(j)' /\ worker' # worker
  <2>1. /\ worker.step \in {"ok_job", "fail_job", "ok_lease", "ok_account", "fail_read"}
        /\ worker.job = j
    BY <1>3, ComesToFinish
  <2>2. worker.step \in {"ok_job", "fail_job"} => ActiveJob(worker.job)
    BY DEF SerialInv
  <2>. QED
    BY <2>1, <2>2 DEF Using, BeingFinished
<1>. QED
  BY <1>2, <1>3 DEF Using, BeingFinished

\* A job that is there keeps its mailbox, and a new one is the inserting request's.
LEMMA MailboxOfJob ==
  ASSUME TypeOK, RefsValid, Next, NEW j \in InsertedJobs'
  PROVE  /\ j \in InsertedJobs => jobs'[j].email = jobs[j].email /\ jobs[j].email \in Emails
         /\ j \notin InsertedJobs => \E r \in Requests :
              /\ JobInsert(r) /\ req'[r].step = "mark_in_use" /\ req'[r].job = j
              /\ jobs'[j].email = req[r].email
<1>1. ASSUME j \in InsertedJobs PROVE jobs'[j].email = jobs[j].email /\ jobs[j].email \in Emails
  BY <1>1, JobsStay DEF JobsKept, RefsValid, JobFits
<1>2. ASSUME j \notin InsertedJobs
      PROVE  \E r \in Requests : /\ JobInsert(r) /\ req'[r].step = "mark_in_use" /\ req'[r].job = j
                                 /\ jobs'[j].email = req[r].email
  <2>1. PICK r \in Requests : JobInsert(r) /\ req'[r].job = j
    BY <1>2, InsertedQueued
  <2>. DEFINE row == [status |-> "queued",
                      type |-> IF req[r].account = 0 THEN "register" ELSE "keepalive",
                      email |-> req[r].email, lease |-> req[r].lease, account |-> req[r].account]
  <2>2. PICK i \in Ids : /\ jobs' = [jobs EXCEPT ![i] = row]
                         /\ req' = [req EXCEPT ![r] = [req[r] EXCEPT !.step = "mark_in_use", !.job = i]]
    BY <2>1 DEF JobInsert, Continue
  <2>3. row.email = req[r].email
    OBVIOUS
  <2>. HIDE DEF row
  <2>4. req'[r].step = "mark_in_use" /\ req'[r].job = i /\ jobs'[i].email = req[r].email
    BY <2>2, <2>3 DEF TypeOK, Request
  <2>. QED
    BY <2>1, <2>4
<1>. QED
  BY <1>1, <1>2

\* A mailbox stays free until a handler that holds it takes it.
LEMMA FreeStays ==
  ASSUME NoFaults, TypeOK, RefsValid, LinkInv, SerialInv, Next, NEW m \in Emails, Free(m),
         \A r \in Requests : MarkInUse(r) \/ JobInsert(r) => req[r].email # m
  PROVE  Free(m)'
<1>1. mailboxes'[m].status # "in_use"
  BY OnlyMarkLocks DEF Free
<1>2. ASSUME NEW j \in InsertedJobs', jobs'[j].email = m PROVE ~Using(j)'
  <2>1. j \in InsertedJobs /\ jobs[j].email = m
    BY <1>2, MailboxOfJob
  <2>. QED
    BY <2>1, UsingBefore DEF Free
<1>. QED
  BY <1>1, <1>2 DEF Free

\* What a handler finds unlocked no job uses, as no other handler is about to
\* lock it: that one would hold the mailbox as well.
LEMMA UnlockedIsFree ==
  ASSUME TypeOK, LockInv, SerialInv, Apart', NEW r \in Requests, NEW m \in Emails,
         mailboxes[m].status # "in_use", req[r].step # "mark_in_use",
         req'[r].email = m, \A p \in Requests \ {r} : req'[p] = req[p]
  PROVE  Free(m)
<1>1. SUFFICES ASSUME NEW j \in InsertedJobs, jobs[j].email = m, Using(j)
               PROVE  FALSE
  BY DEF Free
<1>2. PICK p \in Requests : req[p].step = "mark_in_use" /\ req[p].job = j
  BY <1>1 DEF SerialInv, UserLocks
<1>3. p # r /\ req'[p].email = m
  BY <1>1, <1>2 DEF LockInv
<1>4. m # None
  BY NoneAssumption
<1>. QED
  BY <1>3, <1>4 DEF Apart

LEMMA OneUserStep ==
  ASSUME NoFaults, TypeOK, RefsValid, SerialInv, Next
  PROVE  OneUser'
<1>1. SUFFICES ASSUME NEW i \in InsertedJobs', NEW j \in InsertedJobs', Using(i)', Using(j)',
                      jobs'[i].email = jobs'[j].email
               PROVE  i = j
  BY DEF OneUser
<1>2. ASSUME NEW k \in InsertedJobs, NEW n \in InsertedJobs' \ InsertedJobs, Using(k)',
             jobs'[k].email = jobs'[n].email
      PROVE  FALSE
  <2>1. PICK r \in Requests : JobInsert(r) /\ jobs'[n].email = req[r].email
    BY <1>2, MailboxOfJob
  <2>2. Free(req[r].email)
    BY <2>1 DEF JobInsert, At, SerialInv, TakesFree
  <2>3. k \in InsertedJobs'
    BY JobsStay
  <2>4. jobs[k].email = req[r].email /\ Using(k)
    BY <1>2, <2>1, <2>3, MailboxOfJob, UsingBefore
  <2>. QED
    BY <2>2, <2>4 DEF Free
<1>3. CASE i \in InsertedJobs /\ j \in InsertedJobs
  <2>1. Using(i) /\ Using(j) /\ jobs[i].email = jobs[j].email
    BY <1>1, <1>3, MailboxOfJob, UsingBefore
  <2>. QED
    BY <1>3, <2>1 DEF SerialInv, OneUser
<1>4. CASE i \notin InsertedJobs /\ j \notin InsertedJobs
  <2>1. PICK r \in Requests : JobInsert(r)
    BY <1>4, MailboxOfJob
  <2>2. PICK n \in Ids : \E row : jobs' = [jobs EXCEPT ![n] = row]
    BY <2>1 DEF JobInsert
  <2>. QED
    BY <1>4, <2>2 DEF InsertedJobs, Exists, TypeOK
<1>. QED
  BY <1>1, <1>2, <1>3, <1>4

\* The worker does not finish a job that is active again.
LEMMA FinishedStep ==
  ASSUME NoFaults, TypeOK, RefsValid, SerialInv, Next, NEW j \in InsertedJobs', BeingFinished(j)'
  PROVE  ~ActiveJob(j)'
<1>1. ~Restart /\ ~WorkerError
  BY DEF Restart, WorkerError, NoFaults
<1>2. CASE worker' = worker
  <2>1. BeingFinished(j) /\ j \in InsertedJobs
    BY <1>2 DEF BeingFinished, RefsValid, WorkerFits
  <2>2. ~WorkerClaim
    BY <2>1 DEF WorkerClaim, BeingFinished
  <2>. QED
    BY <2>1, <2>2, StatusFrame DEF SerialInv, ActiveJob
<1>3. CASE worker' # worker
  <2>1. /\ OkJob \/ FailJob \/ OkLease \/ OkAccount \/ FailRead
        /\ worker.step \in {"ok_job", "fail_job", "ok_lease", "ok_account", "fail_read"}
        /\ worker.job = j
    BY <1>3, ComesToFinish
  <2>2. \A i \in InsertedJobs : BeingFinished(i) => ~ActiveJob(i)
    BY DEF SerialInv
  <2>3. j \in InsertedJobs
    BY <2>1 DEF RefsValid, WorkerFits
  <2>4. CASE OkJob \/ FailJob
    BY <2>1, <2>3, <2>4 DEF OkJob, FailJob, ActiveJob, InsertedJobs, TypeOK, JobRow
  <2>5. CASE OkLease \/ OkAccount \/ FailRead
    <3>1. UNCHANGED jobs /\ BeingFinished(j)
      BY <2>1, <2>5 DEF OkLease, OkAccount, FailRead, BeingFinished, tables
    <3>. QED
      BY <2>2, <2>3, <3>1 DEF ActiveJob
  <2>. QED
    BY <2>1, <2>4, <2>5
<1>. QED
  BY <1>2, <1>3

\* What the worker claimed stays active until it finishes it: nobody cancels.
LEMMA ClaimedStep ==
  ASSUME NoFaults, TypeOK, RefsValid, SerialInv, Next,
         worker'.step \in {"claim", "load", "backend", "ok_job", "fail_job"}
  PROVE  ActiveJob(worker.job)'
<1>1. ~Restart /\ ~WorkerError
  BY DEF Restart, WorkerError, NoFaults
<1>2. CASE worker' = worker
  <2>1. PICK j \in InsertedJobs : j = worker.job
    BY <1>2 DEF RefsValid, WorkerFits
  <2>2. ActiveJob(j)
    BY <1>2, <2>1 DEF SerialInv
  <2>3. ~OkJob /\ ~FailJob
    BY <1>2 DEF OkJob, FailJob, Goto, TypeOK, WorkerState
  <2>4. \A r \in Requests : ~CancelJob(r)
    BY DEF CancelJob, At, SerialInv, TakesFree
  <2>5. ActiveJob(j)'
    BY <2>2, <2>3, <2>4, ActiveEnds
  <2>. QED
    BY <1>2, <2>1, <2>5 DEF ActiveJob
<1>3. CASE WorkerPoll
  BY <1>3 DEF WorkerPoll, tables, TypeOK, WorkerState, ActiveJob
<1>4. CASE WorkerClaim
  <2>1. worker.job \in Ids
    BY <1>4 DEF WorkerClaim, RefsValid, WorkerFits, InsertedJobs
  <2>. QED
    BY <1>4, <2>1 DEF WorkerClaim, Goto, TypeOK, WorkerState, JobRow, ActiveJob
<1>5. CASE WorkerLaunch \/ WorkerNoBackend \/ BackendStep
  <2>1. worker.step \in {"load", "backend"} /\ UNCHANGED jobs /\ worker'.job = worker.job
    BY <1>5 DEF WorkerLaunch, WorkerNoBackend, BackendStep, BackendReturns, Goto, tables, TypeOK, WorkerState
  <2>2. worker.step \in {"load", "backend"} => ActiveJob(worker.job)
    BY DEF SerialInv
  <2>. QED
    BY <2>1, <2>2 DEF ActiveJob
<1>. QED
  BY <1>1, <1>2, <1>3, <1>4, <1>5, WorkerArrives DEF WorkerComes

\* The worker gives back a mailbox that is in_use, and nobody else may.
LEMMA WorkerHoldsLock ==
  ASSUME LockInv, RefsValid, SerialInv, NEW m, OkRestore \/ OkBind \/ FailMailbox,
         jobs[worker.job].email = m
  PROVE  /\ worker.job \in InsertedJobs /\ BeingFinished(worker.job)
         /\ mailboxes[m].status = "in_use"
<1>1. /\ worker.step \in {"ok_restore", "ok_bind", "fail_mailbox"}
  BY DEF OkRestore, OkBind, FailMailbox
<1>2. worker.job \in InsertedJobs /\ EnqueueSettled(worker.job)
  BY <1>1 DEF RefsValid, WorkerFits, LockInv
<1>3. Using(worker.job) /\ BeingFinished(worker.job)
  BY <1>1 DEF Using, BeingFinished
<1>. QED
  BY <1>2, <1>3 DEF SerialInv, UserLocks, EnqueueSettled

LEMMA UserLocksStep ==
  ASSUME NoFaults, CarefulClients, TypeOK, RefsValid, LockInv, SerialInv, Next
  PROVE  UserLocks'
<1>1. SUFFICES ASSUME NEW j \in InsertedJobs', Using(j)'
               PROVE  \/ mailboxes'[jobs'[j].email].status = "in_use"
                      \/ \E r \in Requests : req'[r].step = "mark_in_use" /\ req'[r].job = j
  BY DEF UserLocks
<1>2. CASE j \notin InsertedJobs
  BY <1>2, MailboxOfJob
<1>3. CASE j \in InsertedJobs
  <2>. DEFINE m == jobs[j].email
  <2>1. Using(j) /\ m \in Emails /\ jobs'[j].email = m
    BY <1>1, <1>3, MailboxOfJob, UsingBefore
  <2>2. ASSUME NEW r \in Requests, req[r].step = "mark_in_use", req[r].job = j, req'[r] # req[r]
        PROVE  mailboxes'[m].status = "in_use"
    <3>1. MarkInUse(r) /\ req[r].email = m
      BY <2>2, RequestLeaves DEF LockInv
    <3>2. mailboxes' = [mailboxes EXCEPT ![m] = [mailboxes[m] EXCEPT !.status = "in_use"]]
      BY <3>1 DEF MarkInUse, SetStatus, Write
    <3>. QED
      BY <2>1, <3>2 DEF TypeOK, MailboxRow
  <2>3. ASSUME mailboxes[m].status = "in_use" PROVE mailboxes'[m].status = "in_use"
    <3>1. RowStep(m, mailboxes[m], mailboxes'[m])
      BY <2>1, CarefulRows
    <3>2. ASSUME NEW r \in Requests, req[r].email = m,
                 req[r].step \in {"import_write", "check_write", "disable_mailbox"}
          PROVE  FALSE
      BY <2>3, <3>2 DEF SerialInv, TakesFree, Free
    <3>3. ASSUME OkRestore \/ OkBind \/ FailMailbox, jobs[worker.job].email = m PROVE FALSE
      <4>1. /\ worker.job = j /\ BeingFinished(j)
        BY <1>3, <2>1, <3>3, WorkerHoldsLock DEF SerialInv, OneUser, Using
      <4>2. ~ActiveJob(j) /\ UNCHANGED jobs
        BY <1>3, <3>3, <4>1 DEF SerialInv, OkRestore, OkBind, FailMailbox
      <4>3. worker'.step \in {"ok_event", "fail_lease"}
        BY <3>3 DEF OkRestore, OkBind, FailMailbox, Goto, TypeOK, WorkerState
      <4>. QED
        BY <1>1, <4>2, <4>3 DEF Using, ActiveJob, BeingFinished
    <3>. QED
      BY <2>3, <3>1, <3>2, <3>3 DEF RowStep, Locked
  <2>. QED
    BY <1>3, <2>1, <2>2, <2>3 DEF SerialInv, UserLocks
<1>. QED
  BY <1>2, <1>3

LEMMA DeadStep ==
  ASSUME CarefulClients, TypeOK, RefsValid, LockInv, SerialInv, Next
  PROVE  DeadIsDisabled'
<1>1. SUFFICES ASSUME NEW m \in Emails, mailboxes'[m].health = "dead"
               PROVE  mailboxes'[m].status = "disabled"
  BY DEF DeadIsDisabled
<1>2. RowStep(m, mailboxes[m], mailboxes'[m])
  BY CarefulRows
<1>3. mailboxes[m].health = "dead" => mailboxes[m].status = "disabled"
  BY DEF SerialInv, DeadIsDisabled
<1>4. ASSUME NEW r \in Requests, MarkInUse(r), req[r].email = m PROVE mailboxes[m].health # "dead"
  BY <1>4 DEF MarkInUse, At, SerialInv, TakesFree
<1>5. ASSUME OkRestore, jobs[worker.job].email = m PROVE mailboxes[m].health # "dead"
  BY <1>3, <1>5, WorkerHoldsLock
<1>. QED
  BY <1>1, <1>2, <1>3, <1>4, <1>5 DEF RowStep, Locked, Clean

\* A handler that comes to a step at which it holds a mailbox it may take, or
\* change, held it before or has just found it unlocked.
Taking == {"lease_insert", "job_insert", "import_write", "check_write", "disable_mailbox"}
Enqueuing == {"lease_insert", "job_insert", "mark_in_use"}
FindsUnlocked(r, m) ==
  /\ m \in Emails /\ mailboxes[m].status # "in_use" /\ UNCHANGED mailboxes
  /\ req[r].step # "mark_in_use"
  /\ req'[r].step \in Enqueuing => mailboxes[m].health # "dead"
  /\ \A p \in Requests \ {r} : req'[p] = req[p]

LEMMA ComesToTake ==
  ASSUME TypeOK, Next, NEW r \in Requests, req'[r].step \in Taking \cup Enqueuing, req'[r] # req[r]
  PROVE  \/ (LeaseInsert(r) \/ JobInsert(r)) /\ req'[r].email = req[r].email
         \/ FindsUnlocked(r, req'[r].email)
<1>. USE DEF Continue, Finish, At, Request, tables
<1>1. ASSUME RegisterPick(r) PROVE FindsUnlocked(r, req'[r].email)
  <2>1. PICK m \in Emails : /\ MailboxUsable(mailboxes[m])
                            /\ Continue(r, [req[r] EXCEPT !.step = "lease_insert", !.email = m])
    BY <1>1 DEF RegisterPick
  <2>2. req'[r].step = "lease_insert" /\ req'[r].email = m
    BY <2>1 DEF TypeOK
  <2>. QED
    BY <1>1, <2>1, <2>2 DEF RegisterPick, MailboxUsable, FindsUnlocked, TypeOK
<1>2. ASSUME KeepalivePick(r) PROVE FindsUnlocked(r, req'[r].email)
  <2>1. PICK m \in Emails : /\ KeepaliveUsable(mailboxes[m])
                            /\ Continue(r, [req[r] EXCEPT !.step = "lease_insert", !.email = m])
    BY <1>2 DEF KeepalivePick, MailboxesOf
  <2>2. req'[r].step = "lease_insert" /\ req'[r].email = m
    BY <2>1 DEF TypeOK
  <2>. QED
    BY <1>2, <2>1, <2>2 DEF KeepalivePick, KeepaliveUsable, FindsUnlocked, TypeOK
<1>3. ASSUME LeaseInsert(r) \/ JobInsert(r) PROVE req'[r].email = req[r].email
  <2>1. \E l, j : \/ Continue(r, [req[r] EXCEPT !.step = "job_insert", !.lease = l])
                 \/ Continue(r, [req[r] EXCEPT !.step = "mark_in_use", !.job = j])
    <3>. HIDE DEF Continue
    <3>. QED
      BY <1>3, Zenon DEF LeaseInsert, JobInsert
  <2>. QED
    BY <2>1 DEF TypeOK
<1>4. ASSUME NEW m \in Emails, ImportCall(r, m) \/ CheckCall(r, m)
      PROVE  FindsUnlocked(r, req'[r].email)
  <2>1. \E seen : \E step \in {"import_write", "check_write"} :
          Continue(r, [req[r] EXCEPT !.step = step, !.email = m, !.seen = seen])
    BY <1>4 DEF ImportCall, CheckCall
  <2>2. req'[r].email = m /\ req'[r].step \in {"import_write", "check_write"}
    BY <2>1 DEF TypeOK
  <2>. QED
    BY <1>4, <2>1, <2>2 DEF ImportCall, CheckCall, Receives, FindsUnlocked, Enqueuing, TypeOK
<1>5. ASSUME DisableRead(r), req'[r].step = "disable_mailbox"
      PROVE  FindsUnlocked(r, req'[r].email)
  <2>1. ~Finish(r)
    BY <1>5 DEF IdleRequest, TypeOK
  <2>2. PICK m \in Emails :
          /\ mailboxes[m].status # "in_use"
          /\ Continue(r, [req[r] EXCEPT !.step = "disable_mailbox", !.email = m])
    <3>. HIDE DEF Finish, Continue
    <3>. QED
      BY <1>5, <2>1, Zenon DEF DisableRead
  <2>3. req'[r].email = m
    BY <2>2 DEF TypeOK
  <2>. QED
    BY <1>5, <2>2, <2>3 DEF DisableRead, FindsUnlocked, Enqueuing, TypeOK
<1>. QED
  <2>. HIDE DEF Continue, Finish, At, Request, tables
  <2>. QED
    BY <1>1, <1>2, <1>3, <1>4, <1>5, RequestArrives DEF Arrives, Taking, Enqueuing

\* A handler that is about to take a mailbox, or to change it, still may.
LEMMA TakesFreeStep ==
  ASSUME NoFaults, CarefulClients, TypeOK, RefsValid, LinkInv, LockInv, SerialInv, Next,
         Apart, Apart', NEW r \in Requests
  PROVE  TakesFree(req[r])'
<1>0. PICK m : m = req'[r].email
  OBVIOUS
<1>1. ASSUME NEW p \in Requests, p # r, req[r].email = m, m \in Emails PROVE req[p].email # m
  BY <1>1, NoneAssumption DEF Apart
<1>2. req'[r].step \notin {"patch_disable", "cancel_job", "cancel_read", "cancel_mailbox", "retry_mailbox"}
  <2>1. \A j \in Ids : ~CancelCall(r, j) /\ ~RetryCall(r, j)
    BY DEF CancelCall, RetryCall, Receives, CarefulClients
  <2>2. \A n \in Emails : ~PatchDisableCall(r, n)
    BY DEF PatchDisableCall, Receives, CarefulClients
  <2>3. ~CancelJob(r) /\ ~CancelRead(r)
    BY DEF CancelJob, CancelRead, At, SerialInv, TakesFree
  <2>4. req'[r] # req[r] => Arrives(r)
    BY RequestArrives
  <2>5. TakesFree(req[r])
    BY DEF SerialInv
  <2>. QED
    BY <2>1, <2>2, <2>3, <2>4, <2>5 DEF Arrives, TakesFree
<1>3. ASSUME req'[r].step \in Taking \cup Enqueuing
      PROVE  \/ FindsUnlocked(r, m)
             \/ /\ req[r].step \in Taking \cup Enqueuing /\ m = req[r].email /\ m \in Emails
                /\ req[r].step = "mark_in_use" => req'[r].step = "mark_in_use"
                /\ req'[r].step \in Enqueuing => req[r].step \in Enqueuing
  <2>1. CASE req'[r] = req[r]
    BY <1>0, <1>3, <2>1, Targets DEF Taking, Enqueuing, WithEmail
  <2>2. CASE (LeaseInsert(r) \/ JobInsert(r)) /\ m = req[r].email
    <3>1. req[r].step \in {"lease_insert", "job_insert"}
      BY <2>2 DEF LeaseInsert, JobInsert, At
    <3>. QED
      BY <2>2, <3>1, Targets DEF Taking, Enqueuing, WithEmail
  <2>. QED
    BY <1>0, <1>3, <2>1, <2>2, ComesToTake
<1>4. ASSUME req'[r].step \in Taking PROVE Free(m)'
  <2>1. ASSUME NEW p \in Requests, MarkInUse(p) \/ JobInsert(p) PROVE req[p].email # m
    <3>1. p # r
      <4>1. MarkInUse(r) => req'[r].step = "link_lease"
        BY DEF MarkInUse, Continue, TypeOK, Request
      <4>2. JobInsert(r) => req'[r].step = "mark_in_use"
        BY DEF JobInsert, Continue, TypeOK, Request
      <4>. QED
        BY <1>4, <2>1, <4>1, <4>2 DEF Taking
    <3>2. req'[r] = req[r]
      BY <2>1, <3>1 DEF MarkInUse, JobInsert, Continue, TypeOK
    <3>3. req[r].email = m /\ m \in Emails
      BY <1>0, <1>4, <3>2, Targets DEF Taking, WithEmail
    <3>. QED
      BY <1>1, <3>1, <3>3
  <2>2. Free(m) /\ m \in Emails
    <3>1. CASE FindsUnlocked(r, m)
      BY <1>0, <3>1, UnlockedIsFree DEF FindsUnlocked
    <3>2. CASE /\ req[r].step \in Taking \cup Enqueuing /\ m = req[r].email /\ m \in Emails
               /\ req[r].step = "mark_in_use" => req'[r].step = "mark_in_use"
      BY <1>4, <3>2 DEF SerialInv, TakesFree, Taking, Enqueuing
    <3>. QED
      BY <1>3, <1>4, <3>1, <3>2
  <2>. QED
    BY <2>1, <2>2, FreeStays
<1>5. ASSUME req'[r].step \in Enqueuing PROVE mailboxes'[m].health # "dead"
  <2>1. CASE FindsUnlocked(r, m)
    BY <1>5, <2>1 DEF FindsUnlocked
  <2>2. CASE req[r].step \in Enqueuing /\ m = req[r].email /\ m \in Emails
    <3>1. mailboxes[m].health # "dead" /\ RowStep(m, mailboxes[m], mailboxes'[m])
      BY <2>2, CarefulRows DEF SerialInv, TakesFree, Enqueuing
    <3>2. ASSUME NEW p \in Requests, req[p].email = m
          PROVE  req[p].step \notin {"import_write", "check_write", "disable_mailbox"}
      BY <1>1, <2>2, <3>2 DEF Enqueuing
    <3>3. ASSUME OkBind \/ FailMailbox, jobs[worker.job].email = m PROVE FALSE
      <4>1. /\ worker.job \in InsertedJobs /\ BeingFinished(worker.job)
            /\ mailboxes[m].status = "in_use"
        BY <3>3, WorkerHoldsLock
      <4>2. CASE req[r].step \in {"lease_insert", "job_insert"}
        BY <2>2, <4>1, <4>2 DEF SerialInv, TakesFree, Free
      <4>3. CASE req[r].step = "mark_in_use"
        <5>1. req[r].job \in InsertedJobs /\ ActiveJob(req[r].job) /\ jobs[req[r].job].email = m
          BY <2>2, <4>3 DEF LockInv, RefsValid, RequestFits, WithJob
        <5>2. req[r].job = worker.job
          BY <3>3, <4>1, <5>1 DEF SerialInv, OneUser, Using
        <5>. QED
          BY <4>1, <5>1, <5>2 DEF SerialInv
      <4>. QED
        BY <2>2, <4>2, <4>3 DEF Enqueuing
    <3>. QED
      BY <3>1, <3>2, <3>3 DEF RowStep, Locked
  <2>. QED
    BY <1>3, <1>5, <2>1, <2>2
<1>. QED
  BY <1>0, <1>2, <1>4, <1>5 DEF TakesFree, Taking, Enqueuing, Free

LEMMA ApartIsSpec == ApartSpec => Spec
<1>1. [Next /\ Apart']_vars => [Next]_vars
  OBVIOUS
<1>. QED
  BY <1>1, PTL DEF ApartSpec, Spec

LEMMA SerialHolds ==
  ASSUME NoFaults, CarefulClients
  PROVE  ApartSpec => []SerialInv
<1>1. Init => SerialInv
  BY DEF Init, SerialInv, OneUser, UserLocks, DeadIsDisabled, TakesFree, InsertedJobs, Exists, NoJob,
         NoMailbox, IdleRequest, IdleWorker
<1>2. TypeOK /\ RefsValid /\ LinkInv /\ LockInv /\ SerialInv /\ Apart /\ [Next /\ Apart']_vars => SerialInv'
  <2>1. ASSUME UNCHANGED vars, SerialInv PROVE SerialInv'
    <3>1. /\ InsertedJobs' = InsertedJobs
          /\ \A j : (Using(j)' <=> Using(j)) /\ (BeingFinished(j)' <=> BeingFinished(j))
                    /\ (ActiveJob(j)' <=> ActiveJob(j))
      BY <2>1 DEF vars, InsertedJobs, Exists, Using, ActiveJob, BeingFinished
    <3>. QED
      BY <2>1, <3>1 DEF vars, SerialInv, OneUser, UserLocks, DeadIsDisabled, TakesFree, Free
  <2>2. ASSUME TypeOK, RefsValid, LinkInv, LockInv, SerialInv, Apart, Apart', Next PROVE SerialInv'
    <3>1. OneUser' /\ UserLocks' /\ DeadIsDisabled'
      BY <2>2, OneUserStep, UserLocksStep, DeadStep
    <3>2. \A r \in Requests : TakesFree(req[r])'
      BY <2>2, TakesFreeStep
    <3>3. worker'.step \in {"claim", "load", "backend", "ok_job", "fail_job"} => ActiveJob(worker.job)'
      BY <2>2, ClaimedStep
    <3>4. \A j \in InsertedJobs' : BeingFinished(j)' => ~ActiveJob(j)'
      BY <2>2, FinishedStep
    <3>. QED
      BY <3>1, <3>2, <3>3, <3>4 DEF SerialInv
  <2>. QED
    BY <2>1, <2>2
<1>3. Init => Apart
  BY DEF Init, Apart, IdleRequest
<1>4. Apart /\ [Next /\ Apart']_vars => Apart'
  BY DEF Apart, vars
<1>. QED
  BY <1>1, <1>2, <1>3, <1>4, ApartIsSpec, TypeCorrect, LinksHold, LocksHold, PTL DEF ApartSpec

\* One job works on a mailbox at a time, for any number of clients whose calls do
\* not overlap on a mailbox and that neither cancel, retry nor patch, though the
\* worker and the calls on other mailboxes run beside the enqueue, which locks
\* the mailbox two statements after it looked.
THEOREM JobsTakeTurns ==
  ASSUME NoFaults, CarefulClients
  PROVE  ApartSpec => []OneActiveJob
<1>1. SerialInv => OneActiveJob
  BY DEF SerialInv, OneUser, OneActiveJob, Using, InsertedJobs
<1>. QED
  BY <1>1, SerialHolds, PTL

\* Under the same clients a mailbox found dead is disabled, so it is not picked:
\* no late write of the worker or of an enqueue makes it live again.
THEOREM DeadStayDisabled ==
  ASSUME NoFaults, CarefulClients
  PROVE  ApartSpec => []DeadIsDisabled
<1>1. SerialInv => DeadIsDisabled
  BY DEF SerialInv
<1>. QED
  BY <1>1, SerialHolds, PTL

(***************************************************************************)
(* in_use implements the lock.                                             *)
(***************************************************************************)
UsersOf(m) == {j \in Ids : Exists(j) /\ jobs[j].email = m /\ Using(j)}
users == [m \in Emails |-> UsersOf(m)]
locked == {m \in Emails : mailboxes[m].status = "in_use"}
begun == {j \in Ids : Exists(j)}
GivesBack == OkRestore \/ OkBind \/ FailMailbox

\* Where the lock stands, read from the invariants: a mailbox has a user or
\* none, and a locked one has one.
LEMMA LockView ==
  ASSUME SerialInv
  PROVE  /\ begun = InsertedJobs
         /\ \A j \in InsertedJobs, m \in Emails : Using(j) /\ jobs[j].email = m => UsersOf(m) = {j}
         /\ \A m \in Emails : Free(m) => UsersOf(m) = {} /\ m \notin locked
<1>1. begun = InsertedJobs
  BY DEF begun, InsertedJobs
<1>2. ASSUME NEW j \in InsertedJobs, NEW m \in Emails, Using(j), jobs[j].email = m
      PROVE  UsersOf(m) = {j}
  BY <1>2 DEF UsersOf, InsertedJobs, SerialInv, OneUser
<1>3. ASSUME NEW m \in Emails, Free(m) PROVE UsersOf(m) = {} /\ m \notin locked
  BY <1>3 DEF Free, UsersOf, InsertedJobs, locked
<1>. QED
  BY <1>1, <1>2, <1>3

\* A job uses its mailbox until the worker writes the mailbox back.
LEMMA UsingAfter ==
  ASSUME NoFaults, TypeOK, RefsValid, SerialInv, Next, NEW j \in InsertedJobs, Using(j), ~Using(j)'
  PROVE  GivesBack /\ worker.job = j
<1>1. ~Restart /\ ~WorkerError /\ \A r \in Requests : ~CancelJob(r)
  BY DEF Restart, WorkerError, NoFaults, CancelJob, At, SerialInv, TakesFree
<1>2. CASE ActiveJob(j)
  <2>1. (OkJob \/ FailJob) /\ worker.job = j
    BY <1>1, <1>2, ActiveEnds DEF Using
  <2>2. BeingFinished(j)'
    BY <2>1 DEF OkJob, FailJob, Goto, TypeOK, WorkerState, BeingFinished
  <2>. QED
    BY <2>2 DEF Using
<1>3. CASE BeingFinished(j)
  <2>1. /\ worker.job = j
        /\ worker.step \in {"ok_lease", "ok_restore", "ok_account", "ok_bind", "fail_read", "fail_mailbox"}
        /\ ~BeingFinished(j)' /\ worker' # worker
    BY <1>3 DEF BeingFinished, Using
  <2>2. OkLease \/ OkAccount \/ FailRead => BeingFinished(j)'
    BY <2>1 DEF OkLease, OkAccount, FailRead, Goto, TypeOK, WorkerState, BeingFinished
  <2>. QED
    BY <1>1, <2>1, <2>2, WorkerLeaves DEF GivesBack
<1>. QED
  BY <1>2, <1>3 DEF Using

\* Taking a mailbox is the INSERT of a job.
LEMMA InsertTakes ==
  ASSUME NoFaults, TypeOK, RefsValid, SerialInv, Next, NEW r \in Requests, JobInsert(r)
  PROVE  \E m \in Emails, j \in Ids : Locking!Take(m, j)
<1>1. PICK j \in Ids : /\ NextJob(j)
                       /\ \E row : jobs' = [jobs EXCEPT ![j] = row] /\ row.status = "queued"
                                                             /\ row.email = req[r].email
  <2>. DEFINE row == [status |-> "queued",
                      type |-> IF req[r].account = 0 THEN "register" ELSE "keepalive",
                      email |-> req[r].email, lease |-> req[r].lease, account |-> req[r].account]
  <2>1. PICK j \in Ids : NextJob(j) /\ jobs' = [jobs EXCEPT ![j] = row]
    BY DEF JobInsert
  <2>2. row.status = "queued" /\ row.email = req[r].email
    OBVIOUS
  <2>. HIDE DEF row
  <2>. QED
    BY <2>1, <2>2
<1>2. PICK m \in Emails : m = req[r].email /\ Free(m)
  BY Targets DEF JobInsert, At, SerialInv, TakesFree, WithEmail
<1>3. /\ ~Exists(j) /\ Exists(j)' /\ jobs'[j].email = m /\ Using(j)'
      /\ \A i \in Ids \ {j} : jobs'[i] = jobs[i]
  BY <1>1, <1>2 DEF NextJob, Exists, TypeOK, Using, ActiveJob
<1>4. UNCHANGED <<mailboxes, worker>>
  BY DEF JobInsert
<1>5. users[m] = {} /\ m \notin locked
  BY <1>2, LockView DEF users
<1>6. \A i \in Ids \ {j} : (Exists(i)' <=> Exists(i)) /\ (Using(i)' <=> Using(i))
  BY <1>3, <1>4 DEF Exists, Using, ActiveJob, BeingFinished
<1>7. users' = [users EXCEPT ![m] = {j}]
  <2>1. ASSUME NEW n \in Emails PROVE UsersOf(n)' = IF n = m THEN {j} ELSE UsersOf(n)
    BY <1>3, <1>5, <1>6, <2>1 DEF UsersOf, users
  <2>. QED
    BY <2>1 DEF users
<1>8. begun' = begun \cup {j} /\ j \notin begun
  BY <1>3, <1>6 DEF begun
<1>9. UNCHANGED locked
  BY <1>4 DEF locked
<1>. QED
  BY <1>5, <1>7, <1>8, <1>9 DEF Locking!Take, users, UsersOf, locked, begun

\* Any other step leaves the jobs and who uses what alone, unless the worker
\* gives a mailbox back.
LEMMA UsersKeep ==
  ASSUME NoFaults, TypeOK, RefsValid, SerialInv, Next, \A r \in Requests : ~JobInsert(r)
  PROVE  /\ UNCHANGED begun
         /\ \A m \in Emails :
              \/ UsersOf(m)' = UsersOf(m)
              \/ GivesBack /\ m = jobs[worker.job].email /\ UsersOf(m)' = {}
<1>1. InsertedJobs' = InsertedJobs
  BY InsertedQueued, JobsStay
<1>2. \A j \in InsertedJobs : jobs'[j].email = jobs[j].email
  BY <1>1, MailboxOfJob
<1>3. ASSUME NEW m \in Emails PROVE UsersOf(m)' \subseteq UsersOf(m)
  BY <1>1, <1>2, UsingBefore DEF UsersOf, InsertedJobs
<1>4. ASSUME NEW m \in Emails, NEW j \in UsersOf(m), j \notin UsersOf(m)'
      PROVE  GivesBack /\ m = jobs[worker.job].email /\ UsersOf(m)' = {}
  <2>1. j \in InsertedJobs /\ Using(j) /\ jobs[j].email = m /\ ~Using(j)'
    BY <1>1, <1>2, <1>4 DEF UsersOf, InsertedJobs
  <2>2. GivesBack /\ worker.job = j
    BY <2>1, UsingAfter
  <2>3. UsersOf(m) = {j}
    BY <2>1, LockView
  <2>. QED
    BY <1>3, <1>4, <2>1, <2>2, <2>3
<1>. QED
  BY <1>1, <1>3, <1>4 DEF begun, InsertedJobs

\* A mailbox is locked by the enqueue and unlocked by the worker, by nobody else.
LEMMA LockedKeep ==
  ASSUME NoFaults, CarefulClients, TypeOK, RefsValid, LinkInv, LockInv, SerialInv, Next,
         NEW m \in Emails, (m \in locked)' # (m \in locked)
  PROVE  \/ /\ \E r \in Requests : MarkInUse(r) /\ req[r].email = m
            /\ m \notin locked
         \/ GivesBack /\ m = jobs[worker.job].email
<1>1. RowStep(m, mailboxes[m], mailboxes'[m])
  BY CarefulRows
<1>2. CASE mailboxes[m].status # "in_use"
  BY <1>2, OnlyMarkLocks DEF locked
<1>3. CASE mailboxes[m].status = "in_use"
  <2>1. mailboxes'[m].status # "in_use"
    BY <1>3 DEF locked
  <2>2. ASSUME NEW r \in Requests, req[r].email = m,
               req[r].step \in {"import_write", "check_write", "disable_mailbox"}
        PROVE  FALSE
    BY <1>3, <2>2 DEF SerialInv, TakesFree, Free
  <2>. QED
    BY <1>1, <1>3, <2>1, <2>2 DEF RowStep, Locked, GivesBack
<1>. QED
  BY <1>2, <1>3

\* What the worker gives back is unlocked and has no user left.
LEMMA WorkerGivesBack ==
  ASSUME NoFaults, CarefulClients, TypeOK, RefsValid, LinkInv, LockInv, SerialInv, Next, GivesBack
  PROVE  \E m \in Emails : Locking!GiveBack(m)
<1>1. PICK m \in Emails : m = jobs[worker.job].email
  BY Targets DEF GivesBack, OkRestore, OkBind, FailMailbox
<1>2. PICK j \in InsertedJobs : j = worker.job /\ BeingFinished(j) /\ m \in locked
  BY <1>1, WorkerHoldsLock DEF GivesBack, locked
<1>3. UNCHANGED <<jobs, req>>
  BY DEF GivesBack, OkRestore, OkBind, FailMailbox
<1>4. \A r \in Requests : ~JobInsert(r)
  <2>1. worker' # worker
    BY DEF GivesBack, OkRestore, OkBind, FailMailbox, Goto, TypeOK, WorkerState
  <2>. QED
    BY <2>1 DEF JobInsert
<1>5. ~Using(j)'
  <2>1. worker'.step \in {"ok_event", "fail_lease"}
    BY DEF GivesBack, OkRestore, OkBind, FailMailbox, Goto, TypeOK, WorkerState
  <2>2. ~ActiveJob(j)'
    BY <1>2, <1>3 DEF SerialInv, ActiveJob
  <2>. QED
    BY <2>1, <2>2 DEF Using, BeingFinished
<1>6. UsersOf(m)' = {}
  <2>1. UsersOf(m) = {j}
    BY <1>1, <1>2, LockView DEF Using
  <2>2. j \notin UsersOf(m)'
    BY <1>5 DEF UsersOf
  <2>. QED
    BY <1>4, <2>1, <2>2, UsersKeep
<1>7. users' = [users EXCEPT ![m] = {}] /\ UNCHANGED begun
  BY <1>1, <1>4, <1>6, UsersKeep DEF users
<1>8. locked' = locked \ {m}
  BY <1>1, WorkerFrees DEF GivesBack, Frees, Write, locked, TypeOK
<1>. QED
  BY <1>2, <1>7, <1>8 DEF Locking!GiveBack, users, UsersOf, locked, begun

LEMMA LockStepRefines ==
  ASSUME NoFaults, CarefulClients, TypeOK, RefsValid, LinkInv, LockInv, SerialInv, Next
  PROVE  Locking!Next \/ UNCHANGED <<users, locked, begun>>
<1>1. ASSUME NEW r \in Requests, JobInsert(r) PROVE Locking!Next
  BY <1>1, InsertTakes DEF Locking!Next
<1>2. CASE GivesBack
  BY <1>2, WorkerGivesBack DEF Locking!Next
<1>3. CASE ~GivesBack /\ \A r \in Requests : ~JobInsert(r)
  <2>1. UNCHANGED <<users, begun>>
    BY <1>3, UsersKeep DEF users
  <2>2. ASSUME NEW m \in Emails, (m \in locked)' # (m \in locked) PROVE Locking!Lock(m)
    <3>1. PICK r \in Requests : MarkInUse(r) /\ req[r].email = m
      BY <1>3, <2>2, LockedKeep
    <3>2. m \notin locked /\ locked' = locked \cup {m}
      <4>1. mailboxes' = [mailboxes EXCEPT ![m] = [mailboxes[m] EXCEPT !.status = "in_use"]]
        BY <3>1 DEF MarkInUse, SetStatus, Write
      <4>2. mailboxes'[m].status = "in_use" /\ \A n \in Emails \ {m} : mailboxes'[n] = mailboxes[n]
        BY <4>1 DEF TypeOK, MailboxRow
      <4>. QED
        BY <1>3, <2>2, <3>1, <4>2, LockedKeep DEF locked
    <3>3. users[m] # {}
      <4>1. req[r].job \in InsertedJobs /\ ActiveJob(req[r].job) /\ jobs[req[r].job].email = m
        BY <3>1 DEF MarkInUse, At, LockInv, RefsValid, RequestFits, WithJob
      <4>. QED
        BY <4>1, LockView DEF users, Using
    <3>. QED
      BY <2>1, <3>2, <3>3 DEF Locking!Lock, users, UsersOf, locked, begun
  <2>3. CASE \A m \in Emails : (m \in locked)' = (m \in locked)
    BY <2>1, <2>3 DEF locked
  <2>. QED
    BY <2>2, <2>3 DEF Locking!Next
<1>. QED
  BY <1>1, <1>2, <1>3

\* in_use is a lock, for any number of mailboxes, jobs and clients whose calls do
\* not overlap on a mailbox: a job takes its mailbox when no job uses it, once, and nobody
\* but the worker, when it has finished the job, unlocks it.
THEOREM PoolImplementsLock ==
  ASSUME NoFaults, CarefulClients
  PROVE  ApartSpec => ImplementsLock
<1>1. Init => Locking!Init
  BY DEF Init, Locking!Init, NoJob, NoMailbox, Exists
<1>2. TypeOK /\ RefsValid /\ LinkInv /\ LockInv /\ SerialInv /\ [Next /\ Apart']_vars
      => [Locking!Next]_(Locking!vars)
  <2>1. ASSUME UNCHANGED vars PROVE UNCHANGED Locking!vars
    BY <2>1 DEF vars, Locking!vars, Exists, Using, ActiveJob, BeingFinished
  <2>2. UNCHANGED <<users, locked, begun>> => UNCHANGED Locking!vars
    BY DEF Locking!vars, users, UsersOf, locked, begun
  <2>. QED
    BY <2>1, <2>2, LockStepRefines
<1>. QED
  BY <1>1, <1>2, ApartIsSpec, TypeCorrect, LinksHold, LocksHold, SerialHolds, PTL
     DEF ApartSpec, ImplementsLock, Locking!Spec

=============================================================================
