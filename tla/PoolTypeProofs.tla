--------------------------- MODULE PoolTypeProofs ---------------------------
(***************************************************************************)
(* Type correctness of the pool, and that every reference a step follows   *)
(* leads to a row: TypeOK and RefsValid are an invariant of Spec.  First   *)
(* the tables: which actions write each variable, that they write values   *)
(* of its type, and that what was inserted stays; a step is taken apart    *)
(* once, by the lemmas named ...Writes.  Then the local variables of the   *)
(* handlers and of the worker.                                             *)
(***************************************************************************)
EXTENDS PoolInvariants, TLAPS

(***************************************************************************)
(* Values.                                                                 *)
(***************************************************************************)

LEMMA Ranges ==
  /\ Ids \subseteq IdRefs /\ 0 \in IdRefs
  /\ AccountIds \subseteq AccountRefs /\ 0 \in AccountRefs
  /\ Emails \subseteq EmailRefs /\ None \in EmailRefs
  /\ 0 \in 0..MaxFail
BY MaxFailAssumption, BoundsAssumption DEF Ids, IdRefs, AccountIds, AccountRefs, EmailRefs

LEMMA NoRows ==
  /\ NoMailbox \in MailboxRow /\ NoJob \in JobRow /\ NoLease \in LeaseRow
  /\ NoAccount \in AccountRow /\ IdleRequest \in Request /\ IdleWorker \in WorkerState
BY Ranges
   DEF NoMailbox, NoJob, NoLease, NoAccount, IdleRequest, IdleWorker, NothingSeen,
       MailboxRow, JobRow, LeaseRow, AccountRow, Request, WorkerState, Seen, MailboxStatus,
       MailboxHealth, JobStatus, RequestSteps, WorkerSteps, Outcomes

\* The literals, so that no later step has to expand these sets.
LEMMA RequestStepNames ==
  /\ "idle" \in RequestSteps /\ "register_pick" \in RequestSteps
  /\ "keepalive_pick" \in RequestSteps /\ "lease_insert" \in RequestSteps
  /\ "job_insert" \in RequestSteps /\ "mark_in_use" \in RequestSteps
  /\ "link_lease" \in RequestSteps /\ "cancel_job" \in RequestSteps
  /\ "cancel_read" \in RequestSteps /\ "cancel_mailbox" \in RequestSteps
  /\ "cancel_lease" \in RequestSteps /\ "retry_mailbox" \in RequestSteps
  /\ "import_write" \in RequestSteps /\ "import_secret" \in RequestSteps
  /\ "patch_disable" \in RequestSteps /\ "check_write" \in RequestSteps
  /\ "checkout_health" \in RequestSteps /\ "checkout_lease" \in RequestSteps
  /\ "release_write" \in RequestSteps /\ "disable_read" \in RequestSteps
  /\ "disable_mailbox" \in RequestSteps /\ "rotate_insert" \in RequestSteps
BY DEF RequestSteps

LEMMA WorkerStepNames ==
  /\ "claim" \in WorkerSteps /\ "load" \in WorkerSteps /\ "backend" \in WorkerSteps
  /\ "ok_job" \in WorkerSteps /\ "ok_lease" \in WorkerSteps /\ "ok_account" \in WorkerSteps
  /\ "ok_bind" \in WorkerSteps /\ "ok_restore" \in WorkerSteps /\ "ok_event" \in WorkerSteps
  /\ "fail_job" \in WorkerSteps /\ "fail_read" \in WorkerSteps
  /\ "fail_mailbox" \in WorkerSteps /\ "fail_lease" \in WorkerSteps /\ "dead" \in WorkerSteps
BY DEF WorkerSteps

LEMMA MailboxNames ==
  /\ {"ready", "in_use", "bound", "cooling", "disabled"} \subseteq MailboxStatus
  /\ {"unknown", "ok", "cooling", "dead"} \subseteq MailboxHealth
BY DEF MailboxStatus, MailboxHealth

LEMMA SeenType == ASSUME NEW row \in MailboxRow PROVE SeenOf(row) \in Seen
BY DEF SeenOf, Seen, MailboxRow

LEMMA FailsType ==
  ASSUME NEW seen \in Seen
  PROVE  Saturate(seen.fails + 1) \in 0..MaxFail
BY MaxFailAssumption DEF Saturate, Seen

LEMMA NextStatusType ==
  ASSUME NEW fails, NEW maxFail, NEW class
  PROVE  NextMailboxStatus(fails, maxFail, class) \in {"disabled", "cooling"}
BY DEF NextMailboxStatus

LEMMA RestoredType == ASSUME NEW account PROVE Restored(account) \in {"bound", "ready"}
BY DEF Restored

(***************************************************************************)
(* Which actions write what.                                               *)
(***************************************************************************)

LEMMA CallWrites ==
  ASSUME NEW r \in Requests, RequestCalls(r)
  PROVE  /\ UNCHANGED <<jobs, secrets, launched, worker>>
         /\ UNCHANGED mailboxes \/ \E m \in Emails : PatchReady(r, m) \/ PatchClear(r, m)
         /\ UNCHANGED leases \/ LeaseCreate(r) \/ \E l \in Ids : LeaseRelease(r, l) \/ RotateCall(r, l)
         /\ UNCHANGED accounts \/ \E a \in AccountIds : DisableCall(r, a)
         /\ UNCHANGED paused \/ \E value \in BOOLEAN : SetPaused(r, value)
         /\ sequence' \in {sequence, sequence + 1}
BY DEF RequestCalls, RegisterCall, CancelCall, RetryCall, ImportCall, CheckCall, PatchReady,
       PatchDisableCall, PatchClear, CheckoutCall, KeepaliveCall, ReleaseCall, DisableCall,
       LeaseCreate, LeaseRelease, RotateCall, SetPaused, tables

LEMMA EnqueueWrites ==
  ASSUME NEW r \in Requests, EnqueueSteps(r)
  PROVE  /\ UNCHANGED <<accounts, secrets, paused, launched, worker>>
         /\ UNCHANGED mailboxes \/ MarkInUse(r)
         /\ UNCHANGED jobs \/ JobInsert(r)
         /\ UNCHANGED leases \/ LeaseInsert(r) \/ LinkLease(r)
         /\ sequence' \in {sequence, sequence + 1}
BY DEF EnqueueSteps, RegisterPick, RegisterRefused, KeepalivePick, KeepaliveRefused, LeaseInsert,
       LeaseRefused, JobInsert, MarkInUse, LinkLease, tables

LEMMA CancelWrites ==
  ASSUME NEW r \in Requests, CancelSteps(r) \/ RetryMailbox(r)
  PROVE  /\ UNCHANGED <<accounts, secrets, paused, sequence, launched, worker>>
         /\ UNCHANGED mailboxes \/ CancelMailbox(r) \/ RetryMailbox(r)
         /\ UNCHANGED jobs \/ CancelJob(r)
         /\ UNCHANGED leases \/ CancelLease(r)
BY DEF CancelSteps, CancelJob, CancelRead, CancelMailbox, CancelLease, RetryMailbox, tables

LEMMA MailboxStepWrites ==
  ASSUME NEW r \in Requests, ImportSteps(r) \/ PatchDisable(r) \/ CheckSteps(r)
  PROVE  /\ UNCHANGED <<accounts, jobs, leases, paused, sequence, launched, worker>>
         /\ \/ UNCHANGED mailboxes
            \/ ImportUpdate(r) \/ ImportInsert(r) \/ PatchDisable(r) \/ CheckOk(r)
            \/ \E class \in {"token_dead", "check_fail"} : CheckFail(r, class)
         /\ UNCHANGED secrets \/ ImportSecret(r)
BY DEF ImportSteps, CheckSteps, ImportUpdate, ImportInsert, ImportConflict, ImportSecret,
       PatchDisable, CheckNoSecret, CheckOk, CheckFail, tables

LEMMA AccountStepWrites ==
  ASSUME NEW r \in Requests, AccountSteps(r) \/ RotateInsert(r) \/ RotateRefused(r)
  PROVE  /\ UNCHANGED <<jobs, secrets, paused, launched, worker>>
         /\ UNCHANGED mailboxes \/ DisableMailbox(r)
         /\ UNCHANGED leases \/ RotateInsert(r)
         /\ UNCHANGED accounts \/ ReleaseWrite(r) \/ \E a \in AccountIds : CheckoutLease(r, a)
         /\ sequence' \in {sequence, sequence + 1}
BY DEF AccountSteps, CheckoutSteps, CheckoutHealth, CheckoutLease, ReleaseWrite, DisableRead,
       DisableMailbox, RotateInsert, RotateRefused, tables

LEMMA WorkerWrites ==
  ASSUME WorkerNext
  PROVE  /\ UNCHANGED <<secrets, paused, sequence, req>>
         /\ UNCHANGED mailboxes \/ OkRestore \/ OkBind \/ FailMailbox
         /\ UNCHANGED jobs \/ WorkerClaim \/ OkJob \/ FailJob
         /\ UNCHANGED leases \/ OkLease \/ FailLease
         /\ UNCHANGED accounts \/ OkAccount
         /\ UNCHANGED launched \/ WorkerLaunch
BY DEF WorkerNext, ClaimSteps, BackendStep, SuccessSteps, FailureSteps, WorkerPoll, WorkerClaim,
       WorkerLaunch, WorkerDies, WorkerNoBackend, BackendReturns, OkJob, OkLease, OkRestore,
       OkAccount, OkBind, OkEvent, FailJob, FailRead, FailMailbox, FailLease, tables

LEMMA OtherWrites ==
  ASSUME FaultSteps \/ \E m \in Emails : CooldownElapses(m)
  PROVE  /\ UNCHANGED <<jobs, leases, accounts, secrets, paused, launched>>
         /\ UNCHANGED mailboxes \/ \E m \in Emails : CooldownElapses(m)
         /\ UNCHANGED sequence \/ sequence' = 0
         /\ \/ UNCHANGED worker /\ UNCHANGED req
            \/ UNCHANGED worker /\ \E r \in Requests : RequestError(r)
            \/ UNCHANGED req /\ WorkerError
            \/ Restart
BY DEF FaultSteps, CooldownElapses, Restart, RequestError, WorkerError, tables

(***************************************************************************)
(* The tables.                                                             *)
(***************************************************************************)

LEMMA RowWritten ==
  ASSUME TypeOK, NEW m, NEW row \in MailboxRow, Write(m, row)
  PROVE  mailboxes' \in [Emails -> MailboxRow]
BY DEF TypeOK, Write

LEMMA StatusWritten ==
  ASSUME TypeOK, NEW m \in Emails, NEW status \in MailboxStatus, SetStatus(m, status)
  PROVE  mailboxes' \in [Emails -> MailboxRow]
<1>1. [mailboxes[m] EXCEPT !.status = status] \in MailboxRow
  BY DEF TypeOK, MailboxRow
<1>. QED
  BY <1>1, RowWritten DEF SetStatus

\* The mailbox a handler, or the worker, writes to.
LEMMA Targets ==
  ASSUME TypeOK, RefsValid
  PROVE  /\ \A r \in Requests :
              /\ req[r] \in Request
              /\ req[r].step \in WithEmail =>
                   req[r].email \in Emails /\ mailboxes[req[r].email] \in MailboxRow
              /\ req[r].step \in WithJob =>
                   /\ req[r].job \in Ids /\ jobs[req[r].job] \in JobRow
                   /\ JobFits(jobs[req[r].job])
                   /\ jobs[req[r].job].email \in Emails
                   /\ mailboxes[jobs[req[r].job].email] \in MailboxRow
         /\ worker \in WorkerState
         /\ worker.step \notin {"poll", "dead"} =>
              /\ worker.job \in Ids /\ jobs[worker.job] \in JobRow
              /\ JobFits(jobs[worker.job])
              /\ jobs[worker.job].email \in Emails
              /\ mailboxes[jobs[worker.job].email] \in MailboxRow
BY DEF TypeOK, RefsValid, RequestFits, WorkerFits, JobFits, InsertedJobs

LEMMA MailboxTypes ==
  ASSUME TypeOK, RefsValid, Next
  PROVE  mailboxes' \in [Emails -> MailboxRow]
<1>1. ASSUME NEW r \in Requests, RequestCalls(r) PROVE mailboxes' \in [Emails -> MailboxRow]
  <2>1. ASSUME NEW m \in Emails, PatchReady(r, m) PROVE mailboxes' \in [Emails -> MailboxRow]
    BY <2>1, StatusWritten, MailboxNames DEF PatchReady
  <2>2. ASSUME NEW m \in Emails, PatchClear(r, m) PROVE mailboxes' \in [Emails -> MailboxRow]
    <3>1. mailboxes[m] \in MailboxRow
      BY DEF TypeOK
    <3>2. [mailboxes[m] EXCEPT !.cooldown = "null",
                               !.health = IF @ = "cooling" THEN "unknown" ELSE @,
                               !.status = IF @ = "cooling" THEN "ready" ELSE @] \in MailboxRow
      BY <3>1, MailboxNames DEF MailboxRow
    <3>. QED
      BY <2>2, <3>2, RowWritten DEF PatchClear
  <2>. QED
    BY <1>1, <2>1, <2>2, CallWrites DEF TypeOK
<1>2. ASSUME NEW r \in Requests, EnqueueSteps(r) PROVE mailboxes' \in [Emails -> MailboxRow]
  <2>1. CASE MarkInUse(r)
    BY <2>1, Targets, StatusWritten, MailboxNames DEF MarkInUse, At, WithEmail
  <2>. QED
    BY <1>2, <2>1, EnqueueWrites DEF TypeOK
<1>3. ASSUME NEW r \in Requests, CancelSteps(r) \/ RetryMailbox(r)
      PROVE  mailboxes' \in [Emails -> MailboxRow]
  <2>1. CASE CancelMailbox(r)
    <3>1. jobs[req[r].job].email \in Emails
      BY <2>1, Targets DEF CancelMailbox, At, WithJob
    <3>2. Restored(req[r].seen.account) \in MailboxStatus
      BY RestoredType, MailboxNames
    <3>. QED
      BY <2>1, <3>1, <3>2, StatusWritten DEF CancelMailbox
  <2>2. CASE RetryMailbox(r)
    <3>. DEFINE job == jobs[req[r].job]
                status == IF job.type = "keepalive" THEN Restored(mailboxes[job.email].account)
                          ELSE "ready"
    <3>1. job.email \in Emails
      BY <2>2, Targets DEF RetryMailbox, At, WithJob
    <3>2. status \in MailboxStatus
      BY RestoredType, MailboxNames
    <3>3. SetStatus(job.email, status)
      BY <2>2 DEF RetryMailbox
    <3>. QED
      BY <3>1, <3>2, <3>3, StatusWritten
  <2>. QED
    BY <1>3, <2>1, <2>2, CancelWrites DEF TypeOK
<1>4. ASSUME NEW r \in Requests, ImportSteps(r) \/ PatchDisable(r) \/ CheckSteps(r)
      PROVE  mailboxes' \in [Emails -> MailboxRow]
  <2>. DEFINE row == mailboxes[req[r].email]
  <2>1. CASE ImportUpdate(r)
    <3>1. row \in MailboxRow
      BY <2>1, Targets DEF ImportUpdate, At, WithEmail
    <3>2. [row EXCEPT !.status = IF req[r].seen.status = "bound" THEN "bound" ELSE "ready",
                      !.health = "unknown", !.fails = 0, !.cooldown = "null"] \in MailboxRow
      BY <3>1, MailboxNames, Ranges DEF MailboxRow
    <3>. QED
      BY <2>1, <3>2, RowWritten DEF ImportUpdate
  <2>2. CASE ImportInsert(r)
    <3>1. [NoMailbox EXCEPT !.status = "ready"] \in MailboxRow
      BY NoRows, MailboxNames DEF MailboxRow
    <3>. QED
      BY <2>2, <3>1, RowWritten DEF ImportInsert
  <2>3. CASE PatchDisable(r)
    BY <2>3, Targets, StatusWritten, MailboxNames DEF PatchDisable, At, WithEmail
  <2>4. CASE CheckOk(r)
    <3>. DEFINE status == IF req[r].seen.status \notin {"ready", "cooling", "bound"}
                          THEN req[r].seen.status ELSE Restored(req[r].seen.account)
    <3>1. row \in MailboxRow /\ req[r].seen \in Seen
      BY <2>4, Targets DEF CheckOk, At, WithEmail, Request
    <3>2. status \in MailboxStatus \cup {"absent"}
      BY <3>1, RestoredType, MailboxNames DEF Seen
    <3>3. [row EXCEPT !.health = "ok", !.fails = 0, !.cooldown = "null", !.status = status]
            \in MailboxRow
      <4>. HIDE DEF status
      <4>. QED
        BY <3>1, <3>2, MailboxNames, Ranges DEF MailboxRow
    <3>. QED
      BY <2>4, <3>3, RowWritten DEF CheckOk
  <2>5. ASSUME NEW class \in {"token_dead", "check_fail"}, CheckFail(r, class)
        PROVE  mailboxes' \in [Emails -> MailboxRow]
    <3>. DEFINE fails == Saturate(req[r].seen.fails + 1)
                next == NextMailboxStatus(req[r].seen.fails + 1, MaxFail, class)
    <3>1. row \in MailboxRow /\ req[r].seen \in Seen
      BY <2>5, Targets DEF CheckFail, At, WithEmail, Request
    <3>2. fails \in 0..MaxFail /\ next \in {"disabled", "cooling"}
      BY <3>1, FailsType, NextStatusType
    <3>3. [row EXCEPT !.health = IF next = "disabled" THEN "dead" ELSE "cooling",
                      !.fails = fails, !.cooldown = "future", !.status = next] \in MailboxRow
      <4>. HIDE DEF fails, next
      <4>. QED
        BY <3>1, <3>2, MailboxNames DEF MailboxRow
    <3>. QED
      BY <2>5, <3>3, RowWritten DEF CheckFail
  <2>. QED
    BY <1>4, <2>1, <2>2, <2>3, <2>4, <2>5, MailboxStepWrites DEF TypeOK
<1>5. ASSUME NEW r \in Requests, AccountSteps(r) \/ RotateInsert(r) \/ RotateRefused(r)
      PROVE  mailboxes' \in [Emails -> MailboxRow]
  <2>1. CASE DisableMailbox(r)
    BY <2>1, Targets, StatusWritten, MailboxNames DEF DisableMailbox, At, WithEmail
  <2>. QED
    BY <1>5, <2>1, AccountStepWrites DEF TypeOK
<1>6. CASE WorkerNext
  <2>. DEFINE m == jobs[worker.job].email
  <2>1. CASE OkRestore
    <3>1. m \in Emails
      BY <2>1, Targets DEF OkRestore
    <3>2. Restored(mailboxes[m].account) \in MailboxStatus
      BY RestoredType, MailboxNames
    <3>. QED
      BY <2>1, <3>1, <3>2, StatusWritten DEF OkRestore
  <2>2. CASE OkBind
    <3>1. mailboxes[m] \in MailboxRow /\ worker.account \in AccountRefs
      BY <2>2, Targets DEF OkBind, WorkerState
    <3>2. [mailboxes[m] EXCEPT !.status = "bound", !.account = worker.account, !.health = "ok",
                               !.fails = 0, !.cooldown = "null"] \in MailboxRow
      BY <3>1, MailboxNames, Ranges DEF MailboxRow
    <3>. QED
      BY <2>2, <3>2, RowWritten DEF OkBind
  <2>3. CASE FailMailbox
    <3>. DEFINE fails == Saturate(worker.seen.fails + 1)
                next == NextMailboxStatus(worker.seen.fails + 1, MaxFail, worker.outcome)
    <3>1. mailboxes[m] \in MailboxRow /\ worker.seen \in Seen
      BY <2>3, Targets DEF FailMailbox, WorkerState
    <3>2. fails \in 0..MaxFail
      BY <3>1, FailsType
    <3>3. [mailboxes[m] EXCEPT
             !.status = IF next = "disabled" THEN "disabled"
                        ELSE IF worker.seen.account # 0 THEN "bound" ELSE "cooling",
             !.health = IF next = "disabled" THEN "dead" ELSE "cooling",
             !.fails = fails, !.cooldown = "future"] \in MailboxRow
      <4>. HIDE DEF fails, next
      <4>. QED
        BY <3>1, <3>2, MailboxNames DEF MailboxRow
    <3>. QED
      BY <2>3, <3>3, RowWritten DEF FailMailbox
  <2>. QED
    BY <1>6, <2>1, <2>2, <2>3, WorkerWrites DEF TypeOK
<1>7. CASE FaultSteps \/ \E m \in Emails : CooldownElapses(m)
  <2>1. ASSUME NEW m \in Emails, CooldownElapses(m) PROVE mailboxes' \in [Emails -> MailboxRow]
    <3>1. [mailboxes[m] EXCEPT !.cooldown = "past"] \in MailboxRow
      BY DEF TypeOK, MailboxRow
    <3>. QED
      BY <2>1, <3>1, RowWritten DEF CooldownElapses
  <2>. QED
    BY <1>7, <2>1, OtherWrites DEF TypeOK
<1>. QED
  BY <1>1, <1>2, <1>3, <1>4, <1>5, <1>6, <1>7 DEF Next, HandlerSteps

LEMMA JobTypes ==
  ASSUME TypeOK, RefsValid, Next
  PROVE  jobs' \in [Ids -> JobRow]
<1>1. ASSUME NEW r \in Requests, JobInsert(r) PROVE jobs' \in [Ids -> JobRow]
  <2>1. PICK j \in Ids : jobs' = [jobs EXCEPT ![j] =
            [status |-> "queued",
             type |-> IF req[r].account = 0 THEN "register" ELSE "keepalive",
             email |-> req[r].email, lease |-> req[r].lease, account |-> req[r].account]]
    BY <1>1 DEF JobInsert
  <2>2. req[r].email \in EmailRefs /\ req[r].lease \in IdRefs /\ req[r].account \in AccountRefs
    BY DEF TypeOK, Request
  <2>. QED
    BY <2>1, <2>2 DEF TypeOK, JobRow, JobStatus
<1>2. ASSUME NEW j, NEW status \in JobStatus, jobs' = [jobs EXCEPT ![j].status = status]
      PROVE  jobs' \in [Ids -> JobRow]
  <2>1. CASE j \in Ids
    <3>1. [jobs[j] EXCEPT !.status = status] \in JobRow
      BY <2>1 DEF TypeOK, JobRow
    <3>. QED
      BY <1>2, <3>1 DEF TypeOK
  <2>. QED
    BY <1>2, <2>1 DEF TypeOK
<1>3. (\E r \in Requests : CancelJob(r)) \/ WorkerClaim \/ OkJob \/ FailJob
      => jobs' \in [Ids -> JobRow]
  <2>1. {"cancelled", "running", "succeeded", "blocked", "failed"} \subseteq JobStatus
    BY DEF JobStatus
  <2>. QED
    BY <1>2, <2>1 DEF CancelJob, WorkerClaim, OkJob, FailJob
<1>. QED
  BY <1>1, <1>2, <1>3, CallWrites, EnqueueWrites, CancelWrites, MailboxStepWrites,
     AccountStepWrites, WorkerWrites, OtherWrites DEF Next, HandlerSteps, TypeOK

LEMMA LeaseTypes ==
  ASSUME TypeOK, RefsValid, Next
  PROVE  leases' \in [Ids -> LeaseRow]
<1>1. ASSUME NEW l \in Ids, NEW job \in IdRefs,
             leases' = [leases EXCEPT ![l] = [state |-> "held", job |-> job, sid |-> sequence + 1]]
      PROVE  leases' \in [Ids -> LeaseRow]
  BY <1>1 DEF TypeOK, LeaseRow
<1>2. ASSUME NEW r \in Requests, LeaseInsert(r) \/ LeaseCreate(r) \/ RotateInsert(r)
      PROVE  leases' \in [Ids -> LeaseRow]
  <2>1. req[r].job \in IdRefs /\ 0 \in IdRefs
    BY Ranges DEF TypeOK, Request
  <2>3. CASE LeaseInsert(r)
    BY <1>1, <2>1, <2>3 DEF LeaseInsert
  <2>4. CASE LeaseCreate(r)
    BY <1>1, <2>1, <2>4 DEF LeaseCreate
  <2>5. CASE RotateInsert(r)
    <3>1. PICK l \in Ids :
            leases' = [leases EXCEPT ![l] = [state |-> "held", job |-> req[r].job, sid |-> sequence + 1]]
      BY <2>5 DEF RotateInsert
    <3>. QED
      BY <1>1, <2>1, <3>1
  <2>. QED
    BY <1>2, <2>3, <2>4, <2>5
<1>3. ASSUME NEW r \in Requests, LinkLease(r) PROVE leases' \in [Ids -> LeaseRow]
  <2>1. req[r].job \in IdRefs
    BY DEF TypeOK, Request
  <2>. QED
    BY <1>3, <2>1 DEF LinkLease, TypeOK, LeaseRow
<1>4. ASSUME NEW l, NEW state \in {"released", "rotated", "failed"},
             leases' = [leases EXCEPT ![l].state = state]
      PROVE  leases' \in [Ids -> LeaseRow]
  <2>1. CASE l \in Ids
    <3>1. [leases[l] EXCEPT !.state = state] \in LeaseRow
      BY <2>1 DEF TypeOK, LeaseRow
    <3>. QED
      BY <1>4, <3>1 DEF TypeOK
  <2>. QED
    BY <1>4, <2>1 DEF TypeOK
<1>5. ASSUME NEW r \in Requests, CancelLease(r) \/ \E l \in Ids : LeaseRelease(r, l) \/ RotateCall(r, l)
      PROVE  leases' \in [Ids -> LeaseRow]
  BY <1>4, <1>5 DEF CancelLease, LeaseRelease, RotateCall
<1>6. CASE OkLease \/ FailLease
  BY <1>4, <1>6 DEF OkLease, FailLease
<1>. QED
  BY <1>2, <1>3, <1>5, <1>6, CallWrites, EnqueueWrites, CancelWrites, MailboxStepWrites,
     AccountStepWrites, WorkerWrites, OtherWrites DEF Next, HandlerSteps, TypeOK

LEMMA AccountTypes ==
  ASSUME TypeOK, RefsValid, Next
  PROVE  accounts' \in [AccountIds -> AccountRow]
<1>1. ASSUME NEW r \in Requests,
             ReleaseWrite(r) \/ \E a \in AccountIds : CheckoutLease(r, a) \/ DisableCall(r, a)
      PROVE  accounts' \in [AccountIds -> AccountRow]
  <2>1. ASSUME NEW b, NEW status \in {"registered", "leased", "disabled"}, NEW holder \in Requests \cup {None},
               accounts' = [accounts EXCEPT ![b].status = status, ![b].holder = holder]
        PROVE  accounts' \in [AccountIds -> AccountRow]
    BY <2>1 DEF TypeOK, AccountRow
  <2>2. CASE ReleaseWrite(r)
    BY <2>1, <2>2 DEF ReleaseWrite
  <2>3. ASSUME NEW a \in AccountIds, CheckoutLease(r, a) PROVE accounts' \in [AccountIds -> AccountRow]
    BY <2>1, <2>3 DEF CheckoutLease
  <2>4. ASSUME NEW a \in AccountIds, DisableCall(r, a) PROVE accounts' \in [AccountIds -> AccountRow]
    BY <2>1, <2>4 DEF DisableCall
  <2>. QED
    BY <1>1, <2>2, <2>3, <2>4
<1>2. CASE OkAccount
  <2>1. /\ worker.job \in Ids
        /\ jobs[worker.job].email \in Emails
    BY <1>2, Targets DEF OkAccount
  <2>2. worker.job \in IdRefs /\ jobs[worker.job].email \in EmailRefs
    BY <2>1, Ranges
  <2>. QED
    BY <1>2, <2>2 DEF OkAccount, TypeOK, AccountRow
<1>. QED
  BY <1>1, <1>2, CallWrites, EnqueueWrites, CancelWrites, MailboxStepWrites,
     AccountStepWrites, WorkerWrites, OtherWrites DEF Next, HandlerSteps, TypeOK

LEMMA OtherTypes ==
  ASSUME TypeOK, RefsValid, Next
  PROVE  /\ secrets' \subseteq Emails
         /\ paused' \in BOOLEAN
         /\ sequence' \in Nat
         /\ launched' \in [Ids -> Nat]
<1>1. ASSUME NEW r \in Requests, ImportSecret(r) PROVE secrets' \subseteq Emails
  BY <1>1, Targets DEF ImportSecret, At, WithEmail, TypeOK
<1>2. secrets' \subseteq Emails
  BY <1>1, CallWrites, EnqueueWrites, CancelWrites, MailboxStepWrites,
     AccountStepWrites, WorkerWrites, OtherWrites DEF Next, HandlerSteps, TypeOK
<1>3. ASSUME NEW r \in Requests, NEW value \in BOOLEAN, SetPaused(r, value) PROVE paused' \in BOOLEAN
  BY <1>3 DEF SetPaused
<1>4. paused' \in BOOLEAN
  BY <1>3, CallWrites, EnqueueWrites, CancelWrites, MailboxStepWrites,
     AccountStepWrites, WorkerWrites, OtherWrites DEF Next, HandlerSteps, TypeOK
<1>5. sequence' \in Nat
  <2>1. sequence \in Nat
    BY DEF TypeOK
  <2>2. ASSUME NEW r \in Requests, RequestCalls(r) \/ HandlerSteps(r)
        PROVE  sequence' \in {sequence, sequence + 1}
    BY <2>2, CallWrites, EnqueueWrites, CancelWrites, MailboxStepWrites, AccountStepWrites
       DEF HandlerSteps
  <2>3. CASE WorkerNext
    BY <2>1, <2>3, WorkerWrites
  <2>4. CASE FaultSteps \/ \E m \in Emails : CooldownElapses(m)
    BY <2>1, <2>4, OtherWrites
  <2>. QED
    BY <2>1, <2>2, <2>3, <2>4 DEF Next
<1>6. ASSUME WorkerLaunch PROVE launched' \in [Ids -> Nat]
  <2>1. launched' = [launched EXCEPT ![worker.job] = launched[worker.job] + 1]
    BY <1>6 DEF WorkerLaunch
  <2>2. worker.job \in Ids
    BY <1>6, Targets DEF WorkerLaunch
  <2>3. launched \in [Ids -> Nat]
    BY DEF TypeOK
  <2>. QED
    BY <2>1, <2>2, <2>3
<1>7. launched' \in [Ids -> Nat]
  BY <1>6, CallWrites, EnqueueWrites, CancelWrites, MailboxStepWrites,
     AccountStepWrites, WorkerWrites, OtherWrites DEF Next, HandlerSteps, TypeOK
<1>. QED
  BY <1>2, <1>4, <1>5, <1>7

(***************************************************************************)
(* What is inserted stays.                                                 *)
(***************************************************************************)

\* Jobs are never deleted, keep what they were inserted with, and none is
\* queued again.
JobsKept ==
  \A j \in InsertedJobs :
    /\ j \in InsertedJobs'
    /\ jobs'[j].email = jobs[j].email /\ jobs'[j].lease = jobs[j].lease
    /\ jobs'[j].type = jobs[j].type /\ jobs'[j].account = jobs[j].account
    /\ jobs[j].status # "queued" => jobs'[j].status # "queued"

\* So are accounts, with their emails.
AccountsKept ==
  \A a \in InsertedAccounts : a \in InsertedAccounts' /\ accounts'[a].email = accounts[a].email

LEMMA JobsStay ==
  ASSUME TypeOK, RefsValid, Next
  PROVE  JobsKept /\ InsertedJobs \subseteq InsertedJobs' /\ \A j \in InsertedJobs' : JobFits(jobs'[j])
<1>1. ASSUME NEW r \in Requests, JobInsert(r)
      PROVE  JobsKept /\ \A j \in InsertedJobs' : JobFits(jobs'[j])
  <2>. DEFINE row == [status |-> "queued",
                      type |-> IF req[r].account = 0 THEN "register" ELSE "keepalive",
                      email |-> req[r].email, lease |-> req[r].lease, account |-> req[r].account]
  <2>1. PICK j \in Ids : NextJob(j) /\ jobs' = [jobs EXCEPT ![j] = row]
    BY <1>1 DEF JobInsert
  <2>2. /\ req[r].email \in Emails /\ req[r].lease \in Ids
        /\ req[r].account # 0 => req[r].account \in AccountIds
    BY <1>1 DEF JobInsert, At, RefsValid, RequestFits, WithEmail, WithLease, TypeOK, Request,
                AccountRefs, AccountIds
  <2>. QED
    BY <2>1, <2>2 DEF JobsKept, InsertedJobs, Exists, NextJob, RefsValid, JobFits, TypeOK, JobRow
<1>2. ASSUME NEW i \in InsertedJobs, NEW status \in JobStatus \ {"queued"},
             jobs' = [jobs EXCEPT ![i].status = status]
      PROVE  JobsKept /\ \A j \in InsertedJobs' : JobFits(jobs'[j])
  <2>1. /\ \A j \in Ids \ {i} : jobs'[j] = jobs[j]
        /\ jobs'[i] = [jobs[i] EXCEPT !.status = status] /\ jobs[i] \in JobRow
    BY <1>2 DEF TypeOK, InsertedJobs
  <2>2. /\ jobs'[i].status = status /\ jobs'[i].email = jobs[i].email
        /\ jobs'[i].lease = jobs[i].lease /\ jobs'[i].type = jobs[i].type
        /\ jobs'[i].account = jobs[i].account
    BY <2>1 DEF JobRow
  <2>. QED
    BY <2>1, <2>2 DEF JobsKept, InsertedJobs, Exists, RefsValid, JobFits, JobStatus
<1>3. {"cancelled", "running", "succeeded", "blocked", "failed"} \subseteq JobStatus \ {"queued"}
  BY DEF JobStatus
<1>4. ASSUME NEW r \in Requests, CancelJob(r)
      PROVE  JobsKept /\ \A j \in InsertedJobs' : JobFits(jobs'[j])
  <2>1. req[r].job \in InsertedJobs
    BY <1>4 DEF CancelJob, At, RefsValid, RequestFits, WithJob
  <2>. QED
    BY <1>2, <1>3, <1>4, <2>1 DEF CancelJob
<1>5. ASSUME WorkerClaim \/ OkJob \/ FailJob
      PROVE  JobsKept /\ \A j \in InsertedJobs' : JobFits(jobs'[j])
  <2>1. worker.job \in InsertedJobs
    BY <1>5 DEF WorkerClaim, OkJob, FailJob, RefsValid, WorkerFits
  <2>. QED
    BY <1>2, <1>3, <1>5, <2>1 DEF WorkerClaim, OkJob, FailJob
<1>6. ASSUME UNCHANGED jobs PROVE JobsKept /\ \A j \in InsertedJobs' : JobFits(jobs'[j])
  BY <1>6 DEF JobsKept, InsertedJobs, Exists, RefsValid
<1>7. JobsKept /\ \A j \in InsertedJobs' : JobFits(jobs'[j])
  BY <1>1, <1>4, <1>5, <1>6, CallWrites, EnqueueWrites, CancelWrites, MailboxStepWrites,
     AccountStepWrites, WorkerWrites, OtherWrites DEF Next, HandlerSteps
<1>. QED
  BY <1>7 DEF JobsKept

LEMMA AccountsStay ==
  ASSUME TypeOK, RefsValid, Next
  PROVE  AccountsKept /\ InsertedAccounts \subseteq InsertedAccounts'
<1>1. ASSUME NEW r \in Requests, ReleaseWrite(r) PROVE AccountsKept
  <2>1. req[r].account \in InsertedAccounts
    BY <1>1 DEF ReleaseWrite, At, RefsValid, RequestFits
  <2>. QED
    BY <1>1, <2>1 DEF ReleaseWrite, AccountsKept, InsertedAccounts, TypeOK, AccountRow
<1>2. ASSUME NEW r \in Requests, NEW a \in AccountIds, CheckoutLease(r, a) \/ DisableCall(r, a)
      PROVE  AccountsKept
  BY <1>2 DEF CheckoutLease, DisableCall, AccountsKept, InsertedAccounts, TypeOK, AccountRow
<1>3. CASE OkAccount
  BY <1>3 DEF OkAccount, NextAccount, AccountsKept, InsertedAccounts, TypeOK, AccountRow
<1>4. CASE UNCHANGED accounts
  BY <1>4 DEF AccountsKept, InsertedAccounts
<1>5. AccountsKept
  BY <1>1, <1>2, <1>3, <1>4, CallWrites, EnqueueWrites, CancelWrites, MailboxStepWrites,
     AccountStepWrites, WorkerWrites, OtherWrites DEF Next, HandlerSteps
<1>. QED
  BY <1>5 DEF AccountsKept

-----------------------------------------------------------------------------
(***************************************************************************)
(* The worker.                                                             *)
(***************************************************************************)

LEMMA WorkerMoves ==
  ASSUME TypeOK, RefsValid, WorkerNext
  PROVE  worker' \in WorkerState /\ WorkerFits(worker', InsertedJobs)
<1>. USE WorkerStepNames
<1>1. worker \in WorkerState /\ WorkerFits(worker, InsertedJobs)
  BY DEF TypeOK, RefsValid
<1>2. IdleWorker \in WorkerState /\ WorkerFits(IdleWorker, InsertedJobs)
  BY NoRows DEF IdleWorker, WorkerFits
<1>3. CASE WorkerPoll
  BY <1>1, <1>3, Ranges DEF WorkerPoll, WorkerState, WorkerFits, InsertedJobs, Exists
<1>4. ASSUME NEW step \in WorkerSteps \ {"ok_bind"}, Goto(step), worker.step \notin {"poll", "dead"}
      PROVE  worker' \in WorkerState /\ WorkerFits(worker', InsertedJobs)
  BY <1>1, <1>4 DEF Goto, WorkerState, WorkerFits
<1>5. CASE WorkerClaim \/ WorkerLaunch \/ WorkerDies \/ OkJob \/ OkLease \/ OkRestore \/ OkBind
           \/ FailJob \/ FailMailbox
  BY <1>4, <1>5 DEF WorkerClaim, WorkerLaunch, WorkerDies, OkJob, OkLease, OkRestore, OkBind,
                    FailJob, FailMailbox
<1>6. CASE WorkerNoBackend \/ BackendStep
  BY <1>1, <1>6 DEF WorkerNoBackend, BackendStep, BackendReturns, WorkerState, WorkerFits, Outcomes
<1>7. CASE OkAccount
  BY <1>1, <1>7, Ranges DEF OkAccount, WorkerState, WorkerFits
<1>8. CASE FailRead
  <2>1. SeenOf(mailboxes[jobs[worker.job].email]) \in Seen
    BY <1>8, Targets, SeenType DEF FailRead
  <2>. QED
    BY <1>1, <1>8, <2>1 DEF FailRead, WorkerState, WorkerFits
<1>9. CASE OkEvent \/ FailLease
  BY <1>2, <1>9 DEF OkEvent, FailLease
<1>. QED
  BY <1>3, <1>5, <1>6, <1>7, <1>8, <1>9
     DEF WorkerNext, ClaimSteps, BackendStep, SuccessSteps, FailureSteps

LEMMA WorkerTypes ==
  ASSUME TypeOK, RefsValid, Next
  PROVE  worker' \in WorkerState /\ WorkerFits(worker', InsertedJobs')
<1>1. worker \in WorkerState /\ WorkerFits(worker, InsertedJobs)
  BY DEF TypeOK, RefsValid
<1>2. ASSUME WorkerError PROVE worker' \in WorkerState /\ WorkerFits(worker', InsertedJobs)
  <2>1. \/ worker' = [worker EXCEPT !.step = "dead"]
        \/ /\ worker.step \notin {"poll", "dead"}
           /\ worker' = [worker EXCEPT !.step = "fail_job", !.outcome = "check_fail"]
    BY <1>2 DEF WorkerError
  <2>2. "check_fail" \in Outcomes
    BY DEF Outcomes
  <2>. QED
    BY <1>1, <2>1, <2>2, WorkerStepNames DEF WorkerState, WorkerFits
<1>3. ASSUME Restart PROVE worker' \in WorkerState /\ WorkerFits(worker', InsertedJobs)
  BY <1>3, NoRows DEF Restart, IdleWorker, WorkerFits
<1>4. worker' \in WorkerState /\ WorkerFits(worker', InsertedJobs)
  BY <1>1, <1>2, <1>3, WorkerMoves, CallWrites, EnqueueWrites, CancelWrites, MailboxStepWrites,
     AccountStepWrites, OtherWrites DEF Next, HandlerSteps
<1>. QED
  BY <1>4, JobsStay DEF WorkerFits

(***************************************************************************)
(* The requests.                                                           *)
(***************************************************************************)

\* Locals of the right type that refer to what is there already.
Fits(q) == q \in Request /\ RequestFits(q, InsertedJobs, InsertedAccounts)

LEMMA IdleFits == Fits(IdleRequest)
BY NoRows DEF Fits, IdleRequest, RequestFits, WithEmail, WithJob, WithLease, WithAccount

LEMMA CallFits ==
  ASSUME TypeOK, RefsValid, NEW r \in Requests, RequestCalls(r), ~UNCHANGED req
  PROVE  Fits(req'[r])
<1>. USE RequestStepNames, Ranges DEF Continue, Receives, Fits, Request, RequestFits, WithEmail, WithJob, WithLease, WithAccount
<1>1. Fits(req[r]) /\ req \in [Requests -> Request]
  BY DEF TypeOK, RefsValid
<1>2. ASSUME NEW m \in EmailRefs, RegisterCall(r, m) PROVE Fits(req'[r])
  BY <1>1, <1>2 DEF RegisterCall
<1>3. ASSUME NEW j \in Ids, CancelCall(r, j) PROVE Fits(req'[r])
  <2>1. j \in InsertedJobs
    BY <1>3 DEF CancelCall, ActiveJob, InsertedJobs, Exists
  <2>. QED
    BY <1>1, <1>3, <2>1 DEF CancelCall
<1>4. ASSUME NEW j \in Ids, RetryCall(r, j) PROVE Fits(req'[r])
  BY <1>1, <1>4 DEF RetryCall, InsertedJobs, Exists
<1>5. ASSUME NEW m \in Emails, ImportCall(r, m) PROVE Fits(req'[r])
  <2>1. SeenOf(mailboxes[m]) \in Seen
    BY SeenType DEF TypeOK
  <2>. QED
    BY <1>1, <1>5, <2>1 DEF ImportCall
<1>6. ASSUME NEW m \in Emails, CheckCall(r, m) PROVE Fits(req'[r])
  <2>1. SeenOf(mailboxes[m]) \in Seen
    BY SeenType DEF TypeOK
  <2>. QED
    BY <1>1, <1>6, <2>1 DEF CheckCall
<1>7. ASSUME NEW m \in Emails, PatchDisableCall(r, m) PROVE Fits(req'[r])
  BY <1>1, <1>7 DEF PatchDisableCall
<1>8. ASSUME NEW batch \in SUBSET AccountIds, CheckoutCall(r, batch) PROVE Fits(req'[r])
  BY <1>1, <1>8 DEF CheckoutCall, InsertedAccounts
<1>9. ASSUME NEW a \in AccountIds, KeepaliveCall(r, a) PROVE Fits(req'[r])
  BY <1>1, <1>9 DEF KeepaliveCall
<1>10. ASSUME NEW a \in AccountIds, DisableCall(r, a) PROVE Fits(req'[r])
  BY <1>1, <1>10 DEF DisableCall
<1>11. ASSUME NEW a \in AccountIds, ReleaseCall(r, a) PROVE Fits(req'[r])
  BY <1>1, <1>11 DEF ReleaseCall, InsertedAccounts
<1>12. ASSUME NEW l \in Ids, RotateCall(r, l) PROVE Fits(req'[r])
  BY <1>1, <1>12 DEF RotateCall, TypeOK, LeaseRow
<1>. HIDE DEF Continue, Receives, Fits
<1>13. ASSUME \/ \E m \in Emails : PatchReady(r, m) \/ PatchClear(r, m)
              \/ LeaseCreate(r)
              \/ \E l \in Ids : LeaseRelease(r, l)
              \/ \E value \in BOOLEAN : SetPaused(r, value)
       PROVE  UNCHANGED req
  BY <1>13, Zenon DEF PatchReady, PatchClear, LeaseCreate, LeaseRelease, SetPaused
<1>. QED
  BY <1>2, <1>3, <1>4, <1>5, <1>6, <1>7, <1>8, <1>9, <1>10, <1>11, <1>12, <1>13 DEF RequestCalls

LEMMA EnqueueFits ==
  ASSUME TypeOK, RefsValid, NEW r \in Requests, EnqueueSteps(r)
  PROVE  \/ Fits(req'[r])
         \/ req'[r] \in Request /\ RequestFits(req'[r], InsertedJobs', InsertedAccounts')
<1>. USE RequestStepNames, Ranges DEF At, Finish, Fits, Request, RequestFits, WithEmail, WithJob, WithLease, WithAccount
<1>1. Fits(req[r]) /\ req \in [Requests -> Request]
  BY DEF TypeOK, RefsValid
<1>2. CASE RegisterRefused(r) \/ KeepaliveRefused(r) \/ LeaseRefused(r) \/ LinkLease(r)
  BY <1>1, <1>2, IdleFits DEF Continue, RegisterRefused, KeepaliveRefused, LeaseRefused, LinkLease
<1>3. CASE RegisterPick(r)
  <2>1. PICK m \in Emails : Continue(r, [req[r] EXCEPT !.step = "lease_insert", !.email = m])
    BY <1>3, Zenon DEF RegisterPick
  <2>. QED
    BY <1>1, <1>3, <2>1 DEF Continue, RegisterPick
<1>4. CASE KeepalivePick(r)
  <2>1. PICK m \in Emails : Continue(r, [req[r] EXCEPT !.step = "lease_insert", !.email = m])
    BY <1>4, Zenon DEF KeepalivePick, MailboxesOf
  <2>. QED
    BY <1>1, <1>4, <2>1 DEF Continue, KeepalivePick
<1>5. CASE LeaseInsert(r)
  <2>1. PICK l \in Ids : Continue(r, [req[r] EXCEPT !.step = "job_insert", !.lease = l])
    BY <1>5, Zenon DEF LeaseInsert
  <2>. QED
    BY <1>1, <1>5, <2>1 DEF Continue, LeaseInsert
<1>6. CASE JobInsert(r)
  <2>. DEFINE row == [status |-> "queued",
                      type |-> IF req[r].account = 0 THEN "register" ELSE "keepalive",
                      email |-> req[r].email, lease |-> req[r].lease, account |-> req[r].account]
  <2>1. PICK j \in Ids : /\ jobs' = [jobs EXCEPT ![j] = row]
                         /\ Continue(r, [req[r] EXCEPT !.step = "mark_in_use", !.job = j])
    BY <1>6, Zenon DEF JobInsert
  <2>3. j \in InsertedJobs'
    BY <2>1 DEF InsertedJobs, Exists, TypeOK
  <2>2. UNCHANGED accounts
    BY <1>6 DEF JobInsert
  <2>. QED
    BY <1>1, <1>6, <2>1, <2>2, <2>3 DEF Continue, JobInsert, InsertedAccounts
<1>7. CASE MarkInUse(r)
  BY <1>1, <1>7 DEF Continue, MarkInUse
<1>. QED
  BY <1>2, <1>3, <1>4, <1>5, <1>6, <1>7 DEF EnqueueSteps

LEMMA HandlerFits ==
  ASSUME TypeOK, RefsValid, NEW r \in Requests, HandlerSteps(r), ~EnqueueSteps(r)
  PROVE  Fits(req'[r])
<1>. USE RequestStepNames, Ranges DEF At, Continue, Finish, Fits, Request, RequestFits, WithEmail, WithJob, WithLease, WithAccount
<1>1. Fits(req[r]) /\ req \in [Requests -> Request]
  BY DEF TypeOK, RefsValid
<1>2. CASE CancelSteps(r)
  <2>1. CASE CancelRead(r)
    <3>1. SeenOf(mailboxes[jobs[req[r].job].email]) \in Seen
      BY <2>1, Targets, SeenType DEF CancelRead
    <3>. QED
      BY <1>1, <2>1, <3>1 DEF CancelRead
  <2>2. CASE CancelJob(r)
    BY <1>1, <2>2 DEF CancelJob
  <2>3. CASE CancelMailbox(r)
    BY <1>1, <2>3 DEF CancelMailbox
  <2>4. CASE CancelLease(r)
    BY <1>1, <2>4, IdleFits DEF CancelLease
  <2>. QED
    BY <1>2, <2>1, <2>2, <2>3, <2>4 DEF CancelSteps
<1>3. CASE RetryMailbox(r)
  <2>1. /\ jobs[req[r].job] \in JobRow
        /\ JobFits(jobs[req[r].job])
        /\ jobs[req[r].job].email \in Emails
    BY <1>3, Targets DEF RetryMailbox
  <2>. DEFINE job == jobs[req[r].job]
              locals == [IdleRequest EXCEPT
                !.step = IF job.type = "keepalive" THEN "keepalive_pick" ELSE "register_pick",
                !.email = IF job.type = "keepalive" THEN None ELSE job.email,
                !.account = job.account]
  <2>2. Fits(locals)
    BY <2>1, IdleFits DEF JobRow, JobFits, IdleRequest
  <2>3. req'[r] \in {IdleRequest, locals}
    BY <1>1, <1>3 DEF RetryMailbox
  <2>. HIDE DEF locals, Fits
  <2>. QED
    BY <2>2, <2>3, IdleFits
<1>4. CASE ImportSteps(r)
  BY <1>1, <1>4, IdleFits DEF ImportSteps, ImportUpdate, ImportInsert, ImportConflict, ImportSecret
<1>5. CASE PatchDisable(r) \/ CheckSteps(r) \/ RotateInsert(r) \/ RotateRefused(r)
  BY <1>1, <1>5, IdleFits DEF PatchDisable, CheckSteps, CheckNoSecret, CheckOk, CheckFail, RotateInsert, RotateRefused
<1>6. CASE AccountSteps(r)
  <2>1. CASE CheckoutHealth(r)
    BY <1>1, <2>1, IdleFits DEF CheckoutHealth
  <2>2. ASSUME NEW a \in AccountIds, CheckoutLease(r, a) PROVE Fits(req'[r])
    BY <1>1, <2>2, IdleFits DEF CheckoutLease
  <2>3. CASE DisableRead(r)
    <3>1. \/ Finish(r)
          \/ \E m \in Emails : Continue(r, [req[r] EXCEPT !.step = "disable_mailbox", !.email = m])
      <4>. HIDE DEF Continue, Finish
      <4>. QED
        BY <2>3, Zenon DEF DisableRead
    <3>2. ASSUME NEW m \in Emails,
                 Continue(r, [req[r] EXCEPT !.step = "disable_mailbox", !.email = m])
          PROVE  Fits(req'[r])
      <4>1. req[r].step = "disable_read"
        BY <2>3, Zenon DEF DisableRead
      <4>. QED
        BY <1>1, <3>2, <4>1
    <3>3. CASE Finish(r)
      BY <1>1, <3>3, IdleFits
    <3>. QED
      <4>. HIDE DEF Continue, Finish, Fits
      <4>. QED
        BY <3>1, <3>2, <3>3, Zenon
  <2>4. CASE ReleaseWrite(r) \/ DisableMailbox(r)
    BY <1>1, <2>4, IdleFits DEF ReleaseWrite, DisableMailbox
  <2>. QED
    BY <1>6, <2>1, <2>2, <2>3, <2>4 DEF AccountSteps, CheckoutSteps
<1>. QED
  BY <1>2, <1>3, <1>4, <1>5, <1>6 DEF HandlerSteps

LEMMA OneRequestMoves ==
  ASSUME NEW r \in Requests, RequestCalls(r) \/ HandlerSteps(r) \/ RequestError(r)
  PROVE  UNCHANGED req \/ \E locals : Continue(r, locals)
<1>1. CASE RequestCalls(r)
  BY <1>1, Zenon
     DEF RequestCalls, RegisterCall, CancelCall, RetryCall, ImportCall, CheckCall, PatchReady,
         PatchDisableCall, PatchClear, CheckoutCall, KeepaliveCall, ReleaseCall, DisableCall,
         LeaseCreate, LeaseRelease, RotateCall, SetPaused
<1>2. CASE EnqueueSteps(r) \/ CancelSteps(r) \/ RetryMailbox(r)
  BY <1>2, Zenon
     DEF EnqueueSteps, RegisterPick, RegisterRefused, KeepalivePick, KeepaliveRefused, LeaseInsert,
         LeaseRefused, JobInsert, MarkInUse, LinkLease, CancelSteps, CancelJob, CancelRead,
         CancelMailbox, CancelLease, RetryMailbox, Finish
<1>3. CASE ImportSteps(r) \/ PatchDisable(r) \/ CheckSteps(r)
  BY <1>3, Zenon
     DEF ImportSteps, ImportUpdate, ImportInsert, ImportConflict, ImportSecret, PatchDisable,
         CheckSteps, CheckNoSecret, CheckOk, CheckFail, Finish
<1>4. CASE AccountSteps(r) \/ RotateInsert(r) \/ RotateRefused(r)
  BY <1>4, Zenon
     DEF AccountSteps, CheckoutSteps, CheckoutHealth, CheckoutLease, ReleaseWrite, DisableRead,
         DisableMailbox, RotateInsert, RotateRefused, Finish
<1>5. CASE RequestError(r)
  BY <1>5 DEF RequestError, Finish
<1>. QED
  BY <1>1, <1>2, <1>3, <1>4, <1>5 DEF HandlerSteps

\* The shape of a step seen from the requests: none moves, one does, or all
\* are lost.
LEMMA RequestFrame ==
  ASSUME Next
  PROVE  \/ UNCHANGED req
         \/ \E r \in Requests : /\ RequestCalls(r) \/ HandlerSteps(r) \/ RequestError(r)
                                /\ \E locals : Continue(r, locals)
         \/ req' = [r \in Requests |-> IdleRequest]
BY OneRequestMoves, WorkerWrites, OtherWrites DEF Next, Restart

LEMMA RequestTypes ==
  ASSUME TypeOK, RefsValid, Next
  PROVE  /\ req' \in [Requests -> Request]
         /\ \A r \in Requests : RequestFits(req'[r], InsertedJobs', InsertedAccounts')
<1>. DEFINE FitsAfter(q) == q \in Request /\ RequestFits(q, InsertedJobs', InsertedAccounts')
<1>1. ASSUME NEW q, Fits(q) PROVE FitsAfter(q)
  BY <1>1, JobsStay, AccountsStay DEF Fits, RequestFits
<1>2. req \in [Requests -> Request] /\ \A r \in Requests : FitsAfter(req[r])
  BY <1>1 DEF TypeOK, RefsValid, Fits
<1>3. ASSUME NEW r \in Requests, NEW locals, Continue(r, locals),
             RequestCalls(r) \/ HandlerSteps(r) \/ RequestError(r), ~UNCHANGED req
      PROVE  FitsAfter(locals)
  <2>1. req'[r] = locals
    BY <1>2, <1>3 DEF Continue
  <2>2. CASE RequestCalls(r)
    BY <1>1, <1>3, <2>1, <2>2, CallFits
  <2>3. CASE EnqueueSteps(r)
    BY <1>1, <2>1, <2>3, EnqueueFits
  <2>4. CASE HandlerSteps(r) /\ ~EnqueueSteps(r)
    BY <1>1, <2>1, <2>4, HandlerFits
  <2>5. CASE RequestError(r)
    <3>1. locals = IdleRequest
      BY <1>2, <2>1, <2>5 DEF RequestError, Finish, Continue
    <3>. QED
      BY <1>1, <3>1, IdleFits
  <2>. QED
    BY <1>3, <2>2, <2>3, <2>4, <2>5
<1>4. CASE UNCHANGED req
  BY <1>2, <1>4
<1>5. ASSUME NEW r \in Requests, NEW locals, Continue(r, locals), FitsAfter(locals)
      PROVE  req' \in [Requests -> Request] /\ \A q \in Requests : FitsAfter(req'[q])
  <2>. HIDE DEF FitsAfter
  <2>1. locals \in Request
    BY <1>5 DEF FitsAfter
  <2>. QED
    BY <1>2, <1>5, <2>1 DEF Continue
<1>6. CASE req' = [r \in Requests |-> IdleRequest]
  BY <1>1, <1>6, IdleFits, NoRows
<1>. QED
  BY <1>3, <1>4, <1>5, <1>6, RequestFrame

(***************************************************************************)
(* The invariant.                                                          *)
(***************************************************************************)

\* Type correctness: in every reachable state each table holds rows, and each
\* coroutine local variables, of their type, and no statement about to be
\* executed names a job, an account, a lease or a mailbox that is not there.
\* Holds with restarts and failing statements, for every number of clients,
\* mailboxes, jobs and accounts.
THEOREM TypeCorrect == Spec => [](TypeOK /\ RefsValid)
<1>1. Init => TypeOK /\ RefsValid
  <2>. SUFFICES ASSUME Init PROVE TypeOK /\ RefsValid
    OBVIOUS
  <2>1. TypeOK
    BY NoRows DEF Init, TypeOK
  <2>2. \A j \in Ids : ~Exists(j)
    BY DEF Init, Exists, NoJob
  <2>3. \A r \in Requests : RequestFits(req[r], InsertedJobs, InsertedAccounts)
    BY IdleFits DEF Init, Fits
  <2>4. WorkerFits(worker, InsertedJobs)
    BY DEF Init, IdleWorker, WorkerFits
  <2>. QED
    BY <2>1, <2>2, <2>3, <2>4 DEF RefsValid, InsertedJobs
<1>2. TypeOK /\ RefsValid /\ [Next]_vars => TypeOK' /\ RefsValid'
  <2>1. CASE TypeOK /\ RefsValid /\ Next
    BY <2>1, MailboxTypes, JobTypes, LeaseTypes, AccountTypes, OtherTypes, WorkerTypes, RequestTypes,
       JobsStay DEF TypeOK, RefsValid
  <2>2. CASE TypeOK /\ RefsValid /\ UNCHANGED vars
    BY <2>2 DEF vars, TypeOK, RefsValid, InsertedJobs, InsertedAccounts, Exists, JobFits,
                RequestFits, WorkerFits
  <2>. QED
    BY <2>1, <2>2
<1>. QED
  BY <1>1, <1>2, PTL DEF Spec

=============================================================================
