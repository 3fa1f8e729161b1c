----------------------------- MODULE PoolProofs -----------------------------
(***************************************************************************)
(* The safety invariants of PoolProperties, for every number of clients,   *)
(* mailboxes, jobs and accounts, with restarts and failing statements.     *)
(***************************************************************************)
EXTENDS PoolTypeProofs

(***************************************************************************)
(* AtMostOnce.  The worker's claim does not ask for the status, so what    *)
(* keeps a job from being launched again is that nothing ever makes a job  *)
(* 'queued' a second time: JobsKept.                                       *)
(***************************************************************************)

\* The worker comes to have a job to launch by its poll and its claim only.
LEMMA WorkerPicks ==
  ASSUME TypeOK, Next
  PROVE  \/ UNCHANGED worker
         \/ WorkerPoll \/ WorkerClaim
         \/ worker'.step \notin {"claim", "load"}
<1>1. worker \in WorkerState
  BY DEF TypeOK
<1>2. \A step : Goto(step) => worker'.step = step
  BY <1>1 DEF Goto, WorkerState
<1>3. CASE WorkerLaunch \/ WorkerDies \/ WorkerNoBackend \/ BackendStep
  BY <1>1, <1>2, <1>3 DEF WorkerLaunch, WorkerDies, WorkerNoBackend, BackendStep, BackendReturns, WorkerState
<1>4. CASE SuccessSteps
  <2>1. CASE OkJob \/ OkLease
    BY <1>2, <2>1 DEF OkJob, OkLease
  <2>2. CASE OkRestore \/ OkBind
    BY <1>2, <2>2 DEF OkRestore, OkBind
  <2>3. CASE OkAccount
    BY <1>1, <2>3 DEF OkAccount, WorkerState
  <2>4. CASE OkEvent
    BY <2>4 DEF OkEvent, IdleWorker
  <2>. QED
    BY <1>4, <2>1, <2>2, <2>3, <2>4 DEF SuccessSteps
<1>5. CASE FailureSteps
  <2>1. CASE FailJob
    BY <1>2, <2>1 DEF FailJob
  <2>2. CASE FailRead
    BY <1>1, <2>2 DEF FailRead, WorkerState
  <2>3. CASE FailMailbox
    BY <1>2, <2>3 DEF FailMailbox
  <2>4. CASE FailLease
    BY <2>4 DEF FailLease, IdleWorker
  <2>. QED
    BY <1>5, <2>1, <2>2, <2>3, <2>4 DEF FailureSteps
<1>6. CASE WorkerError
  <2>1. \/ worker' = [worker EXCEPT !.step = "dead"]
        \/ worker' = [worker EXCEPT !.step = "fail_job", !.outcome = "check_fail"]
    BY <1>6 DEF WorkerError
  <2>. QED
    BY <1>1, <2>1 DEF WorkerState
<1>7. CASE Restart
  BY <1>7 DEF Restart, IdleWorker
<1>. QED
  BY <1>3, <1>4, <1>5, <1>6, <1>7, CallWrites, EnqueueWrites, CancelWrites, MailboxStepWrites,
     AccountStepWrites, OtherWrites DEF Next, HandlerSteps, WorkerNext, ClaimSteps

LEMMA LaunchStep ==
  ASSUME TypeOK, RefsValid, LaunchInv, Next
  PROVE  LaunchInv'
<1>1. launched \in [Ids -> Nat] /\ jobs \in [Ids -> JobRow]
  BY DEF TypeOK
<1>2. ASSUME WorkerLaunch
      PROVE  /\ UNCHANGED jobs /\ worker'.step = "backend"
             /\ worker.job \in Ids /\ worker.step = "load"
             /\ launched' = [launched EXCEPT ![worker.job] = 1]
             /\ jobs[worker.job].status \notin {"absent", "queued"}
  <2>1. worker.job \in InsertedJobs /\ worker.step = "load"
    BY <1>2 DEF WorkerLaunch, RefsValid, WorkerFits
  <2>2. launched[worker.job] = 0
    BY <2>1 DEF LaunchInv
  <2>3. worker' = [worker EXCEPT !.step = "backend"] /\ worker \in WorkerState
    BY <1>2 DEF WorkerLaunch, Goto, TypeOK
  <2>4. launched' = [launched EXCEPT ![worker.job] = launched[worker.job] + 1]
    BY <1>2 DEF WorkerLaunch
  <2>. QED
    BY <1>2, <2>1, <2>2, <2>3, <2>4 DEF WorkerLaunch, tables, LaunchInv, InsertedJobs, Exists, WorkerState
<1>3. UNCHANGED launched \/ WorkerLaunch
  BY CallWrites, EnqueueWrites, CancelWrites, MailboxStepWrites, AccountStepWrites, WorkerWrites,
     OtherWrites DEF Next, HandlerSteps
<1>4. \A j \in Ids : launched'[j] # 0 => launched'[j] = 1 /\ jobs'[j].status \notin {"absent", "queued"}
  <2>1. ASSUME UNCHANGED launched, NEW j \in Ids, launched'[j] # 0
        PROVE  launched'[j] = 1 /\ jobs'[j].status \notin {"absent", "queued"}
    BY <2>1, JobsStay DEF LaunchInv, JobsKept, InsertedJobs, Exists
  <2>2. ASSUME WorkerLaunch, NEW j \in Ids, launched'[j] # 0
        PROVE  launched'[j] = 1 /\ jobs'[j].status \notin {"absent", "queued"}
    BY <1>1, <1>2, <2>2 DEF LaunchInv
  <2>. QED
    BY <1>3, <2>1, <2>2
<1>5. /\ worker'.step \in {"claim", "load"} => launched'[worker'.job] = 0
      /\ worker'.step = "load" => jobs'[worker'.job].status # "queued"
  <2>1. CASE WorkerPoll
    <3>1. PICK j \in Ids : jobs[j].status = "queued" /\ worker' = [worker EXCEPT !.step = "claim", !.job = j]
      BY <2>1 DEF WorkerPoll
    <3>. QED
      BY <2>1, <3>1 DEF WorkerPoll, LaunchInv, TypeOK, WorkerState
  <2>2. CASE WorkerClaim
    <3>1. worker.job \in Ids
      BY <2>2, Targets DEF WorkerClaim
    <3>2. jobs'[worker.job].status = "running"
      BY <1>1, <2>2, <3>1 DEF WorkerClaim, JobRow
    <3>. QED
      BY <2>2, <3>2 DEF WorkerClaim, Goto, LaunchInv, TypeOK, WorkerState
  <2>3. CASE UNCHANGED worker /\ UNCHANGED launched
    <3>1. worker.step \in {"claim", "load"} => worker.job \in InsertedJobs
      BY DEF RefsValid, WorkerFits
    <3>. QED
      BY <2>3, <3>1, JobsStay DEF LaunchInv, JobsKept
  <2>. QED
    BY <1>2, <1>3, <2>1, <2>2, <2>3, WorkerPicks
<1>. QED
  BY <1>4, <1>5 DEF LaunchInv

LEMMA LaunchesHold == Spec => []LaunchInv
<1>1. Init => LaunchInv
  BY DEF Init, LaunchInv, IdleWorker
<1>2. TypeOK /\ RefsValid /\ LaunchInv /\ [Next]_vars => LaunchInv'
  <2>1. CASE UNCHANGED vars
    BY <2>1 DEF vars, LaunchInv
  <2>. QED
    BY <2>1, LaunchStep
<1>. QED
  BY <1>1, <1>2, TypeCorrect, PTL DEF Spec

\* The backend is called at most once for a job, whatever is cancelled,
\* retried, restarted or raises meanwhile.
THEOREM LaunchedAtMostOnce == Spec => []AtMostOnce
<1>1. TypeOK /\ LaunchInv => AtMostOnce
  BY DEF TypeOK, LaunchInv, AtMostOnce
<1>. QED
  BY <1>1, LaunchesHold, TypeCorrect, PTL

(***************************************************************************)
(* HolderMatchesStatus is inductive as it stands: release, checkout and    *)
(* disable write the status and the holder in one statement, and a         *)
(* repeated registration, which keeps the holder, makes no row 'leased'.   *)
(***************************************************************************)

LEMMA HolderStep ==
  ASSUME TypeOK, HolderMatchesStatus, Next
  PROVE  HolderMatchesStatus'
<1>. DEFINE Matches(row) == /\ row.status = "leased" => row.holder # None
                            /\ row.status \in {"absent", "disabled"} => row.holder = None
<1>1. accounts \in [AccountIds -> AccountRow] /\ \A a \in AccountIds : Matches(accounts[a])
  BY DEF TypeOK, HolderMatchesStatus
<1>2. SUFFICES \A a \in AccountIds : Matches(accounts'[a])
  BY DEF HolderMatchesStatus
<1>3. ASSUME NEW r \in Requests, ReleaseWrite(r) PROVE \A a \in AccountIds : Matches(accounts'[a])
  BY <1>1, <1>3 DEF ReleaseWrite, AccountRow
<1>4. ASSUME NEW r \in Requests, NEW a \in AccountIds, CheckoutLease(r, a)
      PROVE  \A b \in AccountIds : Matches(accounts'[b])
  BY <1>1, <1>4, NoneAssumption DEF CheckoutLease, AccountRow
<1>5. ASSUME NEW r \in Requests, NEW a \in AccountIds, DisableCall(r, a)
      PROVE  \A b \in AccountIds : Matches(accounts'[b])
  BY <1>1, <1>5 DEF DisableCall, AccountRow
<1>6. CASE OkAccount
  BY <1>1, <1>6 DEF OkAccount, AccountRow
<1>7. CASE UNCHANGED accounts
  BY <1>1, <1>7
<1>. QED
  BY <1>3, <1>4, <1>5, <1>6, <1>7, CallWrites, EnqueueWrites, CancelWrites, MailboxStepWrites,
     AccountStepWrites, WorkerWrites, OtherWrites DEF Next, HandlerSteps

\* A leased account always has a holder and a disabled one none, for any number
\* of clients that check out, release and disable, with restarts and failing
\* statements.
THEOREM LeasedHasHolder == Spec => []HolderMatchesStatus
<1>1. Init => HolderMatchesStatus
  BY DEF Init, HolderMatchesStatus, NoAccount
<1>2. TypeOK /\ HolderMatchesStatus /\ [Next]_vars => HolderMatchesStatus'
  <2>1. CASE UNCHANGED vars
    BY <2>1 DEF vars, HolderMatchesStatus
  <2>. QED
    BY <2>1, HolderStep
<1>. QED
  BY <1>1, <1>2, TypeCorrect, PTL DEF Spec

-----------------------------------------------------------------------------
(***************************************************************************)
(* The links between mailboxes and accounts: BoundMeansLinked and          *)
(* LinksAgree.  Five handlers and the worker write a mailbox's status from *)
(* a row they read earlier; what saves them is that no link is ever        *)
(* removed, so a link once seen still holds (SeenLinksHold).               *)
(***************************************************************************)

\* A row that may be written over that of m.
RowFits(m, row) ==
  /\ row.status = "bound" => row.account # 0
  /\ row.status = "absent" => row.account = 0 /\ mailboxes[m].status = "absent"
  /\ Linked(m) => row.account # 0
  /\ row.account # 0 => row.account \in InsertedAccounts /\ accounts[row.account].email = m

FittingWrite == \E m \in Emails : \E row : Write(m, row) /\ RowFits(m, row)

LEMMA SameLinkFits ==
  ASSUME TypeOK, LinkInv, NEW m \in Emails, NEW row,
         row.account = mailboxes[m].account,
         row.status = "bound" => Linked(m),
         row.status # "absent" \/ row.status = mailboxes[m].status
  PROVE  RowFits(m, row)
BY DEF TypeOK, LinkInv, LinksAgree, AbsentUnlinked, Linked, RowFits, MailboxRow, InsertedAccounts,
       AccountRefs, AccountIds

LEMMA StatusFits ==
  ASSUME TypeOK, LinkInv, NEW m \in Emails, NEW status \in MailboxStatus,
         status = "bound" => Linked(m), SetStatus(m, status)
  PROVE  FittingWrite
<1>. DEFINE row == [mailboxes[m] EXCEPT !.status = status]
<1>1. row.account = mailboxes[m].account /\ row.status = status
  BY DEF TypeOK, MailboxRow
<1>2. RowFits(m, row)
  BY <1>1, SameLinkFits DEF MailboxStatus
<1>3. Write(m, row)
  BY DEF SetStatus
<1>. HIDE DEF row
<1>. QED
  BY <1>2, <1>3 DEF FittingWrite

\* A handler writes to a mailbox whose status it may change, as it read it.
LEMMA RequestWriteFits ==
  ASSUME TypeOK, RefsValid, LinkInv, NEW r \in Requests, RequestCalls(r) \/ HandlerSteps(r)
  PROVE  UNCHANGED mailboxes \/ FittingWrite
<1>1. ASSUME NEW m \in Emails, PatchReady(r, m) PROVE FittingWrite
  BY <1>1, StatusFits, MailboxNames DEF PatchReady
<1>2. ASSUME NEW m \in Emails, PatchClear(r, m) PROVE FittingWrite
  <2>. DEFINE row == [mailboxes[m] EXCEPT !.cooldown = "null",
                        !.health = IF @ = "cooling" THEN "unknown" ELSE @,
                        !.status = IF @ = "cooling" THEN "ready" ELSE @]
  <2>1. /\ row.account = mailboxes[m].account
        /\ row.status = mailboxes[m].status \/ row.status = "ready"
    BY DEF TypeOK, MailboxRow
  <2>2. Write(m, row)
    BY <1>2 DEF PatchClear
  <2>. HIDE DEF row
  <2>3. RowFits(m, row)
    BY <2>1, SameLinkFits DEF LinkInv, BoundMeansLinked, Linked
  <2>. QED
    BY <2>2, <2>3 DEF FittingWrite
<1>3. CASE MarkInUse(r) \/ PatchDisable(r) \/ DisableMailbox(r)
  BY <1>3, Targets, StatusFits, MailboxNames DEF MarkInUse, PatchDisable, DisableMailbox, At, WithEmail
<1>4. CASE CancelMailbox(r)
  <2>1. jobs[req[r].job].email \in Emails
    BY <1>4, Targets DEF CancelMailbox, At, WithJob
  <2>2. Restored(req[r].seen.account) = "bound" => Linked(jobs[req[r].job].email)
    BY <1>4 DEF CancelMailbox, At, Restored, LinkInv, SeenLinksHold, RequestLinks, WorkerLinks
  <2>. QED
    BY <1>4, <2>1, <2>2, StatusFits, RestoredType, MailboxNames DEF CancelMailbox
<1>5. CASE RetryMailbox(r)
  <2>. DEFINE m == jobs[req[r].job].email
              status == IF jobs[req[r].job].type = "keepalive" THEN Restored(mailboxes[m].account)
                        ELSE "ready"
  <2>1. m \in Emails /\ SetStatus(m, status)
    BY <1>5, Targets DEF RetryMailbox, At, WithJob
  <2>2. status \in MailboxStatus /\ (status = "bound" => Linked(m))
    BY RestoredType, MailboxNames DEF Restored, Linked
  <2>. HIDE DEF m, status
  <2>. QED
    BY <2>1, <2>2, StatusFits
<1>6. CASE ImportUpdate(r)
  <2>. DEFINE m == req[r].email
              row == [mailboxes[m] EXCEPT
                       !.status = IF req[r].seen.status = "bound" THEN "bound" ELSE "ready",
                       !.health = "unknown", !.fails = 0, !.cooldown = "null"]
  <2>1. m \in Emails /\ Write(m, row)
    BY <1>6, Targets DEF ImportUpdate, At, WithEmail
  <2>2. /\ row.account = mailboxes[m].account
        /\ row.status = "ready" \/ (row.status = "bound" /\ req[r].seen.status = "bound")
    BY <2>1 DEF TypeOK, MailboxRow
  <2>3. req[r].seen.status = "bound" => Linked(m)
    BY <1>6 DEF ImportUpdate, At, LinkInv, SeenLinksHold, RequestLinks, WorkerLinks
  <2>. HIDE DEF m, row
  <2>4. RowFits(m, row)
    BY <2>1, <2>2, <2>3, SameLinkFits
  <2>. QED
    BY <2>1, <2>4 DEF FittingWrite
<1>7. CASE ImportInsert(r)
  <2>. DEFINE m == req[r].email
              row == [NoMailbox EXCEPT !.status = "ready"]
  <2>1. m \in Emails /\ Write(m, row) /\ ~Linked(m)
    BY <1>7, Targets DEF ImportInsert, At, WithEmail, LinkInv, AbsentUnlinked
  <2>2. row.account = 0 /\ row.status = "ready"
    BY DEF NoMailbox
  <2>. HIDE DEF m, row
  <2>3. RowFits(m, row)
    BY <2>1, <2>2 DEF RowFits
  <2>. QED
    BY <2>1, <2>3 DEF FittingWrite
<1>8. CASE CheckOk(r)
  <2>. DEFINE m == req[r].email
              status == IF req[r].seen.status \notin {"ready", "cooling", "bound"}
                        THEN req[r].seen.status ELSE Restored(req[r].seen.account)
              row == [mailboxes[m] EXCEPT !.health = "ok", !.fails = 0, !.cooldown = "null",
                                          !.status = status]
  <2>1. m \in Emails /\ Write(m, row)
    BY <1>8, Targets DEF CheckOk, At, WithEmail
  <2>2. row.account = mailboxes[m].account /\ row.status = status
    BY <2>1 DEF TypeOK, MailboxRow
  <2>3. status # "absent" /\ (status = "bound" => Linked(m))
    BY <1>8 DEF CheckOk, At, LinkInv, SeenLinksHold, RequestLinks, WorkerLinks, Restored
  <2>. HIDE DEF m, status, row
  <2>4. RowFits(m, row)
    BY <2>1, <2>2, <2>3, SameLinkFits
  <2>. QED
    BY <2>1, <2>4 DEF FittingWrite
<1>9. ASSUME NEW class \in {"token_dead", "check_fail"}, CheckFail(r, class) PROVE FittingWrite
  <2>. DEFINE m == req[r].email
              fails == req[r].seen.fails + 1
              next == NextMailboxStatus(fails, MaxFail, class)
              row == [mailboxes[m] EXCEPT
                       !.health = IF next = "disabled" THEN "dead" ELSE "cooling",
                       !.fails = Saturate(fails), !.cooldown = "future", !.status = next]
  <2>1. m \in Emails /\ Write(m, row)
    BY <1>9, Targets DEF CheckFail, At, WithEmail
  <2>2. next \in {"disabled", "cooling"}
    BY NextStatusType
  <2>. HIDE DEF next
  <2>3. row.account = mailboxes[m].account /\ row.status = next
    BY <2>1 DEF TypeOK, MailboxRow
  <2>. HIDE DEF m, row
  <2>4. RowFits(m, row)
    BY <2>1, <2>2, <2>3, SameLinkFits
  <2>. QED
    BY <2>1, <2>4 DEF FittingWrite
<1>. QED
  BY <1>1, <1>2, <1>3, <1>4, <1>5, <1>6, <1>7, <1>8, <1>9, CallWrites, EnqueueWrites, CancelWrites,
     MailboxStepWrites, AccountStepWrites DEF HandlerSteps

LEMMA WorkerWriteFits ==
  ASSUME TypeOK, RefsValid, LinkInv, WorkerNext
  PROVE  UNCHANGED mailboxes \/ FittingWrite
<1>. DEFINE m == jobs[worker.job].email
<1>1. worker.step \notin {"poll", "dead"} => m \in Emails /\ mailboxes[m] \in MailboxRow
  BY Targets
<1>2. CASE OkRestore
  <2>1. m \in Emails /\ SetStatus(m, Restored(mailboxes[m].account))
    BY <1>1, <1>2 DEF OkRestore
  <2>2. Restored(mailboxes[m].account) = "bound" => Linked(m)
    BY DEF Restored, Linked
  <2>. HIDE DEF m
  <2>. QED
    BY <2>1, <2>2, StatusFits, RestoredType, MailboxNames
<1>3. CASE OkBind
  <2>. DEFINE row == [mailboxes[m] EXCEPT !.status = "bound", !.account = worker.account,
                        !.health = "ok", !.fails = 0, !.cooldown = "null"]
  <2>1. m \in Emails /\ Write(m, row)
    BY <1>1, <1>3 DEF OkBind
  <2>2. row.status = "bound" /\ row.account = worker.account
    BY <1>1, <1>3 DEF OkBind, MailboxRow
  <2>3. worker.account \in InsertedAccounts /\ accounts[worker.account].email = m
    BY <1>3 DEF OkBind, LinkInv, BindTargetAgrees, RefsValid, WorkerFits, InsertedAccounts
  <2>4. worker.account # 0
    BY <2>3 DEF InsertedAccounts, AccountIds
  <2>. HIDE DEF m, row
  <2>5. RowFits(m, row)
    BY <2>2, <2>3, <2>4 DEF RowFits
  <2>. QED
    BY <2>1, <2>5 DEF FittingWrite
<1>4. CASE FailMailbox
  <2>. DEFINE fails == worker.seen.fails + 1
              next == NextMailboxStatus(fails, MaxFail, worker.outcome)
              status == IF next = "disabled" THEN "disabled"
                        ELSE IF worker.seen.account # 0 THEN "bound" ELSE "cooling"
              row == [mailboxes[m] EXCEPT !.status = status,
                       !.health = IF next = "disabled" THEN "dead" ELSE "cooling",
                       !.fails = Saturate(fails), !.cooldown = "future"]
  <2>1. m \in Emails /\ Write(m, row)
    BY <1>1, <1>4 DEF FailMailbox
  <2>2. row.account = mailboxes[m].account /\ row.status = status
    BY <1>1, <1>4 DEF FailMailbox, MailboxRow
  <2>3. status # "absent" /\ (status = "bound" => Linked(m))
    BY <1>4 DEF FailMailbox, LinkInv, SeenLinksHold, RequestLinks, WorkerLinks
  <2>. HIDE DEF m, status, row
  <2>4. RowFits(m, row)
    BY <2>1, <2>2, <2>3, SameLinkFits
  <2>. QED
    BY <2>1, <2>4 DEF FittingWrite
<1>. QED
  BY <1>2, <1>3, <1>4, WorkerWrites

LEMMA WritesFit ==
  ASSUME TypeOK, RefsValid, LinkInv, Next
  PROVE  UNCHANGED mailboxes \/ FittingWrite
<1>1. ASSUME NEW m \in Emails, CooldownElapses(m) PROVE FittingWrite
  <2>. DEFINE row == [mailboxes[m] EXCEPT !.cooldown = "past"]
  <2>1. Write(m, row)
    BY <1>1 DEF CooldownElapses
  <2>2. row.account = mailboxes[m].account /\ row.status = mailboxes[m].status
    BY DEF TypeOK, MailboxRow
  <2>. HIDE DEF row
  <2>3. RowFits(m, row)
    BY <2>2, SameLinkFits DEF LinkInv, BoundMeansLinked, Linked
  <2>. QED
    BY <2>1, <2>3 DEF FittingWrite
<1>. QED
  BY <1>1, RequestWriteFits, WorkerWriteFits, OtherWrites DEF Next

\* What a fitting write leaves true of every mailbox.
LEMMA MailboxesFit ==
  ASSUME TypeOK, RefsValid, LinkInv, Next
  PROVE  \A m \in Emails : RowFits(m, mailboxes'[m])
<1>1. ASSUME NEW m \in Emails PROVE RowFits(m, mailboxes[m])
  BY SameLinkFits DEF LinkInv, BoundMeansLinked, Linked
<1>2. mailboxes \in [Emails -> MailboxRow]
  BY DEF TypeOK
<1>3. CASE FittingWrite
  BY <1>1, <1>2, <1>3 DEF FittingWrite, Write
<1>. QED
  BY <1>1, <1>3, WritesFit

(***************************************************************************)
(* What a handler or the worker has seen.                                  *)
(***************************************************************************)

\* A handler that does not hold a mailbox row it read.
Blind(q) == q.step \notin {"import_write", "check_write", "cancel_mailbox"}

LEMMA BlindLinks == ASSUME NEW q, Blind(q) PROVE RequestLinks(q)
BY DEF Blind, RequestLinks

LEMMA CallLinks ==
  ASSUME TypeOK, LinkInv, NEW r \in Requests, RequestCalls(r), ~UNCHANGED req
  PROVE  RequestLinks(req'[r])
<1>1. req \in [Requests -> Request] /\ mailboxes \in [Emails -> MailboxRow]
  BY DEF TypeOK
<1>3. ASSUME NEW m \in Emails, ImportCall(r, m) PROVE RequestLinks(req'[r])
  BY <1>1, <1>3 DEF ImportCall, Continue, Request, SeenOf, RequestLinks, LinkInv, BoundMeansLinked, Linked
<1>4. ASSUME NEW m \in Emails, CheckCall(r, m) PROVE RequestLinks(req'[r])
  BY <1>1, <1>4 DEF CheckCall, Continue, Request, SeenOf, RequestLinks, Linked
<1>5. ASSUME \/ \E m \in EmailRefs : RegisterCall(r, m)
             \/ \E j \in Ids : CancelCall(r, j) \/ RetryCall(r, j)
             \/ \E m \in Emails : PatchDisableCall(r, m)
             \/ \E batch \in SUBSET AccountIds : CheckoutCall(r, batch)
             \/ \E a \in AccountIds : KeepaliveCall(r, a) \/ ReleaseCall(r, a) \/ DisableCall(r, a)
             \/ \E l \in Ids : RotateCall(r, l)
      PROVE  RequestLinks(req'[r])
  <2>1. ASSUME NEW m \in EmailRefs, RegisterCall(r, m) PROVE Blind(req'[r])
    BY <1>1, <2>1 DEF RegisterCall, Continue, Request, Blind
  <2>2. ASSUME NEW j \in Ids, CancelCall(r, j) PROVE Blind(req'[r])
    BY <1>1, <2>2 DEF CancelCall, Continue, Request, Blind
  <2>3. ASSUME NEW j \in Ids, RetryCall(r, j) PROVE Blind(req'[r])
    BY <1>1, <2>3 DEF RetryCall, Continue, Request, Blind
  <2>4. ASSUME NEW m \in Emails, PatchDisableCall(r, m) PROVE Blind(req'[r])
    BY <1>1, <2>4 DEF PatchDisableCall, Continue, Request, Blind
  <2>5. ASSUME NEW batch \in SUBSET AccountIds, CheckoutCall(r, batch) PROVE Blind(req'[r])
    BY <1>1, <2>5 DEF CheckoutCall, Continue, Request, Blind
  <2>6. ASSUME NEW a \in AccountIds, KeepaliveCall(r, a) PROVE Blind(req'[r])
    BY <1>1, <2>6 DEF KeepaliveCall, Continue, Request, Blind
  <2>7. ASSUME NEW a \in AccountIds, ReleaseCall(r, a) PROVE Blind(req'[r])
    BY <1>1, <2>7 DEF ReleaseCall, Continue, Request, Blind
  <2>8. ASSUME NEW a \in AccountIds, DisableCall(r, a) PROVE Blind(req'[r])
    BY <1>1, <2>8 DEF DisableCall, Continue, Request, Blind
  <2>9. ASSUME NEW l \in Ids, RotateCall(r, l) PROVE Blind(req'[r])
    BY <1>1, <2>9 DEF RotateCall, Continue, Request, Blind
  <2>. QED
    BY <1>5, <2>1, <2>2, <2>3, <2>4, <2>5, <2>6, <2>7, <2>8, <2>9, BlindLinks
<1>7. ASSUME \/ \E m \in Emails : PatchReady(r, m) \/ PatchClear(r, m)
             \/ LeaseCreate(r)
             \/ \E l \in Ids : LeaseRelease(r, l)
             \/ \E value \in BOOLEAN : SetPaused(r, value)
      PROVE  UNCHANGED req
  BY <1>7, Zenon DEF PatchReady, PatchClear, LeaseCreate, LeaseRelease, SetPaused
<1>. QED
  BY <1>3, <1>4, <1>5, <1>7 DEF RequestCalls

LEMMA EnqueueBlind ==
  ASSUME TypeOK, NEW r \in Requests, EnqueueSteps(r)
  PROVE  Blind(req'[r])
<1>. USE DEF Continue, Finish, Request
<1>0. req \in [Requests -> Request]
  BY DEF TypeOK
<1>1. ASSUME RegisterPick(r) PROVE Blind(req'[r])
  BY <1>0, <1>1 DEF RegisterPick, IdleRequest, Blind
<1>2. ASSUME RegisterRefused(r) PROVE Blind(req'[r])
  BY <1>0, <1>2 DEF RegisterRefused, IdleRequest, Blind
<1>3. ASSUME KeepalivePick(r) PROVE Blind(req'[r])
  BY <1>0, <1>3 DEF KeepalivePick, IdleRequest, Blind
<1>4. ASSUME KeepaliveRefused(r) PROVE Blind(req'[r])
  BY <1>0, <1>4 DEF KeepaliveRefused, IdleRequest, Blind
<1>5. ASSUME LeaseInsert(r) PROVE Blind(req'[r])
  BY <1>0, <1>5 DEF LeaseInsert, IdleRequest, Blind
<1>6. ASSUME LeaseRefused(r) PROVE Blind(req'[r])
  BY <1>0, <1>6 DEF LeaseRefused, IdleRequest, Blind
<1>7. ASSUME JobInsert(r) PROVE Blind(req'[r])
  BY <1>0, <1>7 DEF JobInsert, IdleRequest, Blind
<1>8. ASSUME MarkInUse(r) PROVE Blind(req'[r])
  BY <1>0, <1>8 DEF MarkInUse, IdleRequest, Blind
<1>9. ASSUME LinkLease(r) PROVE Blind(req'[r])
  BY <1>0, <1>9 DEF LinkLease, IdleRequest, Blind
<1>. QED
  BY <1>1, <1>2, <1>3, <1>4, <1>5, <1>6, <1>7, <1>8, <1>9 DEF EnqueueSteps

LEMMA HandlerLinks ==
  ASSUME TypeOK, RefsValid, LinkInv, NEW r \in Requests, HandlerSteps(r)
  PROVE  RequestLinks(req'[r])
<1>. USE DEF Continue, Finish, Request
<1>1. req \in [Requests -> Request] /\ mailboxes \in [Emails -> MailboxRow]
  BY DEF TypeOK
<1>2. CASE CancelRead(r)
  <2>1. jobs[req[r].job].email \in Emails
    BY <1>2, Targets DEF CancelRead, At, WithJob
  <2>. QED
    BY <1>1, <1>2, <2>1 DEF CancelRead, SeenOf, RequestLinks, Linked
<1>3. CASE EnqueueSteps(r)
  BY <1>3, EnqueueBlind, BlindLinks
<1>4. CASE CancelJob(r) \/ CancelMailbox(r) \/ CancelLease(r) \/ RetryMailbox(r)
  <2>1. ASSUME CancelJob(r) PROVE Blind(req'[r])
    BY <1>1, <2>1 DEF CancelJob, IdleRequest, Blind
  <2>2. ASSUME CancelMailbox(r) PROVE Blind(req'[r])
    BY <1>1, <2>2 DEF CancelMailbox, IdleRequest, Blind
  <2>3. ASSUME CancelLease(r) PROVE Blind(req'[r])
    BY <1>1, <2>3 DEF CancelLease, IdleRequest, Blind
  <2>4. ASSUME RetryMailbox(r) PROVE Blind(req'[r])
    BY <1>1, <2>4 DEF RetryMailbox, IdleRequest, Blind
  <2>. QED
    BY <1>4, <2>1, <2>2, <2>3, <2>4, BlindLinks
<1>5. CASE ImportSteps(r) \/ PatchDisable(r) \/ CheckSteps(r)
  <2>1. Blind(req'[r])
    BY <1>1, <1>5 DEF ImportSteps, ImportUpdate, ImportInsert, ImportConflict, ImportSecret,
       PatchDisable, CheckSteps, CheckNoSecret, CheckOk, CheckFail, IdleRequest, Blind
  <2>. QED
    BY <2>1, BlindLinks
<1>6. CASE AccountSteps(r) \/ RotateInsert(r) \/ RotateRefused(r)
  <2>1. ASSUME CheckoutHealth(r) PROVE Blind(req'[r])
    BY <1>1, <2>1 DEF CheckoutHealth, IdleRequest, Blind
  <2>2. ASSUME NEW a \in AccountIds, CheckoutLease(r, a) PROVE Blind(req'[r])
    BY <1>1, <2>2 DEF CheckoutLease, At, IdleRequest, Blind
  <2>3. ASSUME ReleaseWrite(r) PROVE Blind(req'[r])
    BY <1>1, <2>3 DEF ReleaseWrite, IdleRequest, Blind
  <2>4. ASSUME DisableRead(r) PROVE Blind(req'[r])
    <3>1. \/ Finish(r)
          \/ \E m \in Emails : Continue(r, [req[r] EXCEPT !.step = "disable_mailbox", !.email = m])
      <4>. HIDE DEF Continue, Finish
      <4>. QED
        BY <2>4, Zenon DEF DisableRead
    <3>2. CASE Finish(r)
      BY <1>1, <3>2 DEF IdleRequest, Blind
    <3>3. ASSUME NEW m \in Emails,
                 Continue(r, [req[r] EXCEPT !.step = "disable_mailbox", !.email = m])
          PROVE  Blind(req'[r])
      BY <1>1, <3>3 DEF Blind
    <3>. HIDE DEF Continue, Finish
    <3>. QED
      BY <3>1, <3>2, <3>3, Zenon
  <2>5. ASSUME DisableMailbox(r) PROVE Blind(req'[r])
    BY <1>1, <2>5 DEF DisableMailbox, IdleRequest, Blind
  <2>6. ASSUME RotateInsert(r) PROVE Blind(req'[r])
    BY <1>1, <2>6 DEF RotateInsert, IdleRequest, Blind
  <2>7. ASSUME RotateRefused(r) PROVE Blind(req'[r])
    BY <1>1, <2>7 DEF RotateRefused, IdleRequest, Blind
  <2>. QED
    BY <1>6, <2>1, <2>2, <2>3, <2>4, <2>5, <2>6, <2>7, BlindLinks DEF AccountSteps, CheckoutSteps
<1>. QED
  BY <1>2, <1>3, <1>4, <1>5, <1>6 DEF HandlerSteps, CancelSteps

\* The worker looks at the mailbox in FailRead only, and chooses the account to
\* bind in OkAccount only.
LEMMA WorkerLooks ==
  ASSUME TypeOK, Next
  PROVE  \/ UNCHANGED worker
         \/ FailRead \/ OkAccount
         \/ worker'.step \notin {"fail_mailbox", "ok_bind"}
<1>1. worker \in WorkerState
  BY DEF TypeOK
<1>2. \A step : Goto(step) => worker'.step = step
  BY <1>1 DEF Goto, WorkerState
<1>3. CASE WorkerPoll
  BY <1>1, <1>3 DEF WorkerPoll, WorkerState
<1>4. CASE WorkerClaim \/ WorkerLaunch \/ WorkerDies \/ OkJob \/ OkLease \/ OkRestore \/ OkBind
           \/ FailJob \/ FailMailbox
  BY <1>2, <1>4 DEF WorkerClaim, WorkerLaunch, WorkerDies, OkJob, OkLease, OkRestore, OkBind,
                    FailJob, FailMailbox
<1>5. CASE WorkerNoBackend \/ BackendStep
  BY <1>1, <1>5 DEF WorkerNoBackend, BackendStep, BackendReturns, WorkerState
<1>6. CASE OkEvent \/ FailLease \/ Restart
  BY <1>6 DEF OkEvent, FailLease, Restart, IdleWorker
<1>7. CASE WorkerError
  <2>1. \/ worker' = [worker EXCEPT !.step = "dead"]
        \/ worker' = [worker EXCEPT !.step = "fail_job", !.outcome = "check_fail"]
    BY <1>7 DEF WorkerError
  <2>. QED
    BY <1>1, <2>1 DEF WorkerState
<1>. QED
  BY <1>3, <1>4, <1>5, <1>6, <1>7, CallWrites, EnqueueWrites, CancelWrites, MailboxStepWrites,
     AccountStepWrites, OtherWrites
     DEF Next, HandlerSteps, WorkerNext, ClaimSteps, SuccessSteps, FailureSteps

LEMMA SeenStays ==
  ASSUME TypeOK, RefsValid, LinkInv, Next
  PROVE  SeenLinksHold'
<1>. DEFINE After(q) ==
        /\ q.step = "import_write" /\ q.seen.status = "bound" => mailboxes'[q.email].account # 0
        /\ q.step = "check_write" => /\ q.seen.status \notin {"absent", "in_use"}
                                     /\ q.seen.account # 0 => mailboxes'[q.email].account # 0
        /\ q.step = "cancel_mailbox" /\ q.seen.account # 0 =>
             mailboxes'[jobs'[q.job].email].account # 0
<1>1. \A m \in Emails : Linked(m) => mailboxes'[m].account # 0
  BY MailboxesFit DEF RowFits
<1>2. \A j \in InsertedJobs : jobs[j].email \in Emails /\ jobs'[j].email = jobs[j].email
  BY JobsStay DEF JobsKept, RefsValid, JobFits
<1>3. ASSUME NEW q, RequestFits(q, InsertedJobs, InsertedAccounts), RequestLinks(q) PROVE After(q)
  BY <1>1, <1>2, <1>3 DEF RequestFits, RequestLinks, WithEmail, WithJob
<1>4. ASSUME NEW q, Blind(q) PROVE After(q)
  BY <1>4 DEF Blind
<1>5. \A r \in Requests : After(req[r])
  BY <1>3 DEF RefsValid, LinkInv, SeenLinksHold
<1>6. Blind(IdleRequest)
  BY DEF Blind, IdleRequest
<1>. HIDE DEF After
<1>7. ASSUME NEW r \in Requests, RequestCalls(r) \/ HandlerSteps(r) \/ RequestError(r), ~UNCHANGED req
      PROVE  After(req'[r])
  <2>1. CASE RequestCalls(r)
    BY <1>3, <1>7, <2>1, CallFits, CallLinks DEF Fits
  <2>2. CASE EnqueueSteps(r)
    BY <1>4, <2>2, EnqueueBlind
  <2>3. CASE HandlerSteps(r) /\ ~EnqueueSteps(r)
    BY <1>3, <2>3, HandlerFits, HandlerLinks DEF Fits
  <2>4. CASE RequestError(r)
    BY <1>4, <1>6, <2>4 DEF RequestError, Finish, Continue, TypeOK
  <2>. QED
    BY <1>7, <2>1, <2>2, <2>3, <2>4
<1>8. \A r \in Requests : After(req'[r])
  <2>1. ASSUME NEW r \in Requests, NEW locals, Continue(r, locals), After(req'[r])
        PROVE  \A q \in Requests : After(req'[q])
    BY <1>5, <2>1 DEF Continue, TypeOK
  <2>. QED
    BY <1>4, <1>5, <1>6, <1>7, <2>1, RequestFrame
<1>9. WorkerLinks(worker)'
  <2>1. worker.step \notin {"poll", "dead"} => worker.job \in InsertedJobs
    BY DEF RefsValid, WorkerFits
  <2>2. CASE UNCHANGED worker
    BY <1>1, <1>2, <2>1, <2>2 DEF LinkInv, SeenLinksHold, WorkerLinks, Linked
  <2>3. CASE FailRead
    BY <1>2, <2>1, <2>3 DEF FailRead, tables, SeenOf, WorkerLinks, Linked, TypeOK, WorkerState
  <2>4. CASE worker'.step # "fail_mailbox"
    BY <2>4 DEF WorkerLinks
  <2>5. CASE OkAccount
    BY <2>4, <2>5 DEF OkAccount, TypeOK, WorkerState
  <2>. QED
    BY <2>2, <2>3, <2>4, <2>5, WorkerLooks
<1>. QED
  BY <1>8, <1>9 DEF After, SeenLinksHold, RequestLinks, Linked

LEMMA BindTargetStays ==
  ASSUME TypeOK, RefsValid, LinkInv, Next
  PROVE  BindTargetAgrees'
<1>1. worker.step \notin {"poll", "dead"} =>
        worker.job \in InsertedJobs /\ jobs'[worker.job].email = jobs[worker.job].email
  BY JobsStay DEF JobsKept, RefsValid, WorkerFits
<1>2. CASE UNCHANGED worker
  BY <1>1, <1>2, AccountsStay
     DEF LinkInv, BindTargetAgrees, AccountsKept, InsertedAccounts, RefsValid, WorkerFits
<1>3. CASE OkAccount
  BY <1>1, <1>3 DEF OkAccount, BindTargetAgrees, TypeOK, WorkerState, AccountRow
<1>4. CASE worker'.step # "ok_bind"
  BY <1>4 DEF BindTargetAgrees
<1>5. CASE FailRead
  BY <1>4, <1>5 DEF FailRead, TypeOK, WorkerState
<1>. QED
  BY <1>2, <1>3, <1>4, <1>5, WorkerLooks

\* One account for each email: a registration looks for it before it inserts.
OneAccountEach ==
  \A a, b \in InsertedAccounts : accounts[a].email = accounts[b].email => a = b

LEMMA OneAccountStays ==
  ASSUME TypeOK, RefsValid, LinkInv, Next
  PROVE  OneAccountEach'
<1>1. OneAccountEach
  BY DEF LinkInv, LinksAgree, OneAccountEach, InsertedAccounts
<1>2. CASE OkAccount
  BY <1>1, <1>2 DEF OkAccount, OneAccountEach, InsertedAccounts, NextAccount, TypeOK, AccountRow
<1>3. ASSUME InsertedAccounts' \subseteq InsertedAccounts PROVE OneAccountEach'
  BY <1>1, <1>3, AccountsStay DEF OneAccountEach, AccountsKept
<1>4. ASSUME NEW r \in Requests, ReleaseWrite(r) PROVE InsertedAccounts' \subseteq InsertedAccounts
  <2>1. req[r].account \in InsertedAccounts
    BY <1>4 DEF ReleaseWrite, At, RefsValid, RequestFits
  <2>. QED
    BY <1>4, <2>1 DEF ReleaseWrite, InsertedAccounts, TypeOK
<1>5. ASSUME NEW r \in Requests, NEW a \in AccountIds, CheckoutLease(r, a)
      PROVE  InsertedAccounts' \subseteq InsertedAccounts
  <2>1. a \in InsertedAccounts
    BY <1>5 DEF CheckoutLease, RefsValid, RequestFits
  <2>. QED
    BY <1>5, <2>1 DEF CheckoutLease, InsertedAccounts, TypeOK
<1>6. ASSUME NEW r \in Requests, NEW a \in AccountIds, DisableCall(r, a)
      PROVE  InsertedAccounts' \subseteq InsertedAccounts
  BY <1>6 DEF DisableCall, InsertedAccounts, TypeOK
<1>7. CASE UNCHANGED accounts
  BY <1>3, <1>7 DEF InsertedAccounts
<1>. QED
  BY <1>2, <1>3, <1>4, <1>5, <1>6, <1>7, CallWrites, EnqueueWrites, CancelWrites, MailboxStepWrites,
     AccountStepWrites, WorkerWrites, OtherWrites DEF Next, HandlerSteps

LEMMA LinkStep ==
  ASSUME TypeOK, RefsValid, LinkInv, Next
  PROVE  LinkInv'
<1>1. BoundMeansLinked' /\ AbsentUnlinked'
  BY MailboxesFit DEF BoundMeansLinked, AbsentUnlinked, Linked, RowFits
<1>2. LinksAgree'
  <2>1. \A m \in Emails : mailboxes'[m].account # 0 =>
          /\ accounts'[mailboxes'[m].account].status # "absent"
          /\ accounts'[mailboxes'[m].account].email = m
    BY MailboxesFit, AccountsStay DEF RowFits, AccountsKept, InsertedAccounts
  <2>. QED
    BY <2>1, OneAccountStays DEF LinksAgree, OneAccountEach, InsertedAccounts
<1>. QED
  BY <1>1, <1>2, SeenStays, BindTargetStays DEF LinkInv

LEMMA LinksHold == Spec => []LinkInv
<1>1. Init => LinkInv
  BY DEF Init, LinkInv, BoundMeansLinked, LinksAgree, AbsentUnlinked, SeenLinksHold, RequestLinks,
         WorkerLinks, BindTargetAgrees, Linked, NoMailbox, NoAccount, IdleRequest, IdleWorker
<1>2. TypeOK /\ RefsValid /\ LinkInv /\ [Next]_vars => LinkInv'
  <2>1. CASE UNCHANGED vars
    BY <2>1 DEF vars, LinkInv, BoundMeansLinked, LinksAgree, AbsentUnlinked, SeenLinksHold,
                RequestLinks, WorkerLinks, BindTargetAgrees, Linked
  <2>. QED
    BY <2>1, LinkStep
<1>. QED
  BY <1>1, <1>2, TypeCorrect, PTL DEF Spec

\* A mailbox that says it is bound names its account, whichever handlers wrote
\* its status from a row they read before others ran.
THEOREM BoundIsLinked == Spec => []BoundMeansLinked
BY LinksHold, PTL DEF LinkInv

\* A mailbox's link and the account's email never disagree and no email has two
\* accounts.
THEOREM LinksAlwaysAgree == Spec => []LinksAgree
BY LinksHold, PTL DEF LinkInv

=============================================================================
