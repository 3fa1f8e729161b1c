---------------------------- MODULE KeepaliveSweep ----------------------------
(***************************************************************************)
(* Keeping accounts alive when they are due: enqueue_keepalive_due of      *)
(* app/store.py, the worker that moves the due stamps, and the clock.      *)
(*                                                                         *)
(* A sweep reads the due accounts once and then enqueues one after the     *)
(* other, while other sweeps do the same, clients ask for a keepalive of   *)
(* one account, and the worker keeps, fails or buries the same accounts.   *)
(* The first account that is refused ends the sweep.  A restart loses the  *)
(* sweeps and the job in the worker's hand, and leaves the tables.         *)
(*                                                                         *)
(* A tick is a second, as all stamps are cut to seconds.  The statements   *)
(* of one keepalive are told apart in Pool; here its tests are one step    *)
(* and its INSERT and UPDATEs another.                                     *)
(***************************************************************************)
EXTENDS Naturals, Sequences, FiniteSets

CONSTANTS
  Accounts,  \* ids of accounts, in the order of their insertion
  Requests,  \* slots for sweeps being served concurrently
  Period,    \* keepalive_interval_hours and half the jitter, in ticks
  Cooldown,  \* mailbox_fail_cooldown_seconds
  MaxFail,   \* mailbox_max_fail
  Limits,    \* the limits clients ask for
  MaxTime,   \* bound: the clock
  MaxQueue   \* bound: jobs queued at a time

ASSUME SweepAssumption ==
  /\ Accounts \subseteq Nat \ {0} /\ IsFiniteSet(Accounts)
  /\ Period \in Nat \ {0} /\ Cooldown \in Nat /\ MaxFail \in Nat \ {0}
  /\ Limits \subseteq Nat /\ MaxTime \in Nat /\ MaxQueue \in Nat

VARIABLES
  now,      \* the clock
  paused,   \* table controls
  account,  \* table accounts: registered or leased, kept last when, due when
  mailbox,  \* the mailbox bound to each account
  queue,    \* the keepalive jobs that are queued
  req,      \* the requests: the rows still to enqueue, and when they were read
  worker    \* the worker: its step and its job

vars == <<now, paused, account, mailbox, queue, req, worker>>

Never == 0   \* a stamp that is NULL

Account == [active : BOOLEAN, last : Nat, due : Nat]
Mailbox == [status : {"bound", "in_use", "disabled"}, health : {"ok", "cooling", "dead"},
            fails : 0..MaxFail, cooldown : Nat]
\* A job remembers when the sweep that made it had read the accounts; a client
\* who names the account does not read them.
Named == 0
Job == [account : Accounts, read : Nat]
Request == [step : {"idle", "test", "insert"}, rows : Seq(Accounts), read : Nat]
IdleRequest == [step |-> "idle", rows |-> << >>, read |-> 0]
IdleWorker == [step |-> "idle", account |-> 0, read |-> 0]

At(r, step) == req[r].step = step
Continue(r, locals) == req' = [req EXCEPT ![r] = locals]
Finish(r) == Continue(r, IdleRequest)
SetStatus(a, status) == mailbox' = [mailbox EXCEPT ![a] = [@ EXCEPT !.status = status]]

Due(a) == account[a].active /\ account[a].due <= now
\* ORDER BY keepalive_due_at; equal stamps in the order of insertion
Ahead(a, b) == account[a].due < account[b].due \/ (account[a].due = account[b].due /\ a < b)
Refusing(a) == mailbox[a].health = "dead" \/ mailbox[a].cooldown > now
-----------------------------------------------------------------------------
\* Mutant: ORDER BY keepalive_due_at DESC.
OldestDueReversed(rows, limit) ==
  LET chosen == {rows[i] : i \in DOMAIN rows}
      left == {a \in Accounts : Due(a)} \ chosen
  IN /\ \A i, j \in DOMAIN rows : i < j => Ahead(rows[j], rows[i])
     /\ \A a \in left, b \in chosen : Ahead(a, b)
     /\ left # {} => Len(rows) = limit

\* The first accounts that are due, at most limit of them.
OldestDue(rows, limit) ==
  LET chosen == {rows[i] : i \in DOMAIN rows}
      left == {a \in Accounts : Due(a)} \ chosen
  IN /\ \A i, j \in DOMAIN rows : i < j => Ahead(rows[i], rows[j])
     /\ \A a \in left, b \in chosen : Ahead(b, a)
     /\ left # {} => Len(rows) = limit

\* POST /v1/jobs/keepalive/due
SweepCall(r, limit) ==
  /\ At(r, "idle")
  /\ \E n \in 1..limit : \E rows \in [1..n -> {a \in Accounts : Due(a)}] :
       /\ OldestDue(rows, limit)
       /\ Continue(r, [step |-> "test", rows |-> rows, read |-> now])
  /\ UNCHANGED <<now, paused, account, mailbox, queue, worker>>

\* POST /v1/jobs/keepalive
KeepaliveCall(r, a) ==
  /\ At(r, "idle")
  /\ Continue(r, [step |-> "test", rows |-> <<a>>, read |-> Named])
  /\ UNCHANGED <<now, paused, account, mailbox, queue, worker>>

\* enqueue_keepalive asks for the account and its mailbox again, but not
\* whether the account is still due; what it raises ends the sweep.  The
\* account has a mailbox: that of its email, which stays.
Keepable(a) ==
  /\ ~paused /\ account[a].active
  /\ mailbox[a].status # "in_use" /\ ~Refusing(a)

SweepTest(r) ==
  /\ At(r, "test")
  /\ IF Keepable(Head(req[r].rows))
     THEN Continue(r, [req[r] EXCEPT !.step = "insert"])
     ELSE Finish(r)
  /\ UNCHANGED <<now, paused, account, mailbox, queue, worker>>

\* build_lease refuses: no credentials, or the circuit is open.
LeaseRefused(r) ==
  /\ At(r, "insert")
  /\ Finish(r)
  /\ UNCHANGED <<now, paused, account, mailbox, queue, worker>>

\* Mutant: the sweep goes on after its last row.
SweepInsertEndless(r) ==
  /\ At(r, "insert") /\ Len(queue) < MaxQueue
  /\ queue' = Append(queue, [account |-> Head(req[r].rows), read |-> req[r].read])
  /\ SetStatus(Head(req[r].rows), "in_use")
  /\ Continue(r, [step |-> "test", rows |-> Tail(req[r].rows), read |-> req[r].read])
  /\ UNCHANGED <<now, paused, account, worker>>

\* The job is inserted and the mailbox marked; after the last row the sweep is
\* answered.
SweepInsert(r) ==
  /\ At(r, "insert") /\ Len(queue) < MaxQueue
  /\ queue' = Append(queue, [account |-> Head(req[r].rows), read |-> req[r].read])
  /\ SetStatus(Head(req[r].rows), "in_use")
  /\ IF Len(req[r].rows) = 1 THEN Finish(r)
     ELSE Continue(r, [step |-> "test", rows |-> Tail(req[r].rows), read |-> req[r].read])
  /\ UNCHANGED <<now, paused, account, worker>>
-----------------------------------------------------------------------------
Claim ==
  /\ worker.step = "idle" /\ queue # << >>
  /\ worker' = [step |-> "running", account |-> Head(queue).account, read |-> Head(queue).read]
  /\ queue' = Tail(queue)
  /\ UNCHANGED <<now, paused, account, mailbox, req>>

\* Mutant: the due stamp is left as it was.
SucceedUnmoved ==
  /\ worker.step = "running"
  /\ account' = [account EXCEPT ![worker.account] = [@ EXCEPT !.last = now]]
  /\ worker' = [step |-> "restore", account |-> worker.account, read |-> worker.read]
  /\ UNCHANGED <<now, paused, mailbox, queue, req>>

\* The backend has kept the account: finish_job_success moves its stamps, of
\* which due is taken first, perhaps in the second before ...
Succeed ==
  /\ worker.step = "running"
  /\ \E second \in {0, 1} :
       account' = [account EXCEPT ![worker.account] =
                     [@ EXCEPT !.last = now, !.due = now - second + Period]]
  /\ worker' = [step |-> "restore", account |-> worker.account, read |-> worker.read]
  /\ UNCHANGED <<now, paused, mailbox, queue, req>>

\* ... and gives the mailbox back; its health and its failures stay.
Restore ==
  /\ worker.step = "restore"
  /\ SetStatus(worker.account, "bound")
  /\ worker' = IdleWorker
  /\ UNCHANGED <<now, paused, account, queue, req>>

\* finish_job_failure: the account stays due.
Fail(tokenDead) ==
  /\ worker.step = "running"
  /\ LET a == worker.account
         fails == IF mailbox[a].fails = MaxFail THEN MaxFail ELSE mailbox[a].fails + 1
         dead == tokenDead \/ fails = MaxFail
     IN mailbox' = [mailbox EXCEPT ![a] = [status |-> IF dead THEN "disabled" ELSE "bound",
                                           health |-> IF dead THEN "dead" ELSE "cooling",
                                           fails |-> fails,
                                           cooldown |-> now + Cooldown]]
  /\ worker' = IdleWorker
  /\ UNCHANGED <<now, paused, account, queue, req>>
-----------------------------------------------------------------------------
\* POST /v1/accounts/{id}/disable
Disable(a) ==
  /\ account' = [account EXCEPT ![a] = [@ EXCEPT !.active = FALSE]]
  /\ IF mailbox[a].status = "in_use" THEN UNCHANGED mailbox ELSE SetStatus(a, "disabled")
  /\ UNCHANGED <<now, paused, queue, req, worker>>

\* The process is killed and started again.  The job in the worker's hand stays
\* 'running' in its table and is not claimed again.
Restart ==
  /\ req' = [r \in Requests |-> IdleRequest]
  /\ worker' = IdleWorker
  /\ UNCHANGED <<now, paused, account, mailbox, queue>>

SetPaused(value) ==
  /\ paused' = value
  /\ UNCHANGED <<now, account, mailbox, queue, req, worker>>

Tick ==
  /\ now < MaxTime
  /\ now' = now + 1
  /\ UNCHANGED <<paused, account, mailbox, queue, req, worker>>

\* Accounts were registered in the past, each at its time, and are due a Period
\* later.
Init ==
  /\ now = 1 /\ paused = FALSE /\ queue = << >>
  /\ account \in [Accounts -> {[active |-> TRUE, last |-> Never, due |-> due] : due \in 1..Period}]
  /\ mailbox = [a \in Accounts |-> [status |-> "bound", health |-> "ok", fails |-> 0, cooldown |-> Never]]
  /\ req = [r \in Requests |-> IdleRequest]
  /\ worker = IdleWorker

Serve(r) == SweepTest(r) \/ SweepInsert(r) \/ LeaseRefused(r)
Work == Claim \/ Succeed \/ Restore \/ (\E tokenDead \in BOOLEAN : Fail(tokenDead))

Next ==
  \/ \E r \in Requests : \/ Serve(r)
                         \/ \E limit \in Limits : SweepCall(r, limit)
                         \/ \E a \in Accounts : KeepaliveCall(r, a)
  \/ Work
  \/ \E a \in Accounts : Disable(a)
  \/ Restart
  \/ \E value \in BOOLEAN : SetPaused(value)
  \/ Tick

Spec == Init /\ [][Next]_vars

\* The event loop serves every request and runs the worker.  Nobody has to
\* call a sweep, and nobody has to succeed.
FairSpec == Spec /\ WF_vars(Work) /\ \A r \in Requests : WF_vars(Serve(r))
-----------------------------------------------------------------------------
TypeOK ==
  /\ now \in Nat \ {0} /\ paused \in BOOLEAN
  /\ account \in [Accounts -> Account] /\ mailbox \in [Accounts -> Mailbox]
  /\ queue \in Seq(Job)
  /\ req \in [Requests -> Request] /\ \A r \in Requests : ~At(r, "idle") => req[r].rows # << >>
  /\ worker = IdleWorker \/ worker \in [step : {"running", "restore"}, account : Accounts, read : Nat]

\* The keepalives under way: queued, in the hand of the worker, or still in the
\* list of a sweep.
Queued == {queue[i] : i \in 1..Len(queue)}
Working == IF worker.step = "running" THEN {[account |-> worker.account, read |-> worker.read]} ELSE {}
Listed(r) == {[account |-> req[r].rows[i], read |-> req[r].read] : i \in 1..Len(req[r].rows)}
UnderWay == Queued \cup Working \cup UNION {Listed(r) : r \in Requests}

\* A sweep that begins after an account was kept takes it along again only
\* when the period is over, but for the second between its two stamps, whatever
\* was queued, failed, paused, disabled or lost in between: an account is kept
\* twice within a period only where a client names it, or by sweeps that
\* overlapped the first keepalive.
OncePerPeriod ==
  \A job \in UnderWay : \/ account[job.account].last = Never
                        \/ job.read <= account[job.account].last
                        \/ account[job.account].last + Period <= job.read + 1

\* A restart has left the mailbox in use: no job that could give it back.
Stranded(a) == /\ mailbox[a].status = "in_use"
               /\ \A i \in 1..Len(queue) : queue[i].account # a
               /\ worker.account # a

\* What may keep the sweeps from an account: the pause, and a mailbox that is
\* dead, cooling or stranded and belongs to the account or to one that is due
\* before it.
Hindered(a) ==
  \/ paused
  \/ \E b \in Accounts : /\ b = a \/ (Due(b) /\ Ahead(b, a))
                         /\ Refusing(b) \/ Stranded(b)

\* A restart that is no mere refusal of a sweep's test, which looks the same.
Lost == Restart /\ \A r \in Requests : ~SweepTest(r)

\* As long as clients go on calling sweeps, and leases are not refused nor the
\* process restarted for ever, a due account is kept in the end, or something
\* hinders it that can be named: a mailbox whose job is queued or running, an
\* account that was disabled after the sweep had read it, keepalives that
\* clients ask for and a small limit do not.
DueIsReached ==
  /\ []<><<\E r \in Requests, limit \in Limits : SweepCall(r, limit)>>_vars
  /\ <>[][~Lost /\ \A r \in Requests : ~LeaseRefused(r)]_vars
  => \A a \in Accounts : Due(a) ~> (~Due(a) \/ Hindered(a))
=============================================================================
