# A verification model of typesafe-console-pool

TLA+ specifications of the pool service (`app/`) and of the shell pool
(`scripts/`), model-checked with TLC on small instances and, for the properties
that matter most, proved with TLAPS for instances of any size. File and line
references are to the repository.

## 1. The system

| Part | State it keeps | Operations | Hard behaviour |
|---|---|---|---|
| Jobs (`app/store.py` 408-598) | tables `jobs`, `proxy_leases`; the `in_use` mark of a mailbox | enqueue register, batch, keepalive, due sweep; cancel; retry | a mailbox is tested, then locked three statements later; cancel of a running job; retry resets a mailbox whatever its status |
| Mailboxes (`store.py` 176-342) | table `mailboxes`, `secrets.json` | import, patch, check | statuses computed from a row read earlier; two imports of one email; the row is inserted before its secrets |
| Accounts and leases (`store.py` 377-406, 767-815) | table `accounts`, `proxy_leases` | checkout, release, disable; lease create, release, rotate | accounts are selected, the health checks yield, then they are leased by id; a repeated registration resets an account |
| Worker (`app/services/queue.py`, `store.py` 600-726) | one asyncio task | poll, claim, launch, finish as success or failure | a job is marked running before the backend runs; failure while finishing a success; a task that ends silently |
| Cadence (`store.py` 105-115, 356-375, 457-468) | `controls`, `jobs.created_at` | tests before a registration is enqueued | tests and INSERT are different statements; whole-second stamps; midnight |
| Cliproxy leases (`app/services/cliproxy.py`) | a sequence in memory | build and rebuild a lease | the sequence restarts from 0 with the process |
| Risk policy (`app/services/risk.py`, `store.py` 73-87) | table `risk_policy` | PATCH; what a failure makes of a mailbox | two PATCHes read, merge and write the whole policy; cooldown stamps against the clock |
| Keepalive sweep (`store.py` 513-524) | `keepalive_due_at` | enqueue what is due | due accounts are read once and enqueued one by one; the first refused account ends the sweep |
| Shell pool (`scripts/*.sh`) | `live.list`, `failed.list`, `inflight.list`, account files | schedule register children, reap them, keep accounts alive | an index changes lists in several steps by several processes; the trap; kill and restart |
| Code poll (`app/services/otp.py`) | the `after` stamp and the deadline of a login | read the newest code of INBOX, then of Junk, until the deadline | codes of earlier logins in the same folders, slow and overtaking mail, stamps cut to seconds |
| Backends (`app/backends/`) | browser profiles, a session file for each email | register, keepalive, by browser or by HTTP | the page may turn later than a wait; a kill at any point, also in the middle of writing the file |
| Mailbox file parser (`app/services/mailbox.py`), HTTP layer, lists, export, statistics, risk events | none | | read-only or pure |

**How they interact.** All HTTP handlers and the worker are coroutines on one
asyncio loop over one aiosqlite connection. Every `await` of a statement gives
the others a turn, every statement commits (`app/db.py` 154-157), and nothing
spans two of them: handlers and worker share the tables and no lock but the
mailbox status `in_use`, which has no owner. The backend runs in a thread, sees
no table, and its outcome is delivered to the worker. `main.py` starts and
cancels the worker with the process. The shell pool is independent of the
service: a bash scheduler, its background children, and list files each guarded
by its own `flock`.

**What makes the parts correct.** A job reaches the backend at most once, since
the sign-up and its one-time code are used up. A mailbox that says `bound` names
its account, and the mailbox's link and the account's email agree. A lease serves
one job. A leased account has a holder. A locked mailbox has somebody who will
release it, and every queued job ends. A mailbox found dead is not used. The
interval, the cap and a pause are passed by the requests under way only. One
shell pool signs up once with a mailbox, its lists say what is true, and it ends.
An account is kept once in a period, and kept at all as long as sweeps are called.
A login types the code it asked for and misses none, and its poll ends; who needed a
code succeeds only if the console has let the browser in. A patched value of the policy
stays until it is patched again.

## 2. Modules

| Module | Models | Correspondence |
|---|---|---|
| `RiskPolicy` | `next_mailbox_status` | a pure operator |
| `PoolTables` | tables, secrets, request and worker records, scheduling assumptions, `TypeOK` | one function per table; `req[r]` and `worker` are the local variables of a coroutine |
| `JobRequests` | `enqueue_register`, `enqueue_keepalive`, `cancel_job`, `retry_job` | an action per statement, named for it: `RegisterPick`, `LeaseInsert`, `JobInsert`, `MarkInUse`, `LinkLease`, ... |
| `MailboxRequests` | `import_mailboxes` per record, `patch_mailbox`, `check_mailbox` | `ImportCall` reads, `ImportUpdate` or `ImportInsert` writes what the read implied, `ImportSecret` writes the file |
| `AccountRequests` | `checkout`, `release_account`, `disable_account`, leases, pause | `CheckoutCall` selects, `CheckoutHealth`, then one `CheckoutLease` per account |
| `Worker` | `JobQueue._loop`, `_run_job`, `claim_next_job`, `finish_job_*` | `worker.step` names the next statement |
| `Pool` | the four parts together, restart, failing statements, the clock that ends cooldowns, fairness | `Init`, `Next`, `Spec`, `FairSpec` |
| `PoolProperties` | the properties of the service | |
| `PoolInvariants` | what makes them inductive | |
| `Registry` | what the service is a registry of: which job was made for what, the call of the backend for it, the account of an email, the link of a mailbox | abstract: `Pool` implements it (`PoolProperties!ImplementsRegistry`, `INSTANCE ... WITH`) |
| `MailboxLock` | `in_use` as a lock: a job takes a mailbox nobody uses, it is locked for it, the worker gives it back | abstract: `Pool` implements it for clients whose calls do not overlap on a mailbox (`PoolProperties!ImplementsLock`) |
| `PoolClaims` | four statements of `README.md` that the code does not keep (section 6) | |
| `Cadence` | pause switch, interval, daily cap, batch, against a clock; PATCH of the policy | an action per read and for the INSERT; `PatchRead` and `PatchWrite` are the two halves of `set_risk_policy` |
| `KeepaliveSweep` | `enqueue_keepalive_due`, keepalives of named accounts, the stamps of accounts, what the worker makes of them, disabling, refused leases, restart, pause, clock | `SweepCall` reads the due rows, then `SweepTest` and `SweepInsert` for each of them; `KeepaliveCall` is a list of one row |
| `OneTimeCode` | a login from the note of its time to its code: `poll_otp`, `folder_codes`; external: console, mail, clock | `login.step` is the place in script and poll, `folder` the two IMAP folders |
| `Backends` | `AutomationBackend`, `KeepaliveBackend`, `ProtocolBackend` around `OneTimeCode`; exceptions, kill and restart; external: what page the console shows | one action for each look at the page; the console turns it in between (`Turn`); `Truncate` and `WriteSession` are the two halves of `write_text` |
| `RunPool`, `RunPoolProperties` | `run-pool.sh`, `register-one.sh`, `keepalive-one.sh`, the lists of `lib.sh` | `sched.step` is the place in the script, a record in `runs` is a child |
| `PoolTypeProofs`, `PoolProofs`, `PoolRegistryProofs`, `PoolUseProofs`, `CadenceProofs`, `KeepaliveSweepProofs`, `BackendsProofs`, `RunPoolProofs` | the proofs | |
| `MCPool`, `MCCadence`, `MCKeepaliveSweep`, `MCBackends`, `MCRunPool` | symmetry sets and values for TLC | |

Definitions marked "Mutant" in the modules are not used by any specification.
Each is a plausible mistake in the definition that follows it; replacing the
definition by its mutant makes TLC find a property violated, which shows that the
property depends on that line of the code. `PROJECT.json` pairs them.

### Abstractions

* **Steps.** A coroutine's step is one database statement together with the code
  up to the next `await`. Statements whose interleaving nobody can tell apart are
  merged: the account and mailbox reads of a keepalive (`KeepalivePick`), the
  health SELECTs of a checkout, the retry's reset and the pause test of the
  enqueue it ends in (`RetryMailbox`), the worker's SELECT and write of an
  account and of a link that only it writes (`OkAccount`, `OkRestore`). A batch
  or a list of checks is a sequence of single ones.
* **Execute and commit.** `Database.execute` awaits twice. On one connection the
  other coroutines already see the row after the first, so they are one step.
* **Scheduling.** aiosqlite serves statements first in, first out, one per
  coroutine. `EnqueueSettled` and `ImportSettled` use this twice, as their
  comment says: the statement after an INSERT is not overtaken by a chain of five
  or more. Without it TLC finds orders that the queue cannot produce.
* **Data.** A mailbox is its email; ids of jobs, leases and accounts are their
  order of insertion, which is also the order of `created_at` (whole seconds; ties
  go by insertion). `cooldown_until` is null, future or past. `fail_count` stops
  counting at `mailbox_max_fail`. `imported_at` may order ready mailboxes in any
  way. Regions, notes, messages, hashes and `risk_events`, which no code path
  reads back to decide something, are left out.
* **The backend** returns success, a blocked sign-up, a dead token or another
  failure, at any time. `launched` counts its calls.
* **Clients** call any operation with any argument that exists, at any time.
* **Policy.** Of its keys the model has those that `_enforce_register_cadence` reads;
  `merge_policy` treats the others alike, except `dimensions`, which it merges key
  by key.
* **Sweep.** The statements of one keepalive are told apart in `Pool`; in
  `KeepaliveSweep` its tests are one step and its INSERT and UPDATEs another. A
  tick is a second, because all stamps compared there are cut to seconds. The
  period is fixed, and the due stamp may be taken in the second before the stamp of the
  keepalive. `fail_count`, `health` and `cooldown_until` have the meaning of the table.
  Each account has its mailbox; checks, imports and patches of it are `Pool`'s.
* **Mail.** A mail is the login its code was sent for and its `Date`; mail without a
  code, without a `Date` or of others is left out, and so is the order of UIDs
  other than that of arrival. A mail in `transit` may arrive at any time in either
  folder, or never. Two codes are never equal.
* **Console.** It accepts the code it sent last, or refuses it, and turns the page when
  it likes, before or after each look of a script: a browser it has let in to any page
  inside, another one to its login page. Its clock is not behind that of the service. A
  profile that is logged in may lose its login between two jobs.
* **Browser.** It may raise before every look and every code, for whatever reason, a
  missing element included; the browser of the next job takes a second to start.
* **Protocol backend.** `register_over_http`, `keepalive_over_http` and
  `prove_usable` belong to another repository: `Prove` is their outcome, a proven
  key or an exception. A session file that cannot be parsed is no session.
* **Shell.** `append_unique` and `remove_value` hold their file's lock and end in
  one write or rename: one step each. `register.py` belongs to another repository
  and either writes the account file and ends with 0, or ends with an error. The
  trap of INT and TERM kills the children's bash, waits, and returns to the loop;
  because `wait` without a pid makes bash forget the statuses of all its ended
  children, the loop then takes every child for failed, also one that had ended
  well. A subshell of `append_unique` that outlives its killed parent by a moment is
  taken to have written before or not at all.

## 3. Runs

| Run | Instance | Shows |
|---|---|---|
| `faults` | 1 email, 1 request, 2 jobs, 1 account; register, import, leases; restart, failing statements | `AtMostOnce`, `SuccessLeavesAccount`, `BoundMeansLinked`, `JobOwnsItsLease`, `TypeOK` whatever stops half way |
| `races` | 1 email, 2 requests, 1 job, 1 account; register, cancel, import, check, checkout, release, disable, pause | `InUseHasUser`, `BoundMeansLinked` when two handlers and the worker write one row |
| `live` | 1 email, 1 request, 2 jobs; register, keepalive, cancel, retry, import, patch; `FairSpec` | `QueuedJobsFinish`, `InUseIsReleased` |
| `apart` | 2 emails, 2 requests, 2 jobs, 2 accounts; register, keepalive, import, disable, checkout, release, pause; `ApartSpec` | `ImplementsRegistry`, `LinksAgree`, `KeepaliveOnOwnMailbox`: rows of two mailboxes are not mixed up; `HolderMatchesStatus`, also when an email is registered again; `ImplementsLock`, `OneActiveJob`, `DeadIsDisabled` for two clients whose calls do not overlap on a mailbox |
| `cadence` | 2 requests, 2 patches that tighten the interval from 2 s to 3 s or the cap from 2 to 1, days of 3 s, half-second clock | `BurstBounded`, `DailyCap`, `PauseStops`, `PatchKept` |
| `sweep` | 2 accounts, 1 sweep or named keepalive at a time, period 3 s, limits 1 and 2, `MaxFail` 2, 1 queued job, `FairSpec` | `DueIsReached`, `OncePerPeriod` |
| `login` | 3 logins, half-second clock, a code sent within a second, a restart of a second, poll of a second, windows of 2 mails, `FairSpec` | `OwnCode`, `NoCodeMissed`, `PollEnds`, `CodeEnters` |
| `run_pool` | 3 mailboxes, target 1, 2 children, 2 starts, term and kill, `FairSpec` | `OneRegistration`, `ListedHasFile`, `ListsDisjoint`, `Overshoot`, `GivesUpAtTheEnd`, `RegisteringEnds` |
| `claim_import`, `claim_checkout`, `claim_cancel`, `claim_ready` | the smallest instance each | section 6 |

**Bounds.** `MaxJobs` and `MaxAccounts` cap what is ever inserted; `MaxFail = 2`
lets a mailbox fail once and live, and fail twice and die. The hazards need one
mailbox and two writers of it (a request and the worker, or two requests and the
worker); a second mailbox matters only where rows could be mixed up, and a second
job only where a mailbox or an account is used again. Each property is in the run whose
calls, clients and faults can break it. Each run opens the calls
that touch the rows its properties speak of; together they open all. In `cadence`
the bounds of the properties are reached, not only respected: two jobs in one
tick, three in a day, two after a pause. With an interval of 2 s,
less the second that stamps lose, `BurstBounded` speaks of more than one tick there. `sweep` has two
accounts because one must be able to hide the other, and may start with either of them due
first; sweeps that overlap each other are left to the proof of `OncePerPeriod`, which is for
any number of them. In `login` the third login finds
codes of two earlier ones, one of them in a slow mail, and the window of two mails
can be full of them; half-second ticks let the start of a login and the sending of
its code fall on both sides of a second. With a console that takes 1.5 s to send
(`SendDelay = 3`) TLC finds a login that types the code of the one before it: the
bound of a second is what `poll_otp` relies on. In `run_pool` two starts let the children
of the first live on next to those of the second, and three mailboxes are enough
for two children and one index to claim. `faults` has no second client
because its properties are proved for any number of them; rotations come between a job and
its backlink there after a restart or an error.

**Deadlock** is checked except in `run_pool`, where the script may end, and in
`login`, where the bounded number of logins does.

**Fairness.** `FairSpec` of `Pool`: weak fairness of the worker and of each
handler. The asyncio loop runs every ready coroutine, aiosqlite answers in order,
and a backend call ends because its HTTP calls and its code poll have timeouts.
Clients owe nothing. `FairSpec` of `RunPool`: weak fairness of the scheduler and
of each child at each of its statements, which is the operating system's; signals
and restarts owe nothing. `FairSpec` of `KeepaliveSweep`: the worker and each sweep
under way go on; nobody has to call a sweep (`DueIsReached` assumes it in so many
words) and no keepalive has to succeed. `FairSpec` of `Backends`: the thread of the
poll runs, since each of its calls has a timeout (`otp.py:44`, `otp.py:56`), time
passes, and a code the console was asked for is sent; no mail has to arrive.

**Scope of a property.** `PoolProperties` groups them: those for every
interleaving, restart and failing statement; those while the process runs, because
nothing in the code recovers an `in_use` mailbox or a `running` job after a
restart; and those for clients whose calls under way do not overlap on one mailbox
(`Apart`) and which neither cancel, retry nor set a mailbox ready by hand, because the
code lets two jobs share a mailbox otherwise (section 6). Any number of such clients is
served at once, on other mailboxes; the worker and its failures write every one of them.
`OneRegistration`, `ListsDisjoint` and
`Overshoot` speak of one start of the script, because a second one empties
`inflight.list` (`run-pool.sh:14`) while the first one's children may run.
`OncePerPeriod` excuses sweeps that overlapped the first keepalive, and keepalives of
accounts that a client names; `PatchKept` excuses patches that overlapped another. What the
excused ones do is in section 6; what the property says is
that nothing else is possible. `DueIsReached` names what may keep an account from ever being
kept: the pause, or a dead, cooling or stranded mailbox (one a restart has left in use) of the
account itself or of one that is due before it, which ends every sweep (`store.py:523`); it
presumes that sweeps go on being called and that refused leases and restarts come to an
end. A mailbox whose keepalive is queued or running, an account that is disabled after a
sweep has read it, named keepalives and a small limit are in the model and do not hinder.
`CodeEnters` does not speak of a keepalive that found its profile inside: the URL that
script goes by may still be turned (section 6).

## 4. Proofs

Every invariant, every action property and both refinements of the runs that pass are
also theorems, for any number of emails, requests, jobs, accounts, mailboxes or
children, from the named `ASSUME`s on constants. Four theorems have a condition besides, the one under
which `PoolProperties` states their property (see Scope in section 3):

* `NoFaults` (`InUseIsUsed`, `JobsTakeTurns`, `DeadStayDisabled`,
  `PoolImplementsLock`): a restart or a failing statement leaves a mailbox `in_use` with nobody to release it.
* `CarefulClients` and `ApartSpec` (the last three): no call to cancel, retry or patch, and no two
  calls under way on one mailbox. `Requests` stays arbitrary.

The runs that check those properties (`races` and `apart`) satisfy them.

### Pool

| Theorem | Statement | Argument |
|---|---|---|
| `PoolTypeProofs!TypeCorrect` | `Spec => [](TypeOK /\ RefsValid)` | `TypeOK` is not inductive: `UPDATE accounts ... WHERE id=?` with a stray id would leave the table's type. `RefsValid` adds that every handler and the worker hold, at each step, references to rows that are there. One lemma per table says which rows an action may write, one case per action that it writes a row of the right type. |
| `PoolProofs!LaunchedAtMostOnce` | `Spec => []AtMostOnce` | `LaunchInv`: a launched job is neither absent nor queued, and the job the worker is about to launch was not launched and, once claimed, is not queued. It survives a cancel between claim and launch, a restart that forgets the worker, and errors, because no action makes a row `queued` again. |
| `PoolProofs!LeasedHasHolder` | `Spec => []HolderMatchesStatus` | Inductive as it stands: release, checkout and disable write status and holder in one statement, and a repeated registration, which keeps the holder, makes no account `leased`. |
| `PoolProofs!BoundIsLinked`, `LinksAlwaysAgree` | `Spec => []BoundMeansLinked`, `Spec => []LinksAgree` | `LinkInv`: a link, once set, is never removed, so what `import`, `check`, `cancel` and the worker read earlier is still linked when they write the status it implied (`SeenLinksHold`); the account the worker is about to bind has the job's email; a mailbox that is not there has no link an INSERT could lose. Every write of a mailbox is shown to be of a row that fits (`WritesFit`). |
| `PoolRegistryProofs!KeepaliveIsOnOwn` | `Spec => []KeepaliveOnOwnMailbox` | `RegistryInv`: a row that is not there says nothing; a job, and a request about to insert one, names a mailbox that is there and, for a keepalive, the account of that mailbox. `OneFactMoves` first shows that a step changes at most one of tasks, calls, owners and mailboxes. |
| `PoolRegistryProofs!PoolImplementsRegistry` | `Spec => ImplementsRegistry` | From `LinkInv`, `LaunchInv` and `RegistryInv`: the INSERT of a job, the call of the backend, the INSERT of an account and the write of a link are the four kinds of step of `Registry`, everything else stutters. A second registration of an email opens no second account because the worker's SELECT and INSERT are not separated by another writer of `accounts.email`. |
| `PoolUseProofs!LeaseIsOwn` | `Spec => []JobOwnsItsLease` | `LeaseInv`: the lease a job is about to be inserted with is `Spare` (no job has it, nobody else is about to use it), and a handler past the INSERT still holds its job's lease when it writes the backlink. A release changes the state of a lease only; a rotation copies the backlink it read to a new row that no job has. |
| `PoolUseProofs!SuccessIsBound` | `Spec => SuccessLeavesAccount` | `SuccessInv`: the worker comes to the last step of a success only when the mailbox is linked or there is nothing to link (keepalive), and to the last steps of a failure only after it has taken `succeeded` back; it leaves a job by these two steps (`JobChanges`) or by a restart. Links stay, so no cancel, retry or check undoes it. |
| `PoolUseProofs!InUseIsUsed` | `NoFaults => (Spec => []InUseHasUser)` | `LockInv`: a job is active when its mailbox is about to be marked, and nobody cancels or finishes a job whose enqueue is not through (`EnqueueSettled`, the scheduling assumption of section 2). So a lock is set for an active job, and a job that stops being active is in the hands of a cancel or of the worker until the mailbox is written (`ClaimedStep`, `FinishedStep`). |
| `PoolUseProofs!JobsTakeTurns` | `NoFaults, CarefulClients => (ApartSpec => []OneActiveJob)` | `SerialInv`: a job uses its mailbox from its INSERT until the worker has written the mailbox back; while it does, the mailbox is `in_use` or its enqueue is about to make it so (`UserLocks`); whoever is about to insert a job for a mailbox, or to write a status computed earlier, holds one that nobody uses (`TakesFree`), and, as calls are `Apart`, no other request holds the same. |
| `PoolUseProofs!DeadStayDisabled` | `NoFaults, CarefulClients => (ApartSpec => []DeadIsDisabled)` | The same invariant: a `dead` mailbox could only be made ready or in use by an enqueue or a check that had read it before, and these hold it free of the worker, who alone finds a mailbox dead besides the check itself. |
| `PoolUseProofs!PoolImplementsLock` | `NoFaults, CarefulClients => (ApartSpec => ImplementsLock)` | The INSERT of a job takes the mailbox (`InsertTakes`), `UPDATE ... 'in_use'` locks it, the worker's write of the mailbox unlocks it and gives it back (`WorkerGivesBack`), and every other step leaves users and locks alone (`UsersKeep`, `LockedKeep`): between a job's finish and that write, `BeingFinished` keeps it a user, and who may write a mailbox otherwise holds a free one. |

### Cadence, sweep, backends, shell pool

| Theorem | Statement | Argument |
|---|---|---|
| `CadenceProofs!TypeCorrect` | `Spec => [](TypeOK /\ HasJobLeft)` | Types, with a request at work having a job of its batch left: otherwise `left` would fall below zero. |
| `CadenceProofs!PauseStopsAll` | `Spec => []PauseStops` | `PauseInv`: while paused, the jobs inserted since plus the requests that passed the switch are at most the requests. An INSERT uses a pass up; none is given while the switch is on. |
| `CadenceProofs!CapHolds` | `Spec => []DailyCap` | `DayInv`: for today and every day to come, the jobs created on it plus the requests that may insert one without having been counted against it (`Untested`) stay below a cap plus the requests. The test of the cap moves a request into `Untested` only while the day's jobs are below a cap the policy held; a request that counted yesterday is `Untested` for today, which is empty then. |
| `CadenceProofs!BurstHolds` | `Spec => []BurstBounded` | `GapInv`: until the clock is an interval past job `i`, the jobs after `i` plus the requests that have not read its stamp or a later one (`Unread`) are fewer than the requests. Reading makes a request pass only when job `i` is an interval old, up to the second its stamp lost (`PassedIsApart`, `StampBounds`). |
| `CadenceProofs!PatchesKept` | `Spec => []PatchKept` | `PatchInv`: what a patch will write back is what was last asked for, except of its own keys and of those patched while it was under way. |
| `KeepaliveSweepProofs!TypeCorrect`, `KeptOncePerPeriod` | `Spec => []TypeOK`, `Spec => []OncePerPeriod` | `IInv`: no keepalive under way was read in the future, and the due stamp of a kept account is a period after its last keepalive, so a sweep that finds it due reads at least that late. |
| `BackendsProofs!TypeCorrect`, `CodeIsOwn`, `CodeIsSeen` | `Spec => []TypeOK`, `Spec => []OwnCode`, `Spec => []NoCodeMissed` | `Order`: while a login waits, the mails of others are dated before its start and its own are not (`Dated`). At the next request for a code two seconds have passed since the last (`Spaced`: two sleeps, or a restart and a sleep), so the last code was sent by then (`SentInTime`) and its date, cut to a second, is before the cut time of the request; cutting keeps the order of the own code (`CutKeepsOrder`). |
| `BackendsProofs!OnlyEnteredSucceeds` | `Spec => []CodeEnters` | `PageInv`: a registration that typed its code goes past its look at the page only when the page is inside, and the console shows a page inside only to a browser it has let in, which it does not take back while the browser runs. So it does not matter when the page turned. |
| `RunPoolProofs!TypeCorrect` | `Spec => [](TypeOK /\ InHand)` | With the index in the scheduler's hand being that of a mailbox when it is written or launched. |
| `RunPoolProofs!ListedIsRegistered` | `Spec => []ListedHasFile` | `FileFirst`: a child past `register.py` has its account file; only such a child lists its index. |
| `RunPoolProofs!OneRegistrationAtATime` | `Spec => []OneRegistration` | `OneScheduler`: every process works on an index that is in a list, or in the scheduler's hand on the way from one list to the other; two workers never share one; an index to be marked or launched is nobody's. The hand is the point: between `remove_value` and `append_unique` the index is in no list. |
| `RunPoolProofs!ListsStayDisjoint` | `Spec => []ListsDisjoint` | `ListsInv`: without a signal the index of a child is not listed as failed, nor as live before its child has listed it, and the index the scheduler is about to mark as failed is not live (`MarkedIsNotLive`): it ended with an error before it came to `append_unique`. |
| `RunPoolProofs!OvershootBounded` | `Spec => []Overshoot` | `CommittedInv`: the indexes that are live, have a child, or are about to be launched, counted together. `decide` adds one only after it found fewer than TARGET live and fewer than CONCURRENCY busy; a child that lists its index changes nothing in the sum. |
| `RunPoolProofs!GivesUpLast` | `Spec => GivesUpAtTheEnd` | `InflightInv`: every index of `inflight.list` has a child the scheduler will wait for. Giving up requires no child, so no index is in flight, and no index to claim, so each is live or failed. |

`BackendsProofs` assumes what `CodeAssumption` says: a code is sent within a second
of being asked for and a killed process needs a second to start again. `Open` adds that a
browser takes a second to start.

**Only model-checked**: liveness (`QueuedJobsFinish`, `InUseIsReleased`, `DueIsReached`,
`PollEnds`, `RegisteringEnds`), which is out of the prover's reach together with
`ENABLED`. The runs of section 6 refute statements, which needs no proof. No recursive
operator occurs; the counting lemmas (`CadenceProofs!OneRequestLess`,
`RunPoolProofs!BusyCount`) rest on the library's facts about finite
sets.

## 5. Not modelled

* **Mailbox file parser**: pure line splitting; its result is the input of `ImportCall`.
* **Lists, statistics, export, risk events**: they only read, or write what nobody reads.
* **HTTP validation, configuration, URL and SID formatting**: static.
* **Inside the external parts**: `register.py` and `console_http.py` of the protocol
  repository, the browser, the IMAP server, the console.
* **Selectors, waits and retries of clicks** in the browser scripts: they decide when a
  script gives up (`ScriptRaises`), not what it may report.
* **Two writers of one session file**: the worker runs one job at a time.

## 6. Where code and documentation disagree

Checked by a run that finds the statement violated:

* `claim_import`: README.md:42 keeps a bound mailbox bound on import; one whose
  failed check made it `cooling` or `disabled` becomes `ready` with
  `bound_account_id` set (`store.py:196`).
* `claim_checkout`: README.md:170 leases `registered` accounts; two checkouts that
  select the same account both lease it (`store.py:785`).
* `claim_cancel`: README.md:164 cancels running jobs; a cancelled job goes on and
  ends as `succeeded` (`store.py:606`, 623-628).
* `claim_ready`: README.md:141 reports that the worker runs; the flag survives the
  task's end (`queue.py:59`).

Seen while modelling, without a run:

* README.md:65 has a shortest interval between two registrations enqueued; the newest one
  is read statements before the INSERT (`store.py:358`), so requests served together
  enqueue at the same moment. `BurstBounded` is what is left of the interval.
* README.md:66 has an upper limit for a day; the count is read statements before the INSERT
  (`store.py:370`). `DailyCap` is what is left of it.
* README.md:144 lets PATCH change the policy; of two that overlap the later write puts back
  what the earlier one changed (`store.py` 80-86). `PatchKept` is what is left of it.
* README.md:161 enqueues accounts that are due; a sweep does not ask for the stamp again, so
  one that overlaps another enqueues what that one has had kept (`store.py` 522-523).
  `OncePerPeriod` is what is left of it.
* README.md:42 updates rows that are not `in_use`; an import that read the row earlier
  resets one that a job has taken since (`store.py` 193-206).
* A disabled account becomes `registered` or `leased` again, by a release or checkout
  already under way or by a registration of its email (`store.py:658`), while
  README.md:176 sets `disabled` apart.
* SIDs repeat after a restart (`cliproxy.py` 100-107), while README.md:21 has one
  per job.
* The health `cooling` outlives the cooldown (`store.py:351`): a retried mailbox is
  refused until somebody checks, imports or patches it.
* `keepalive_jitter_minutes` of 90 becomes 45 minutes (`risk.py:53` multiplies by 30
  seconds), while README.md:70 calls it the shift.
* A batch under the default interval answers 429 after its first job was created.
* One refused account hides those after it from the keepalive sweep (`store.py:523`). It
  may be one whose mailbox a restart has left `in_use` (`store.py:482`): nothing frees it,
  and it is first at every sweep. `DueIsReached` holds only because it excuses both.
* Two enqueues of one mailbox that overlap both find it `ready` and both take it
  (`store.py` 422, 446); so does an enqueue after a cancel, retry or patch has made the
  mailbox of a running job `ready`. No text says that a mailbox has one job, so no run
  refutes it; `OneActiveJob` is for calls that do not overlap.
* A reopened profile is taken for logged in when its URL is inside after a fixed 1.2
  seconds (`keepalive.py` 38-41): if the console redirects it to the login page later than
  that, the account is reported as kept outside the login.
* `register` logs in to the profile `job-<id>` (`automation.py:24`), `keepalive` opens
  `account-<id>` (`keepalive.py:30`), which no registration has logged in to, while
  `keepalive.py:1` says "reopen the account profile": the first keepalive of an
  account needs a new code.
* A kill or a full disk while `_write_session` writes leaves half a file, which is read as
  no session (`protocol.py` 121-127): the proven key and its cookies are lost.
* `run-pool.sh` takes a child that had succeeded for failed after a signal, and runs
  on after INT or TERM unless a sleep was interrupted too.

## 7. Plan

Done: everything section 2 lists. What could follow, in this order:

1. Properties not stated yet, each with its proof: what a second start of the shell pool
   may still promise, and that the worker survives without failing statements.
2. `SecretStore` and the session file under a crash between writing and renaming, for a
   disk that reorders writes.
3. The keepalive sweep over the statements of `Pool` instead of whole keepalives.
