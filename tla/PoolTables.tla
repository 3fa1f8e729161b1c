----------------------------- MODULE PoolTables -----------------------------
(***************************************************************************)
(* The state of the pool service: the SQLite tables of app/db.py, the      *)
(* secrets file, the lease sequence kept in memory by CliproxyManager, the *)
(* HTTP requests being served and the background worker.                   *)
(*                                                                         *)
(* Everything runs on one asyncio event loop over one aiosqlite            *)
(* connection.  A handler is a coroutine that yields at every database     *)
(* statement, so a handler is several actions, one for each statement      *)
(* whose effect or result another coroutine can tell apart; between two of *)
(* them any other request, or the worker, may run.  What a handler read    *)
(* earlier is kept in its request record and may be stale when used.       *)
(*                                                                         *)
(* Rows are never deleted.  A mailbox is named by its email (UNIQUE, one   *)
(* id for ever); jobs and leases get the ids 1, 2, ... in order of         *)
(* insertion; 0 is SQL NULL in a reference; "absent" marks a row that has  *)
(* not been inserted.                                                      *)
(***************************************************************************)
EXTENDS Naturals, RiskPolicy

CONSTANTS
  Emails,       \* email addresses that may appear in an imported file
  Requests,     \* slots for HTTP requests being served concurrently
  None,         \* no email, no holder
  MaxJobs,      \* bound: jobs, and leases, ever inserted
  MaxAccounts,  \* bound: accounts ever inserted
  MaxFail,      \* risk policy: mailbox_max_fail
  RequireHealthyMailbox, \* risk policy: checkout_requires_healthy_mailbox
  Calls,        \* the API operations clients use
  Faults        \* the faults that may happen

AllCalls == {"register", "keepalive", "cancel", "retry", "import", "patch",
             "check", "checkout", "release", "disable", "lease", "pause"}
AllFaults == {"crash", "error"}

ASSUME NoneAssumption == None \notin Emails /\ None \notin Requests
ASSUME BoundsAssumption == MaxJobs \in Nat /\ MaxAccounts \in Nat
ASSUME MaxFailAssumption == MaxFail \in Nat \ {0}
ASSUME SwitchAssumption == /\ RequireHealthyMailbox \in BOOLEAN
                           /\ Calls \subseteq AllCalls
                           /\ Faults \subseteq AllFaults

VARIABLES
  mailboxes,  \* table mailboxes
  secrets,    \* emails with an entry in secrets.json
  jobs,       \* table jobs
  leases,     \* table proxy_leases
  accounts,   \* table accounts
  paused,     \* table controls, row 'register'
  sequence,   \* CliproxyManager._sequence, in memory only
  req,        \* the requests in flight
  worker,     \* the worker coroutine
  launched    \* history: how often the backend was called for a job

tables == <<mailboxes, jobs, leases, accounts>>
vars == <<mailboxes, secrets, jobs, leases, accounts, paused, sequence, req, worker, launched>>
-----------------------------------------------------------------------------
Ids == 1..MaxJobs
IdRefs == 0..MaxJobs
AccountIds == 1..MaxAccounts
AccountRefs == 0..MaxAccounts
EmailRefs == Emails \cup {None}

MailboxStatus == {"ready", "in_use", "bound", "cooling", "disabled"}
MailboxHealth == {"unknown", "ok", "cooling", "dead"}

\* cooldown_until is only ever compared with the clock; fail_count only with
\* mailbox_max_fail, so counting stops there.
MailboxRow == [status : MailboxStatus \cup {"absent"}, health : MailboxHealth,
               fails : 0..MaxFail, cooldown : {"null", "future", "past"},
               account : AccountRefs]
JobStatus == {"queued", "running", "succeeded", "failed", "cancelled", "blocked"}
JobRow == [status : JobStatus \cup {"absent"}, type : {"register", "keepalive"},
           email : EmailRefs, lease : IdRefs, account : AccountRefs]
LeaseRow == [state : {"absent", "held", "released", "rotated", "failed"},
             job : IdRefs, sid : Nat]
AccountRow == [status : {"absent", "registered", "leased", "disabled"},
               email : EmailRefs, holder : Requests \cup {None}, job : IdRefs]

NoMailbox == [status |-> "absent", health |-> "unknown", fails |-> 0,
              cooldown |-> "null", account |-> 0]
NoJob == [status |-> "absent", type |-> "register", email |-> None, lease |-> 0, account |-> 0]
NoLease == [state |-> "absent", job |-> 0, sid |-> 0]
NoAccount == [status |-> "absent", email |-> None, holder |-> None, job |-> 0]

ActiveJob(j) == jobs[j].status \in {"queued", "running"}

\* The id the next INSERT gets.
NextJob(j) == /\ jobs[j].status = "absent"
              /\ \A i \in Ids : i < j => jobs[i].status # "absent"
NextLease(l) == /\ leases[l].state = "absent"
                /\ \A i \in Ids : i < l => leases[i].state # "absent"
NextAccount(a) == /\ accounts[a].status = "absent"
                  /\ \A i \in AccountIds : i < a => accounts[i].status # "absent"

\* SELECT ... FROM mailboxes WHERE bound_account_id=? OR email=?
MailboxesOf(a) == {m \in Emails : /\ mailboxes[m].status # "absent"
                                  /\ \/ mailboxes[m].account = a
                                     \/ m = accounts[a].email}
-----------------------------------------------------------------------------
\* The local variables of a request handler: where it is, what it was asked
\* for, and the part of a mailbox row it read earlier.
RequestSteps == {"idle", "register_pick", "keepalive_pick", "lease_insert", "job_insert",
                 "mark_in_use", "link_lease", "cancel_job", "cancel_read", "cancel_mailbox",
                 "cancel_lease", "retry_mailbox", "import_write", "import_secret",
                 "patch_disable", "check_write", "checkout_health", "checkout_lease",
                 "release_write", "disable_read", "disable_mailbox", "rotate_insert"}
Seen == [status : MailboxStatus \cup {"absent"}, fails : 0..MaxFail, account : AccountRefs]
NothingSeen == [status |-> "absent", fails |-> 0, account |-> 0]
SeenOf(row) == [status |-> row.status, fails |-> row.fails, account |-> row.account]

Request == [step : RequestSteps, email : EmailRefs, job : IdRefs, lease : IdRefs,
            account : AccountRefs, todo : SUBSET AccountIds, seen : Seen]
IdleRequest == [step |-> "idle", email |-> None, job |-> 0, lease |-> 0,
                account |-> 0, todo |-> {}, seen |-> NothingSeen]

Receives(r, call) == call \in Calls /\ req[r].step = "idle"
At(r, step) == req[r].step = step
Continue(r, locals) == req' = [req EXCEPT ![r] = locals]
Finish(r) == Continue(r, IdleRequest)

\* UPDATE mailboxes SET ... WHERE id=?
Write(m, row) == mailboxes' = [mailboxes EXCEPT ![m] = row]
SetStatus(m, status) == Write(m, [mailboxes[m] EXCEPT !.status = status])

\* What a mailbox goes back to: 'bound' if bound_account_id is set.
Restored(account) == IF account # 0 THEN "bound" ELSE "ready"

WorkerSteps == {"poll", "claim", "load", "backend", "ok_job", "ok_lease", "ok_account",
                "ok_bind", "ok_restore", "ok_event", "fail_job", "fail_read", "fail_mailbox",
                "fail_lease", "dead"}
Outcomes == {"none", "ok", "blocked", "token_dead", "check_fail"}
WorkerState == [step : WorkerSteps, job : IdRefs, outcome : Outcomes,
                account : AccountRefs, seen : Seen]
IdleWorker == [step |-> "poll", job |-> 0, outcome |-> "none",
               account |-> 0, seen |-> NothingSeen]

\* Scheduling assumptions.  The aiosqlite thread serves statements first in,
\* first out, one per coroutine at a time, and neither a backend call nor a
\* cancellation finishes in fewer than six of them; the two UPDATEs that
\* follow the INSERT of a job are therefore done before the job can end, and
\* the secrets of a mailbox just inserted are on file (one statement later)
\* before a job enqueued for it meanwhile (five later) reaches its launch.
EnqueueSettled(j) ==
  \A r \in Requests : req[r].job = j => req[r].step \notin {"mark_in_use", "link_lease"}
ImportSettled(m) == \A r \in Requests : req[r].email = m => req[r].step # "import_secret"

Saturate(n) == IF n > MaxFail THEN MaxFail ELSE n

TypeOK ==
  /\ mailboxes \in [Emails -> MailboxRow]
  /\ secrets \subseteq Emails
  /\ jobs \in [Ids -> JobRow]
  /\ leases \in [Ids -> LeaseRow]
  /\ accounts \in [AccountIds -> AccountRow]
  /\ paused \in BOOLEAN
  /\ sequence \in Nat
  /\ req \in [Requests -> Request]
  /\ worker \in WorkerState
  /\ launched \in [Ids -> Nat]

=============================================================================
