------------------------------ MODULE Registry ------------------------------
(***************************************************************************)
(* What the pool is a registry of, without handlers, worker, leases or     *)
(* locks: which job was made for which mailbox, whether the backend was    *)
(* called for it, which account was opened with which email, and which     *)
(* account a mailbox is linked to.  Pool implements it.                    *)
(*                                                                         *)
(* Each of the four facts is recorded once and never taken back, in this   *)
(* order: a task, the only call for it, the only account of its email, the *)
(* link of its mailbox to that account.                                    *)
(***************************************************************************)
EXTENDS Naturals

CONSTANTS
  Jobs,      \* ids of jobs
  Accounts,  \* ids of accounts; 0 is none
  Emails,    \* mailboxes, each named by its email
  None       \* no email

VARIABLES
  task,   \* what a job was made for
  calls,  \* how often the backend was called for a job
  owner,  \* the email an account was opened with
  link    \* the account a mailbox is linked to

vars == <<task, calls, owner, link>>

NoTask == [type |-> "register", email |-> None, account |-> 0]

Init ==
  /\ task = [j \in Jobs |-> NoTask]
  /\ calls = [j \in Jobs |-> 0]
  /\ owner = [a \in Accounts |-> None]
  /\ link = [m \in Emails |-> 0]

\* A job to sign up with m.
SubmitRegister(j, m) ==
  /\ task[j] = NoTask
  /\ task' = [task EXCEPT ![j] = [type |-> "register", email |-> m, account |-> 0]]
  /\ UNCHANGED <<calls, owner, link>>

\* A job to keep a alive, with the mailbox a was opened with.
SubmitKeepalive(j, a) ==
  /\ task[j] = NoTask
  /\ owner[a] # None
  /\ task' = [task EXCEPT ![j] = [type |-> "keepalive", email |-> owner[a], account |-> a]]
  /\ UNCHANGED <<calls, owner, link>>

\* The backend works on a job it was not called for before.
Call(j) ==
  /\ task[j] # NoTask
  /\ calls[j] = 0
  /\ calls' = [calls EXCEPT ![j] = 1]
  /\ UNCHANGED <<task, owner, link>>

\* The first account of an email the backend was called to sign up with.
Open(a, j) ==
  /\ task[j].type = "register" /\ calls[j] = 1
  /\ owner[a] = None
  /\ \A b \in Accounts : owner[b] # task[j].email
  /\ owner' = [owner EXCEPT ![a] = task[j].email]
  /\ UNCHANGED <<task, calls, link>>

\* The mailbox of an account is linked to it.
LinkTo(m, a) ==
  /\ owner[a] = m
  /\ link[m] = 0
  /\ link' = [link EXCEPT ![m] = a]
  /\ UNCHANGED <<task, calls, owner>>

Next ==
  \/ \E j \in Jobs : \/ \E m \in Emails : SubmitRegister(j, m)
                     \/ \E a \in Accounts : SubmitKeepalive(j, a) \/ Open(a, j)
                     \/ Call(j)
  \/ \E m \in Emails, a \in Accounts : LinkTo(m, a)

Spec == Init /\ [][Next]_vars

=============================================================================
