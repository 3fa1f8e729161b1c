---------------------------- MODULE MailboxLock ----------------------------
(***************************************************************************)
(* What the status in_use promises clients whose calls do not overlap: a   *)
(* lock on a mailbox that one job takes once, and gives back itself.  The  *)
(* status names no owner, and it is set some statements after the job is   *)
(* there; Pool implements this lock all the same.                          *)
(***************************************************************************)
EXTENDS Naturals

CONSTANTS
  Jobs,    \* ids of jobs
  Emails   \* mailboxes, each named by its email

VARIABLES
  users,   \* the jobs that use a mailbox
  locked,  \* the mailboxes that are in_use
  begun    \* the jobs that have taken their mailbox, now or earlier

vars == <<users, locked, begun>>

Init ==
  /\ users = [m \in Emails |-> {}]
  /\ locked = {}
  /\ begun = {}

\* A new job takes a mailbox that nobody uses and that is not locked.
Take(m, j) ==
  /\ users[m] = {} /\ m \notin locked
  /\ j \notin begun
  /\ users' = [users EXCEPT ![m] = {j}]
  /\ begun' = begun \cup {j}
  /\ UNCHANGED locked

\* It is locked for the job that has taken it.
Lock(m) ==
  /\ users[m] # {} /\ m \notin locked
  /\ locked' = locked \cup {m}
  /\ UNCHANGED <<users, begun>>

\* The job is done with it: unlocking and giving back are one step.
GiveBack(m) ==
  /\ m \in locked
  /\ users' = [users EXCEPT ![m] = {}]
  /\ locked' = locked \ {m}
  /\ UNCHANGED begun

Next == \E m \in Emails : \/ \E j \in Jobs : Take(m, j)
                          \/ Lock(m) \/ GiveBack(m)

Spec == Init /\ [][Next]_vars

=============================================================================
