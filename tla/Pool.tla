-------------------------------- MODULE Pool --------------------------------
(***************************************************************************)
(* The pool service as a whole: the requests and the worker run over the   *)
(* same tables, the process may be restarted, a statement may raise.       *)
(***************************************************************************)
EXTENDS JobRequests, MailboxRequests, AccountRequests, Worker

Init ==
  /\ mailboxes = [m \in Emails |-> NoMailbox]
  /\ secrets = {}
  /\ jobs = [j \in Ids |-> NoJob]
  /\ leases = [l \in Ids |-> NoLease]
  /\ accounts = [a \in AccountIds |-> NoAccount]
  /\ paused = FALSE
  /\ sequence = 0
  /\ req = [r \in Requests |-> IdleRequest]
  /\ worker = IdleWorker
  /\ launched = [j \in Ids |-> 0]

CooldownElapses(m) ==
  /\ mailboxes[m].cooldown = "future"
  /\ Write(m, [mailboxes[m] EXCEPT !.cooldown = "past"])
  /\ UNCHANGED <<jobs, leases, accounts, secrets, paused, sequence, req, worker, launched>>

\* The process stops anywhere and is started again: the database and the
\* secrets file stay, requests are lost, the worker polls anew and the new
\* CliproxyManager counts from 0.
Restart ==
  /\ "crash" \in Faults
  /\ req' = [r \in Requests |-> IdleRequest]
  /\ worker' = IdleWorker
  /\ sequence' = 0
  /\ UNCHANGED <<tables, secrets, paused, launched>>

\* A statement of the handler raises: the request ends with an error.
RequestError(r) ==
  /\ "error" \in Faults
  /\ req[r].step # "idle"
  /\ Finish(r)
  /\ UNCHANGED <<tables, secrets, paused, sequence, worker, launched>>

RequestCalls(r) ==
  \/ \E m \in EmailRefs : RegisterCall(r, m)
  \/ \E j \in Ids : CancelCall(r, j) \/ RetryCall(r, j)
  \/ \E m \in Emails : \/ ImportCall(r, m) \/ CheckCall(r, m)
                       \/ PatchReady(r, m) \/ PatchDisableCall(r, m) \/ PatchClear(r, m)
  \/ \E batch \in SUBSET AccountIds : CheckoutCall(r, batch)
  \/ \E a \in AccountIds : KeepaliveCall(r, a) \/ ReleaseCall(r, a) \/ DisableCall(r, a)
  \/ LeaseCreate(r)
  \/ \E l \in Ids : LeaseRelease(r, l) \/ RotateCall(r, l)
  \/ \E value \in BOOLEAN : SetPaused(r, value)

\* The steps of a request already received.
HandlerSteps(r) ==
  \/ EnqueueSteps(r) \/ CancelSteps(r) \/ RetryMailbox(r)
  \/ ImportSteps(r) \/ PatchDisable(r) \/ CheckSteps(r)
  \/ AccountSteps(r) \/ RotateInsert(r) \/ RotateRefused(r)

FaultSteps == Restart \/ WorkerError \/ \E r \in Requests : RequestError(r)

Next == \/ \E r \in Requests : RequestCalls(r) \/ HandlerSteps(r)
        \/ WorkerNext
        \/ \E m \in Emails : CooldownElapses(m)
        \/ FaultSteps

Spec == Init /\ [][Next]_vars

\* The event loop runs every coroutine that can go on, and a backend call
\* ends, since its HTTP calls and OTP poll have timeouts.  Nobody has to call
\* the service.
FairSpec == /\ Spec
            /\ WF_vars(WorkerNext)
            /\ \A r \in Requests : WF_vars(HandlerSteps(r))

=============================================================================
