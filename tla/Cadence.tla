------------------------------- MODULE Cadence -------------------------------
(***************************************************************************)
(* The pace of registrations: the tests that enqueue_register of           *)
(* app/store.py makes before it inserts a job, against the clock.          *)
(*                                                                         *)
(* The pause switch, the newest job and the count of the day are read by   *)
(* three statements, and the job that counts against them is inserted by a *)
(* later one: requests being served together all pass.  A job's created_at *)
(* is cut to whole seconds, the clock it is compared with is not.          *)
(*                                                                         *)
(* The policy may be patched meanwhile.  A patch reads the whole policy    *)
(* and writes the whole policy, two statements apart.                      *)
(***************************************************************************)
EXTENDS Naturals, Sequences, FiniteSets

CONSTANTS
  Requests,   \* slots for registrations being served concurrently
  Patches,    \* bound: the patches of the policy, each sent once
  Default,    \* the risk policy at the start
  Bodies,     \* the patches clients send: new values for some keys
  DayLength,  \* seconds in a day
  Ticks,      \* ticks of the model's clock in a second
  MaxBatch,   \* largest count of a batch; one registration is a batch of 1
  MaxTime,    \* bound: the clock
  MaxJobs     \* bound: register jobs ever inserted

\* register_min_interval_seconds and register_daily_cap
Keys == {"interval", "cap"}
Policy == [Keys -> Nat]

ASSUME CadenceAssumption ==
  /\ Default \in Policy /\ Default["cap"] # 0
  /\ \A body \in Bodies : /\ DOMAIN body \subseteq Keys
                         /\ \A key \in DOMAIN body : body[key] \in Nat /\ (key = "cap" => body[key] # 0)
  /\ DayLength \in Nat \ {0} /\ Ticks \in Nat \ {0}
  /\ MaxBatch \in Nat /\ MaxTime \in Nat /\ MaxJobs \in Nat
  /\ IsFiniteSet(Requests)

VARIABLES
  now,        \* the clock, in ticks
  jobs,       \* the register jobs: when each was inserted, in ticks
  paused,     \* table controls, row 'register'
  policy,     \* table risk_policy
  req,        \* the registrations: step, jobs still to enqueue, what was read
  patch,      \* the patches: step, what will be written, the keys named
  afterPause, \* history: jobs inserted since the switch was turned on
  asked,      \* history: the value last asked for, by an answered patch
  contested   \* history: the keys patched while another patch was under way

pace == <<now, jobs, paused, req, afterPause>>
tuning == <<policy, patch, asked, contested>>
vars == <<pace, tuning>>

\* utc_now at time t, and the day its first ten characters name.
Stamp(t) == t \div Ticks
DayOf(t) == Stamp(t) \div DayLength
CreatedOn(day) == Cardinality({i \in 1..Len(jobs) : DayOf(jobs[i]) = day})

Steps == {"idle", "paused", "policy", "last", "interval", "cap", "insert"}
Request == [step : Steps, left : 0..MaxBatch, policy : Policy, last : SUBSET Nat, day : Nat]
IdleRequest == [step |-> "idle", left |-> 0, policy |-> Default, last |-> {}, day |-> 0]

At(r, step) == req[r].step = step
Continue(r, locals) == req' = [req EXCEPT ![r] = locals]
Finish(r) == Continue(r, IdleRequest)
Proceed(r, step) == Continue(r, [IdleRequest EXCEPT !.step = step, !.left = req[r].left])
-----------------------------------------------------------------------------
\* POST /v1/jobs/register and /v1/jobs/register/batch
EnqueueCall(r, count) ==
  /\ At(r, "idle")
  /\ Continue(r, [step |-> "paused", left |-> count, policy |-> Default, last |-> {}, day |-> 0])
  /\ UNCHANGED <<now, jobs, paused, afterPause>>

ReadPaused(r) ==
  /\ At(r, "paused")
  /\ IF paused THEN Finish(r) ELSE Proceed(r, "policy")
  /\ UNCHANGED <<now, jobs, paused, afterPause>>

\* get_risk_policy
ReadPolicy(r) ==
  /\ At(r, "policy")
  /\ Continue(r, [req[r] EXCEPT !.step = "last", !.policy = policy])
  /\ UNCHANGED <<now, jobs, paused, afterPause>>

\* Mutant: ORDER BY created_at without DESC.
ReadLastAscending(r) ==
  /\ At(r, "last")
  /\ Continue(r, [req[r] EXCEPT !.step = "interval",
                           !.last = {Stamp(jobs[i]) : i \in 1..Len(jobs) \cap {1}}])
  /\ UNCHANGED <<now, jobs, paused, afterPause>>

\* _enforce_register_cadence: the stamp of the newest job, if there is one.
ReadLast(r) ==
  /\ At(r, "last")
  /\ Continue(r, [req[r] EXCEPT !.step = "interval",
                           !.last = {Stamp(jobs[i]) : i \in 1..Len(jobs) \cap {Len(jobs)}}])
  /\ UNCHANGED <<now, jobs, paused, afterPause>>

CheckInterval(r) ==
  /\ At(r, "interval")
  /\ IF \E stamp \in req[r].last : now - Ticks * stamp < Ticks * req[r].policy["interval"]
     THEN Finish(r)
     ELSE Continue(r, [req[r] EXCEPT !.step = "cap", !.last = {}, !.day = DayOf(now)])
  /\ UNCHANGED <<now, jobs, paused, afterPause>>

\* Mutant: one more than the cap passes.
CheckCapLoose(r) ==
  /\ At(r, "cap")
  /\ IF CreatedOn(req[r].day) > req[r].policy["cap"] THEN Finish(r) ELSE Proceed(r, "insert")
  /\ UNCHANGED <<now, jobs, paused, afterPause>>

CheckCap(r) ==
  /\ At(r, "cap")
  /\ IF req[r].policy["cap"] > 0 /\ CreatedOn(req[r].day) >= req[r].policy["cap"] THEN Finish(r) ELSE Proceed(r, "insert")
  /\ UNCHANGED <<now, jobs, paused, afterPause>>

\* No mailbox is ready, or build_lease raises.
Refuse(r) ==
  /\ At(r, "insert")
  /\ Finish(r)
  /\ UNCHANGED <<now, jobs, paused, afterPause>>

\* Mutant: the switch is asked for the first job of a batch only.
InsertJobUnpaused(r) ==
  /\ At(r, "insert") /\ Len(jobs) < MaxJobs
  /\ jobs' = Append(jobs, now)
  /\ afterPause' = IF paused THEN afterPause + 1 ELSE 0
  /\ IF req[r].left = 1 THEN Finish(r)
     ELSE Continue(r, [IdleRequest EXCEPT !.step = "policy", !.left = req[r].left - 1])
  /\ UNCHANGED <<now, paused>>

\* Mutant: the count is tested after it was lowered.
InsertJobMiscounted(r) ==
  /\ At(r, "insert") /\ Len(jobs) < MaxJobs
  /\ jobs' = Append(jobs, now)
  /\ afterPause' = IF paused THEN afterPause + 1 ELSE 0
  /\ IF req[r].left - 1 = 1 THEN Finish(r)
     ELSE Continue(r, [IdleRequest EXCEPT !.step = "paused", !.left = req[r].left - 1])
  /\ UNCHANGED <<now, paused>>

\* The job is inserted; enqueue_batch goes on to the next one.
InsertJob(r) ==
  /\ At(r, "insert") /\ Len(jobs) < MaxJobs
  /\ jobs' = Append(jobs, now)
  /\ afterPause' = IF paused THEN afterPause + 1 ELSE 0
  /\ IF req[r].left = 1 THEN Finish(r)
     ELSE Continue(r, [IdleRequest EXCEPT !.step = "paused", !.left = req[r].left - 1])
  /\ UNCHANGED <<now, paused>>

SetPaused(value) ==
  /\ paused' = value
  /\ afterPause' = IF value /\ paused THEN afterPause ELSE 0
  /\ UNCHANGED <<now, jobs, req>>

Tick ==
  /\ now < MaxTime
  /\ now' = now + 1
  /\ UNCHANGED <<jobs, paused, req, afterPause>>

-----------------------------------------------------------------------------
Merge(old, body) == [key \in Keys |-> IF key \in DOMAIN body THEN body[key] ELSE old[key]]
IdlePatch == [step |-> "idle", merged |-> Default, named |-> {}]
Answered == [step |-> "done", merged |-> Default, named |-> {}]

\* Mutant: a key that is not named gets its default.
PatchReadDefault(p, body) ==
  /\ patch[p].step = "idle"
  /\ patch' = [patch EXCEPT ![p] = [step |-> "write", merged |-> Merge(Default, body), named |-> DOMAIN body]]
  /\ UNCHANGED <<policy, asked, contested>>

\* PATCH /v1/risk/policy: set_risk_policy reads the policy and merges ...
PatchRead(p, body) ==
  /\ patch[p].step = "idle"
  /\ patch' = [patch EXCEPT ![p] = [step |-> "write", merged |-> Merge(policy, body), named |-> DOMAIN body]]
  /\ UNCHANGED <<policy, asked, contested>>

\* ... and writes all of it.
PatchWrite(p) ==
  /\ patch[p].step = "write"
  /\ policy' = patch[p].merged
  /\ patch' = [patch EXCEPT ![p] = Answered]
  /\ asked' = [key \in Keys |-> IF key \in patch[p].named THEN patch[p].merged[key] ELSE asked[key]]
  /\ contested' = IF \E q \in Patches \ {p} : patch[q].step = "write"
                  THEN contested \cup patch[p].named
                  ELSE contested \ patch[p].named

Patch(p) == (\E body \in Bodies : PatchRead(p, body)) \/ PatchWrite(p)
-----------------------------------------------------------------------------
Init ==
  /\ now = 0 /\ jobs = << >> /\ paused = FALSE /\ afterPause = 0
  /\ req = [r \in Requests |-> IdleRequest]
  /\ policy = Default /\ asked = Default /\ contested = {}
  /\ patch = [p \in Patches |-> IdlePatch]

Enqueue(r) ==
  \/ \E count \in 1..MaxBatch : EnqueueCall(r, count)
  \/ ReadPaused(r) \/ ReadPolicy(r)
  \/ ReadLast(r) \/ CheckInterval(r) \/ CheckCap(r) \/ Refuse(r) \/ InsertJob(r)

Next ==
  \/ \E r \in Requests : Enqueue(r) /\ UNCHANGED tuning
  \/ \E value \in BOOLEAN : SetPaused(value) /\ UNCHANGED tuning
  \/ Tick /\ UNCHANGED tuning
  \/ \E p \in Patches : Patch(p) /\ UNCHANGED pace

Spec == Init /\ [][Next]_vars
-----------------------------------------------------------------------------
\* A request being served has a job to enqueue.
HasJobLeft == \A r \in Requests : ~At(r, "idle") => req[r].left # 0

PaceTyped ==
  /\ now \in Nat /\ paused \in BOOLEAN /\ afterPause \in Nat
  /\ jobs \in Seq(Nat)
  /\ req \in [Requests -> Request]

TuningTyped ==
  /\ policy \in Policy /\ asked \in Policy /\ contested \subseteq Keys
  /\ patch \in [Patches -> [step : {"idle", "write", "done"}, merged : Policy, named : SUBSET Keys]]

TypeOK == PaceTyped /\ TuningTyped

Together == Cardinality(Requests)
Values(key) == {Default[key]} \cup {body[key] : body \in {b \in Bodies : key \in DOMAIN b}}

\* Of the jobs inserted within an interval, the shortest of those the policy
\* may hold less the second that created_at loses, there is at most one for
\* each request served at the same time: a request never passes the interval of
\* its own last job.
BurstBounded ==
  \A i \in 1..Len(jobs) : i + Together <= Len(jobs) =>
    \E interval \in Values("interval") : jobs[i + Together] - jobs[i] + Ticks > Ticks * interval

\* A day's jobs pass the largest cap of the policy by the requests that had
\* passed the test when it was reached, wherever midnight falls between the test
\* and the INSERT.
DailyCap ==
  \A i \in 1..Len(jobs) : \E cap \in Values("cap") : CreatedOn(DayOf(jobs[i])) < cap + Together

\* After a pause was answered each request being served inserts one more job
\* at most, also when it is in the middle of a batch.
PauseStops == paused => afterPause <= Together

\* What an answered patch set stays set until a patch of the same key, unless
\* the patch overlapped another one, which then writes back what it had read
\* (set_risk_policy).
PatchKept == \A key \in Keys : policy[key] = asked[key] \/ key \in contested

=============================================================================
