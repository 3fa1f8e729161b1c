--------------------------- MODULE CadenceProofs ---------------------------
(***************************************************************************)
(* What a pause, a patch of the policy, the cap of a day and the interval  *)
(* promise, for any number of requests, patches and policies.              *)
(***************************************************************************)
EXTENDS Cadence, FiniteSetTheorems, TLAPS

\* The requests that passed the switch and may still insert a job.
PassedSteps == {"policy", "last", "interval", "cap", "insert"}
Passed == {r \in Requests : req[r].step \in PassedSteps}

\* Each of them stands for one job at most.
PauseInv == paused => afterPause + Cardinality(Passed) <= Together

LEMMA RequestParts ==
  ASSUME TypeOK, NEW r \in Requests
  PROVE  /\ req[r] \in Request /\ req[r].left \in 0..MaxBatch /\ req[r].policy \in Policy
         /\ req[r].last \in SUBSET Nat /\ req[r].day \in Nat
  BY DEF TypeOK, PaceTyped, TuningTyped, Request

LEMMA IdleType == IdleRequest \in Request
  BY CadenceAssumption DEF IdleRequest, Request, Steps

LEMMA StampType == \A t \in Nat : Stamp(t) \in Nat /\ DayOf(t) \in Nat
<1>1. \A t \in Nat, n \in Nat \ {0} : t \div n \in Nat
  OBVIOUS
<1>. QED BY <1>1, CadenceAssumption DEF Stamp, DayOf

\* Request r becomes q, which has a job left, and passes the switch only when
\* that is off.  Its policy is what it read, what it reads, or none.
Becomes(r, q) ==
  /\ q \in Request /\ Continue(r, q)
  /\ q.policy \in {Default, policy, req[r].policy}
  /\ q.step = "idle" \/ q.left # 0
  /\ q.step \in PassedSteps => req[r].step \in PassedSteps \/ ~paused
  /\ At(r, "insert") => q.step \notin PassedSteps

LEMMA Proceeds ==
  ASSUME TypeOK, HasJobLeft, NEW r \in Requests, NEW step \in Steps, Proceed(r, step), ~At(r, "idle"),
         ~At(r, "insert"), step \in PassedSteps => req[r].step \in PassedSteps \/ ~paused
  PROVE  \E q : Becomes(r, q)
<1>. DEFINE q == [IdleRequest EXCEPT !.step = step, !.left = req[r].left]
<1>1. /\ q \in Request /\ q.step = step /\ q.left = req[r].left /\ Continue(r, q)
      /\ q.policy = Default
  BY RequestParts, CadenceAssumption DEF Request, Proceed, IdleRequest
<1>. HIDE DEF q
<1>2. Becomes(r, q)
  BY <1>1 DEF Becomes, HasJobLeft
<1>. QED BY <1>2

LEMMA Finishes ==
  ASSUME TypeOK, NEW r \in Requests, Finish(r)
  PROVE  \E q : Becomes(r, q)
<1>1. Continue(r, IdleRequest) /\ IdleRequest.step = "idle" /\ IdleRequest.policy = Default
  BY DEF Finish, IdleRequest
<1>2. Becomes(r, IdleRequest)
  BY <1>1, IdleType DEF Becomes, PassedSteps
<1>. QED BY <1>2

LEMMA Moves ==
  ASSUME TypeOK, HasJobLeft, NEW r \in Requests, Enqueue(r)
  PROVE  \E q : Becomes(r, q)
<1>. USE Proceeds, Finishes DEF Steps
<1>1. ASSUME NEW count \in 1..MaxBatch, EnqueueCall(r, count) PROVE \E q : Becomes(r, q)
  <2>. DEFINE q == [step |-> "paused", left |-> count, policy |-> Default, last |-> {}, day |-> 0]
  <2>1. q \in Request /\ q.left # 0 /\ q.step = "paused" /\ q.policy = Default
    BY CadenceAssumption DEF Request
  <2>2. Continue(r, q)
    BY <1>1 DEF EnqueueCall
  <2>. HIDE DEF q
  <2>3. Becomes(r, q)
    BY <2>1, <2>2 DEF Becomes, PassedSteps
  <2>. QED BY <2>3
<1>2. CASE ReadPaused(r) \/ CheckCap(r) \/ Refuse(r)
  BY <1>2 DEF ReadPaused, CheckCap, Refuse, At, PassedSteps
<1>3. CASE ReadLast(r)
  <2>. DEFINE last == {Stamp(jobs[i]) : i \in 1..Len(jobs) \cap {Len(jobs)}}
  <2>. DEFINE q == [req[r] EXCEPT !.step = "interval", !.last = last]
  <2>1. last \in SUBSET Nat
    <3>1. \A i \in 1..Len(jobs) : jobs[i] \in Nat
      BY DEF TypeOK, PaceTyped, TuningTyped
    <3>2. \A i \in 1..Len(jobs) : Stamp(jobs[i]) \in Nat
      BY <3>1, StampType
    <3>. QED BY <3>2
  <2>2. q \in Request /\ q.step = "interval" /\ q.left = req[r].left /\ q.policy = req[r].policy
    BY <2>1, RequestParts DEF Request
  <2>3. Continue(r, q) /\ At(r, "last")
    BY <1>3 DEF ReadLast
  <2>. HIDE DEF q
  <2>4. Becomes(r, q)
    BY <2>2, <2>3 DEF Becomes, HasJobLeft, At, PassedSteps
  <2>. QED BY <2>4
<1>4. CASE CheckInterval(r)
  <2>. DEFINE q == [req[r] EXCEPT !.step = "cap", !.last = {}, !.day = DayOf(now)]
  <2>1. q \in Request /\ q.step = "cap" /\ q.left = req[r].left /\ q.policy = req[r].policy
    BY StampType, RequestParts DEF Request, TypeOK, PaceTyped, TuningTyped
  <2>2. At(r, "interval") /\ (Finish(r) \/ Continue(r, q))
    BY <1>4, Zenon DEF CheckInterval
  <2>. HIDE DEF q
  <2>3. Continue(r, q) => Becomes(r, q)
    BY <2>1, <2>2 DEF Becomes, HasJobLeft, At, PassedSteps
  <2>. QED BY <2>2, <2>3
<1>5. CASE InsertJob(r)
  <2>. DEFINE q == [IdleRequest EXCEPT !.step = "paused", !.left = req[r].left - 1]
  <2>1. req[r].left # 0
    BY <1>5 DEF InsertJob, HasJobLeft, At
  <2>2. req[r].left - 1 \in 0..MaxBatch
    BY <2>1, RequestParts, CadenceAssumption
  <2>3. /\ q \in Request /\ q.step = "paused" /\ q.left = req[r].left - 1
        /\ q.policy = Default
    BY <2>2, CadenceAssumption DEF Request, IdleRequest, Steps
  <2>4. Finish(r) \/ (req[r].left # 1 /\ Continue(r, q))
    BY <1>5, Zenon DEF InsertJob
  <2>. HIDE DEF q
  <2>5. req[r].left # 1 /\ Continue(r, q) => Becomes(r, q)
    BY <2>2, <2>3, RequestParts, CadenceAssumption DEF Becomes, PassedSteps
  <2>. QED BY <2>4, <2>5
<1>6. CASE ReadPolicy(r)
  <2>. DEFINE q == [req[r] EXCEPT !.step = "last", !.policy = policy]
  <2>1. q \in Request /\ q.step = "last" /\ q.left = req[r].left /\ q.policy = policy
    BY RequestParts DEF Request, TypeOK, PaceTyped, TuningTyped
  <2>2. Continue(r, q) /\ At(r, "policy")
    BY <1>6 DEF ReadPolicy
  <2>. HIDE DEF q
  <2>3. Becomes(r, q)
    BY <2>1, <2>2 DEF Becomes, HasJobLeft, At, PassedSteps
  <2>. QED BY <2>3
<1>. QED BY <1>1, <1>2, <1>3, <1>4, <1>5, <1>6 DEF Enqueue

\* The request that moves, and the others.
LEMMA MovesOne ==
  ASSUME TypeOK, NEW r \in Requests, NEW q, Becomes(r, q)
  PROVE  /\ req' \in [Requests -> Request]
         /\ req'[r] = q /\ \A p \in Requests \ {r} : req'[p] = req[p]
  BY DEF Becomes, Continue, TypeOK, PaceTyped, TuningTyped

LEMMA MovesType ==
  ASSUME TypeOK, HasJobLeft, NEW r \in Requests, Enqueue(r)
  PROVE  req' \in [Requests -> Request] /\ HasJobLeft'
<1>1. PICK q : Becomes(r, q)
  BY Moves
<1>. QED BY <1>1, MovesOne DEF Becomes, HasJobLeft, At

LEMMA PaceTypesStay ==
  ASSUME TypeOK, HasJobLeft, [Next]_vars
  PROVE  PaceTyped' /\ HasJobLeft'
<1>. USE DEF TypeOK, PaceTyped
<1>1. ASSUME NEW r \in Requests, Enqueue(r) PROVE PaceTyped' /\ HasJobLeft'
  <2>1. CASE InsertJob(r)
    BY <1>1, <2>1, MovesType DEF InsertJob
  <2>2. CASE ~InsertJob(r)
    <3>1. UNCHANGED <<now, jobs, paused, afterPause>>
      BY <1>1, <2>2 DEF Enqueue, EnqueueCall, ReadPaused, ReadPolicy, ReadLast, CheckInterval, CheckCap, Refuse
    <3>. QED BY <1>1, <3>1, MovesType
  <2>. QED BY <2>1, <2>2
<1>2. ASSUME NEW value \in BOOLEAN, SetPaused(value) PROVE PaceTyped' /\ HasJobLeft'
  BY <1>2 DEF SetPaused, HasJobLeft, At
<1>3. CASE Tick
  BY <1>3 DEF Tick, HasJobLeft, At
<1>4. CASE UNCHANGED pace
  BY <1>4 DEF pace, HasJobLeft, At
<1>. QED BY <1>1, <1>2, <1>3, <1>4 DEF Next, vars

LEMMA MergeType ==
  ASSUME NEW old \in Policy, NEW body \in Bodies
  PROVE  Merge(old, body) \in Policy /\ DOMAIN body \in SUBSET Keys
  BY CadenceAssumption DEF Merge, Policy

LEMMA TuningTypesStay ==
  ASSUME TypeOK, [Next]_vars
  PROVE  TuningTyped'
<1>. USE DEF TypeOK, TuningTyped
<1>1. ASSUME NEW p \in Patches, NEW body \in Bodies, PatchRead(p, body) PROVE TuningTyped'
  BY <1>1, MergeType DEF PatchRead
<1>2. ASSUME NEW p \in Patches, PatchWrite(p) PROVE TuningTyped'
  <2>1. asked' \in Policy
    BY <1>2 DEF PatchWrite, Policy
  <2>2. policy' \in Policy /\ contested' \in SUBSET Keys
    BY <1>2 DEF PatchWrite
  <2>3. patch' \in [Patches -> [step : {"idle", "write", "done"}, merged : Policy, named : SUBSET Keys]]
    BY <1>2, CadenceAssumption DEF PatchWrite, Answered
  <2>. QED BY <2>1, <2>2, <2>3
<1>3. CASE UNCHANGED tuning
  BY <1>3 DEF tuning
<1>. QED BY <1>1, <1>2, <1>3 DEF Next, Patch, vars

LEMMA TypesStay ==
  ASSUME TypeOK, HasJobLeft, [Next]_vars
  PROVE  TypeOK' /\ HasJobLeft'
  BY PaceTypesStay, TuningTypesStay DEF TypeOK

\* Inserting uses up a pass; nothing gives one while the switch is on.
LEMMA PauseStays ==
  ASSUME TypeOK, HasJobLeft, PauseInv, [Next]_vars
  PROVE  PauseInv'
<1>. USE CadenceAssumption
<1>1. IsFiniteSet(Passed) /\ Cardinality(Passed) \in Nat /\ Cardinality(Passed) <= Together
  BY FS_Subset, FS_CardinalityType DEF Passed, Together
<1>2. ASSUME NEW r \in Requests, Enqueue(r) PROVE PauseInv'
  <2>1. PICK q : Becomes(r, q)
    BY <1>2, Moves
  <2>2. paused => Passed' \subseteq Passed
    BY <2>1, MovesOne DEF Becomes, Passed
  <2>3. CASE InsertJob(r)
    <3>1. (Passed' \subseteq Passed \ {r} /\ r \in Passed) \/ ~paused
      BY <2>1, <2>2, <2>3, MovesOne DEF Becomes, Passed, InsertJob, At, PassedSteps
    <3>2. IsFiniteSet(Passed \ {r}) /\ Cardinality(Passed \ {r}) = IF r \in Passed THEN Cardinality(Passed) - 1 ELSE Cardinality(Passed)
      BY <1>1, FS_RemoveElement
    <3>3. Passed' \subseteq Passed \ {r} => Cardinality(Passed') <= Cardinality(Passed \ {r}) /\ Cardinality(Passed') \in Nat
      BY <3>2, FS_Subset, FS_CardinalityType
    <3>4. (paused => afterPause' = afterPause + 1) /\ paused' = paused
      BY <2>3 DEF InsertJob
    <3>. QED BY <1>1, <3>1, <3>2, <3>3, <3>4, FS_CardinalityType DEF PauseInv, TypeOK, PaceTyped, Together
  <2>4. CASE ~InsertJob(r)
    <3>1. UNCHANGED <<paused, afterPause>>
      BY <1>2, <2>4 DEF Enqueue, EnqueueCall, ReadPaused, ReadPolicy, ReadLast, CheckInterval, CheckCap, Refuse
    <3>2. paused => Cardinality(Passed') <= Cardinality(Passed) /\ Cardinality(Passed') \in Nat
      BY <1>1, <2>2, FS_Subset, FS_CardinalityType
    <3>. QED BY <1>1, <3>1, <3>2, FS_CardinalityType DEF PauseInv, TypeOK, PaceTyped, Together
  <2>. QED BY <2>3, <2>4
<1>3. ASSUME NEW value \in BOOLEAN, SetPaused(value) PROVE PauseInv'
  <2>1. Passed' = Passed
    BY <1>3 DEF SetPaused, Passed
  <2>. QED BY <1>1, <1>3, <2>1 DEF SetPaused, PauseInv, Together
<1>4. CASE Tick \/ UNCHANGED pace
  BY <1>4 DEF Tick, pace, PauseInv, Passed, Together
<1>. QED BY <1>2, <1>3, <1>4 DEF Next, vars

LEMMA InitTyped == Init => TypeOK /\ HasJobLeft
<1>1. Init => now \in Nat /\ afterPause \in Nat /\ jobs \in Seq(Nat) /\ req \in [Requests -> Request]
  BY IdleType DEF Init
<1>2. Init => paused \in BOOLEAN
  BY Zenon DEF Init
<1>3. Init => TuningTyped
  BY CadenceAssumption DEF Init, TuningTyped, IdlePatch
<1>4. Init => HasJobLeft
  BY DEF Init, HasJobLeft, At, IdleRequest
<1>. QED BY <1>1, <1>2, <1>3, <1>4, Zenon DEF TypeOK, PaceTyped

\* In every reachable state the clock, the jobs, the policy and what requests
\* and patches hold are of their types, and a request being served has a job
\* left to enqueue.
THEOREM TypeCorrect == Spec => [](TypeOK /\ HasJobLeft)
<1>1. Init => TypeOK /\ HasJobLeft
  BY InitTyped
<1>2. TypeOK /\ HasJobLeft /\ [Next]_vars => (TypeOK /\ HasJobLeft)'
  BY TypesStay
<1>. QED BY <1>1, <1>2, PTL DEF Spec

\* After a pause was answered, every request being served inserts one more job
\* at most, however many there are and however long their batches.
THEOREM PauseStopsAll == Spec => []PauseStops
<1>. DEFINE Inv == TypeOK /\ HasJobLeft /\ PauseInv
<1>1. Init => PauseInv
  BY DEF Init, PauseInv
<1>2. Inv /\ [Next]_vars => PauseInv'
  BY PauseStays
<1>3. Inv => PauseStops
  <2>1. IsFiniteSet(Passed)
    BY CadenceAssumption, FS_Subset DEF Passed
  <2>2. Cardinality(Passed) \in Nat /\ Together \in Nat
    BY <2>1, CadenceAssumption, FS_CardinalityType DEF Together
  <2>. QED BY <2>2 DEF PauseInv, PauseStops, TypeOK, PaceTyped
<1>. QED BY <1>1, <1>2, <1>3, TypeCorrect, PTL DEF Spec

-----------------------------------------------------------------------------
\* What a patch will write back is what was last asked for, except of the keys
\* it names itself and of those that were patched while it was under way.
PatchInv ==
  /\ PatchKept
  /\ \A p \in Patches : patch[p].step = "write" =>
       \A key \in Keys \ patch[p].named : patch[p].merged[key] = asked[key] \/ key \in contested

LEMMA PatchStays ==
  ASSUME TypeOK, PatchInv, [Next]_vars
  PROVE  PatchInv'
<1>. USE DEF TypeOK, TuningTyped
<1>1. ASSUME NEW p \in Patches, NEW body \in Bodies, PatchRead(p, body) PROVE PatchInv'
  <2>1. \A key \in Keys \ DOMAIN body : Merge(policy, body)[key] = policy[key]
    BY DEF Merge
  <2>2. /\ patch'[p].named = DOMAIN body /\ patch'[p].merged = Merge(policy, body)
        /\ \A q \in Patches \ {p} : patch'[q] = patch[q]
    BY <1>1 DEF PatchRead
  <2>3. UNCHANGED <<policy, asked, contested>>
    BY <1>1 DEF PatchRead
  <2>4. PatchKept'
    BY <2>3 DEF PatchInv, PatchKept
  <2>5. ASSUME NEW q \in Patches, patch'[q].step = "write", NEW key \in Keys \ patch'[q].named
        PROVE  patch'[q].merged[key] = asked'[key] \/ key \in contested'
    <3>1. CASE q = p
      BY <2>1, <2>2, <2>3, <2>5, <3>1 DEF PatchInv, PatchKept
    <3>2. CASE q # p
      BY <2>2, <2>3, <2>5, <3>2 DEF PatchInv
    <3>. QED BY <3>1, <3>2
  <2>. QED BY <2>4, <2>5 DEF PatchInv
<1>2. ASSUME NEW p \in Patches, PatchWrite(p) PROVE PatchInv'
  <2>1. /\ patch'[p].step = "done" /\ \A q \in Patches \ {p} : patch'[q] = patch[q]
        /\ policy' = patch[p].merged /\ patch[p].step = "write"
    BY <1>2 DEF PatchWrite, Answered
  <2>2. \A key \in Keys : asked'[key] = IF key \in patch[p].named THEN patch[p].merged[key] ELSE asked[key]
    BY <1>2 DEF PatchWrite
  <2>3. contested \ patch[p].named \subseteq contested'
    BY <1>2 DEF PatchWrite
  <2>4. (\E q \in Patches \ {p} : patch[q].step = "write") => contested' = contested \cup patch[p].named
    BY <1>2 DEF PatchWrite
  <2>5. PatchKept'
    BY <2>1, <2>2, <2>3 DEF PatchInv, PatchKept
  <2>6. ASSUME NEW q \in Patches, patch'[q].step = "write", NEW key \in Keys \ patch'[q].named
        PROVE  patch'[q].merged[key] = asked'[key] \/ key \in contested'
    <3>1. q # p /\ patch'[q] = patch[q] /\ contested' = contested \cup patch[p].named
      BY <2>1, <2>4, <2>6
    <3>. QED BY <2>2, <2>6, <3>1 DEF PatchInv
  <2>. QED BY <2>5, <2>6 DEF PatchInv
<1>3. CASE UNCHANGED tuning
  BY <1>3 DEF tuning, PatchInv, PatchKept
<1>. QED BY <1>1, <1>2, <1>3 DEF Next, Patch, vars

\* However many patches of the policy are served at once, a key keeps the value
\* it was last set to, unless the patch that set it overlapped another.
THEOREM PatchesKept == Spec => []PatchKept
<1>1. Init => PatchInv
  BY DEF Init, PatchInv, PatchKept, IdlePatch
<1>2. TypeOK /\ PatchInv /\ [Next]_vars => PatchInv'
  BY PatchStays
<1>3. PatchInv => PatchKept
  BY DEF PatchInv
<1>. QED BY <1>1, <1>2, <1>3, TypeCorrect, PTL DEF Spec

-----------------------------------------------------------------------------
(***************************************************************************)
(* The clock in whole seconds and in days.                                 *)
(***************************************************************************)
LEMMA DivBounds ==
  ASSUME NEW a \in Nat, NEW n \in Nat \ {0}
  PROVE  a \div n \in Nat /\ n * (a \div n) <= a /\ a < n * (a \div n) + n
  OBVIOUS

LEMMA TimesMonotone ==
  ASSUME NEW x \in Nat, NEW y \in Nat, NEW n \in Nat, x <= y
  PROVE  n * x <= n * y
  OBVIOUS

LEMMA DivMonotone ==
  ASSUME NEW a \in Nat, NEW b \in Nat, a <= b, NEW n \in Nat \ {0}
  PROVE  a \div n <= b \div n
<1>. DEFINE x == a \div n
            y == b \div n
<1>1. x \in Nat /\ y \in Nat /\ n * x <= a /\ b < n * y + n
  BY DivBounds
<1>. HIDE DEF x, y
<1>2. CASE y < x
  <2>1. n * (y + 1) <= n * x
    BY <1>1, <1>2, TimesMonotone
  <2>2. n * (y + 1) = n * y + n
    BY <1>1
  <2>. QED BY <1>1, <2>1, <2>2
<1>3. x <= y
  BY <1>1, <1>2
<1>. QED BY <1>3 DEF x, y

LEMMA ClockMonotone ==
  ASSUME NEW s \in Nat, NEW t \in Nat, s <= t
  PROVE  Stamp(s) <= Stamp(t) /\ DayOf(s) <= DayOf(t)
  BY DivMonotone, StampType, CadenceAssumption DEF Stamp, DayOf

LEMMA CountType ==
  ASSUME NEW day, TypeOK
  PROVE  /\ IsFiniteSet({i \in 1..Len(jobs) : DayOf(jobs[i]) = day})
         /\ CreatedOn(day) \in Nat
<1>1. Len(jobs) \in Nat
  BY DEF TypeOK, PaceTyped
<1>2. IsFiniteSet(1..Len(jobs))
  BY <1>1, FS_Interval
<1>3. IsFiniteSet({i \in 1..Len(jobs) : DayOf(jobs[i]) = day})
  BY <1>2, FS_Subset
<1>. QED BY <1>3, FS_CardinalityType DEF CreatedOn

(***************************************************************************)
(* What a step of an enqueue is: an answer or a reading that decides       *)
(* nothing, one of the three that decide, or the INSERT.                   *)
(***************************************************************************)
Newest == {Stamp(jobs[i]) : i \in 1..Len(jobs) \cap {Len(jobs)}}
ReadsNewest(r) == At(r, "last") /\ req'[r].step = "interval" /\ req'[r].last = Newest
PassesInterval(r) ==
  /\ At(r, "interval") /\ req'[r].step = "cap" /\ req'[r].day = DayOf(now)
  /\ \A stamp \in req[r].last : now - Ticks * stamp >= Ticks * req[r].policy["interval"]
PassesCap(r) ==
  /\ At(r, "cap") /\ req'[r].step = "insert"
  /\ req[r].policy["cap"] > 0 => CreatedOn(req[r].day) < req[r].policy["cap"]
Inserts(r) ==
  /\ At(r, "insert") /\ jobs' = Append(jobs, now)
  /\ req'[r].step \in {"idle", "paused"}
NotTested == {"idle", "paused", "policy", "last"}

LEMMA EnqueueShape ==
  ASSUME TypeOK, HasJobLeft, NEW r \in Requests, Enqueue(r)
  PROVE  /\ now' = now /\ \A p \in Requests \ {r} : req'[p] = req[p]
         /\ \/ /\ UNCHANGED jobs
               /\ \/ req'[r].step \in NotTested
                  \/ ReadsNewest(r) \/ PassesInterval(r) \/ PassesCap(r)
            \/ Inserts(r)
<1>1. PICK q : Becomes(r, q)
  BY Moves
<1>2. \A p \in Requests \ {r} : req'[p] = req[p]
  BY <1>1, MovesOne
<1>3. req \in [Requests -> Request] /\ req[r] \in Request
  BY DEF TypeOK, PaceTyped
<1>4. IdleRequest.step = "idle"
  BY DEF IdleRequest
<1>. USE <1>3, <1>4 DEF Continue, Finish, Proceed, NotTested
<1>5. ASSUME NEW count \in 1..MaxBatch, EnqueueCall(r, count)
      PROVE  UNCHANGED <<now, jobs>> /\ req'[r].step \in NotTested
  BY <1>5 DEF EnqueueCall
<1>6. CASE ReadPaused(r) \/ ReadPolicy(r) \/ Refuse(r)
  <2>1. UNCHANGED <<now, jobs>> /\ req'[r].step \in NotTested
    BY <1>6 DEF ReadPaused, ReadPolicy, Refuse, IdleRequest, Request
  <2>. QED BY <1>2, <2>1
<1>7. CASE ReadLast(r)
  <2>1. UNCHANGED <<now, jobs>> /\ ReadsNewest(r)
    BY <1>7 DEF ReadLast, ReadsNewest, Newest, Request
  <2>. QED BY <1>2, <2>1
<1>8. CASE CheckInterval(r)
  <2>1. UNCHANGED <<now, jobs>> /\ At(r, "interval")
    BY <1>8 DEF CheckInterval
  <2>2. CASE Finish(r)
    BY <1>2, <2>1, <2>2
  <2>3. CASE ~Finish(r)
    <3>1. /\ ~\E stamp \in req[r].last : now - Ticks * stamp < Ticks * req[r].policy["interval"]
          /\ Continue(r, [req[r] EXCEPT !.step = "cap", !.last = {}, !.day = DayOf(now)])
      BY <1>8, <2>3, Zenon DEF CheckInterval
    <3>2. req'[r].step = "cap" /\ req'[r].day = DayOf(now)
      BY <3>1 DEF Request
    <3>3. now \in Nat /\ Ticks \in Nat /\ req[r].last \subseteq Nat /\ req[r].policy["interval"] \in Nat
      BY RequestParts, CadenceAssumption DEF TypeOK, PaceTyped, Policy, Keys
    <3>4. \A stamp \in req[r].last : now - Ticks * stamp >= Ticks * req[r].policy["interval"]
      BY <3>1, <3>3
    <3>. QED BY <1>2, <2>1, <3>2, <3>4 DEF PassesInterval
  <2>. QED BY <2>2, <2>3
<1>9. CASE CheckCap(r)
  <2>1. UNCHANGED <<now, jobs>> /\ At(r, "cap")
    BY <1>9 DEF CheckCap
  <2>2. CASE Finish(r)
    BY <1>2, <2>1, <2>2
  <2>3. CASE ~Finish(r)
    <3>1. /\ ~(req[r].policy["cap"] > 0 /\ CreatedOn(req[r].day) >= req[r].policy["cap"])
          /\ Proceed(r, "insert")
      BY <1>9, <2>3, Zenon DEF CheckCap
    <3>2. CreatedOn(req[r].day) \in Nat /\ req[r].policy["cap"] \in Nat
      BY RequestParts, CountType DEF Policy, Keys
    <3>3. req'[r].step = "insert"
      BY <3>1 DEF IdleRequest
    <3>. QED BY <1>2, <2>1, <3>1, <3>2, <3>3 DEF PassesCap
  <2>. QED BY <2>2, <2>3
<1>10. CASE InsertJob(r)
  <2>1. now' = now /\ Inserts(r)
    BY <1>10 DEF InsertJob, Inserts, IdleRequest
  <2>. QED BY <1>2, <2>1
<1>. QED BY <1>2, <1>5, <1>6, <1>7, <1>8, <1>9, <1>10 DEF Enqueue

(***************************************************************************)
(* Every policy that a request or a patch holds is made of values that     *)
(* were sent; the jobs are in the order of their stamps.                   *)
(***************************************************************************)
Sent(values) == \A key \in Keys : values[key] \in Values(key)
PolicyInv == /\ Sent(policy) /\ \A r \in Requests : Sent(req[r].policy)
             /\ \A p \in Patches : patch[p].step = "write" => Sent(patch[p].merged)

OrderInv == \A i \in 1..Len(jobs) :
              jobs[i] <= now /\ \A k \in 1..Len(jobs) : i <= k => jobs[i] <= jobs[k]

LEMMA ValuesType == \A key \in Keys : Values(key) \subseteq Nat
  BY CadenceAssumption DEF Values, Policy

LEMMA CapIsSet == \A cap \in Values("cap") : cap > 0
  BY CadenceAssumption DEF Values, Policy, Keys

LEMMA DefaultSent == Sent(Default)
  BY DEF Sent, Values

LEMMA PolicyStays ==
  ASSUME TypeOK, HasJobLeft, PolicyInv, [Next]_vars
  PROVE  PolicyInv'
<1>. USE DEF TypeOK, TuningTyped
<1>1. ASSUME NEW r \in Requests, Enqueue(r), UNCHANGED tuning PROVE PolicyInv'
  <2>1. PICK q : Becomes(r, q)
    BY <1>1, Moves
  <2>2. Sent(q.policy)
    BY <2>1, DefaultSent DEF Becomes, PolicyInv
  <2>. QED BY <1>1, <2>1, <2>2, MovesOne DEF PolicyInv, Sent, tuning
<1>2. ASSUME NEW p \in Patches, NEW body \in Bodies, PatchRead(p, body), UNCHANGED pace PROVE PolicyInv'
  <2>1. Sent(Merge(policy, body))
    BY DEF Sent, Merge, PolicyInv, Values
  <2>2. /\ patch'[p].merged = Merge(policy, body) /\ UNCHANGED <<policy, req>>
        /\ \A q \in Patches \ {p} : patch'[q] = patch[q]
    BY <1>2 DEF PatchRead, pace
  <2>. QED BY <2>1, <2>2 DEF PolicyInv, Sent
<1>3. ASSUME NEW p \in Patches, PatchWrite(p), UNCHANGED pace PROVE PolicyInv'
  <2>1. /\ patch'[p].step = "done" /\ policy' = patch[p].merged /\ patch[p].step = "write"
        /\ UNCHANGED req /\ \A q \in Patches \ {p} : patch'[q] = patch[q]
    BY <1>3 DEF PatchWrite, Answered, pace
  <2>. QED BY <2>1 DEF PolicyInv, Sent
<1>4. CASE UNCHANGED req /\ UNCHANGED tuning
  BY <1>4 DEF PolicyInv, Sent, tuning
<1>. QED BY <1>1, <1>2, <1>3, <1>4 DEF Next, Patch, SetPaused, Tick, vars, pace

\* The steps that neither read nor insert a job: only the clock may move.
LEMMA PaceFrame ==
  ASSUME [Next]_vars
  PROVE  \/ \E r \in Requests : Enqueue(r)
         \/ UNCHANGED <<jobs, req>> /\ (now' = now \/ now' = now + 1)
  BY DEF Next, SetPaused, Tick, vars, pace

LEMMA JobAppended ==
  ASSUME TypeOK, NEW r \in Requests, Inserts(r)
  PROVE  /\ Len(jobs) \in Nat /\ Len(jobs') = Len(jobs) + 1
         /\ jobs'[Len(jobs) + 1] = now
         /\ \A i \in 1..Len(jobs) : jobs'[i] = jobs[i] /\ jobs[i] \in Nat
  BY DEF TypeOK, PaceTyped, Inserts

LEMMA JobTimes == ASSUME TypeOK PROVE Len(jobs) \in Nat /\ \A i \in 1..Len(jobs) : jobs[i] \in Nat
  BY DEF TypeOK, PaceTyped

LEMMA OrderStays ==
  ASSUME TypeOK, HasJobLeft, OrderInv, [Next]_vars
  PROVE  OrderInv'
<1>. now \in Nat
  BY DEF TypeOK, PaceTyped
<1>1. CASE UNCHANGED jobs /\ (now' = now \/ now' = now + 1)
  BY <1>1, JobTimes DEF OrderInv
<1>2. ASSUME NEW r \in Requests, Inserts(r), now' = now PROVE OrderInv'
  BY <1>2, JobAppended DEF OrderInv
<1>. QED BY <1>1, <1>2, PaceFrame, EnqueueShape

(***************************************************************************)
(* DailyCap.  On the day that is, or one to come, every request inserts at *)
(* most one job without having been tested against that day's count: it    *)
(* was tested on the day before, or is about to be inserted.               *)
(***************************************************************************)
UnderCap(n) == \E cap \in Values("cap") : n < cap + Together
Untested(day) == {r \in Requests : At(r, "insert") \/ (At(r, "cap") /\ req[r].day # day)}
DayInv == \A day \in Nat :
            /\ UnderCap(CreatedOn(day))
            /\ day >= DayOf(now) => UnderCap(CreatedOn(day) + Cardinality(Untested(day)))

LEMMA UnderCapLess ==
  ASSUME NEW m \in Nat, NEW n \in Nat, m <= n, UnderCap(n)
  PROVE  UnderCap(m)
<1>1. Together \in Nat
  BY CadenceAssumption, FS_CardinalityType DEF Together
<1>. QED BY <1>1, ValuesType DEF UnderCap, Keys

\* Any set of requests is one that may be late by a job each.
LEMMA SomeRequests ==
  ASSUME NEW S, S \subseteq Requests
  PROVE  IsFiniteSet(S) /\ Cardinality(S) \in Nat /\ Cardinality(S) <= Together /\ Together \in Nat
  BY CadenceAssumption, FS_CardinalityType, FS_Subset DEF Together

LEMMA OneRequestLess ==
  ASSUME NEW S, S \subseteq Requests, NEW r \in S, NEW T, T \subseteq S \ {r}
  PROVE  Cardinality(T) \in Nat /\ Cardinality(T) + 1 <= Cardinality(S)
<1>1. IsFiniteSet(S) /\ Cardinality(S) \in Nat
  BY SomeRequests
<1>2. IsFiniteSet(S \ {r}) /\ Cardinality(S \ {r}) = Cardinality(S) - 1
  BY <1>1, FS_RemoveElement
<1>3. IsFiniteSet(T) /\ Cardinality(T) <= Cardinality(S \ {r})
  BY <1>2, FS_Subset
<1>. QED BY <1>1, <1>2, <1>3, FS_CardinalityType

LEMMA Tested ==
  ASSUME NEW n \in Nat, NEW cap \in Values("cap"), n < cap, NEW S, S \subseteq Requests
  PROVE  UnderCap(n + Cardinality(S))
  BY SomeRequests, ValuesType DEF UnderCap, Keys

LEMMA DayToCome ==
  ASSUME TypeOK, OrderInv, NEW day \in Nat, day > DayOf(now)
  PROVE  CreatedOn(day) = 0
<1>1. ASSUME NEW i \in 1..Len(jobs) PROVE DayOf(jobs[i]) # day
  <2>1. jobs[i] \in Nat /\ now \in Nat /\ jobs[i] <= now
    BY JobTimes DEF OrderInv, TypeOK, PaceTyped
  <2>2. DayOf(jobs[i]) <= DayOf(now)
    BY <2>1, ClockMonotone
  <2>. QED BY <2>1, <2>2, StampType
<1>2. {i \in 1..Len(jobs) : DayOf(jobs[i]) = day} = {}
  BY <1>1
<1>. QED BY <1>2, FS_EmptySet DEF CreatedOn

LEMMA CountInserted ==
  ASSUME TypeOK, NEW r \in Requests, Inserts(r), NEW day
  PROVE  CreatedOn(day)' = CreatedOn(day) + IF day = DayOf(now) THEN 1 ELSE 0
<1>. DEFINE Of(s, n) == {i \in 1..n : DayOf(s[i]) = day}
            k == Len(jobs) + 1
<1>1. /\ Len(jobs) \in Nat /\ Len(jobs') = k /\ jobs'[k] = now
      /\ \A i \in 1..Len(jobs) : jobs'[i] = jobs[i]
  BY JobAppended
<1>2. Of(jobs', k) = IF DayOf(now) = day THEN Of(jobs, Len(jobs)) \cup {k} ELSE Of(jobs, Len(jobs))
  <2>1. \A i \in 1..Len(jobs) : DayOf(jobs'[i]) = DayOf(jobs[i])
    BY <1>1
  <2>2. 1..k = 1..Len(jobs) \cup {k} /\ k \notin 1..Len(jobs) /\ DayOf(jobs'[k]) = DayOf(now)
    BY <1>1
  <2>. QED BY <2>1, <2>2
<1>3. k \notin Of(jobs, Len(jobs))
  BY <1>1
<1>4. IsFiniteSet(Of(jobs, Len(jobs))) /\ Cardinality(Of(jobs, Len(jobs))) = CreatedOn(day)
  BY CountType DEF CreatedOn
<1>5. Cardinality(Of(jobs, Len(jobs)) \cup {k}) = CreatedOn(day) + 1
  BY <1>3, <1>4, FS_AddElement
<1>6. CreatedOn(day)' = Cardinality(Of(jobs', k))
  BY <1>1 DEF CreatedOn, DayOf, Stamp
<1>7. CreatedOn(day) \in Nat
  BY CountType
<1>. HIDE DEF Of, k
<1>8. CASE day = DayOf(now)
  BY <1>2, <1>5, <1>6, <1>8
<1>9. CASE day # DayOf(now)
  BY <1>2, <1>4, <1>6, <1>7, <1>9
<1>. QED BY <1>8, <1>9

LEMMA DayStays ==
  ASSUME TypeOK, HasJobLeft, PolicyInv, OrderInv, DayInv, [Next]_vars
  PROVE  DayInv'
<1>. now \in Nat /\ DayOf(now) \in Nat /\ \A day : CreatedOn(day) \in Nat
  BY CountType, StampType DEF TypeOK, PaceTyped
<1>. \A day : /\ Cardinality(Untested(day)) \in Nat
              /\ Cardinality(Untested(day)') \in Nat
              /\ Untested(day) \subseteq Requests /\ Untested(day)' \subseteq Requests
  <2>1. \A day : Untested(day) \subseteq Requests /\ Untested(day)' \subseteq Requests
    BY DEF Untested
  <2>. QED BY <2>1, SomeRequests
<1>1. ASSUME UNCHANGED jobs, now' = now,
             \A day \in Nat : day >= DayOf(now) =>
                \/ Untested(day)' \subseteq Untested(day)
                \/ UnderCap(CreatedOn(day) + Cardinality(Untested(day)'))
      PROVE  DayInv'
  <2>1. \A day : CreatedOn(day)' = CreatedOn(day)
    BY <1>1 DEF CreatedOn, DayOf, Stamp
  <2>2. ASSUME NEW day \in Nat, day >= DayOf(now)
        PROVE  UnderCap(CreatedOn(day) + Cardinality(Untested(day)'))
    <3>1. CASE Untested(day)' \subseteq Untested(day)
      <4>1. Cardinality(Untested(day)') <= Cardinality(Untested(day))
        BY <3>1, SomeRequests, FS_Subset
      <4>. QED BY <2>2, <4>1, UnderCapLess DEF DayInv
    <3>. QED BY <1>1, <2>2, <3>1
  <2>3. DayOf(now)' = DayOf(now)
    BY <1>1 DEF DayOf, Stamp
  <2>4. \A n : UnderCap(n)' <=> UnderCap(n)
    BY DEF UnderCap, Together, Values
  <2>. QED BY <2>1, <2>2, <2>3, <2>4 DEF DayInv
<1>2. ASSUME NEW r \in Requests, Enqueue(r) PROVE DayInv'
  <2>1. now' = now /\ \A p \in Requests \ {r} : req'[p] = req[p]
    BY <1>2, EnqueueShape
  <2>2. CASE UNCHANGED jobs /\ (req'[r].step \in NotTested \/ ReadsNewest(r))
    <3>1. \A day : Untested(day)' \subseteq Untested(day)
      BY <2>1, <2>2 DEF Untested, At, NotTested, ReadsNewest
    <3>. QED BY <1>1, <2>1, <2>2, <3>1
  <2>3. CASE UNCHANGED jobs /\ PassesInterval(r)
    <3>1. ASSUME NEW day \in Nat, day >= DayOf(now)
          PROVE  \/ Untested(day)' \subseteq Untested(day)
                 \/ UnderCap(CreatedOn(day) + Cardinality(Untested(day)'))
      <4>1. CASE day = DayOf(now)
        BY <2>1, <2>3, <4>1 DEF Untested, At, PassesInterval
      <4>2. CASE day > DayOf(now)
        <5>1. CreatedOn(day) = 0
          BY <4>2, DayToCome
        <5>2. Default["cap"] \in Values("cap") /\ 0 < Default["cap"]
          BY CadenceAssumption DEF Values, Policy, Keys
        <5>. QED BY <5>1, <5>2, Tested
      <4>. QED BY <3>1, <4>1, <4>2
    <3>. QED BY <1>1, <2>1, <2>3, <3>1
  <2>4. CASE UNCHANGED jobs /\ PassesCap(r)
    <3>1. ASSUME NEW day \in Nat
          PROVE  \/ Untested(day)' \subseteq Untested(day)
                 \/ UnderCap(CreatedOn(day) + Cardinality(Untested(day)'))
      <4>1. CASE day # req[r].day
        BY <2>1, <2>4, <4>1 DEF Untested, At, PassesCap
      <4>2. CASE day = req[r].day
        <5>1. req[r].policy["cap"] \in Values("cap")
          BY DEF PolicyInv, Sent, Keys
        <5>2. CreatedOn(day) < req[r].policy["cap"]
          BY <2>4, <4>2, <5>1, CapIsSet DEF PassesCap
        <5>. QED BY <5>1, <5>2, Tested
      <4>. QED BY <4>1, <4>2
    <3>. QED BY <1>1, <2>1, <2>4, <3>1
  <2>5. CASE Inserts(r)
    <3>1. \A day : CreatedOn(day)' = CreatedOn(day) + IF day = DayOf(now) THEN 1 ELSE 0
      BY <2>5, CountInserted
    <3>2. \A day : r \in Untested(day) /\ Untested(day)' \subseteq Untested(day) \ {r}
      BY <2>1, <2>5 DEF Untested, At, Inserts
    <3>3. \A day : Cardinality(Untested(day)') + 1 <= Cardinality(Untested(day))
      BY <3>2, OneRequestLess
    <3>4. DayOf(now)' = DayOf(now)
      BY <2>1 DEF DayOf, Stamp
    <3>5. ASSUME NEW day \in Nat, day >= DayOf(now)
          PROVE  /\ UnderCap(CreatedOn(day)' + Cardinality(Untested(day)'))
                 /\ UnderCap(CreatedOn(day)')
      <4>1. UnderCap(CreatedOn(day) + Cardinality(Untested(day)))
        BY <3>5 DEF DayInv
      <4>2. /\ CreatedOn(day)' \in Nat
            /\ CreatedOn(day)' + Cardinality(Untested(day)') <= CreatedOn(day) + Cardinality(Untested(day))
        BY <3>1, <3>3
      <4>. QED BY <4>1, <4>2, UnderCapLess
    <3>6. ASSUME NEW day \in Nat, day < DayOf(now) PROVE UnderCap(CreatedOn(day)')
      BY <3>1, <3>6 DEF DayInv
    <3>7. \A n : UnderCap(n)' <=> UnderCap(n)
      BY DEF UnderCap, Together, Values
    <3>. QED BY <3>4, <3>5, <3>6, <3>7 DEF DayInv
  <2>. QED BY <1>2, <2>2, <2>3, <2>4, <2>5, EnqueueShape
<1>3. CASE UNCHANGED <<jobs, req>> /\ (now' = now \/ now' = now + 1)
  <2>1. \A day : CreatedOn(day)' = CreatedOn(day) /\ Untested(day)' = Untested(day)
    BY <1>3 DEF CreatedOn, DayOf, Stamp, Untested, At
  <2>2. DayOf(now) <= DayOf(now)' /\ DayOf(now)' \in Nat
    <3>1. now' \in Nat /\ now <= now' /\ DayOf(now)' = DayOf(now')
      BY <1>3 DEF DayOf, Stamp
    <3>. QED BY <3>1, ClockMonotone, StampType
  <2>3. \A n : UnderCap(n)' <=> UnderCap(n)
    BY DEF UnderCap, Together, Values
  <2>. QED BY <2>1, <2>2, <2>3 DEF DayInv
<1>. QED BY <1>2, <1>3, PaceFrame

LEMMA CadenceHolds == Spec => [](PolicyInv /\ OrderInv)
<1>1. Init => PolicyInv /\ OrderInv
  BY DefaultSent DEF Init, PolicyInv, Sent, OrderInv, IdleRequest, IdlePatch
<1>2. TypeOK /\ HasJobLeft /\ PolicyInv /\ OrderInv /\ [Next]_vars => (PolicyInv /\ OrderInv)'
  BY PolicyStays, OrderStays
<1>. QED BY <1>1, <1>2, TypeCorrect, PTL DEF Spec

\* However many requests are served at once and wherever midnight falls, a day's
\* jobs pass the largest cap that the policy may hold by less than the requests.
THEOREM CapHolds == Spec => []DailyCap
<1>1. Init => DayInv
  <2>. SUFFICES ASSUME Init, NEW day \in Nat
                PROVE  UnderCap(CreatedOn(day)) /\ UnderCap(CreatedOn(day) + Cardinality(Untested(day)))
    BY DEF DayInv
  <2>1. CreatedOn(day) = 0
    <3>1. {i \in 1..Len(jobs) : DayOf(jobs[i]) = day} = {}
      BY DEF Init
    <3>. QED BY <3>1, FS_EmptySet DEF CreatedOn
  <2>2. Default["cap"] \in Values("cap") /\ 0 < Default["cap"]
    BY CadenceAssumption DEF Values, Policy, Keys
  <2>3. UnderCap(CreatedOn(day) + Cardinality(Untested(day)))
    BY <2>1, <2>2, Tested DEF Untested
  <2>4. Cardinality(Untested(day)) \in Nat
    BY SomeRequests DEF Untested
  <2>. QED BY <2>1, <2>3, <2>4, UnderCapLess
<1>2. /\ TypeOK /\ HasJobLeft /\ PolicyInv /\ OrderInv /\ DayInv
      /\ [Next]_vars
      => DayInv'
  BY DayStays
<1>3. TypeOK /\ DayInv => DailyCap
  BY JobTimes, StampType DEF DayInv, UnderCap, DailyCap
<1>. QED BY <1>1, <1>2, <1>3, TypeCorrect, CadenceHolds, PTL DEF Spec

(***************************************************************************)
(* BurstBounded.  While a job is close to the clock, every request inserts *)
(* at most one job more without having read that job's stamp or a later    *)
(* one: one that has read it passes the interval only when the job is far. *)
(***************************************************************************)
Apart(from, to) == \E interval \in Values("interval") : to - from + Ticks > Ticks * interval
Unread(i) == {r \in Requests :
                \/ At(r, "cap") \/ At(r, "insert")
                \/ At(r, "interval") /\ \A stamp \in req[r].last : stamp < Stamp(jobs[i])}
GapInv == \A i \in 1..Len(jobs) :
            /\ Apart(jobs[i], now) \/ Len(jobs) - i + Cardinality(Unread(i)) < Together
            /\ \A k \in 1..Len(jobs) : i + Together <= k => Apart(jobs[i], jobs[k])

LEMMA ApartLater ==
  ASSUME NEW from \in Nat, NEW to \in Nat, NEW later \in Nat, to <= later, Apart(from, to)
  PROVE  Apart(from, later)
<1>1. PICK interval \in Values("interval") : to - from + Ticks > Ticks * interval
  BY DEF Apart
<1>2. Ticks \in Nat /\ interval \in Nat /\ Ticks * interval \in Nat
  BY ValuesType, CadenceAssumption DEF Keys
<1>3. later - from + Ticks > Ticks * interval
  BY <1>1, <1>2
<1>. QED BY <1>3 DEF Apart

\* A stamp has lost less than a second.
LEMMA StampBounds ==
  ASSUME NEW t \in Nat
  PROVE  Stamp(t) \in Nat /\ Ticks * Stamp(t) \in Nat /\ t < Ticks * Stamp(t) + Ticks
<1>1. Ticks \in Nat \ {0}
  BY CadenceAssumption
<1>2. Stamp(t) \in Nat
  BY StampType
<1>3. \A x \in Nat, n \in Nat : n * x \in Nat
  OBVIOUS
<1>4. t < Ticks * Stamp(t) + Ticks
  BY <1>1, DivBounds DEF Stamp
<1>. QED BY <1>1, <1>2, <1>3, <1>4

LEMMA Chained ==
  ASSUME NEW at \in Nat, NEW job \in Nat, NEW read \in Nat, NEW stamp \in Nat, NEW gap \in Nat,
         NEW unit \in Nat, at - read >= gap, stamp <= read, job < stamp + unit
  PROVE  at - job + unit > gap
  OBVIOUS

LEMMA PassedIsApart ==
  ASSUME TypeOK, PolicyInv, NEW r \in Requests, PassesInterval(r), NEW i \in 1..Len(jobs),
         r \notin Unread(i)
  PROVE  Apart(jobs[i], now)
<1>. DEFINE interval == req[r].policy["interval"]
<1>1. PICK stamp \in req[r].last : ~(stamp < Stamp(jobs[i]))
  BY DEF Unread, PassesInterval
<1>2. /\ jobs[i] \in Nat /\ now \in Nat /\ stamp \in Nat /\ Ticks \in Nat
      /\ interval \in Nat /\ interval \in Values("interval")
  BY JobTimes, RequestParts, ValuesType, CadenceAssumption
     DEF TypeOK, PaceTyped, PolicyInv, Sent, Keys
<1>3. now - Ticks * stamp >= Ticks * interval
  BY DEF PassesInterval
<1>. HIDE DEF interval
<1>4. Ticks * Stamp(jobs[i]) <= Ticks * stamp
  <2>1. Stamp(jobs[i]) \in Nat
    BY <1>2, StampType
  <2>2. Stamp(jobs[i]) <= stamp
    BY <1>1, <1>2, <2>1
  <2>. QED BY <1>2, <2>1, <2>2, TimesMonotone
<1>5. jobs[i] < Ticks * Stamp(jobs[i]) + Ticks /\ Ticks * Stamp(jobs[i]) \in Nat
  BY <1>2, StampBounds
<1>6. Ticks * stamp \in Nat /\ Ticks * interval \in Nat
  BY <1>2
<1>7. Ticks * Stamp(jobs[i]) \in Nat
  BY <1>5
<1>8. now - jobs[i] + Ticks > Ticks * interval
  BY <1>2, <1>3, <1>4, <1>5, <1>6, <1>7, Chained
<1>. QED BY <1>2, <1>8 DEF Apart

\* What a request is, that has read the newest stamp.
LEMMA NewestRead ==
  ASSUME TypeOK, OrderInv, NEW r \in Requests, ReadsNewest(r), NEW i \in 1..Len(jobs)
  PROVE  \E stamp \in req'[r].last : ~(stamp < Stamp(jobs[i]))
<1>. DEFINE n == Len(jobs)
<1>1. n \in 1..Len(jobs) /\ jobs[n] \in Nat /\ jobs[i] \in Nat /\ jobs[i] <= jobs[n]
  BY JobTimes DEF OrderInv
<1>2. Stamp(jobs[n]) \in req'[r].last
  BY <1>1 DEF ReadsNewest, Newest
<1>3. ~(Stamp(jobs[n]) < Stamp(jobs[i]))
  <2>1. Stamp(jobs[i]) <= Stamp(jobs[n])
    BY <1>1, ClockMonotone
  <2>2. Stamp(jobs[i]) \in Nat /\ Stamp(jobs[n]) \in Nat
    BY <1>1, StampType
  <2>. QED BY <2>1, <2>2
<1>. QED BY <1>2, <1>3

LEMMA GapStays ==
  ASSUME TypeOK, HasJobLeft, PolicyInv, OrderInv, GapInv, [Next]_vars
  PROVE  GapInv'
<1>. now \in Nat /\ Len(jobs) \in Nat /\ Together \in Nat /\ \A i \in 1..Len(jobs) : jobs[i] \in Nat
  BY JobTimes, SomeRequests DEF TypeOK, PaceTyped
<1>. \A i : /\ Cardinality(Unread(i)) \in Nat
            /\ Cardinality(Unread(i)') \in Nat
            /\ Unread(i) \subseteq Requests /\ Unread(i)' \subseteq Requests
  <2>1. \A i : Unread(i) \subseteq Requests /\ Unread(i)' \subseteq Requests
    BY DEF Unread
  <2>. QED BY <2>1, SomeRequests
<1>. /\ \A from, to : Apart(from, to)' <=> Apart(from, to)
     /\ Together' = Together
  BY DEF Apart, Values, Together
<1>1. ASSUME UNCHANGED jobs, now' = now \/ now' = now + 1,
             \A i \in 1..Len(jobs) : Unread(i)' \subseteq Unread(i) \/ Apart(jobs[i], now)
      PROVE  GapInv'
  <2>1. ASSUME NEW i \in 1..Len(jobs)
        PROVE  Apart(jobs[i], now') \/ Len(jobs) - i + Cardinality(Unread(i)') < Together
    <3>1. CASE Apart(jobs[i], now)
      BY <1>1, <3>1, ApartLater
    <3>2. CASE ~Apart(jobs[i], now)
      <4>1. Cardinality(Unread(i)') <= Cardinality(Unread(i))
        BY <1>1, <3>2, SomeRequests, FS_Subset
      <4>. QED BY <3>2, <4>1 DEF GapInv
    <3>. QED BY <3>1, <3>2
  <2>. QED BY <1>1, <2>1 DEF GapInv
<1>2. ASSUME NEW r \in Requests, Enqueue(r) PROVE GapInv'
  <2>1. now' = now /\ \A p \in Requests \ {r} : req'[p] = req[p]
    BY <1>2, EnqueueShape
  <2>2. UNCHANGED jobs => \A i \in 1..Len(jobs) : Unread(i)' \subseteq Unread(i) \cup {r}
    BY <2>1 DEF Unread, At, Stamp
  <2>3. CASE UNCHANGED jobs /\ req'[r].step \in NotTested
    <3>1. \A i \in 1..Len(jobs) : r \notin Unread(i)'
      BY <2>3 DEF Unread, At, NotTested
    <3>. QED BY <1>1, <2>1, <2>2, <2>3, <3>1
  <2>4. CASE UNCHANGED jobs /\ ReadsNewest(r)
    <3>1. ASSUME NEW i \in 1..Len(jobs) PROVE r \notin Unread(i)'
      <4>1. \E stamp \in req'[r].last : ~(stamp < Stamp(jobs[i]))
        BY <2>4, NewestRead
      <4>. QED BY <2>4, <4>1 DEF Unread, At, ReadsNewest, Stamp
    <3>. QED BY <1>1, <2>1, <2>2, <2>4, <3>1
  <2>5. CASE UNCHANGED jobs /\ PassesInterval(r)
    <3>1. \A i \in 1..Len(jobs) : r \in Unread(i) \/ Apart(jobs[i], now)
      BY <2>5, PassedIsApart
    <3>. QED BY <1>1, <2>1, <2>2, <2>5, <3>1
  <2>6. CASE UNCHANGED jobs /\ PassesCap(r)
    <3>1. \A i \in 1..Len(jobs) : r \in Unread(i)
      BY <2>6 DEF Unread, PassesCap
    <3>. QED BY <1>1, <2>1, <2>2, <2>6, <3>1
  <2>7. CASE Inserts(r)
    <3>. PICK n \in Nat : n = Len(jobs) + 1
      OBVIOUS
    <3>1. /\ Len(jobs') = n /\ jobs'[n] = now
          /\ \A i \in 1..Len(jobs) : jobs'[i] = jobs[i]
      BY <2>7, JobAppended
    <3>2. \A i \in 1..n : Unread(i)' \subseteq Requests \ {r}
      BY <2>7 DEF Unread, At, Inserts
    <3>3. ASSUME NEW i \in 1..Len(jobs)
          PROVE  /\ Apart(jobs[i], now) \/ n - i + Cardinality(Unread(i)') < Together
                 /\ i + Together <= n => Apart(jobs[i], now)
      <4>1. r \in Unread(i)
        BY <2>7 DEF Unread, Inserts
      <4>2. Unread(i)' \subseteq Unread(i) \ {r}
        BY <2>1, <3>1, <3>2 DEF Unread, At, Stamp
      <4>3. Cardinality(Unread(i)') + 1 <= Cardinality(Unread(i))
        BY <4>1, <4>2, OneRequestLess
      <4>4. Apart(jobs[i], now) \/ Len(jobs) - i + Cardinality(Unread(i)) < Together
        BY DEF GapInv
      <4>5. Len(jobs) \in Nat
        BY DEF TypeOK
      <4>6. Unread(i) \subseteq Requests /\ Unread(i)' \subseteq Requests
        BY DEF Unread
      <4>7. Cardinality(Unread(i)) \in Nat /\ Cardinality(Unread(i)') \in Nat
        BY <4>6, SomeRequests
      <4>. QED BY <4>3, <4>4, <4>5, <4>7
    <3>4. Cardinality(Unread(n)') < Together
      <4>1. Unread(n)' \subseteq Requests \ {r}
        BY <3>2
      <4>2. r \in Requests /\ Requests \subseteq Requests
        BY <1>2
      <4>3. \A T : T \subseteq Requests \ {r} => Cardinality(T) + 1 <= Cardinality(Requests)
        BY <4>2, OneRequestLess
      <4>. QED BY <4>1, <4>3 DEF Together
    <3>5. \A i \in 1..n : i \in 1..Len(jobs) \/ i = n
      OBVIOUS
    <3>6. ASSUME NEW i \in 1..n
          PROVE  /\ Apart(jobs'[i], now) \/ n - i + Cardinality(Unread(i)') < Together
                 /\ \A k \in 1..n : i + Together <= k => Apart(jobs'[i], jobs'[k])
      <4>1. CASE i \in 1..Len(jobs)
        <5>1. ASSUME NEW k \in 1..n, i + Together <= k PROVE Apart(jobs[i], jobs'[k])
          <6>1. CASE k \in 1..Len(jobs)
            BY <3>1, <4>1, <5>1, <6>1 DEF GapInv
          <6>2. CASE k = n
            BY <3>1, <3>3, <4>1, <5>1, <6>2
          <6>. QED BY <3>5, <6>1, <6>2
        <5>2. jobs'[i] = jobs[i]
          BY <3>1, <4>1
        <5>. QED BY <3>3, <4>1, <5>1, <5>2
      <4>2. CASE i = n
        BY <3>4, <4>2
      <4>. QED BY <3>5, <4>1, <4>2
    <3>. QED BY <2>1, <3>1, <3>6 DEF GapInv
  <2>. QED BY <1>2, <2>3, <2>4, <2>5, <2>6, <2>7, EnqueueShape
<1>3. CASE UNCHANGED <<jobs, req>> /\ (now' = now \/ now' = now + 1)
  <2>1. \A i : Unread(i)' = Unread(i)
    BY <1>3 DEF Unread, At, Stamp
  <2>. QED BY <1>1, <1>3, <2>1
<1>. QED BY <1>2, <1>3, PaceFrame

\* However many requests are served at once, and whatever the policy is patched
\* to meanwhile, within the shortest interval it may hold, less the second that
\* stamps lose, no more jobs are inserted than one for each request.
THEOREM BurstHolds == Spec => []BurstBounded
<1>1. Init => GapInv
  BY DEF Init, GapInv
<1>2. /\ TypeOK /\ HasJobLeft /\ PolicyInv /\ OrderInv /\ GapInv
      /\ [Next]_vars
      => GapInv'
  BY GapStays
<1>3. TypeOK /\ GapInv => BurstBounded
  <2>. SUFFICES ASSUME TypeOK, GapInv, NEW i \in 1..Len(jobs), i + Together <= Len(jobs)
                PROVE  Apart(jobs[i], jobs[i + Together])
    BY DEF BurstBounded, Apart
  <2>1. Together \in Nat /\ Len(jobs) \in Nat
    BY JobTimes, FS_CardinalityType, CadenceAssumption DEF Together
  <2>2. i + Together \in 1..Len(jobs)
    BY <2>1
  <2>. QED BY <2>1, <2>2 DEF GapInv
<1>. QED BY <1>1, <1>2, <1>3, TypeCorrect, CadenceHolds, PTL DEF Spec

=============================================================================
