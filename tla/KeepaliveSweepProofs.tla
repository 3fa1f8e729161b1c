------------------------ MODULE KeepaliveSweepProofs ------------------------
(***************************************************************************)
(* One keepalive in a period, for any number of accounts, sweeps and jobs. *)
(***************************************************************************)
EXTENDS KeepaliveSweep, SequenceTheorems, TLAPS

\* A stamp of the past, and the due stamp a period after it, but for a second.
StampsFit == \A a \in Accounts : account[a].last <= now
               /\ (account[a].last # Never => account[a].last + Period <= account[a].due + 1)

\* Nothing was read in the future.
ReadsPast == \A job \in UnderWay : job.read <= now

IInv == TypeOK /\ StampsFit /\ ReadsPast /\ OncePerPeriod

\* What a new keepalive must satisfy to keep the invariant.
InTime(job) ==
  /\ job.account \in Accounts /\ job.read <= now
  /\ \/ account[job.account].last = Never
     \/ job.read <= account[job.account].last
     \/ account[job.account].last + Period <= job.read + 1

LEMMA UnderWayType ==
  ASSUME TypeOK
  PROVE  \A job \in UnderWay : job \in Job
<1>1. ASSUME NEW r \in Requests, NEW i \in 1..Len(req[r].rows)
      PROVE  [account |-> req[r].rows[i], read |-> req[r].read] \in Job
  BY <1>1 DEF TypeOK, Request, Job
<1>2. \A i \in 1..Len(queue) : queue[i] \in Job
  BY DEF TypeOK
<1>3. ASSUME worker.step = "running"
      PROVE  [account |-> worker.account, read |-> worker.read] \in Job
  BY <1>3 DEF TypeOK, Job, IdleWorker
<1>. QED BY <1>1, <1>2, <1>3 DEF UnderWay, Queued, Working, Listed

SameStamps == \A a \in Accounts : account'[a].last = account[a].last /\ account'[a].due = account[a].due

\* A step that adds no keepalive but in time, and leaves the stamps and the
\* clock alone, keeps the invariant.
LEMMA Adding ==
  ASSUME IInv, TypeOK', now' = now, SameStamps,
         \A job \in UnderWay' : job \in UnderWay \/ InTime(job)
  PROVE  IInv'
<1>1. \A job \in UnderWay : job \in Job
  BY UnderWayType DEF IInv
<1>2. \A job \in UnderWay' : job.account \in Accounts
  BY <1>1 DEF Job, InTime
<1>3. StampsFit' /\ ReadsPast'
  BY DEF IInv, StampsFit, ReadsPast, InTime, SameStamps
<1>4. OncePerPeriod'
  BY <1>2 DEF IInv, OncePerPeriod, InTime, SameStamps
<1>. QED BY <1>3, <1>4 DEF IInv

LEMMA SweepTypes ==
  ASSUME TypeOK, NEW r \in Requests
  PROVE  /\ req[r] \in Request /\ req[r].rows \in Seq(Accounts) /\ req[r].read \in Nat
         /\ IdleRequest \in Request
  BY DEF TypeOK, Request, IdleRequest

LEMMA SecondRow ==
  ASSUME NEW S, NEW s \in Seq(S), s # << >>
  PROVE  Head(s) \in S /\ Tail(s) \in Seq(S) /\ (Len(s) # 1 => Tail(s) # << >>)
<1>1. Head(s) \in S /\ Tail(s) \in Seq(S) /\ Len(Tail(s)) = Len(s) - 1 /\ Len(s) \in Nat
  OBVIOUS
<1>2. Len(<< >>) = 0
  OBVIOUS
<1>3. Len(s) # 1 => Len(Tail(s)) # 0
  BY <1>1
<1>. QED BY <1>1, <1>2, <1>3

LEMMA WorkerTypes ==
  ASSUME TypeOK, worker.step # "idle"
  PROVE  worker.account \in Accounts /\ worker.read \in Nat
  BY DEF TypeOK, IdleWorker

LEMMA ContinueType ==
  ASSUME TypeOK, NEW r \in Requests, NEW q \in Request, Continue(r, q), q.step # "idle" => q.rows # << >>
  PROVE  req' \in [Requests -> Request] /\ \A s \in Requests : ~At(s, "idle")' => req'[s].rows # << >>
  BY DEF Continue, TypeOK, At

LEMMA FinishType ==
  ASSUME TypeOK, NEW r \in Requests, Finish(r)
  PROVE  req' \in [Requests -> Request] /\ \A s \in Requests : ~At(s, "idle")' => req'[s].rows # << >>
  BY ContinueType, SweepTypes DEF Finish, IdleRequest

LEMMA StatusType ==
  ASSUME TypeOK, NEW a \in Accounts, NEW status \in {"bound", "in_use", "disabled"}, SetStatus(a, status)
  PROVE  mailbox' \in [Accounts -> Mailbox]
<1>1. mailbox[a] \in Mailbox
  BY DEF TypeOK
<1>2. [mailbox[a] EXCEPT !.status = status] \in Mailbox
  BY <1>1 DEF Mailbox
<1>3. mailbox' = [mailbox EXCEPT ![a] = [mailbox[a] EXCEPT !.status = status]]
  BY DEF SetStatus
<1>. QED BY <1>2, <1>3 DEF TypeOK

LEMMA TypeStep ==
  ASSUME TypeOK, [Next]_vars
  PROVE  TypeOK'
<1>1. ASSUME NEW r \in Requests, NEW limit \in Limits, SweepCall(r, limit)
      PROVE  TypeOK'
  <2>1. PICK n \in 1..limit : \E rows \in [1..n -> {a \in Accounts : Due(a)}] :
          Continue(r, [step |-> "test", rows |-> rows, read |-> now])
    BY <1>1 DEF SweepCall
  <2>2. PICK rows \in [1..n -> {a \in Accounts : Due(a)}] :
          Continue(r, [step |-> "test", rows |-> rows, read |-> now])
    BY <2>1
  <2>3. n \in Nat \ {0}
    BY SweepAssumption
  <2>4. rows \in Seq(Accounts) /\ rows # << >>
    BY <2>3
  <2>5. [step |-> "test", rows |-> rows, read |-> now] \in Request
    BY <2>4 DEF TypeOK, Request
  <2>. QED BY <1>1, <2>2, <2>4, <2>5, ContinueType DEF SweepCall, TypeOK
<1>2. ASSUME NEW r \in Requests, SweepTest(r)
      PROVE  TypeOK'
  <2>. DEFINE q == [req[r] EXCEPT !.step = "insert"]
  <2>1. q \in Request /\ q.rows = req[r].rows
    BY SweepTypes DEF Request
  <2>2. req[r].rows # << >>
    BY <1>2 DEF SweepTest, TypeOK, At
  <2>3. Continue(r, q) \/ Finish(r)
    BY <1>2 DEF SweepTest
  <2>. HIDE DEF q
  <2>4. req' \in [Requests -> Request] /\ \A s \in Requests : ~At(s, "idle")' => req'[s].rows # << >>
    BY <2>1, <2>2, <2>3, ContinueType, FinishType
  <2>. QED BY <1>2, <2>4 DEF SweepTest, TypeOK
<1>3. ASSUME NEW r \in Requests, SweepInsert(r)
      PROVE  TypeOK'
  <2>. DEFINE rows == req[r].rows
              q == [step |-> "test", rows |-> Tail(rows), read |-> req[r].read]
              job == [account |-> Head(rows), read |-> req[r].read]
  <2>1. rows \in Seq(Accounts) /\ rows # << >> /\ req[r].read \in Nat
    BY <1>3, SweepTypes DEF SweepInsert, TypeOK, At
  <2>2. Head(rows) \in Accounts /\ Tail(rows) \in Seq(Accounts) /\ (Len(rows) # 1 => Tail(rows) # << >>)
    BY <2>1, SecondRow
  <2>3. q \in Request /\ (Len(rows) # 1 => q.rows # << >>)
    BY <2>1, <2>2 DEF Request
  <2>4. job \in Job
    BY <2>1, <2>2 DEF Job
  <2>5. queue' = Append(queue, job) /\ SetStatus(Head(rows), "in_use")
    BY <1>3 DEF SweepInsert
  <2>6. (Len(rows) = 1 /\ Finish(r)) \/ (Len(rows) # 1 /\ Continue(r, q))
    BY <1>3 DEF SweepInsert
  <2>. HIDE DEF rows, q, job
  <2>7. req' \in [Requests -> Request] /\ \A s \in Requests : ~At(s, "idle")' => req'[s].rows # << >>
    BY <2>3, <2>6, ContinueType, FinishType
  <2>8. queue' \in Seq(Job)
    BY <2>4, <2>5 DEF TypeOK
  <2>9. mailbox' \in [Accounts -> Mailbox]
    BY <2>2, <2>5, StatusType
  <2>. QED BY <1>3, <2>7, <2>8, <2>9 DEF SweepInsert, TypeOK
<1>4. ASSUME Claim PROVE TypeOK'
  <2>1. Head(queue) \in Job /\ Tail(queue) \in Seq(Job)
    BY <1>4 DEF Claim, TypeOK
  <2>2. worker' \in [step : {"running", "restore"}, account : Accounts, read : Nat]
    BY <1>4, <2>1 DEF Claim, Job
  <2>. QED BY <1>4, <2>1, <2>2 DEF Claim, TypeOK, At
<1>5. ASSUME Succeed PROVE TypeOK'
  <2>1. worker.account \in Accounts /\ worker.read \in Nat
    BY <1>5, WorkerTypes DEF Succeed
  <2>2. PICK second \in {0, 1} :
          account' = [account EXCEPT ![worker.account] =
                        [account[worker.account] EXCEPT !.last = now, !.due = now - second + Period]]
    BY <1>5 DEF Succeed
  <2>3. account' \in [Accounts -> Account]
    <3>1. account[worker.account] \in Account
      BY <2>1 DEF TypeOK
    <3>2. now - second + Period \in Nat /\ now \in Nat
      BY SweepAssumption DEF TypeOK
    <3>3. [account[worker.account] EXCEPT !.last = now, !.due = now - second + Period] \in Account
      BY <3>1, <3>2 DEF Account
    <3>. QED BY <2>2, <3>3 DEF TypeOK
  <2>. QED BY <1>5, <2>1, <2>3 DEF Succeed, TypeOK, At
<1>6. ASSUME Restore PROVE TypeOK'
  BY <1>6, WorkerTypes, StatusType DEF Restore, TypeOK, At
<1>7. ASSUME NEW tokenDead \in BOOLEAN, Fail(tokenDead) PROVE TypeOK'
  <2>1. worker.account \in Accounts
    BY <1>7, WorkerTypes DEF Fail
  <2>. DEFINE fails == IF mailbox[worker.account].fails = MaxFail THEN MaxFail ELSE mailbox[worker.account].fails + 1
              dead == tokenDead \/ fails = MaxFail
              row == [status |-> IF dead THEN "disabled" ELSE "bound",
                      health |-> IF dead THEN "dead" ELSE "cooling",
                      fails |-> fails,
                      cooldown |-> now + Cooldown]
  <2>2. mailbox[worker.account].fails \in 0..MaxFail
    BY <2>1 DEF TypeOK, Mailbox
  <2>3. fails \in 0..MaxFail /\ now + Cooldown \in Nat
    BY <2>2, SweepAssumption DEF TypeOK
  <2>4. row \in Mailbox
    BY <2>3 DEF Mailbox
  <2>5. mailbox' = [mailbox EXCEPT ![worker.account] = row]
    BY <1>7 DEF Fail
  <2>. HIDE DEF row
  <2>. QED BY <1>7, <2>4, <2>5 DEF Fail, TypeOK, At, IdleWorker
<1>8. ASSUME NEW value \in BOOLEAN, SetPaused(value) PROVE TypeOK'
  BY <1>8 DEF SetPaused, TypeOK, At
<1>9. ASSUME Tick PROVE TypeOK'
  BY <1>9 DEF Tick, TypeOK, At
<1>10. ASSUME UNCHANGED vars PROVE TypeOK'
  BY <1>10 DEF vars, TypeOK, At
<1>11. ASSUME NEW r \in Requests, NEW a \in Accounts, KeepaliveCall(r, a) PROVE TypeOK'
  <2>1. <<a>> \in Seq(Accounts) /\ <<a>> # << >>
    OBVIOUS
  <2>2. [step |-> "test", rows |-> <<a>>, read |-> Named] \in Request
    BY <2>1 DEF Request, Named
  <2>. QED BY <1>11, <2>1, <2>2, ContinueType DEF KeepaliveCall, TypeOK
<1>12. ASSUME NEW r \in Requests, LeaseRefused(r) PROVE TypeOK'
  BY <1>12, FinishType DEF LeaseRefused, TypeOK
<1>13. ASSUME NEW a \in Accounts, Disable(a) PROVE TypeOK'
  <2>1. account[a] \in Account
    BY DEF TypeOK
  <2>2. [account[a] EXCEPT !.active = FALSE] \in Account
    BY <2>1 DEF Account
  <2>3. account' \in [Accounts -> Account]
    BY <1>13, <2>2 DEF Disable, TypeOK
  <2>4. mailbox' \in [Accounts -> Mailbox]
    BY <1>13, StatusType DEF Disable, TypeOK
  <2>. QED BY <1>13, <2>3, <2>4 DEF Disable, TypeOK, At
<1>14. ASSUME Restart PROVE TypeOK'
  <2>1. req' \in [Requests -> Request] /\ \A r \in Requests : req'[r].step = "idle"
    BY <1>14, SweepTypes DEF Restart, IdleRequest
  <2>. QED BY <1>14, <2>1 DEF Restart, TypeOK, At
<1>. QED BY <1>1, <1>2, <1>3, <1>4, <1>5, <1>6, <1>7, <1>8, <1>9, <1>10, <1>11, <1>12, <1>13, <1>14
         DEF Next, Serve, Work

LEMMA InitHolds == Init => IInv
<1>1. ASSUME Init PROVE TypeOK
  <2>1. IdleRequest \in Request /\ IdleRequest.step = "idle"
    BY DEF IdleRequest, Request
  <2>2. [status |-> "bound", health |-> "ok", fails |-> 0, cooldown |-> Never] \in Mailbox
    BY SweepAssumption DEF Mailbox, Never
  <2>3. ASSUME NEW due \in 1..Period PROVE [active |-> TRUE, last |-> Never, due |-> due] \in Account
    BY SweepAssumption DEF Account, Never
  <2>4. account \in [Accounts -> Account] /\ mailbox \in [Accounts -> Mailbox]
    BY <1>1, <2>2, <2>3 DEF Init
  <2>5. req \in [Requests -> Request] /\ \A r \in Requests : At(r, "idle")
    BY <1>1, <2>1 DEF Init, At
  <2>6. queue \in Seq(Job) /\ now \in Nat \ {0} /\ paused \in BOOLEAN /\ worker = IdleWorker
    <3>1. queue = << >> /\ now = 1 /\ paused = FALSE /\ worker = IdleWorker
      BY <1>1 DEF Init
    <3>2. << >> \in Seq(Job)
      OBVIOUS
    <3>3. paused \in BOOLEAN
      BY <3>1, Zenon
    <3>4. now \in Nat \ {0}
      BY <3>1
    <3>. QED BY <3>1, <3>2, <3>3, <3>4, Zenon
  <2>. QED BY <2>4, <2>5, <2>6 DEF TypeOK
<1>2. ASSUME Init PROVE UnderWay = {}
  BY <1>2 DEF Init, UnderWay, Queued, Working, Listed, IdleRequest, IdleWorker
<1>3. ASSUME Init PROVE StampsFit
  <2>1. \A a \in Accounts : account[a].last = Never
    BY <1>3 DEF Init
  <2>. QED BY <1>3, <2>1 DEF Init, StampsFit, Never
<1>. QED BY <1>1, <1>2, <1>3 DEF IInv, ReadsPast, OncePerPeriod

\* What a step takes on was under way before, or is in time.
LEMMA NextHolds ==
  ASSUME IInv, [Next]_vars
  PROVE  IInv'
<1>. USE DEF IInv
<1>1. TypeOK'
  BY TypeStep
<1>2. ASSUME NEW r \in Requests, NEW limit \in Limits, SweepCall(r, limit)
      PROVE  IInv'
  <2>1. PICK n \in 1..limit : \E rows \in [1..n -> {a \in Accounts : Due(a)}] :
          Continue(r, [step |-> "test", rows |-> rows, read |-> now])
    BY <1>2 DEF SweepCall
  <2>2. PICK rows \in [1..n -> {a \in Accounts : Due(a)}] :
          Continue(r, [step |-> "test", rows |-> rows, read |-> now])
    BY <2>1
  <2>3. Len(rows) = n /\ \A i \in 1..n : rows[i] \in Accounts /\ Due(rows[i])
    BY SweepAssumption
  <2>4. \A i \in 1..n : InTime([account |-> rows[i], read |-> now])
    <3>. SUFFICES ASSUME NEW i \in 1..n PROVE InTime([account |-> rows[i], read |-> now])
      OBVIOUS
    <3>1. rows[i] \in Accounts /\ account[rows[i]].due <= now
      BY <2>3 DEF Due
    <3>2. account[rows[i]] \in Account
      BY <3>1 DEF TypeOK
    <3>3. account[rows[i]].last \in Nat /\ account[rows[i]].due \in Nat /\ Period \in Nat /\ now \in Nat
      BY <3>2, SweepAssumption DEF Account, TypeOK
    <3>4. account[rows[i]].last # Never => account[rows[i]].last + Period <= account[rows[i]].due + 1
      BY <3>1 DEF StampsFit
    <3>5. account[rows[i]].last # Never => account[rows[i]].last + Period <= now + 1
      BY <3>1, <3>3, <3>4
    <3>. QED BY <3>1, <3>3, <3>5 DEF InTime
  <2>5. req'[r] = [step |-> "test", rows |-> rows, read |-> now] /\ \A s \in Requests \ {r} : req'[s] = req[s]
    BY <2>2 DEF Continue, TypeOK
  <2>6. \A job \in Listed(r)' : InTime(job)
    BY <2>3, <2>4, <2>5 DEF Listed
  <2>7. \A s \in Requests \ {r} : Listed(s)' = Listed(s)
    BY <2>5 DEF Listed
  <2>8. Queued' = Queued /\ Working' = Working
    BY <1>2 DEF SweepCall, Queued, Working
  <2>. QED BY <1>1, <1>2, <2>6, <2>7, <2>8, Adding DEF SweepCall, SameStamps, UnderWay
<1>3. ASSUME NEW r \in Requests, SweepTest(r)
      PROVE  IInv'
  <2>1. Listed(r)' \subseteq Listed(r) /\ \A s \in Requests \ {r} : Listed(s)' = Listed(s)
    <3>. DEFINE q == [req[r] EXCEPT !.step = "insert"]
    <3>1. q.rows = req[r].rows /\ q.read = req[r].read
      BY SweepTypes DEF Request
    <3>2. Continue(r, q) \/ Continue(r, IdleRequest)
      BY <1>3 DEF SweepTest, Finish
    <3>. HIDE DEF q
    <3>3. req'[r] = q \/ req'[r] = IdleRequest
      BY <3>2 DEF Continue, TypeOK
    <3>4. \A s \in Requests \ {r} : req'[s] = req[s]
      BY <3>2 DEF Continue, TypeOK
    <3>5. \A s \in Requests \ {r} : Listed(s)' = Listed(s)
      BY <3>4 DEF Listed
    <3>6. ASSUME req'[r] = q PROVE Listed(r)' = Listed(r)
      BY <3>1, <3>6 DEF Listed
    <3>7. ASSUME req'[r] = IdleRequest PROVE Listed(r)' = {}
      BY <3>7 DEF Listed, IdleRequest
    <3>. QED BY <3>3, <3>5, <3>6, <3>7
  <2>2. Queued' = Queued /\ Working' = Working
    BY <1>3 DEF SweepTest, Queued, Working
  <2>. QED BY <1>1, <1>3, <2>1, <2>2, Adding DEF SweepTest, SameStamps, UnderWay
<1>4. ASSUME NEW r \in Requests, SweepInsert(r)
      PROVE  IInv'
  <2>. DEFINE rows == req[r].rows
              q == [step |-> "test", rows |-> Tail(rows), read |-> req[r].read]
              job == [account |-> Head(rows), read |-> req[r].read]
  <2>1. rows \in Seq(Accounts) /\ rows # << >>
    BY <1>4, SweepTypes DEF SweepInsert, TypeOK, At
  <2>2. job \in Listed(r)
    BY <2>1 DEF Listed
  <2>3. Continue(r, q) \/ Continue(r, IdleRequest)
    BY <1>4 DEF SweepInsert, Finish
  <2>4. \A s \in Requests \ {r} : Listed(s)' = Listed(s)
    BY <2>3 DEF Continue, TypeOK, Listed
  <2>5. Listed(r)' \subseteq Listed(r)
    <3>1. req'[r] = q \/ req'[r] = IdleRequest
      BY <2>3 DEF Continue, TypeOK
    <3>2. Len(Tail(rows)) = Len(rows) - 1 /\ \A i \in 1..(Len(rows) - 1) : Tail(rows)[i] = rows[i + 1]
      BY <2>1
    <3>3. \A i \in 1..(Len(rows) - 1) : i + 1 \in 1..Len(rows)
      BY <2>1
    <3>4. CASE req'[r] = IdleRequest
      BY <3>4 DEF Listed, IdleRequest
    <3>5. CASE req'[r] = q
      BY <3>2, <3>3, <3>5 DEF Listed
    <3>. QED BY <3>1, <3>4, <3>5
  <2>6. Queued' = Queued \cup {job}
    <3>1. queue' = Append(queue, job) /\ queue \in Seq(Job)
      BY <1>4 DEF SweepInsert, TypeOK
    <3>. HIDE DEF job
    <3>2. Len(queue') = Len(queue) + 1 /\ queue'[Len(queue) + 1] = job
          /\ \A i \in 1..Len(queue) : queue'[i] = queue[i]
      BY <3>1
    <3>. QED BY <3>1, <3>2 DEF Queued
  <2>7. Working' = Working
    BY <1>4 DEF SweepInsert, Working
  <2>. HIDE DEF rows, q, job
  <2>. QED BY <1>1, <1>4, <2>2, <2>4, <2>5, <2>6, <2>7, Adding DEF SweepInsert, SameStamps, UnderWay
<1>5. ASSUME Claim PROVE IInv'
  <2>1. queue \in Seq(Job) /\ queue # << >>
    BY <1>5 DEF Claim, TypeOK
  <2>2. Head(queue) \in Queued /\ Queued' \subseteq Queued
    <3>1. Len(Tail(queue)) = Len(queue) - 1 /\ \A i \in 1..(Len(queue) - 1) : Tail(queue)[i] = queue[i + 1]
      BY <2>1
    <3>2. \A i \in 1..(Len(queue) - 1) : i + 1 \in 1..Len(queue)
      BY <2>1
    <3>. QED BY <1>5, <2>1, <3>1, <3>2 DEF Claim, Queued
  <2>3. Working' \subseteq Queued
    <3>1. Head(queue) \in Job
      BY <2>1
    <3>2. Head(queue) = [account |-> Head(queue).account, read |-> Head(queue).read]
      BY <3>1 DEF Job
    <3>. QED BY <1>5, <2>2, <3>2 DEF Claim, Working
  <2>4. \A s \in Requests : Listed(s)' = Listed(s)
    BY <1>5 DEF Claim, Listed
  <2>. QED BY <1>1, <1>5, <2>2, <2>3, <2>4, Adding DEF Claim, SameStamps, UnderWay
<1>6. ASSUME Succeed PROVE IInv'
  <2>1. worker.account \in Accounts
    BY <1>6, WorkerTypes DEF Succeed
  <2>2. /\ account'[worker.account].last = now /\ now + Period <= account'[worker.account].due + 1
        /\ \A a \in Accounts \ {worker.account} : account'[a] = account[a]
    <3>1. PICK second \in {0, 1} :
            account' = [account EXCEPT ![worker.account] =
                          [account[worker.account] EXCEPT !.last = now, !.due = now - second + Period]]
      BY <1>6 DEF Succeed
    <3>2. account[worker.account] \in Account
      BY <2>1 DEF TypeOK
    <3>. DEFINE row == [account[worker.account] EXCEPT !.last = now, !.due = now - second + Period]
    <3>3. row.last = now /\ row.due = now - second + Period
      BY <3>2 DEF Account
    <3>4. now + Period <= (now - second + Period) + 1
      BY SweepAssumption DEF TypeOK
    <3>. HIDE DEF row
    <3>5. account'[worker.account] = row /\ \A a \in Accounts \ {worker.account} : account'[a] = account[a]
      BY <2>1, <3>1 DEF TypeOK, row
    <3>. QED BY <3>3, <3>4, <3>5
  <2>3. UnderWay' \subseteq UnderWay
    BY <1>6 DEF Succeed, UnderWay, Queued, Working, Listed
  <2>4. now' = now
    BY <1>6 DEF Succeed
  <2>5. StampsFit'
    BY <2>2, <2>4 DEF StampsFit, TypeOK
  <2>6. \A job \in UnderWay : job \in Job
    BY UnderWayType
  <2>7. OncePerPeriod'
    BY <2>2, <2>3, <2>6 DEF OncePerPeriod, ReadsPast, Job
  <2>. QED BY <1>1, <2>3, <2>4, <2>5, <2>7 DEF ReadsPast
<1>7. CASE Restore \/ \E tokenDead \in BOOLEAN : Fail(tokenDead)
  <2>1. UnderWay' \subseteq UnderWay /\ UNCHANGED <<now, account>>
    <3>1. UNCHANGED <<now, account, queue, req>> /\ worker'.step = "idle"
      <4>1. CASE Restore
        BY <4>1 DEF Restore, IdleWorker
      <4>2. ASSUME NEW tokenDead \in BOOLEAN, Fail(tokenDead)
            PROVE  UNCHANGED <<now, account, queue, req>> /\ worker'.step = "idle"
        BY <4>2 DEF Fail, IdleWorker
      <4>. QED BY <1>7, <4>1, <4>2
    <3>2. Queued' = Queued /\ Working' = {} /\ \A r \in Requests : Listed(r)' = Listed(r)
      BY <3>1 DEF Queued, Working, Listed
    <3>. QED BY <3>1, <3>2 DEF UnderWay
  <2>. QED BY <1>1, <2>1, Adding DEF SameStamps
<1>8. CASE UNCHANGED vars \/ \E value \in BOOLEAN : SetPaused(value)
  <2>1. UnderWay' = UnderWay /\ UNCHANGED <<now, account>>
    BY <1>8 DEF vars, SetPaused, UnderWay, Queued, Working, Listed
  <2>. QED BY <1>1, <2>1, Adding DEF SameStamps
<1>9. ASSUME Tick PROVE IInv'
  <2>1. now' = now + 1 /\ UNCHANGED account
    BY <1>9 DEF Tick
  <2>2. UnderWay' = UnderWay
    BY <1>9 DEF Tick, UnderWay, Queued, Working, Listed
  <2>3. \A job \in UnderWay : job \in Job
    BY UnderWayType
  <2>4. \A a \in Accounts : account[a].last \in Nat
    BY DEF TypeOK, Account
  <2>5. StampsFit' /\ ReadsPast' /\ OncePerPeriod'
    BY <2>1, <2>2, <2>3, <2>4 DEF StampsFit, ReadsPast, OncePerPeriod, TypeOK, Job
  <2>. QED BY <1>1, <2>5
<1>10. ASSUME NEW r \in Requests, NEW a \in Accounts, KeepaliveCall(r, a)
       PROVE  IInv'
  <2>. DEFINE q == [step |-> "test", rows |-> <<a>>, read |-> Named]
  <2>1. req'[r] = q /\ \A s \in Requests \ {r} : req'[s] = req[s]
    BY <1>10 DEF KeepaliveCall, Continue, TypeOK
  <2>2. account[a].last \in Nat
    BY DEF TypeOK, Account
  <2>3. InTime([account |-> a, read |-> Named])
    BY <2>2 DEF InTime, Named, TypeOK
  <2>4. Listed(r)' = {[account |-> a, read |-> Named]}
    BY <2>1 DEF Listed
  <2>5. \A s \in Requests \ {r} : Listed(s)' = Listed(s)
    BY <2>1 DEF Listed
  <2>6. Queued' = Queued /\ Working' = Working
    BY <1>10 DEF KeepaliveCall, Queued, Working
  <2>. QED BY <1>1, <1>10, <2>3, <2>4, <2>5, <2>6, Adding DEF KeepaliveCall, SameStamps, UnderWay
<1>11. ASSUME NEW r \in Requests, LeaseRefused(r) PROVE IInv'
  <2>1. req'[r] = IdleRequest /\ \A s \in Requests \ {r} : req'[s] = req[s]
    BY <1>11 DEF LeaseRefused, Finish, Continue, TypeOK
  <2>2. Listed(r)' = {} /\ \A s \in Requests \ {r} : Listed(s)' = Listed(s)
    BY <2>1 DEF Listed, IdleRequest
  <2>3. Queued' = Queued /\ Working' = Working
    BY <1>11 DEF LeaseRefused, Queued, Working
  <2>. QED BY <1>1, <1>11, <2>2, <2>3, Adding DEF LeaseRefused, SameStamps, UnderWay
<1>12. ASSUME NEW a \in Accounts, Disable(a) PROVE IInv'
  <2>1. UnderWay' = UnderWay /\ now' = now
    BY <1>12 DEF Disable, UnderWay, Queued, Working, Listed
  <2>2. SameStamps
    <3>1. account[a] \in Account /\ account' = [account EXCEPT ![a] = [account[a] EXCEPT !.active = FALSE]]
      BY <1>12 DEF Disable, TypeOK
    <3>. QED BY <3>1 DEF SameStamps, Account, TypeOK
  <2>. QED BY <1>1, <2>1, <2>2, Adding
<1>13. ASSUME Restart PROVE IInv'
  <2>1. \A r \in Requests : Listed(r)' = {}
    BY <1>13 DEF Restart, Listed, IdleRequest
  <2>2. Queued' = Queued /\ Working' = {}
    BY <1>13 DEF Restart, Queued, Working, IdleWorker
  <2>. QED BY <1>1, <1>13, <2>1, <2>2, Adding DEF Restart, SameStamps, UnderWay
<1>. QED BY <1>2, <1>3, <1>4, <1>5, <1>6, <1>7, <1>8, <1>9, <1>10, <1>11, <1>12, <1>13 DEF Next, Serve, Work

LEMMA AlwaysHolds == Spec => []IInv
<1>1. IInv /\ [Next]_vars => IInv'
  BY NextHolds
<1>. QED BY <1>1, InitHolds, PTL DEF Spec

\* The sweep's state has its types; a request that is served has rows left, so
\* enqueue_keepalive_due never enqueues from an empty list.
THEOREM TypeCorrect == Spec => []TypeOK
<1>1. IInv => TypeOK
  BY DEF IInv
<1>. QED BY <1>1, AlwaysHolds, PTL

\* However many sweeps are served at once, and whatever fails, is paused,
\* disabled or lost in a restart: a sweep that begins after an account was kept
\* does not take it along again before its period is over, but for the second
\* between its two stamps (store.py, enqueue_keepalive_due and
\* finish_job_success).
THEOREM KeptOncePerPeriod == Spec => []OncePerPeriod
<1>1. IInv => OncePerPeriod
  BY DEF IInv
<1>. QED BY <1>1, AlwaysHolds, PTL
=============================================================================
