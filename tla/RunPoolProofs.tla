--------------------------- MODULE RunPoolProofs ---------------------------
(***************************************************************************)
(* For any number of mailboxes, children and starts of the script: what    *)
(* the lists say is true, one scheduler signs up once with a mailbox, does *)
(* not pass its target by more than its children, and gives up last.       *)
(***************************************************************************)
EXTENDS RunPoolProperties, FiniteSetTheorems, TLAPS

(***************************************************************************)
(* Types.                                                                  *)
(***************************************************************************)
LEMMA Numbers == Indices \subseteq 0..MaxIndex /\ 0 \in 0..MaxIndex
  BY RunPoolAssumption DEF Indices

LEMMA StepNames ==
  /\ \A step \in {"top", "reap", "mark", "decide", "launch", "keep", "stopped"} : step \in SchedSteps
  /\ \A step \in {"registering", "registered", "listed", "ok", "error", "killed", "orphan"} :
       step \in Running \cup Ended \cup {"orphan"}
  BY DEF SchedSteps, Running, Ended

LEMMA SchedParts ==
  ASSUME TypeOK
  PROVE  sched.step \in SchedSteps /\ sched.todo \subseteq Indices /\ sched.index \in 0..MaxIndex
  BY DEF TypeOK, Sched

LEMMA GotoType ==
  ASSUME NEW step \in SchedSteps, NEW todo \in SUBSET Indices, NEW index \in 0..MaxIndex,
         Goto(step, todo, index)
  PROVE  sched' \in Sched
  BY DEF Goto, Sched

LEMMA RunParts ==
  ASSUME TypeOK, NEW p \in runs
  PROVE  p.index \in Indices /\ p.owned \in BOOLEAN
  BY DEF TypeOK, Run

LEMMA RunMoves ==
  ASSUME TypeOK, NEW p \in runs, NEW step \in Running \cup Ended \cup {"orphan"}
  PROVE  [p EXCEPT !.step = step] \in Run
  BY DEF TypeOK, Run

LEMMA SignalParts ==
  ASSUME TypeOK, NEW p \in runs
  PROVE  /\ Killed(p).index = p.index /\ Killed(p).owned = p.owned /\ Killed(p).step = "killed"
         /\ Orphaned(p).index = p.index /\ ~Orphaned(p).owned /\ Orphaned(p).step = "orphan"
  BY DEF Killed, Orphaned, TypeOK, Run

\* Where the scheduler goes next.
LEMMA SchedTypes ==
  ASSUME TypeOK, SchedNext
  PROVE  sched' \in Sched
<1>. USE Numbers, StepNames, SchedParts, GotoType
<1>1. CASE LoopTop
  <2>1. {p.index : p \in Workers} \subseteq Indices
    BY RunParts DEF Workers
  <2>. QED BY <1>1, <2>1 DEF LoopTop
<1>2. ASSUME NEW p \in runs, LookAt(p) \/ Reap(p) PROVE sched' \in Sched
  <2>1. p.index \in 0..MaxIndex /\ sched.todo \ {p.index} \subseteq Indices
    BY RunParts
  <2>. QED BY <1>2, <2>1 DEF LookAt, Reap
<1>3. CASE MarkFailed \/ Wait \/ Decide \/ NothingToClaim \/ Launch
  BY <1>3 DEF MarkFailed, Wait, Decide, NothingToClaim, Launch
<1>4. CASE Claim
  BY <1>4 DEF Claim
<1>5. CASE KeepPass
  BY <1>5 DEF KeepPass, TypeOK
<1>6. CASE KeepOne
  <2>1. PICK i \in sched.todo : Goto("keep", sched.todo \ {i}, i)
    BY <1>6 DEF KeepOne
  <2>2. i \in 0..MaxIndex /\ sched.todo \ {i} \subseteq Indices
    OBVIOUS
  <2>. QED BY <2>1, <2>2
<1>. QED BY <1>1, <1>2, <1>3, <1>4, <1>5, <1>6 DEF SchedNext

\* What the scheduler does to the lists and the processes.
LEMMA SchedWrites ==
  ASSUME SchedNext
  PROVE  /\ UNCHANGED <<live, files, starts, signalled>>
         /\ \/ failed' = failed
            \/ At("mark") /\ failed' = failed \cup {sched.index} /\ UNCHANGED <<inflight, runs>>
         /\ \/ UNCHANGED <<inflight, runs>>
            \/ \E p \in Workers : /\ inflight' = inflight \ {p.index} /\ runs' = runs \ {p}
                                  /\ failed' = failed
            \/ \E i \in Indices \ Used : inflight' = inflight \cup {i} /\ UNCHANGED <<failed, runs>>
            \/ /\ At("launch") /\ UNCHANGED <<failed, inflight>>
               /\ runs' = runs \cup {[index |-> sched.index, owned |-> TRUE, step |-> "registering"]}
<1>. USE DEF lists
<1>1. CASE LoopTop \/ Wait \/ Decide \/ NothingToClaim \/ KeepPass \/ KeepOne
  BY <1>1 DEF LoopTop, Wait, Decide, NothingToClaim, KeepPass, KeepOne
<1>2. CASE MarkFailed
  BY <1>2 DEF MarkFailed
<1>3. CASE Claim
  BY <1>3 DEF Claim
<1>4. CASE Launch
  BY <1>4 DEF Launch
<1>5. CASE \E p \in runs : LookAt(p) \/ Reap(p)
  BY <1>5 DEF LookAt, Reap, Workers
<1>. QED BY <1>1, <1>2, <1>3, <1>4, <1>5 DEF SchedNext

\* What a process does.
LEMMA RunWrites ==
  ASSUME NEW p \in runs, RunNext(p)
  PROVE  /\ UNCHANGED <<failed, inflight, sched, starts, signalled>>
         /\ live' = live \/ (p.step = "registered" /\ live' = live \cup {p.index})
         /\ files' = files \/ files' = files \cup {p.index}
  BY DEF RunNext, AppendLive, Exits, RegisterSucceeds, RegisterFails, OrphanEnds, lists

LEMMA RunBecomes ==
  ASSUME NEW p \in runs, RunNext(p)
  PROVE  \/ runs' = runs \ {p}
         \/ \E step \in {"registered", "error", "listed", "ok"} : Becomes(p, [p EXCEPT !.step = step])
<1>1. CASE RegisterSucceeds(p)
  <2>1. Becomes(p, [p EXCEPT !.step = "registered"])
    BY <1>1, Zenon DEF RegisterSucceeds
  <2>. QED BY <2>1, Zenon
<1>2. CASE RegisterFails(p)
  <2>1. Becomes(p, [p EXCEPT !.step = "error"])
    BY <1>2, Zenon DEF RegisterFails
  <2>. QED BY <2>1, Zenon
<1>3. CASE AppendLive(p)
  <2>1. Becomes(p, [p EXCEPT !.step = "listed"])
    BY <1>3, Zenon DEF AppendLive
  <2>. QED BY <2>1, Zenon
<1>4. CASE Exits(p)
  <2>1. Becomes(p, [p EXCEPT !.step = "ok"])
    BY <1>4, Zenon DEF Exits
  <2>. QED BY <2>1, Zenon
<1>5. CASE OrphanEnds(p)
  BY <1>5 DEF OrphanEnds
<1>. QED BY <1>1, <1>2, <1>3, <1>4, <1>5 DEF RunNext

\* The processes that are there afterwards.
LEMMA NewRun ==
  ASSUME NEW p \in runs, RunNext(p), NEW q \in runs', q \notin runs
  PROVE  \E step \in {"registered", "error", "listed", "ok"} : q = [p EXCEPT !.step = step]
<1>1. PICK step \in {"registered", "error", "listed", "ok"} : Becomes(p, [p EXCEPT !.step = step])
  BY RunBecomes, Zenon
<1>2. q = [p EXCEPT !.step = step]
  BY <1>1 DEF Becomes
<1>. QED BY <1>2, Zenon

LEMMA InHandStays ==
  ASSUME TypeOK, InHand, [Next]_vars
  PROVE  InHand'
<1>1. CASE SchedNext
  <2>1. ASSUME NEW p \in runs, LookAt(p) \/ Reap(p) PROVE InHand'
    BY <2>1, RunParts DEF LookAt, Reap, Goto, InHand
  <2>2. CASE LoopTop \/ MarkFailed \/ Wait \/ Decide \/ NothingToClaim \/ Launch \/ KeepPass \/ KeepOne
    BY <2>2 DEF LoopTop, MarkFailed, Wait, Decide, NothingToClaim, Launch, KeepPass, KeepOne,
                Goto, InHand
  <2>3. CASE Claim
    BY <2>3 DEF Claim, Goto, InHand
  <2>. QED BY <1>1, <2>1, <2>2, <2>3 DEF SchedNext
<1>2. ASSUME NEW p \in runs, RunNext(p) PROVE InHand'
  BY <1>2, RunWrites DEF InHand
<1>3. ASSUME NEW stops \in BOOLEAN, Term(stops) \/ Kill PROVE InHand'
  BY <1>3, SchedParts DEF Term, Kill, InHand, TypeOK, Sched
<1>4. CASE Start
  BY <1>4 DEF Start, Goto, InHand
<1>5. CASE UNCHANGED vars
  BY <1>5 DEF vars, InHand
<1>. QED BY <1>1, <1>2, <1>3, <1>4, <1>5 DEF Next

LEMMA TypesStay ==
  ASSUME TypeOK, InHand, [Next]_vars
  PROVE  TypeOK'
<1>1. CASE SchedNext
  <2>1. live' \subseteq Indices /\ files' \subseteq Indices /\ starts' \in Nat \ {0} /\ signalled' \in BOOLEAN
    BY <1>1, SchedWrites DEF TypeOK
  <2>2. failed' \subseteq Indices
    BY <1>1, SchedWrites DEF TypeOK, InHand, At
  <2>3. inflight' \subseteq Indices
    BY <1>1, SchedWrites DEF TypeOK
  <2>4. runs' \subseteq Run
    <3>1. At("launch") => [index |-> sched.index, owned |-> TRUE, step |-> "registering"] \in Run
      BY StepNames DEF At, InHand, Run
    <3>. QED BY <1>1, <3>1, SchedWrites DEF TypeOK
  <2>. QED BY <1>1, <2>1, <2>2, <2>3, <2>4, SchedTypes DEF TypeOK
<1>2. ASSUME NEW p \in runs, RunNext(p) PROVE TypeOK'
  <2>1. runs' \subseteq Run
    <3>1. \A step \in {"registered", "error", "listed", "ok"} : [p EXCEPT !.step = step] \in Run
      BY RunMoves, StepNames
    <3>. QED BY <1>2, <3>1, NewRun DEF TypeOK
  <2>. QED BY <1>2, <2>1, RunWrites, RunParts DEF TypeOK
<1>3. ASSUME NEW stops \in BOOLEAN, Term(stops) PROVE TypeOK'
  <2>1. runs' \subseteq Run
    <3>1. \A p \in runs : Killed(p) \in Run /\ Orphaned(p) \in Run
      BY StepNames DEF Killed, Orphaned, TypeOK, Run
    <3>2. ASSUME NEW q \in runs' PROVE q \in Run
      <4>1. \/ q \in runs
            \/ \E p \in runs : q = Killed(p) \/ q = Orphaned(p)
        BY <1>3, <3>2 DEF Term, Workers
      <4>. QED BY <3>1, <4>1 DEF TypeOK
    <3>. QED BY <3>2
  <2>2. sched' \in Sched
    BY <1>3, StepNames DEF Term, TypeOK, Sched
  <2>. QED BY <1>3, <2>1, <2>2 DEF Term, TypeOK, lists
<1>4. CASE Kill
  BY <1>4, StepNames DEF Kill, TypeOK, Sched, lists
<1>5. CASE Start
  <2>1. runs' \subseteq Run
    BY <1>5 DEF Start, TypeOK, Run
  <2>. QED BY <1>5, <2>1, GotoType, Numbers, StepNames DEF Start, TypeOK
<1>6. CASE UNCHANGED vars
  BY <1>6 DEF vars, lists, TypeOK
<1>. QED BY <1>1, <1>2, <1>3, <1>4, <1>5, <1>6 DEF Next

(***************************************************************************)
(* What live.list says, whatever is killed or started again.               *)
(***************************************************************************)
LEMMA FilesStay ==
  ASSUME TypeOK, FileFirst, ListedHasFile, [Next]_vars
  PROVE  FileFirst' /\ ListedHasFile'
<1>1. CASE SchedNext
  <2>1. ASSUME NEW p \in runs' PROVE p \in runs \/ p.step = "registering"
    BY <1>1, SchedWrites
  <2>. QED BY <1>1, <2>1, SchedWrites DEF FileFirst, ListedHasFile
<1>2. ASSUME NEW p \in runs, RunNext(p) PROVE FileFirst' /\ ListedHasFile'
  <2>1. files \subseteq files' /\ \A q \in runs : q.step = "registered" => q.index \in files
    BY <1>2, RunWrites DEF FileFirst
  <2>2. ListedHasFile'
    BY <1>2, <2>1, RunWrites DEF ListedHasFile
  <2>3. ASSUME NEW q \in runs', q \notin runs, q.step \in {"registered", "listed", "ok"}
        PROVE  q.index \in files'
    <3>1. CASE RegisterSucceeds(p)
      BY <1>2, <2>3, <3>1, NewRun DEF RegisterSucceeds, TypeOK, Run
    <3>2. CASE RegisterFails(p)
      BY <2>3, <3>2 DEF RegisterFails, Becomes, TypeOK, Run
    <3>3. CASE AppendLive(p) \/ Exits(p)
      <4>1. p.index \in files
        BY <3>3 DEF AppendLive, Exits, FileFirst
      <4>. QED BY <1>2, <2>1, <2>3, <4>1, NewRun DEF TypeOK, Run
    <3>4. CASE OrphanEnds(p)
      BY <2>3, <3>4 DEF OrphanEnds
    <3>. QED BY <1>2, <3>1, <3>2, <3>3, <3>4 DEF RunNext
  <2>. QED BY <2>1, <2>2, <2>3 DEF FileFirst
<1>3. ASSUME NEW stops \in BOOLEAN, Term(stops) PROVE FileFirst' /\ ListedHasFile'
  <2>1. ASSUME NEW q \in runs', q \notin runs PROVE q.step \in {"killed", "orphan"}
    BY <1>3, <2>1, SignalParts DEF Term, Workers
  <2>2. UNCHANGED <<live, files>>
    BY <1>3 DEF Term, lists
  <2>. QED BY <2>1, <2>2 DEF FileFirst, ListedHasFile
<1>4. CASE Kill
  BY <1>4 DEF Kill, FileFirst, ListedHasFile, lists
<1>5. CASE Start
  BY <1>5 DEF Start, FileFirst, ListedHasFile, TypeOK, Run
<1>6. CASE UNCHANGED vars
  BY <1>6 DEF vars, lists, FileFirst, ListedHasFile
<1>. QED BY <1>1, <1>2, <1>3, <1>4, <1>5, <1>6 DEF Next

LEMMA InitTypes == Init => TypeOK /\ InHand
<1>1. [step |-> "top", todo |-> {}, index |-> 0] \in Sched
  BY Numbers, StepNames DEF Sched
<1>2. Init => starts \in Nat \ {0}
  BY DEF Init
<1>3. Init => TypeOK
  BY <1>1, <1>2, Zenon DEF Init, TypeOK
<1>4. Init => InHand
  BY DEF Init, InHand
<1>. QED BY <1>3, <1>4

\* Every step keeps the lists, the processes and the scheduler well formed,
\* and the index in hand is a mailbox.
THEOREM TypeCorrect == Spec => [](TypeOK /\ InHand)
<1>1. TypeOK /\ InHand /\ [Next]_vars => (TypeOK /\ InHand)'
  BY TypesStay, InHandStays
<1>. QED BY <1>1, InitTypes, PTL DEF Spec

\* Every index of live.list has its account file, whatever is killed or
\* started again.
THEOREM ListedIsRegistered == Spec => []ListedHasFile
<1>1. Init => FileFirst /\ ListedHasFile
  BY DEF Init, FileFirst, ListedHasFile
<1>2. TypeOK /\ FileFirst /\ ListedHasFile /\ [Next]_vars => (FileFirst /\ ListedHasFile)'
  BY FilesStay
<1>. QED BY <1>1, <1>2, TypeCorrect, PTL DEF Spec

(***************************************************************************)
(* One registration of a mailbox at a time.                                *)
(***************************************************************************)
\* Process p becomes q, which keeps its index and its owner.
GoesOn(p, q) ==
  /\ p.step \in Running
  /\ runs' \subseteq (runs \ {p}) \cup {q}
  /\ q.owned => runs' = (runs \ {p}) \cup {q}
  /\ q.index = p.index /\ q.owned = p.owned
  /\ q.step \in {"registered", "error", "listed", "ok"}
  /\ q.step \in {"registered", "error"} => p.step = "registering" /\ live' = live
  /\ q.step = "listed" => p.index \in live'
  /\ q.step = "ok" => p.step = "listed"

LEMMA RunStep ==
  ASSUME TypeOK, NEW p \in runs, RunNext(p)
  PROVE  (runs' = runs \ {p} /\ live' = live) \/ \E q : GoesOn(p, q)
<1>1. CASE RegisterSucceeds(p) \/ RegisterFails(p)
  <2>1. PICK step \in {"registered", "error"} : Becomes(p, [p EXCEPT !.step = step])
    BY <1>1, Zenon DEF RegisterSucceeds, RegisterFails
  <2>2. p.step \in Running
    BY <1>1 DEF RegisterSucceeds, RegisterFails, Running
  <2>. DEFINE q == [p EXCEPT !.step = step]
  <2>3. q.index = p.index /\ q.owned = p.owned /\ q.step = step
    BY DEF TypeOK, Run
  <2>4. runs' \subseteq (runs \ {p}) \cup {q} /\ (q.owned => runs' = (runs \ {p}) \cup {q})
    BY <2>1 DEF Becomes
  <2>5. p.step = "registering" /\ live' = live
    BY <1>1 DEF RegisterSucceeds, RegisterFails, lists
  <2>. HIDE DEF q
  <2>6. GoesOn(p, q)
    BY <2>2, <2>3, <2>4, <2>5 DEF GoesOn
  <2>. QED BY <2>6
<1>2. CASE AppendLive(p)
  <2>. DEFINE q == [p EXCEPT !.step = "listed"]
  <2>1. q.index = p.index /\ q.owned = p.owned /\ q.step = "listed"
    BY DEF TypeOK, Run
  <2>2. /\ runs' \subseteq (runs \ {p}) \cup {q} /\ (q.owned => runs' = (runs \ {p}) \cup {q})
        /\ p.index \in live' /\ p.step \in Running
    BY <1>2 DEF AppendLive, Becomes, Running
  <2>. HIDE DEF q
  <2>3. GoesOn(p, q)
    BY <2>1, <2>2 DEF GoesOn
  <2>. QED BY <2>3
<1>3. CASE Exits(p)
  <2>. DEFINE q == [p EXCEPT !.step = "ok"]
  <2>1. q.index = p.index /\ q.owned = p.owned /\ q.step = "ok"
    BY DEF TypeOK, Run
  <2>2. /\ runs' \subseteq (runs \ {p}) \cup {q} /\ (q.owned => runs' = (runs \ {p}) \cup {q})
        /\ p.step = "listed" /\ p.step \in Running
    BY <1>3 DEF Exits, Becomes, Running
  <2>. HIDE DEF q
  <2>3. GoesOn(p, q)
    BY <2>1, <2>2 DEF GoesOn
  <2>. QED BY <2>3
<1>4. CASE OrphanEnds(p)
  BY <1>4 DEF OrphanEnds, lists
<1>. QED BY <1>1, <1>2, <1>3, <1>4 DEF RunNext

\* A scheduler that only moves, and leaves no index behind.
LEMMA SchedMoves ==
  ASSUME OneScheduler, OneRegistration, UNCHANGED <<live, failed, inflight, runs, starts>>,
         sched'.step \notin {"mark", "launch"}, Taken \subseteq Taken'
  PROVE  OneScheduler' /\ OneRegistration'
  BY DEF OneScheduler, IndexTaken, OrphansOnly, ListedIsLive, OneWorkerEach, MarkedIsIdle,
         LaunchedIsFree, OneRegistration, SigningUp, Workers, At

LEMMA SchedulerKeeps ==
  ASSUME TypeOK, InHand, OneScheduler, OneRegistration, SchedNext, starts = 1
  PROVE  OneScheduler' /\ OneRegistration'
<1>1. CASE LoopTop \/ Wait \/ Decide \/ NothingToClaim \/ KeepPass \/ KeepOne \/ \E p \in runs : LookAt(p)
  <2>1. UNCHANGED <<live, failed, inflight, runs, starts>>
    BY <1>1 DEF LoopTop, Wait, Decide, NothingToClaim, KeepPass, KeepOne, LookAt, lists
  <2>2. sched.step \notin {"mark", "stopped"} /\ sched'.step \notin {"mark", "launch"}
    BY <1>1 DEF LoopTop, Wait, Decide, NothingToClaim, KeepPass, KeepOne, LookAt, Goto, At
  <2>3. Taken \subseteq Taken'
    BY <2>1, <2>2 DEF Taken, Used
  <2>. QED BY <2>1, <2>2, <2>3, SchedMoves
<1>2. CASE MarkFailed
  <2>1. /\ UNCHANGED <<live, inflight, runs, starts>> /\ failed' = failed \cup {sched.index}
        /\ sched.step = "mark" /\ sched'.step = "reap"
    BY <1>2 DEF MarkFailed, Goto, At
  <2>2. \A p \in runs : p.step = "registering" => p.index # sched.index
    BY <2>1 DEF OneScheduler, MarkedIsIdle, OrphansOnly, Workers, At
  <2>3. Taken \subseteq Taken'
    BY <2>1 DEF Taken, Used
  <2>4. OneRegistration'
    BY <2>1, <2>2 DEF OneRegistration, SigningUp
  <2>. QED BY <2>1, <2>3, <2>4 DEF OneScheduler, IndexTaken, OrphansOnly, ListedIsLive, OneWorkerEach,
                  MarkedIsIdle, LaunchedIsFree, Workers, At
<1>3. CASE Claim
  <2>1. PICK i \in Indices \ Used : /\ inflight' = inflight \cup {i}
                                   /\ sched'.step = "launch" /\ sched'.index = i
    BY <1>3 DEF Claim, Goto
  <2>2. UNCHANGED <<live, failed, runs, starts>> /\ sched.step = "decide"
    BY <1>3 DEF Claim, At
  <2>3. \A p \in runs : p.index \in Used /\ p.index # i
    BY <2>2 DEF OneScheduler, IndexTaken, Taken
  <2>4. IndexTaken' /\ LaunchedIsFree'
    BY <2>1, <2>2, <2>3 DEF IndexTaken, LaunchedIsFree, Taken, Used
  <2>5. OneRegistration'
    BY <2>2 DEF OneRegistration, SigningUp
  <2>. QED BY <2>1, <2>2, <2>4, <2>5 DEF OneScheduler, OrphansOnly, ListedIsLive, OneWorkerEach,
                  MarkedIsIdle, Workers, At
<1>4. CASE Launch
  <2>. DEFINE q == [index |-> sched.index, owned |-> TRUE, step |-> "registering"]
  <2>1. /\ UNCHANGED <<live, failed, inflight, starts>> /\ runs' = runs \cup {q}
        /\ sched.step = "launch" /\ sched'.step = "top"
    BY <1>4 DEF Launch, Goto, At, lists
  <2>2. q.index = sched.index /\ q.owned /\ q.step = "registering"
    OBVIOUS
  <2>. HIDE DEF q
  <2>3. q.index \in inflight \ (live \cup failed) /\ \A p \in runs : p.index # q.index
    BY <2>1, <2>2 DEF OneScheduler, LaunchedIsFree, At
  <2>4. IndexTaken'
    BY <2>1, <2>3 DEF OneScheduler, IndexTaken, Taken, Used
  <2>5. OrphansOnly' /\ ListedIsLive'
    BY <2>1, <2>2 DEF OneScheduler, OrphansOnly, ListedIsLive
  <2>6. OneWorkerEach'
    BY <2>1, <2>3 DEF OneScheduler, OneWorkerEach, Workers
  <2>7. OneRegistration'
    BY <2>1, <2>3 DEF OneRegistration, SigningUp
  <2>. QED BY <2>1, <2>4, <2>5, <2>6, <2>7 DEF OneScheduler, MarkedIsIdle, LaunchedIsFree, At
<1>5. ASSUME NEW p \in runs, Reap(p) PROVE OneScheduler' /\ OneRegistration'
  <2>1. /\ UNCHANGED <<live, failed, starts>> /\ inflight' = inflight \ {p.index}
        /\ runs' = runs \ {p} /\ p \in Workers
        /\ sched.step = "reap" /\ sched'.index = p.index
        /\ sched'.step = IF p.step = "ok" THEN "reap" ELSE "mark"
    BY <1>5 DEF Reap, Goto, At, Workers
  <2>2. IndexTaken'
    BY <2>1 DEF OneScheduler, IndexTaken, ListedIsLive, Taken, Used
  <2>3. OrphansOnly' /\ ListedIsLive' /\ OneWorkerEach'
    BY <2>1 DEF OneScheduler, OrphansOnly, ListedIsLive, OneWorkerEach, Workers
  <2>4. MarkedIsIdle' /\ LaunchedIsFree'
    BY <2>1 DEF OneScheduler, OneWorkerEach, MarkedIsIdle, LaunchedIsFree, Workers, At
  <2>5. OneRegistration'
    BY <2>1 DEF OneRegistration, SigningUp
  <2>. QED BY <2>2, <2>3, <2>4, <2>5 DEF OneScheduler
<1>. QED BY <1>1, <1>2, <1>3, <1>4, <1>5 DEF SchedNext

LEMMA ProcessesKeep ==
  ASSUME TypeOK, InHand, OneScheduler, OneRegistration, NEW p \in runs, RunNext(p), starts = 1
  PROVE  OneScheduler' /\ OneRegistration'
<1>1. UNCHANGED <<failed, inflight, sched, starts>> /\ live \subseteq live'
  BY RunWrites
<1>2. Taken \subseteq Taken'
  BY <1>1 DEF Taken, Used
<1>3. CASE runs' = runs \ {p} /\ live' = live
  BY <1>1, <1>2, <1>3 DEF OneScheduler, IndexTaken, OrphansOnly, ListedIsLive, OneWorkerEach,
       MarkedIsIdle, LaunchedIsFree, OneRegistration, SigningUp, Workers, At
<1>4. ASSUME NEW q, GoesOn(p, q)
      PROVE  OneScheduler' /\ OneRegistration'
  <2>1. p.owned /\ p \in Workers
    BY <1>4 DEF GoesOn, OneScheduler, OrphansOnly, Workers, Running
  <2>2. live' \subseteq live \cup {p.index}
    BY RunWrites
  <2>3. IndexTaken' /\ OrphansOnly'
    BY <1>2, <1>4, <2>1 DEF GoesOn, OneScheduler, IndexTaken, OrphansOnly
  <2>4. ListedIsLive'
    BY <1>1, <1>4 DEF GoesOn, OneScheduler, ListedIsLive
  <2>5. OneWorkerEach'
    BY <1>4, <2>1 DEF GoesOn, OneScheduler, OneWorkerEach, Workers
  <2>6. MarkedIsIdle'
    BY <1>1, <1>4, <2>1 DEF GoesOn, OneScheduler, MarkedIsIdle, Workers, At
  <2>7. LaunchedIsFree'
    BY <1>1, <1>4, <2>2 DEF GoesOn, OneScheduler, LaunchedIsFree, At
  <2>8. OneRegistration'
    <3>1. ASSUME NEW r \in runs', r.step = "registering" PROVE r.index \notin live' \cup failed'
      <4>1. r \in runs /\ r # p
        BY <1>4, <3>1 DEF GoesOn
      <4>2. r \in Workers
        BY <3>1, <4>1 DEF OneScheduler, OrphansOnly, Workers
      <4>3. r.index # p.index
        BY <2>1, <4>1, <4>2 DEF OneScheduler, OneWorkerEach
      <4>. QED BY <1>1, <2>2, <3>1, <4>1, <4>3 DEF OneRegistration
    <3>2. \A r \in runs' : SigningUp(r) => r \in runs
      BY <1>4 DEF GoesOn, SigningUp
    <3>. QED BY <1>1, <3>1, <3>2 DEF OneRegistration, SigningUp
  <2>. QED BY <2>3, <2>4, <2>5, <2>6, <2>7, <2>8 DEF OneScheduler
<1>. QED BY <1>3, <1>4, RunStep

\* A signal leaves an orphan where a registration was, and no worker is new.
LEMMA SignalKeeps ==
  ASSUME TypeOK, OneScheduler, OneRegistration, NEW stops \in BOOLEAN, Term(stops), starts = 1
  PROVE  OneScheduler' /\ OneRegistration'
<1>1. UNCHANGED <<live, failed, inflight, starts>>
  BY DEF Term, lists
<1>2. sched'.index = sched.index /\ (sched'.step = sched.step \/ sched'.step = "stopped")
  BY DEF Term, TypeOK, Sched
<1>3. Taken \subseteq Taken'
  BY <1>1, <1>2 DEF Taken, Used
<1>4. ASSUME NEW q \in runs'
      PROVE  \/ q \in runs /\ ~q.owned
             \/ \E p \in Workers : q = Killed(p)
             \/ \E p \in Workers : p.step = "registering" /\ q = Orphaned(p)
  BY <1>4, Zenon DEF Term, Workers
<1>5. \A p \in Workers : /\ Killed(p).index = p.index /\ Killed(p).owned = p.owned
                         /\ Killed(p).step = "killed"
                         /\ Orphaned(p).index = p.index /\ ~Orphaned(p).owned
                         /\ Orphaned(p).step = "orphan" /\ p \in runs /\ p.owned
  BY SignalParts DEF Workers
<1>6. \A q \in runs : ~q.owned => q.step = "orphan"
  BY DEF OneScheduler, OrphansOnly
<1>7. ASSUME NEW q \in runs'
      PROVE  /\ q.step \in {"killed", "orphan"}
             /\ \E p \in runs : q.index = p.index /\ (SigningUp(q) => SigningUp(p))
  <2>1. CASE q \in runs /\ ~q.owned
    BY <1>6, <2>1
  <2>2. ASSUME NEW p \in Workers, q = Killed(p) PROVE q.step = "killed" /\ q.index = p.index /\ p \in runs
    BY <1>5, <2>2
  <2>3. ASSUME NEW p \in Workers, p.step = "registering", q = Orphaned(p)
        PROVE q.step = "orphan" /\ q.index = p.index /\ p \in runs
    BY <1>5, <2>3
  <2>. QED BY <1>4, <2>1, <2>2, <2>3 DEF SigningUp
<1>8. IndexTaken'
  BY <1>3, <1>7 DEF OneScheduler, IndexTaken
<1>9. ASSUME NEW q \in runs', q.owned PROVE \E p \in Workers : q = Killed(p)
  BY <1>4, <1>5, <1>9
<1>10. OrphansOnly' /\ ListedIsLive'
  <2>1. ASSUME NEW q \in runs', ~q.owned PROVE q.step = "orphan"
    BY <1>4, <1>5, <1>6, <2>1
  <2>. QED BY <1>7, <2>1 DEF OrphansOnly, ListedIsLive
<1>11. OneWorkerEach'
  BY <1>5, <1>9 DEF OneScheduler, OneWorkerEach, Workers
<1>12. MarkedIsIdle' /\ LaunchedIsFree'
  <2>1. At("mark")' => At("mark")
    BY <1>2 DEF At
  <2>2. At("launch")' => At("launch")
    BY <1>2 DEF At
  <2>3. MarkedIsIdle'
    BY <1>2, <1>5, <1>9, <2>1 DEF OneScheduler, MarkedIsIdle, Workers
  <2>. QED BY <1>1, <1>2, <1>7, <2>2, <2>3 DEF OneScheduler, LaunchedIsFree
<1>13. OneRegistration'
  <2>1. ASSUME NEW q \in runs', SigningUp(q)
        PROVE  \/ q \in runs /\ ~q.owned
               \/ \E p \in Workers : p.step = "registering" /\ q = Orphaned(p)
    BY <2>1, <1>4, <1>5 DEF SigningUp
  <2>2. ASSUME NEW p \in runs', NEW q \in runs', SigningUp(p), SigningUp(q), p.index = q.index
        PROVE  p = q
    BY <2>1, <2>2, <1>5, <1>6 DEF OneRegistration, SigningUp
  <2>. QED BY <1>7, <2>2 DEF OneRegistration
<1>. QED BY <1>8, <1>10, <1>11, <1>12, <1>13 DEF OneScheduler

LEMMA OneSchedulerStays ==
  ASSUME TypeOK, InHand, RunPoolInv, [Next]_vars
  PROVE  RunPoolInv'
<1>1. CASE SchedNext
  BY <1>1, SchedulerKeeps, SchedWrites DEF RunPoolInv
<1>2. ASSUME NEW p \in runs, RunNext(p) PROVE RunPoolInv'
  BY <1>2, ProcessesKeep, RunWrites DEF RunPoolInv
<1>3. ASSUME NEW stops \in BOOLEAN, Term(stops) PROVE RunPoolInv'
  <2>1. starts' = starts
    BY <1>3 DEF Term
  <2>. QED BY <1>3, <2>1, SignalKeeps DEF RunPoolInv
<1>4. CASE Kill
  <2>1. /\ UNCHANGED <<live, failed, inflight, runs, starts>>
        /\ sched'.step = "stopped" /\ sched'.index = sched.index
    BY <1>4 DEF Kill, lists, TypeOK, Sched
  <2>2. Taken \subseteq Taken'
    BY <2>1 DEF Taken, Used
  <2>. QED BY <2>1, <2>2, SchedMoves DEF RunPoolInv
<1>5. CASE Start
  <2>1. starts' # 1
    BY <1>5 DEF Start, TypeOK
  <2>. QED BY <2>1 DEF RunPoolInv
<1>6. CASE UNCHANGED vars
  BY <1>6 DEF vars, lists, RunPoolInv, OneScheduler, IndexTaken, OrphansOnly, ListedIsLive, OneWorkerEach,
       MarkedIsIdle, LaunchedIsFree, OneRegistration, SigningUp, Workers, Taken, Used, At
<1>. QED BY <1>1, <1>2, <1>3, <1>4, <1>5, <1>6 DEF Next

LEMMA SchedulerHolds == Spec => []RunPoolInv
<1>1. Init => RunPoolInv
  BY DEF Init, RunPoolInv, OneScheduler, IndexTaken, OrphansOnly, ListedIsLive, OneWorkerEach,
     MarkedIsIdle, LaunchedIsFree, OneRegistration, Workers, At
<1>2. TypeOK /\ InHand /\ RunPoolInv /\ [Next]_vars => RunPoolInv'
  BY OneSchedulerStays
<1>. QED BY <1>1, <1>2, TypeCorrect, PTL DEF Spec

\* However many children the script runs and whatever signals it gets, it never
\* signs up twice at a time with one mailbox, nor again with a listed one.
THEOREM OneRegistrationAtATime == Spec => []OneRegistration
<1>1. RunPoolInv => OneRegistration
  BY DEF RunPoolInv, OneRegistration
<1>. QED BY <1>1, SchedulerHolds, PTL

(***************************************************************************)
(* The lists.  An index is added to live.list by the child that works on   *)
(* it, and to failed.list by the scheduler once that child is gone.        *)
(***************************************************************************)
LEMMA OneBusy ==
  ASSUME RunPoolInv, starts = 1, NEW p \in Workers, NEW q \in Workers, p # q
  PROVE  p.index # q.index
  BY DEF RunPoolInv, OneScheduler, OneWorkerEach

LEMMA ListsStayApart ==
  ASSUME TypeOK, InHand, RunPoolInv, ListsInv, [Next]_vars
  PROVE  ListsInv'
<1>. SUFFICES ASSUME starts' = 1, ~signalled' PROVE (ListsDisjoint /\ OutcomeToCome /\ MarkedIsNotLive)'
  BY DEF ListsInv
<1>. USE DEF ListsDisjoint, OutcomeToCome, MarkedIsNotLive, At
<1>1. ASSUME starts = 1, ~signalled PROVE ListsDisjoint /\ OutcomeToCome /\ MarkedIsNotLive
  BY <1>1 DEF ListsInv
<1>2. CASE SchedNext
  <2>1. starts = 1 /\ ~signalled /\ live' = live
    BY <1>2, SchedWrites
  <2>2. CASE MarkFailed
    <3>1. /\ failed' = failed \cup {sched.index} /\ runs' = runs
          /\ sched.step = "mark" /\ sched'.step = "reap"
      BY <2>2 DEF MarkFailed, Goto
    <3>2. sched.index \notin live /\ \A p \in Workers : p.index # sched.index
      BY <1>1, <2>1, <3>1 DEF RunPoolInv, OneScheduler, MarkedIsIdle
    <3>. QED BY <1>1, <2>1, <3>1, <3>2 DEF Workers
  <2>3. CASE Launch
    <3>. DEFINE q == [index |-> sched.index, owned |-> TRUE, step |-> "registering"]
    <3>1. /\ failed' = failed /\ runs' = runs \cup {q} /\ q.step = "registering" /\ q.index = sched.index
          /\ sched.step = "launch" /\ sched'.step = "top"
      BY <2>3 DEF Launch, Goto, lists
    <3>. HIDE DEF q
    <3>2. q.index \notin live \cup failed
      BY <2>1, <3>1 DEF RunPoolInv, OneScheduler, LaunchedIsFree
    <3>. QED BY <1>1, <2>1, <3>1, <3>2 DEF Workers
  <2>4. ASSUME NEW p \in runs, Reap(p) PROVE (ListsDisjoint /\ OutcomeToCome /\ MarkedIsNotLive)'
    <3>1. /\ failed' = failed /\ runs' = runs \ {p} /\ p \in Workers /\ p.step \in Ended
          /\ sched'.index = p.index
          /\ sched'.step = IF p.step = "ok" THEN "reap" ELSE "mark"
      BY <2>4 DEF Reap, Goto, Workers
    <3>2. p.step # "ok" => p.index \notin live
      BY <1>1, <2>1, <3>1 DEF Ended
    <3>. QED BY <1>1, <2>1, <3>1, <3>2 DEF Workers
  <2>5. CASE LoopTop \/ Wait \/ Decide \/ Claim \/ NothingToClaim \/ KeepPass \/ KeepOne
             \/ \E p \in runs : LookAt(p)
    <3>1. UNCHANGED <<failed, runs>> /\ sched'.step # "mark"
      BY <2>5 DEF LoopTop, Wait, Decide, Claim, NothingToClaim, KeepPass, KeepOne, LookAt, Goto, lists
    <3>. QED BY <1>1, <2>1, <3>1 DEF Workers
  <2>. QED BY <1>2, <2>2, <2>3, <2>4, <2>5 DEF SchedNext
<1>3. ASSUME NEW p \in runs, RunNext(p) PROVE (ListsDisjoint /\ OutcomeToCome /\ MarkedIsNotLive)'
  <2>1. starts = 1 /\ ~signalled /\ UNCHANGED <<failed, sched>>
    BY <1>3, RunWrites
  <2>2. CASE runs' = runs \ {p} /\ live' = live
    BY <1>1, <2>1, <2>2 DEF Workers
  <2>3. ASSUME NEW q, GoesOn(p, q) PROVE (ListsDisjoint /\ OutcomeToCome /\ MarkedIsNotLive)'
    <3>1. p \in Workers
      BY <2>1, <2>3 DEF GoesOn, Running, RunPoolInv, OneScheduler, OrphansOnly, Workers
    <3>2. live' = live \/ live' = live \cup {p.index}
      BY <1>3, RunWrites
    <3>3. p.index \notin failed /\ (sched.step = "mark" => p.index # sched.index)
      BY <1>1, <2>1, <3>1 DEF RunPoolInv, OneScheduler, MarkedIsIdle
    <3>4. q.step \in {"registered", "error"} => p.index \notin live /\ live' = live
      BY <1>1, <2>1, <2>3, <3>1 DEF GoesOn
    <3>5. ASSUME NEW r \in Workers'
          PROVE  /\ r.index \notin failed /\ r.step # "killed"
                 /\ r.step \notin {"listed", "ok"} => r.index \notin live'
      <4>1. CASE r = q
        BY <2>3, <3>3, <3>4, <4>1 DEF GoesOn
      <4>2. CASE r # q
        <5>1. r \in Workers /\ r # p
          BY <2>3, <3>5, <4>2 DEF GoesOn, Workers
        <5>2. r.index # p.index
          BY <2>1, <3>1, <5>1, OneBusy
        <5>. QED BY <1>1, <2>1, <3>2, <5>1, <5>2
      <4>. QED BY <4>1, <4>2
    <3>6. live' \cap failed = {} /\ (sched.step = "mark" => sched.index \notin live')
      BY <1>1, <2>1, <3>2, <3>3
    <3>. QED BY <2>1, <3>5, <3>6
  <2>. QED BY <1>3, <2>2, <2>3, RunStep
<1>4. ASSUME NEW stops \in BOOLEAN, Term(stops) PROVE FALSE
  BY <1>4 DEF Term
<1>5. CASE Kill
  BY <1>1, <1>5 DEF Kill, lists, Workers, TypeOK, Sched
<1>6. CASE Start
  BY <1>6 DEF Start, TypeOK
<1>7. CASE UNCHANGED vars
  BY <1>1, <1>7 DEF vars, lists, Workers
<1>. QED BY <1>2, <1>3, <1>4, <1>5, <1>6, <1>7 DEF Next

\* As long as no signal came and the script was started once, no mailbox is
\* listed as live and as failed.
THEOREM ListsStayDisjoint == Spec => []ListsDisjoint
<1>1. Init => ListsInv
  BY DEF Init, ListsInv, ListsDisjoint, OutcomeToCome, MarkedIsNotLive, Workers, At
<1>2. TypeOK /\ InHand /\ RunPoolInv /\ ListsInv /\ [Next]_vars => ListsInv'
  BY ListsStayApart
<1>3. ListsInv => ListsDisjoint
  BY DEF ListsInv, ListsDisjoint
<1>. QED BY <1>1, <1>2, <1>3, TypeCorrect, SchedulerHolds, PTL DEF Spec

(***************************************************************************)
(* The children: an index in flight has one, as long as somebody waits.    *)
(***************************************************************************)
\* A process that goes on, and a signal, leave the busy indexes as they are.
LEMMA RunKeepsBusy ==
  ASSUME TypeOK, RunPoolInv, starts = 1, WaitedFor, NEW p \in runs, RunNext(p)
  PROVE  Busy' = Busy /\ WaitedFor'
<1>1. CASE runs' = runs \ {p} /\ live' = live
  <2>1. p \notin Workers
    <3>1. CASE OrphanEnds(p)
      BY <3>1 DEF OrphanEnds, WaitedFor
    <3>2. ASSUME NEW step \in {"registered", "error", "listed", "ok"},
                 Becomes(p, [p EXCEPT !.step = step]), p.owned
          PROVE  FALSE
      <4>. DEFINE q == [p EXCEPT !.step = step]
      <4>1. q.owned /\ q.index = p.index /\ q \in runs \ {p}
        BY <1>1, <3>2 DEF Becomes, TypeOK, Run
      <4>. HIDE DEF q
      <4>. QED BY <3>2, <4>1, OneBusy DEF Workers
    <3>3. RunNext(p) => OrphanEnds(p) \/ \E step \in {"registered", "error", "listed", "ok"} :
                          Becomes(p, [p EXCEPT !.step = step])
      BY Zenon DEF RunNext, RegisterSucceeds, RegisterFails, AppendLive, Exits
    <3>. QED BY <3>1, <3>2, <3>3 DEF Workers
  <2>2. Workers' = Workers
    BY <1>1, <2>1 DEF Workers
  <2>. QED BY <2>2 DEF Busy, WaitedFor
<1>2. ASSUME NEW q, GoesOn(p, q) PROVE Busy' = Busy /\ WaitedFor'
  <2>1. p \in Workers
    BY <1>2 DEF GoesOn, Running, RunPoolInv, OneScheduler, OrphansOnly, Workers
  <2>2. Workers' = (Workers \ {p}) \cup {q} /\ q.index = p.index /\ q.step # "orphan"
    BY <1>2, <2>1 DEF GoesOn, Workers
  <2>. QED BY <2>1, <2>2 DEF Busy, WaitedFor
<1>. QED BY <1>1, <1>2, RunStep

LEMMA SignalKeepsBusy ==
  ASSUME TypeOK, NEW stops \in BOOLEAN, Term(stops)
  PROVE  Busy' = Busy /\ WaitedFor'
<1>1. \A p \in Workers : /\ Killed(p).index = p.index /\ Killed(p).owned /\ Killed(p).step = "killed"
                         /\ ~Orphaned(p).owned
  BY SignalParts DEF Workers
<1>2. Workers' = {Killed(p) : p \in Workers}
  <2>1. runs' = (runs \ Workers) \cup {Killed(p) : p \in Workers}
                  \cup {Orphaned(p) : p \in {q \in Workers : q.step = "registering"}}
    BY DEF Term
  <2>2. ASSUME NEW q \in Workers' PROVE q \in {Killed(p) : p \in Workers}
    <3>1. q \in runs' /\ q.owned
      BY DEF Workers
    <3>2. q \notin runs \ Workers
      BY <3>1 DEF Workers
    <3>3. q \notin {Orphaned(p) : p \in {r \in Workers : r.step = "registering"}}
      BY <1>1, <3>1
    <3>. QED BY <2>1, <3>1, <3>2, <3>3
  <2>3. ASSUME NEW p \in Workers PROVE Killed(p) \in Workers'
    BY <1>1, <2>1 DEF Workers
  <2>. QED BY <2>2, <2>3
<1>. QED BY <1>1, <1>2 DEF Busy, WaitedFor

LEMMA InflightStays ==
  ASSUME TypeOK, InHand, RunPoolInv, InflightInv, [Next]_vars
  PROVE  InflightInv'
<1>. DEFINE Waited == \A i \in inflight : i \in Busy \/ At("stopped") \/ (At("launch") /\ sched.index = i)
<1>. SUFFICES ASSUME starts' = 1 PROVE WaitedFor' /\ Waited'
  BY DEF InflightInv
<1>1. ASSUME starts = 1 PROVE WaitedFor /\ Waited
  BY <1>1 DEF InflightInv
<1>. USE DEF At
<1>2. CASE SchedNext
  <2>. starts = 1
    BY <1>2, SchedWrites
  <2>1. CASE LoopTop \/ MarkFailed \/ Wait \/ Decide \/ NothingToClaim \/ KeepPass \/ KeepOne
             \/ \E p \in runs : LookAt(p)
    <3>1. UNCHANGED <<inflight, runs>> /\ sched.step \notin {"launch", "stopped"}
      BY <2>1 DEF LoopTop, MarkFailed, Wait, Decide, NothingToClaim, KeepPass, KeepOne, LookAt, lists
    <3>2. Workers' = Workers /\ Busy' = Busy
      BY <3>1 DEF Workers, Busy
    <3>. QED BY <1>1, <3>1, <3>2 DEF WaitedFor
  <2>2. CASE Claim
    <3>1. PICK i \in Indices \ Used : /\ inflight' = inflight \cup {i} /\ runs' = runs
                                      /\ sched'.step = "launch" /\ sched'.index = i
                                      /\ sched.step = "decide"
      BY <2>2 DEF Claim, Goto
    <3>2. Workers' = Workers /\ Busy' = Busy
      BY <3>1 DEF Workers, Busy
    <3>. QED BY <1>1, <3>1, <3>2 DEF WaitedFor
  <2>3. CASE Launch
    <3>. DEFINE q == [index |-> sched.index, owned |-> TRUE, step |-> "registering"]
    <3>1. /\ inflight' = inflight /\ runs' = runs \cup {q} /\ sched.step = "launch"
          /\ q.step = "registering" /\ q.index = sched.index /\ q.owned
      BY <2>3 DEF Launch, lists
    <3>. HIDE DEF q
    <3>2. Workers' = Workers \cup {q} /\ Busy' = Busy \cup {sched.index}
      BY <3>1 DEF Workers, Busy
    <3>. QED BY <1>1, <3>1, <3>2 DEF WaitedFor
  <2>4. ASSUME NEW p \in runs, Reap(p) PROVE WaitedFor' /\ Waited'
    <3>1. /\ inflight' = inflight \ {p.index} /\ runs' = runs \ {p} /\ p \in Workers
          /\ sched.step = "reap"
      BY <2>4 DEF Reap, Workers
    <3>2. Workers' = Workers \ {p}
      BY <3>1 DEF Workers
    <3>3. \A i \in Busy : i = p.index \/ i \in Busy'
      BY <3>2 DEF Busy
    <3>. QED BY <1>1, <3>1, <3>2, <3>3 DEF WaitedFor
  <2>. QED BY <1>2, <2>1, <2>2, <2>3, <2>4 DEF SchedNext
<1>3. ASSUME NEW p \in runs, RunNext(p) PROVE WaitedFor' /\ Waited'
  <2>1. starts = 1 /\ UNCHANGED <<inflight, sched>>
    BY <1>3, RunWrites
  <2>2. Busy' = Busy /\ WaitedFor'
    BY <1>1, <1>3, <2>1, RunKeepsBusy
  <2>. QED BY <1>1, <2>1, <2>2
<1>4. ASSUME NEW stops \in BOOLEAN, Term(stops) PROVE WaitedFor' /\ Waited'
  <2>1. /\ starts = 1 /\ inflight' = inflight
        /\ sched'.index = sched.index /\ (sched'.step = sched.step \/ sched'.step = "stopped")
    BY <1>4 DEF Term, lists, TypeOK, Sched
  <2>2. Busy' = Busy /\ WaitedFor'
    BY <1>4, SignalKeepsBusy
  <2>. QED BY <1>1, <2>1, <2>2
<1>5. CASE Kill
  <2>1. starts = 1 /\ UNCHANGED <<inflight, runs>> /\ sched'.step = "stopped"
    BY <1>5 DEF Kill, lists, TypeOK, Sched
  <2>. QED BY <1>1, <2>1 DEF WaitedFor, Workers
<1>6. CASE Start
  BY <1>6 DEF Start, TypeOK
<1>7. CASE UNCHANGED vars
  BY <1>1, <1>7 DEF vars, lists, WaitedFor, Workers, Busy
<1>. QED BY <1>2, <1>3, <1>4, <1>5, <1>6, <1>7 DEF Next

LEMMA InflightHolds == Spec => []InflightInv
<1>1. Init => InflightInv
  BY DEF Init, InflightInv, WaitedFor, Workers
<1>. QED BY <1>1, InflightStays, TypeCorrect, SchedulerHolds, PTL DEF Spec

\* The script gives up only when every mailbox has its outcome on file, however
\* many children end while it decides.
THEOREM GivesUpLast == Spec => GivesUpAtTheEnd
<1>1. ASSUME InflightInv, NothingToClaim, sched'.step = "stopped", starts = 1
      PROVE  Indices \subseteq live \cup failed
  <2>1. sched.step = "decide" /\ Workers = {} /\ Indices \subseteq Used
    BY <1>1 DEF NothingToClaim, Goto, At
  <2>2. inflight = {}
    BY <1>1, <2>1 DEF InflightInv, Busy, At
  <2>. QED BY <2>1, <2>2 DEF Used
<1>2. InflightInv => [NothingToClaim /\ sched'.step = "stopped" /\ starts = 1
                        => Indices \subseteq live \cup failed]_vars
  BY <1>1
<1>. QED BY <1>2, InflightHolds, PTL DEF GivesUpAtTheEnd

(***************************************************************************)
(* TARGET.                                                                 *)
(***************************************************************************)
LEMMA SomeIndices ==
  ASSUME NEW S, S \subseteq Indices
  PROVE  IsFiniteSet(S) /\ Cardinality(S) \in Nat
<1>1. IsFiniteSet(Indices)
  BY FS_Interval, RunPoolAssumption DEF Indices
<1>. QED BY <1>1, FS_Subset, FS_CardinalityType

LEMMA OneIndexMore ==
  ASSUME NEW S, S \subseteq Indices, NEW i \in Indices
  PROVE  /\ Cardinality(S \cup {i}) \in Nat
         /\ Cardinality(S \cup {i}) <= Cardinality(S) + 1
<1>1. IsFiniteSet(S) /\ Cardinality(S) \in Nat
  BY SomeIndices
<1>2. Cardinality(S \cup {i}) = IF i \in S THEN Cardinality(S) ELSE Cardinality(S) + 1
  BY <1>1, FS_AddElement
<1>. QED BY <1>1, <1>2

\* One index for every child.
LEMMA BusyCount ==
  ASSUME TypeOK, RunPoolInv, starts = 1
  PROVE  Busy \subseteq Indices /\ Cardinality(Busy) = Cardinality(Workers)
<1>. DEFINE f == [p \in Workers |-> p.index]
<1>1. Busy \subseteq Indices
  BY RunParts DEF Busy, Workers
<1>2. f \in [Workers -> Busy]
  BY DEF Busy
<1>3. \A p, q \in Workers : f[p] = f[q] => p = q
  BY OneBusy
<1>4. f \in Injection(Workers, Busy)
  BY <1>2, <1>3 DEF Injection, IsInjective
<1>5. f \in Surjection(Workers, Busy)
  BY <1>2 DEF Surjection, Busy
<1>6. IsFiniteSet(Busy)
  BY <1>1, SomeIndices
<1>. QED BY <1>1, <1>4, <1>5, <1>6, FS_Injection

LEMMA CommittedType ==
  ASSUME TypeOK, InHand
  PROVE  /\ Committed \subseteq Indices /\ IsFiniteSet(Committed) /\ Cardinality(Committed) \in Nat
         /\ live \subseteq Committed
<1>1. Busy \subseteq Indices
  BY RunParts DEF Busy, Workers
<1>2. Committed \subseteq Indices /\ live \subseteq Committed
  BY <1>1 DEF Committed, InHand, At, TypeOK
<1>. QED BY <1>2, SomeIndices

LEMMA CommittedStays ==
  ASSUME TypeOK, InHand, RunPoolInv, InflightInv, CommittedInv, [Next]_vars
  PROVE  CommittedInv'
<1>. SUFFICES ASSUME starts' = 1, Target > 0, Concurrency > 0
              PROVE  Cardinality(Committed') + (IF At("decide")' THEN 1 ELSE 0) < Target + Concurrency
  BY DEF CommittedInv
<1>. USE RunPoolAssumption DEF At
<1>. Committed \subseteq Indices /\ IsFiniteSet(Committed) /\ Cardinality(Committed) \in Nat
  BY CommittedType
<1>1. ASSUME starts = 1
      PROVE  Cardinality(Committed) + (IF At("decide") THEN 1 ELSE 0) < Target + Concurrency
  BY <1>1 DEF CommittedInv
<1>2. ASSUME starts = 1, Committed' \subseteq Committed, At("decide")' => At("decide")
      PROVE  Cardinality(Committed') + (IF At("decide")' THEN 1 ELSE 0) < Target + Concurrency
  <2>1. Cardinality(Committed') <= Cardinality(Committed) /\ Cardinality(Committed') \in Nat
    BY <1>2, FS_Subset, FS_CardinalityType
  <2>. QED BY <1>1, <1>2, <2>1
<1>3. CASE SchedNext
  <2>1. starts = 1 /\ live' = live
    BY <1>3, SchedWrites
  <2>2. CASE LoopTop \/ MarkFailed \/ Wait \/ NothingToClaim \/ KeepPass \/ KeepOne
             \/ \E p \in runs : LookAt(p) \/ Reap(p)
    <3>1. runs' \subseteq runs /\ sched'.step \notin {"decide", "launch"}
      BY <2>2 DEF LoopTop, MarkFailed, Wait, NothingToClaim, KeepPass, KeepOne, LookAt, Reap, Goto, lists
    <3>2. Busy' \subseteq Busy
      BY <3>1 DEF Busy, Workers
    <3>. QED BY <1>2, <2>1, <3>1, <3>2 DEF Committed
  <2>3. CASE Decide
    <3>1. /\ runs' = runs /\ sched.step = "reap" /\ sched'.step = "decide"
          /\ Cardinality(live) < Target /\ Cardinality(Busy) < Concurrency
      BY <2>1, <2>3, BusyCount DEF Decide, Goto
    <3>2. Committed' = live \cup Busy
      BY <2>1, <3>1 DEF Committed, Busy, Workers
    <3>3. live \subseteq Indices /\ Busy \subseteq Indices
      BY <2>1, BusyCount DEF TypeOK
    <3>4. /\ IsFiniteSet(live) /\ Cardinality(live) \in Nat
          /\ IsFiniteSet(Busy) /\ Cardinality(Busy) \in Nat /\ Cardinality(live \cap Busy) \in Nat
      BY <3>3, SomeIndices
    <3>5. Cardinality(Committed') = Cardinality(live) + Cardinality(Busy) - Cardinality(live \cap Busy)
      BY <3>2, <3>4, FS_Union
    <3>. QED BY <3>1, <3>4, <3>5
  <2>4. CASE Claim
    <3>1. PICK i \in Indices : /\ runs' = runs /\ sched.step = "decide"
                               /\ sched'.step = "launch" /\ sched'.index = i
      BY <2>4 DEF Claim, Goto
    <3>2. Committed' = Committed \cup {i}
      BY <2>1, <3>1 DEF Committed, Busy, Workers
    <3>3. Cardinality(Committed') <= Cardinality(Committed) + 1 /\ Cardinality(Committed') \in Nat
      BY <3>2, OneIndexMore
    <3>. QED BY <1>1, <2>1, <3>1, <3>3
  <2>5. CASE Launch
    <3>. DEFINE q == [index |-> sched.index, owned |-> TRUE, step |-> "registering"]
    <3>1. /\ runs' = runs \cup {q} /\ sched.step = "launch" /\ sched'.step = "top"
          /\ q.index = sched.index
      BY <2>5 DEF Launch, Goto
    <3>. HIDE DEF q
    <3>2. Busy' \subseteq Busy \cup {sched.index}
      BY <3>1 DEF Busy, Workers
    <3>. QED BY <1>2, <2>1, <3>1, <3>2 DEF Committed
  <2>. QED BY <1>3, <2>2, <2>3, <2>4, <2>5 DEF SchedNext
<1>4. ASSUME NEW p \in runs, RunNext(p)
      PROVE  Cardinality(Committed') + (IF At("decide")' THEN 1 ELSE 0) < Target + Concurrency
  <2>1. /\ starts = 1 /\ sched' = sched
        /\ live' = live \/ (p.step = "registered" /\ live' = live \cup {p.index})
    BY <1>4, RunWrites
  <2>2. Busy' = Busy
    BY <1>4, <2>1, RunKeepsBusy DEF InflightInv
  <2>3. p.step = "registered" => p.index \in Busy
    BY <2>1 DEF RunPoolInv, OneScheduler, OrphansOnly, Busy, Workers
  <2>. QED BY <1>2, <2>1, <2>2, <2>3 DEF Committed
<1>5. ASSUME NEW stops \in BOOLEAN, Term(stops)
      PROVE  Cardinality(Committed') + (IF At("decide")' THEN 1 ELSE 0) < Target + Concurrency
  <2>1. /\ starts = 1 /\ live' = live
        /\ sched'.index = sched.index /\ (sched'.step = sched.step \/ sched'.step = "stopped")
    BY <1>5 DEF Term, lists, TypeOK, Sched
  <2>2. Busy' = Busy
    BY <1>5, SignalKeepsBusy
  <2>. QED BY <1>2, <2>1, <2>2 DEF Committed
<1>6. CASE Kill
  <2>1. starts = 1 /\ UNCHANGED <<live, runs>> /\ sched'.step = "stopped"
    BY <1>6 DEF Kill, lists, TypeOK, Sched
  <2>. QED BY <1>2, <2>1 DEF Committed, Busy, Workers
<1>7. CASE Start
  BY <1>7 DEF Start, TypeOK
<1>8. CASE UNCHANGED vars
  <2>1. UNCHANGED <<live, runs, sched, starts>>
    BY <1>8 DEF vars, lists
  <2>. QED BY <1>2, <2>1 DEF Committed, Busy, Workers
<1>. QED BY <1>3, <1>4, <1>5, <1>6, <1>7, <1>8 DEF Next

\* However many children the script may have, it has registered less than
\* TARGET + CONCURRENCY accounts.
THEOREM OvershootBounded == Spec => []Overshoot
<1>1. Init => CommittedInv
  <2>. SUFFICES ASSUME Init PROVE CommittedInv
    OBVIOUS
  <2>1. Committed = {} /\ ~At("decide")
    BY DEF Init, Committed, Busy, Workers, At
  <2>2. Cardinality(Committed) = 0
    BY <2>1, FS_EmptySet
  <2>. QED BY <2>1, <2>2, RunPoolAssumption DEF CommittedInv
<1>2. TypeOK /\ InHand /\ CommittedInv => Overshoot
  <2>. SUFFICES ASSUME TypeOK, InHand, CommittedInv, starts = 1, Target > 0, Concurrency > 0
                PROVE  Cardinality(live) < Target + Concurrency
    BY DEF Overshoot
  <2>1. Cardinality(live) <= Cardinality(Committed) /\ Cardinality(Committed) \in Nat
    BY CommittedType, FS_Subset
  <2>2. Cardinality(live) \in Nat
    BY SomeIndices DEF TypeOK
  <2>. QED BY <2>1, <2>2, RunPoolAssumption DEF CommittedInv
<1>. QED BY <1>1, <1>2, CommittedStays, InflightHolds, TypeCorrect, SchedulerHolds, PTL DEF Spec

=============================================================================
