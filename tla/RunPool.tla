------------------------------- MODULE RunPool -------------------------------
(***************************************************************************)
(* The shell pool: scripts/run-pool.sh, the register-one.sh processes it   *)
(* starts, and the list files of scripts/lib.sh they share.                *)
(*                                                                         *)
(* append_unique and remove_value hold the flock of their file and end in  *)
(* one write or a rename, so each is one step.  claim_next_index reads     *)
(* three lists under a lock of its own; what others may append meanwhile   *)
(* is an index that is in flight, hence used either way, and it is one     *)
(* step too.                                                               *)
(***************************************************************************)
EXTENDS Naturals, FiniteSets

CONSTANTS
  MaxIndex,     \* MAX_INDEX: mailboxes are numbered 1..MaxIndex
  Target,       \* TARGET
  Concurrency,  \* CONCURRENCY
  Keepalive,    \* KEEPALIVE_SECONDS > 0
  MaxStarts,    \* bound: how often the script is started
  Faults        \* what may happen to the scheduler: "term", "kill"

ASSUME RunPoolAssumption ==
  /\ MaxIndex \in Nat /\ Target \in Nat /\ Concurrency \in Nat /\ MaxStarts \in Nat
  /\ Keepalive \in BOOLEAN /\ Faults \subseteq {"term", "kill"}

VARIABLES
  live, failed, inflight, \* live.list, failed.list, inflight.list
  files,      \* the indexes with an account file
  runs,       \* the register processes: bash, or what is left of it
  sched,      \* the scheduler: where it is, WORKERS still to look at, index in hand
  starts,     \* how often the script was started
  signalled   \* history: the scheduler was sent a signal

lists == <<live, failed, inflight>>
vars == <<lists, files, runs, sched, starts, signalled>>

Indices == 1..MaxIndex
Used == live \cup failed \cup inflight

\* A process belongs to the scheduler that started it until that is gone.
\* "orphan" is a register.py whose bash was killed.
Running == {"registering", "registered", "listed"}
Ended   == {"ok", "error", "killed"}
Run == [index : Indices, owned : BOOLEAN, step : Running \cup Ended \cup {"orphan"}]
Workers == {p \in runs : p.owned}

SchedSteps == {"top", "reap", "mark", "decide", "launch", "keep", "stopped"}
Sched == [step : SchedSteps, todo : SUBSET Indices, index : 0..MaxIndex]
At(step) == sched.step = step
Goto(step, todo, index) == sched' = [step |-> step, todo |-> todo, index |-> index]
-----------------------------------------------------------------------------
\* The while condition, and the list of children that the loop looks at.
LoopTop ==
  /\ At("top")
  /\ IF Cardinality(live) < Target \/ Workers # {}
     THEN Goto("reap", {p.index : p \in Workers}, 0)
     ELSE Goto(IF Keepalive THEN "keep" ELSE "stopped", {}, 0)
  /\ UNCHANGED <<lists, files, runs, starts, signalled>>

\* A child that has not ended when it is looked at is left for the next pass.
LookAt(p) ==
  /\ At("reap") /\ p.owned /\ p.index \in sched.todo
  /\ p.step \notin Ended
  /\ Goto("reap", sched.todo \ {p.index}, 0)
  /\ UNCHANGED <<lists, files, runs, starts, signalled>>

\* Mutants: the index of a failed child is given back; the exit status is lost.
ReapForgetting(p) ==
  /\ At("reap") /\ p.owned /\ p.index \in sched.todo
  /\ p.step \in Ended
  /\ inflight' = inflight \ {p.index}
  /\ runs' = runs \ {p}
  /\ Goto("reap", sched.todo \ {p.index}, 0)
  /\ UNCHANGED <<live, failed, files, starts, signalled>>

ReapUnchecked(p) ==
  /\ At("reap") /\ p.owned /\ p.index \in sched.todo
  /\ p.step \in Ended
  /\ inflight' = inflight \ {p.index}
  /\ runs' = runs \ {p}
  /\ Goto("mark", sched.todo \ {p.index}, p.index)
  /\ UNCHANGED <<live, failed, files, starts, signalled>>

\* reap_one: the index leaves inflight.list before it enters failed.list.
Reap(p) ==
  /\ At("reap") /\ p.owned /\ p.index \in sched.todo
  /\ p.step \in Ended
  /\ inflight' = inflight \ {p.index}
  /\ runs' = runs \ {p}
  /\ Goto(IF p.step = "ok" THEN "reap" ELSE "mark", sched.todo \ {p.index}, p.index)
  /\ UNCHANGED <<live, failed, files, starts, signalled>>

MarkFailed ==
  /\ At("mark")
  /\ failed' = failed \cup {sched.index}
  /\ Goto("reap", sched.todo, 0)
  /\ UNCHANGED <<live, inflight, files, runs, starts, signalled>>

\* Enough accounts, or enough children: sleep and go round again.
Wait ==
  /\ At("reap") /\ sched.todo = {}
  /\ \/ Cardinality(live) >= Target \/ Cardinality(Workers) >= Concurrency
  /\ IF Cardinality(live) >= Target /\ Workers = {}
     THEN Goto(IF Keepalive THEN "keep" ELSE "stopped", {}, 0)
     ELSE Goto("top", {}, 0)
  /\ UNCHANGED <<lists, files, runs, starts, signalled>>

\* Mutant: one child too many.
DecideLoose ==
  /\ At("reap") /\ sched.todo = {}
  /\ Cardinality(live) < Target /\ Cardinality(Workers) <= Concurrency
  /\ Goto("decide", {}, 0)
  /\ UNCHANGED <<lists, files, runs, starts, signalled>>

Decide ==
  /\ At("reap") /\ sched.todo = {}
  /\ Cardinality(live) < Target /\ Cardinality(Workers) < Concurrency
  /\ Goto("decide", {}, 0)
  /\ UNCHANGED <<lists, files, runs, starts, signalled>>

\* Mutants: inflight.list is not asked; the last index is passed.
ClaimListed ==
  /\ At("decide")
  /\ \E i \in Indices \ (live \cup failed) :
       /\ \A k \in Indices \ (live \cup failed) : i <= k
       /\ inflight' = inflight \cup {i}
       /\ Goto("launch", {}, i)
  /\ UNCHANGED <<live, failed, files, runs, starts, signalled>>

ClaimPastEnd ==
  /\ At("decide")
  /\ \E i \in 1..MaxIndex + 1 :
       /\ i \notin Used /\ \A k \in Indices \ Used : i <= k
       /\ inflight' = inflight \cup {i}
       /\ Goto("launch", {}, i)
  /\ UNCHANGED <<live, failed, files, runs, starts, signalled>>

\* claim_next_index
Claim ==
  /\ At("decide")
  /\ \E i \in Indices \ Used :
       /\ \A k \in Indices \ Used : i <= k
       /\ inflight' = inflight \cup {i}
       /\ Goto("launch", {}, i)
  /\ UNCHANGED <<live, failed, files, runs, starts, signalled>>

\* Mutant: the children that still run are not waited for.
NothingToClaimLeaving ==
  /\ At("decide") /\ Indices \subseteq Used
  /\ Goto("stopped", {}, 0)
  /\ UNCHANGED <<lists, files, runs, starts, signalled>>

\* No unused index: wait for the children, or give up when there are none.
NothingToClaim ==
  /\ At("decide") /\ Indices \subseteq Used
  /\ Goto(IF Workers = {} THEN "stopped" ELSE "top", {}, 0)
  /\ UNCHANGED <<lists, files, runs, starts, signalled>>

Launch ==
  /\ At("launch")
  /\ runs' = runs \cup {[index |-> sched.index, owned |-> TRUE, step |-> "registering"]}
  /\ Goto("top", {}, 0)
  /\ UNCHANGED <<lists, files, starts, signalled>>

\* The keepalive loop: a pass over live.list as it was at its start.
KeepPass ==
  /\ At("keep") /\ sched.todo = {} /\ live # {}
  /\ Goto("keep", live, 0)
  /\ UNCHANGED <<lists, files, runs, starts, signalled>>
KeepOne ==
  /\ At("keep")
  /\ \E i \in sched.todo : /\ \A k \in sched.todo : i <= k
                           /\ Goto("keep", sched.todo \ {i}, i)
  /\ UNCHANGED <<lists, files, runs, starts, signalled>>

SchedNext ==
  \/ LoopTop \/ MarkFailed \/ Wait \/ Decide \/ Claim \/ NothingToClaim \/ Launch
  \/ KeepPass \/ KeepOne
  \/ \E p \in runs : LookAt(p) \/ Reap(p)
-----------------------------------------------------------------------------
\* A process becomes q, or is gone if nobody will wait for it.
Becomes(p, q) ==
  runs' = (runs \ {p}) \cup (IF q.step \in Ended /\ ~q.owned THEN {} ELSE {q})

\* register.py ends: with the account file written, or with an error.
RegisterSucceeds(p) ==
  /\ p.step = "registering"
  /\ Becomes(p, [p EXCEPT !.step = "registered"])
  /\ files' = files \cup {p.index}
  /\ UNCHANGED <<lists, sched, starts, signalled>>

RegisterFails(p) ==
  /\ p.step = "registering"
  /\ Becomes(p, [p EXCEPT !.step = "error"])
  /\ UNCHANGED <<lists, files, sched, starts, signalled>>

\* Mutant: the index is listed before register.py has ended.
AppendLiveEarly(p) ==
  /\ p.step \in {"registering", "registered"}
  /\ Becomes(p, [p EXCEPT !.step = "listed"])
  /\ live' = live \cup {p.index}
  /\ UNCHANGED <<failed, inflight, files, sched, starts, signalled>>

AppendLive(p) ==
  /\ p.step = "registered"
  /\ Becomes(p, [p EXCEPT !.step = "listed"])
  /\ live' = live \cup {p.index}
  /\ UNCHANGED <<failed, inflight, files, sched, starts, signalled>>

Exits(p) ==
  /\ p.step = "listed"
  /\ Becomes(p, [p EXCEPT !.step = "ok"])
  /\ UNCHANGED <<lists, files, sched, starts, signalled>>

OrphanEnds(p) ==
  /\ p.step = "orphan"
  /\ runs' = runs \ {p}
  /\ files' \in {files, files \cup {p.index}}
  /\ UNCHANGED <<lists, sched, starts, signalled>>

RunNext(p) ==
  RegisterSucceeds(p) \/ RegisterFails(p) \/ AppendLive(p) \/ Exits(p) \/ OrphanEnds(p)
-----------------------------------------------------------------------------
\* The trap of INT and TERM kills the children and does not exit: the loop
\* goes on, unless the signal also ended the sleep it was in.  What is killed
\* is bash; a register.py it was waiting for runs on.  The trap's wait without
\* a pid forgets the status of the children that had ended: the loop's wait for
\* them fails, as it does for the killed.
Killed(p) == [p EXCEPT !.step = "killed"]
Orphaned(p) == [p EXCEPT !.step = "orphan", !.owned = FALSE]
Term(stops) ==
  /\ "term" \in Faults /\ ~At("stopped")
  /\ runs' = (runs \ Workers)
       \cup {Killed(p) : p \in Workers}
       \cup {Orphaned(p) : p \in {q \in Workers : q.step = "registering"}}
  /\ sched' = IF stops THEN [sched EXCEPT !.step = "stopped"] ELSE sched
  /\ signalled' = TRUE
  /\ UNCHANGED <<lists, files, starts>>

\* The scheduler is gone without its trap; its children run on.
Kill ==
  /\ "kill" \in Faults /\ ~At("stopped")
  /\ sched' = [sched EXCEPT !.step = "stopped"]
  /\ UNCHANGED <<lists, files, runs, starts, signalled>>

\* The script is started again: the old one's children are nobody's, and
\* inflight.list is emptied.
Start ==
  /\ At("stopped") /\ starts < MaxStarts
  /\ starts' = starts + 1
  /\ inflight' = {}
  /\ runs' = {[p EXCEPT !.owned = FALSE] : p \in {q \in runs : q.step \notin Ended}}
  /\ Goto("top", {}, 0)
  /\ UNCHANGED <<live, failed, files, signalled>>

Init == /\ live = {} /\ failed = {} /\ inflight = {} /\ files = {} /\ runs = {}
        /\ sched = [step |-> "top", todo |-> {}, index |-> 0]
        /\ starts = 1 /\ signalled = FALSE

Next == SchedNext \/ (\E p \in runs : RunNext(p)) \/ (\E stops \in BOOLEAN : Term(stops)) \/ Kill \/ Start

Spec == Init /\ [][Next]_vars

\* The operating system runs every process that can go on, and a
\* registration ends: its HTTP calls and its OTP poll have timeouts.
FairSpec == /\ Spec
            /\ WF_vars(SchedNext)
            /\ \A i \in Indices, step \in Running :
                 WF_vars(\E p \in runs : p.index = i /\ p.step = step /\ RunNext(p))
=============================================================================
