------------------------- MODULE RunPoolProperties -------------------------
(***************************************************************************)
(* What the shell pool must keep, and what makes it inductive.             *)
(***************************************************************************)
EXTENDS RunPool

TypeOK ==
  /\ live \subseteq Indices /\ failed \subseteq Indices /\ inflight \subseteq Indices
  /\ files \subseteq Indices
  /\ runs \subseteq Run
  /\ sched \in Sched
  /\ starts \in Nat \ {0} /\ signalled \in BOOLEAN

\* A process that is signing up at the console with a mailbox.
SigningUp(p) == p.step \in {"registering", "orphan"}

\* One scheduler never signs up twice at a time with one mailbox, and never
\* again with one whose outcome is on file, though an index changes lists in
\* two steps, its children write live.list on their own, and a signal leaves
\* register.py running without them.
OneRegistration ==
  starts = 1 =>
    /\ \A p, q \in runs : SigningUp(p) /\ SigningUp(q) /\ p.index = q.index => p = q
    /\ \A p \in runs : p.step = "registering" => p.index \notin live \cup failed

\* keepalive-one.sh, which is run for every index of live.list and fails
\* without an account file, finds one, whatever is killed or started again.
ListedHasFile == live \subseteq files

\* Unless a signal came between its last two statements, a registration is
\* listed as live or as failed, not both.
ListsDisjoint == starts = 1 /\ ~signalled => live \cap failed = {}

\* TARGET is passed by what was under way when it was reached, no more.
Overshoot ==
  starts = 1 /\ Target > 0 /\ Concurrency > 0 => Cardinality(live) < Target + Concurrency

\* The script gives up only when every mailbox was tried and has its outcome.
GivesUpAtTheEnd ==
  [][NothingToClaim /\ sched'.step = "stopped" /\ starts = 1
     => Indices \subseteq live \cup failed]_vars

\* Registering comes to an end: enough accounts, or no mailbox left.
RegisteringEnds == At("top") ~> At("keep") \/ At("stopped")
-----------------------------------------------------------------------------
\* The index the scheduler is about to write or launch.
InHand == sched.step \in {"mark", "launch"} => sched.index \in Indices

\* An account file is there before the index is listed.
FileFirst == \A p \in runs : p.step \in {"registered", "listed", "ok"} => p.index \in files

\* An index being moved from one list to another is still taken.
Taken == Used \cup (IF sched.step \in {"mark", "stopped"} THEN {sched.index} ELSE {})

\* While the script was started once, every process works on a taken index,
\* two workers on two of them, and the index in hand is nobody's.
IndexTaken == \A p \in runs : p.index \in Taken
OrphansOnly == \A p \in runs : ~p.owned => p.step = "orphan"
ListedIsLive == \A p \in runs : p.step \in {"listed", "ok"} => p.index \in live
OneWorkerEach == \A p, q \in Workers : p.index = q.index => p = q
MarkedIsIdle == At("mark") => \A p \in Workers : p.index # sched.index
LaunchedIsFree ==
  At("launch") => /\ sched.index \in inflight \ (live \cup failed)
                  /\ \A p \in runs : p.index # sched.index

OneScheduler ==
  IndexTaken /\ OrphansOnly /\ ListedIsLive /\ OneWorkerEach /\ MarkedIsIdle /\ LaunchedIsFree

RunPoolInv == starts = 1 => OneScheduler /\ OneRegistration

\* Without a signal, an index is on no list before its process has listed it,
\* and not on failed.list while a child works on it.
OutcomeToCome == \A p \in Workers : /\ p.index \notin failed /\ p.step # "killed"
                                    /\ p.step \notin {"listed", "ok"} => p.index \notin live
MarkedIsNotLive == At("mark") => sched.index \notin live
ListsInv == starts = 1 /\ ~signalled => ListsDisjoint /\ OutcomeToCome /\ MarkedIsNotLive

\* What is live or may still become so: an index is added only after fewer than
\* Target were live and fewer than Concurrency busy.
Busy == {p.index : p \in Workers}
Committed == live \cup Busy \cup (IF At("launch") THEN {sched.index} ELSE {})
CommittedInv ==
  starts = 1 /\ Target > 0 /\ Concurrency > 0
    => Cardinality(Committed) + (IF At("decide") THEN 1 ELSE 0) < Target + Concurrency

\* While the scheduler runs, every index of inflight.list has a child that it
\* will wait for.
WaitedFor == \A p \in Workers : p.step # "orphan"
InflightInv ==
  starts = 1 =>
    /\ WaitedFor
    /\ \A i \in inflight : i \in Busy \/ At("stopped") \/ (At("launch") /\ sched.index = i)

=============================================================================
