----------------------------- MODULE MCCadence -----------------------------
(***************************************************************************)
(* Values for TLC.  Requests are interchangeable, and so are patches.      *)
(***************************************************************************)
EXTENDS Cadence, TLC

CONSTANTS r1, r2, p1, p2

Interchangeable == Permutations({r1, r2}) \cup Permutations({p1, p2})
StartPolicy == [interval |-> 2, cap |-> 2]
Tightenings == {[interval |-> 3], [cap |-> 1]}
=============================================================================
