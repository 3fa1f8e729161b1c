------------------------------- MODULE MCPool -------------------------------
(***************************************************************************)
(* Values for TLC.  Requests and emails are interchangeable: no expression *)
(* of the specification orders them.                                       *)
(***************************************************************************)
EXTENDS PoolClaims, TLC

CONSTANTS m1, m2, r1, r2

TwoEmails == Permutations({m1, m2})
TwoRequests == Permutations({r1, r2})
Both == TwoEmails \cup TwoRequests
=============================================================================
