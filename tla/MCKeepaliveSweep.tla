------------------------- MODULE MCKeepaliveSweep -------------------------
(***************************************************************************)
(* The sweep for TLC; the values are in the configuration.                 *)
(***************************************************************************)
EXTENDS KeepaliveSweep

CONSTANT r1
=============================================================================
