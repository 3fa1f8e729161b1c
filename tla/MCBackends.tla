----------------------------- MODULE MCBackends -----------------------------
(***************************************************************************)
(* The backends for TLC; the values are in the configuration.              *)
(***************************************************************************)
EXTENDS Backends, TLC
=============================================================================
