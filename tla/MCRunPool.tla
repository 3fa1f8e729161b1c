----------------------------- MODULE MCRunPool -----------------------------
(***************************************************************************)
(* The shell pool for TLC; the values are in the configuration.            *)
(***************************************************************************)
EXTENDS RunPoolProperties, TLC
=============================================================================
