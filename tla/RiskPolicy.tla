----------------------------- MODULE RiskPolicy -----------------------------
(***************************************************************************)
(* The part of app/services/risk.py that decides what a failure makes of a *)
(* mailbox.  Of the classes of classify_mailbox_error only "token_dead"    *)
(* is told apart from the others.                                          *)
(***************************************************************************)
EXTENDS Naturals

NextMailboxStatus(fails, maxFail, class) ==
  IF class = "token_dead" \/ fails >= maxFail THEN "disabled" ELSE "cooling"

=============================================================================
