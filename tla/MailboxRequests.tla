-------------------------- MODULE MailboxRequests --------------------------
(***************************************************************************)
(* The mailbox endpoints: import_mailboxes (one record; a file is a        *)
(* sequence of them), patch_mailbox and check_mailbox of app/store.py.     *)
(***************************************************************************)
EXTENDS PoolTables

\* An existing mailbox that is in_use makes the import raise.
ImportCall(r, m) ==
  /\ Receives(r, "import")
  /\ mailboxes[m].status # "in_use"
  /\ Continue(r, [req[r] EXCEPT !.step = "import_write", !.email = m,
                           !.seen = SeenOf(mailboxes[m])])
  /\ UNCHANGED <<tables, secrets, paused, sequence, worker, launched>>

\* Mutant: a disabled mailbox is taken for a bound one.
ImportUpdateKeeping(r) ==
  /\ At(r, "import_write") /\ req[r].seen.status # "absent"
  /\ Write(req[r].email, [mailboxes[req[r].email] EXCEPT
       !.status = IF req[r].seen.status \in {"bound", "disabled"} THEN "bound" ELSE "ready",
       !.health = "unknown", !.fails = 0, !.cooldown = "null"])
  /\ Continue(r, [req[r] EXCEPT !.step = "import_secret"])
  /\ UNCHANGED <<jobs, leases, accounts, secrets, paused, sequence, worker, launched>>

ImportUpdate(r) ==
  /\ At(r, "import_write") /\ req[r].seen.status # "absent"
  /\ Write(req[r].email, [mailboxes[req[r].email] EXCEPT
       !.status = IF req[r].seen.status = "bound" THEN "bound" ELSE "ready",
       !.health = "unknown", !.fails = 0, !.cooldown = "null"])
  /\ Continue(r, [req[r] EXCEPT !.step = "import_secret"])
  /\ UNCHANGED <<jobs, leases, accounts, secrets, paused, sequence, worker, launched>>

ImportInsert(r) ==
  /\ At(r, "import_write") /\ req[r].seen.status = "absent"
  /\ mailboxes[req[r].email].status = "absent"
  /\ Write(req[r].email, [NoMailbox EXCEPT !.status = "ready"])
  /\ Continue(r, [req[r] EXCEPT !.step = "import_secret"])
  /\ UNCHANGED <<jobs, leases, accounts, secrets, paused, sequence, worker, launched>>

\* Another import inserted the email meanwhile: UNIQUE makes the INSERT fail.
ImportConflict(r) ==
  /\ At(r, "import_write") /\ req[r].seen.status = "absent"
  /\ mailboxes[req[r].email].status # "absent"
  /\ Finish(r)
  /\ UNCHANGED <<tables, secrets, paused, sequence, worker, launched>>

\* SecretStore.put rewrites secrets.json through a rename, so it is atomic.
ImportSecret(r) ==
  /\ At(r, "import_secret")
  /\ secrets' = secrets \cup {req[r].email}
  /\ Finish(r)
  /\ UNCHANGED <<tables, paused, sequence, worker, launched>>

ImportSteps(r) == ImportUpdate(r) \/ ImportInsert(r) \/ ImportConflict(r) \/ ImportSecret(r)
-----------------------------------------------------------------------------
\* PATCH with status=ready: nothing read beforehand is used.
PatchReady(r, m) ==
  /\ Receives(r, "patch")
  /\ mailboxes[m].status # "absent"
  /\ SetStatus(m, "ready")
  /\ UNCHANGED <<jobs, leases, accounts, secrets, paused, sequence, req, worker, launched>>

PatchDisableCall(r, m) ==
  /\ Receives(r, "patch")
  /\ mailboxes[m].status \notin {"absent", "in_use"}
  /\ Continue(r, [req[r] EXCEPT !.step = "patch_disable", !.email = m])
  /\ UNCHANGED <<tables, secrets, paused, sequence, worker, launched>>

PatchDisable(r) ==
  /\ At(r, "patch_disable")
  /\ SetStatus(req[r].email, "disabled")
  /\ Finish(r)
  /\ UNCHANGED <<jobs, leases, accounts, secrets, paused, sequence, worker, launched>>

\* PATCH with clear_cooldown; with a status as well, the statement follows
\* the one above, as two PATCH calls would.
PatchClear(r, m) ==
  /\ Receives(r, "patch")
  /\ mailboxes[m].status # "absent"
  /\ Write(m, [mailboxes[m] EXCEPT
       !.cooldown = "null",
       !.health = IF @ = "cooling" THEN "unknown" ELSE @,
       !.status = IF @ = "cooling" THEN "ready" ELSE @])
  /\ UNCHANGED <<jobs, leases, accounts, secrets, paused, sequence, req, worker, launched>>
-----------------------------------------------------------------------------
\* The row is read first; reading the policy yields; the IMAP probe is a
\* blocking call, so nothing runs between it and the UPDATE it leads to.
CheckCall(r, m) ==
  /\ Receives(r, "check")
  /\ mailboxes[m].status \notin {"absent", "in_use"}
  /\ Continue(r, [req[r] EXCEPT !.step = "check_write", !.email = m,
                           !.seen = SeenOf(mailboxes[m])])
  /\ UNCHANGED <<tables, secrets, paused, sequence, worker, launched>>

CheckNoSecret(r) ==
  /\ At(r, "check_write") /\ req[r].email \notin secrets
  /\ Finish(r)
  /\ UNCHANGED <<tables, secrets, paused, sequence, worker, launched>>

CheckOk(r) ==
  /\ At(r, "check_write") /\ req[r].email \in secrets
  /\ Write(req[r].email, [mailboxes[req[r].email] EXCEPT
       !.health = "ok", !.fails = 0, !.cooldown = "null",
       !.status = IF req[r].seen.status \notin {"ready", "cooling", "bound"}
                  THEN req[r].seen.status
                  ELSE Restored(req[r].seen.account)])
  /\ Finish(r)
  /\ UNCHANGED <<jobs, leases, accounts, secrets, paused, sequence, worker, launched>>

CheckFail(r, class) ==
  LET fails == req[r].seen.fails + 1
      next  == NextMailboxStatus(fails, MaxFail, class) IN
  /\ At(r, "check_write") /\ req[r].email \in secrets
  /\ Write(req[r].email, [mailboxes[req[r].email] EXCEPT
       !.health = IF next = "disabled" THEN "dead" ELSE "cooling",
       !.fails = Saturate(fails), !.cooldown = "future", !.status = next])
  /\ Finish(r)
  /\ UNCHANGED <<jobs, leases, accounts, secrets, paused, sequence, worker, launched>>

CheckSteps(r) == \/ CheckNoSecret(r) \/ CheckOk(r)
                 \/ \E class \in {"token_dead", "check_fail"} : CheckFail(r, class)

=============================================================================
