----------------------------- MODULE OneTimeCode -----------------------------
(***************************************************************************)
(* Getting the one-time code of a login: poll_otp of app/services/otp.py   *)
(* against the console that sends codes, the mail on its way and the       *)
(* clock.                                                                  *)
(*                                                                         *)
(* A login notes the time, cut to seconds, before it asks for a code, and  *)
(* takes no mail with an earlier Date.  Mail may be slow, overtake other   *)
(* mail, land in the junk folder or get lost; the codes of earlier logins  *)
(* stay in the folders.  Mail without a code and mail of other senders are *)
(* left out.                                                               *)
(***************************************************************************)
EXTENDS Naturals, Sequences

CONSTANTS
  Ticks,      \* ticks of the model's clock in a second
  SendDelay,  \* external: ticks the console takes at most to send a code
  Restart,    \* external: ticks a killed process takes at least to start again
  Timeout,    \* poll_otp: timeout, in ticks
  Interval,   \* poll_otp: interval, in ticks
  Limit,      \* folder_codes: limit
  MaxLogins,  \* bound: logins
  MaxTime     \* bound: the clock

ASSUME CodeAssumption ==
  /\ Ticks \in Nat \ {0} /\ SendDelay \in 0..Ticks /\ Restart \in Nat /\ Restart >= Ticks
  /\ Timeout \in Nat /\ Interval \in Nat /\ Limit \in Nat \ {0}
  /\ MaxLogins \in Nat /\ MaxTime \in Nat

VARIABLES
  now,      \* the clock, in ticks
  login,    \* the login under way: its number, its step, its local variables
  asked,    \* external: the logins the console was asked a code for, and when
  transit,  \* external: the mails on their way
  folder    \* the mailbox's folders, oldest mail first

None == 0
Logins == 1..MaxLogins
Mail == [code : Logins, date : 0..MaxTime]

\* utc_now, and the Date header of a mail
Cut(t) == t - (t % Ticks)
At(step) == login.step = step
Awake == login.sleep = 0
-----------------------------------------------------------------------------
\* Mutant: the time is noted with its fraction of a second.
AskForCodeUncut ==
  /\ At("page") /\ Awake /\ now < MaxTime
  /\ login' = [login EXCEPT !.step = "asked", !.after = now, !.sleep = Ticks]
  /\ asked' = asked \cup {[code |-> login.id, at |-> now]}
  /\ UNCHANGED <<now, transit, folder>>

\* The script enters the email, notes the time, asks for a code and sleeps a
\* second.
AskForCode ==
  /\ At("page") /\ Awake /\ now < MaxTime
  /\ login' = [login EXCEPT !.step = "asked", !.after = Cut(now), !.sleep = Ticks]
  /\ asked' = asked \cup {[code |-> login.id, at |-> now]}
  /\ UNCHANGED <<now, transit, folder>>

PollCall ==
  /\ At("asked") /\ Awake /\ now + Timeout <= MaxTime
  /\ login' = [login EXCEPT !.step = "poll", !.left = Timeout]
  /\ UNCHANGED <<now, asked, transit, folder>>

\* Mutant: the deadline is never looked at.
PollBeginEndless ==
  /\ At("poll") /\ Awake
  /\ login' = [login EXCEPT !.step = "INBOX"]
  /\ UNCHANGED <<now, asked, transit, folder>>

\* The head of the loop: a new token and IMAP session, or OtpTimeout.
PollBegin ==
  /\ At("poll") /\ Awake
  /\ login' = [login EXCEPT !.step = IF login.left > 0 THEN "INBOX" ELSE "failed"]
  /\ UNCHANGED <<now, asked, transit, folder>>

\* refresh_access_token, imap_login or a read raises: the poll is over.
PollFails ==
  /\ login.step \in {"poll", "INBOX", "Junk"} /\ Awake
  /\ login' = [login EXCEPT !.step = "failed"]
  /\ UNCHANGED <<now, asked, transit, folder>>

\* The last mails of a folder.
Window(name) == {i \in 1..Len(folder[name]) : i + Limit > Len(folder[name])}

\* Mutant: the Date of a mail is not compared.
FolderCodesAnyDate(name, fetched) == fetched

\* folder_codes: the mails that are not dated before the login, of those that
\* could be fetched.
FolderCodes(name, fetched) == {i \in fetched : folder[name][i].date >= login.after}

\* The own code was there to be read.
Visible(name, fetched) == \E i \in fetched : folder[name][i].code = login.id

\* Without a code the junk folder is next, then a pause.
PassOver(name) ==
  IF name = "INBOX" THEN [login EXCEPT !.step = "Junk"]
  ELSE [login EXCEPT !.step = "poll", !.sleep = Interval]

\* A mail that cannot be fetched is skipped; of the rest the newest code is
\* taken.
ReadFolder(name) ==
  /\ At(name)
  /\ \E fetched \in SUBSET Window(name) :
       \/ \E newest \in FolderCodes(name, fetched) :
            /\ \A i \in FolderCodes(name, fetched) : i <= newest
            /\ login' = [login EXCEPT !.step = "code", !.code = folder[name][newest].code]
       \/ /\ FolderCodes(name, fetched) = {}
          /\ login' = [PassOver(name) EXCEPT !.missed = @ \/ Visible(name, fetched)]
  /\ UNCHANGED <<now, asked, transit, folder>>

\* The server does not answer select or search with OK.
FolderRefused(name) ==
  /\ At(name)
  /\ login' = PassOver(name)
  /\ UNCHANGED <<now, asked, transit, folder>>

Poll ==
  \/ PollCall \/ PollBegin \/ PollFails
  \/ \E name \in DOMAIN folder : ReadFolder(name) \/ FolderRefused(name)
-----------------------------------------------------------------------------
\* The console sends a code it was asked for.
Send(request) ==
  /\ asked' = asked \ {request}
  /\ transit' = transit \cup {[code |-> request.code, date |-> Cut(now)]}
  /\ UNCHANGED <<now, login, folder>>

\* A mail arrives, in any order.
Deliver(mail, name) ==
  /\ folder' = [folder EXCEPT ![name] = Append(@, mail)]
  /\ transit' = transit \ {mail}
  /\ UNCHANGED <<now, login, asked>>

\* Sleeps and the deadline count down.  The clock does not pass the time by
\* which a code is sent; at its bound it stands, and no poll begins.
Less(ticks) == IF ticks > 0 THEN ticks - 1 ELSE 0
Tick ==
  /\ now < MaxTime \/ login.sleep > 0 \/ login.left > 0
  /\ \A request \in asked : now < request.at + SendDelay
  /\ now' = IF now < MaxTime THEN now + 1 ELSE now
  /\ login' = [login EXCEPT !.sleep = Less(@), !.left = Less(@)]
  /\ UNCHANGED <<asked, transit, folder>>
=============================================================================
