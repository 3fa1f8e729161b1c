------------------------------ MODULE Backends ------------------------------
(***************************************************************************)
(* What the backends do with the console for a job of the worker: the      *)
(* browser scripts of app/backends/automation.py and keepalive.py, and     *)
(* app/backends/protocol.py with its session file.  They run one job at a  *)
(* time, for one account and its mailbox, and may be killed at any point.  *)
(*                                                                         *)
(* The console is external: it turns the page when it likes, before or     *)
(* after a script has looked at the URL where the code does.               *)
(***************************************************************************)
EXTENDS OneTimeCode

VARIABLES
  page,     \* the URL of the browser: any page before the login is "login"
  profile,  \* by kind: the browser profile is logged in, of the job or account-<id>
  session   \* the session file of the protocol backend

browser == <<page, profile>>
mails == <<asked, transit, folder>>
vars == <<now, login, asked, transit, folder, page, profile, session>>

Kinds == {"register", "keepalive"}
Inside == {"setup", "console"}
LoggedIn == page # "login"  \* _logged_in
OnSetup == page = "setup"   \* _on_setup

\* The console has let the browser of this login in.
Entered == profile[login.kind]

IdleLogin == [id |-> 0, kind |-> "register", step |-> "idle", after |-> 0, left |-> 0,
              sleep |-> 0, code |-> None, missed |-> FALSE]
Ended == {"idle", "done", "failed"}
Continue(step) == login' = [login EXCEPT !.step = step]
Begin(kind, step, sleep) ==
  /\ login.step \in Ended /\ Awake /\ login.id < MaxLogins
  /\ login' = [IdleLogin EXCEPT !.id = login.id + 1, !.kind = kind, !.step = step, !.sleep = sleep]
-----------------------------------------------------------------------------
\* register loads the login page with the profile of its job, which is new
\* unless the job was tried before; keepalive loads the console with that of the
\* account.  The console may have forgotten either.  Then sleep(1).
Open(kind) ==
  /\ Begin(kind, "opened", Ticks)
  /\ \E known \in {FALSE, profile[kind]} : profile' = [profile EXCEPT ![kind] = known]
  /\ page' \in IF kind = "register" THEN {"login"} ELSE Inside
  /\ UNCHANGED <<now, mails, session>>

\* External: the console redirects a browser from its login page once it is
\* let in, to its login page as long as it is not, and from page to page inside.
Turn ==
  /\ login.step \notin Ended /\ page # "none"
  /\ page' \in IF Entered THEN Inside ELSE {"login"}
  /\ UNCHANGED <<now, login, profile, mails, session>>

\* The URL is judged once the sleep is over; keepalive loads the login page if
\* it is not behind the login.
Look ==
  /\ At("opened") /\ Awake
  /\ \/ /\ OnSetup
        /\ Continue("tos") /\ UNCHANGED page
     \/ /\ ~OnSetup /\ login.kind = "register"
        /\ Continue("page") /\ UNCHANGED page
     \/ /\ page = "console" /\ login.kind = "keepalive"
        /\ Continue("done") /\ UNCHANGED page
     \/ /\ ~LoggedIn /\ login.kind = "keepalive"
        /\ login' = [login EXCEPT !.step = "page", !.sleep = Ticks]
        /\ page' = "login"
  /\ UNCHANGED <<now, profile, mails, session>>

\* The browser fails, or an element the script needs is not on the page: it
\* raises, and the next browser takes a second to start.
ScriptRaises ==
  /\ login.step \in {"opened", "page", "asked", "code", "verified", "tos", "finish", "look"} /\ Awake
  /\ Continue("failed")
  /\ UNCHANGED <<now, mails, browser, session>>

\* The code is typed and sent.  The console knows the code it sent last, and
\* turns the page within the script's wait or after it.
Verify ==
  /\ At("code")
  /\ Continue("verified")
  /\ \/ UNCHANGED profile
     \/ login.code = login.id /\ profile' = [profile EXCEPT ![login.kind] = TRUE]
  /\ UNCHANGED <<now, page, mails, session>>

\* Mutant: register does not look at the page after the wait.
VerifiedUnseen ==
  /\ At("verified")
  /\ IF login.kind = "keepalive" THEN Continue(IF OnSetup THEN "tos" ELSE "look")
     ELSE Continue("finish") \/ (OnSetup /\ Continue("tos"))
  /\ UNCHANGED <<now, mails, browser, session>>

\* register looks whether the login is behind it before the setup, keepalive
\* after it.  Of the setup pages register accepts terms only on their own.
Verified ==
  /\ At("verified")
  /\ IF login.kind = "keepalive" THEN Continue(IF OnSetup THEN "tos" ELSE "look")
     ELSE IF ~LoggedIn THEN Continue("failed")
     ELSE Continue("finish") \/ (OnSetup /\ Continue("tos"))
  /\ UNCHANGED <<now, mails, browser, session>>

\* _accept_tos and _finish_setup click; where that led to is not asked, except
\* by a keepalive that has typed a code.
Click(step, next) ==
  /\ At(step)
  /\ Continue(next)
  /\ UNCHANGED <<now, mails, browser, session>>

AcceptTos == Click("tos", "finish")
FinishSetup == Click("finish", IF login.kind = "keepalive" /\ login.code # None THEN "look" ELSE "done")

LookAgain ==
  /\ At("look")
  /\ Continue(IF LoggedIn THEN "done" ELSE "failed")
  /\ UNCHANGED <<now, mails, browser, session>>

BrowserStep ==
  \/ Look \/ ScriptRaises \/ Verify \/ Verified \/ AcceptTos \/ FinishSetup \/ LookAgain
  \/ page = "login" /\ AskForCode /\ UNCHANGED <<browser, session>>
  \/ Poll /\ UNCHANGED <<browser, session>>
-----------------------------------------------------------------------------
\* The protocol backend: register.py of the protocol repository is looked for,
\* and keepalive reads the session file.  A file that cannot be parsed is no
\* session.
Load(kind) ==
  /\ \/ Begin(kind, "failed", 0)
     \/ Begin(kind, IF kind = "keepalive" /\ session = "usable" THEN "resume" ELSE "sign in", 0)
  /\ page' = "none"
  /\ UNCHANGED <<now, profile, mails, session>>

\* Mutant: the session is written whether or not its key was proven.
ProveUnasked ==
  /\ login.step \in {"resume", "sign in"}
  /\ \E proven \in BOOLEAN :
       /\ Continue(IF proven THEN "write" ELSE "failed")
       /\ session' = IF proven THEN session ELSE "unproven"
  /\ UNCHANGED <<now, mails, browser>>

\* The console is signed in to and the key proven, or something raises.
Prove ==
  /\ login.step \in {"resume", "sign in"}
  /\ \E proven \in BOOLEAN : Continue(IF proven THEN "write" ELSE "failed")
  /\ UNCHANGED <<now, mails, browser, session>>

\* _write_session truncates the file, or cannot open it, and then writes it.
Truncate ==
  /\ At("write")
  /\ \/ Continue("writing") /\ session' = "cut"
     \/ Continue("failed") /\ UNCHANGED session
  /\ UNCHANGED <<now, mails, browser>>

\* A write that fails leaves the file cut.
WriteSession ==
  /\ At("writing")
  /\ \/ Continue("done") /\ session' = "usable"
     \/ Continue("failed") /\ UNCHANGED session
  /\ UNCHANGED <<now, mails, browser>>

ProtocolStep == Prove \/ Truncate \/ WriteSession
-----------------------------------------------------------------------------
\* The process is killed and later started again; profiles and file stay as
\* they are.
Killed ==
  /\ login.step \notin Ended
  /\ login' = [IdleLogin EXCEPT !.id = login.id, !.sleep = Restart]
  /\ page' = "none"
  /\ UNCHANGED <<now, profile, session, mails>>

External ==
  \/ \E request \in asked : Send(request)
  \/ \E mail \in transit, name \in DOMAIN folder : Deliver(mail, name)
  \/ Tick

Init ==
  /\ now = 0 /\ login = IdleLogin /\ asked = {} /\ transit = {}
  /\ folder = [name \in {"INBOX", "Junk"} |-> << >>]
  /\ page = "none" /\ profile = [kind \in Kinds |-> FALSE] /\ session = "none"

Next ==
  \/ \E kind \in Kinds : Open(kind) \/ Load(kind)
  \/ Turn \/ BrowserStep \/ ProtocolStep
  \/ Killed
  \/ External /\ UNCHANGED <<browser, session>>

Spec == Init /\ [][Next]_vars

\* The thread of the poll runs, time passes, and a code the console was asked
\* for is sent.
FairSpec ==
  /\ Spec
  /\ WF_vars(Poll /\ UNCHANGED <<browser, session>>)
  /\ WF_vars(Tick /\ UNCHANGED <<browser, session>>)
  /\ WF_vars((\E request \in asked : Send(request)) /\ UNCHANGED <<browser, session>>)
-----------------------------------------------------------------------------
TypeOK ==
  /\ now \in 0..MaxTime
  /\ login \in [id : 0..MaxLogins, kind : Kinds,
                step : Ended \cup {"opened", "page", "asked", "poll", "INBOX", "Junk", "code",
                                   "verified", "tos", "finish", "look", "resume", "sign in",
                                   "write", "writing"},
                after : 0..MaxTime, left : 0..Timeout, sleep : Nat,
                code : Logins \cup {None}, missed : BOOLEAN]
  /\ asked \subseteq [code : Logins, at : 0..MaxTime] /\ transit \subseteq Mail
  /\ folder \in [{"INBOX", "Junk"} -> Seq(Mail)]
  /\ page \in {"none", "login"} \cup Inside /\ profile \in [Kinds -> BOOLEAN]
  /\ session \in {"none", "cut", "usable"}

\* The code a login types is the one it asked for, in whatever order the mails
\* of this login and of earlier ones arrive: provided the console sends a code
\* within SendDelay, which the sleeps of a login and a restart outlast
\* (poll_otp, folder_codes).
OwnCode == login.code # None => login.code = login.id

\* No read of a folder passes over the login's own code, whatever fraction of
\* a second the login and the console's mail are cut by (folder_codes).
NoCodeMissed == ~login.missed

\* A registration in the browser succeeds, and a keepalive that typed a code is
\* kept, only if the console let that browser in: however late or early it turns
\* the page around the script's waits, and whether or not it took the code
\* (AutomationBackend.register, KeepaliveBackend.keepalive).
CodeEnters ==
  At("done") /\ page # "none" /\ (login.kind = "register" \/ login.code # None) => Entered

\* A poll for a code ends, with a code or without one (poll_otp).
Polling == login.step \in {"poll", "INBOX", "Junk"}
PollEnds == Polling ~> ~Polling
=============================================================================
