--------------------------- MODULE BackendsProofs ---------------------------
(***************************************************************************)
(* The one-time code and the login in the browser, for every number of     *)
(* logins, every length of a second, a timeout, an interval and a window.  *)
(***************************************************************************)
EXTENDS Backends, Integers, TLAPS

(***************************************************************************)
(* Cutting to seconds.                                                     *)
(***************************************************************************)

LEMMA CutBounds == \A t \in Nat : Cut(t) \in Nat /\ Cut(t) <= t /\ t < Cut(t) + Ticks
  BY CodeAssumption DEF Cut

LEMMA CutIsWhole == \A t \in Nat : t \div Ticks \in Nat /\ Cut(t) = (t \div Ticks) * Ticks
  BY CodeAssumption DEF Cut

LEMMA NextMultiple ==
  ASSUME NEW a \in Nat, NEW b \in Nat, NEW c \in Nat, a > b
  PROVE  a * c >= b * c + c
<1>1. PICK k \in Nat : a = b + 1 + k
  <2>1. a - b - 1 \in Nat
    OBVIOUS
  <2>. QED BY <2>1
<1>2. k * c \in Nat
  OBVIOUS
<1>3. a * c = b * c + c + k * c
  BY <1>1
<1>. QED BY <1>2, <1>3

LEMMA CutKeepsOrder ==
  ASSUME NEW s \in Nat, NEW t \in Nat, s <= t
  PROVE  Cut(s) <= Cut(t)
<1>. DEFINE a == s \div Ticks
            b == t \div Ticks
<1>1. a \in Nat /\ b \in Nat /\ Cut(s) = a * Ticks /\ Cut(t) = b * Ticks
  BY CutIsWhole
<1>2. Ticks \in Nat /\ Cut(s) \in Nat /\ Cut(t) \in Nat /\ Cut(s) <= s /\ t < Cut(t) + Ticks
  BY CutBounds, CodeAssumption
<1>. HIDE DEF a, b
<1>3. CASE a > b
  <2>1. a * Ticks >= b * Ticks + Ticks
    BY <1>1, <1>2, <1>3, NextMultiple
  <2>2. Cut(s) >= Cut(t) + Ticks
    BY <1>1, <2>1
  <2>. QED BY <1>2, <2>2
<1>4. CASE a = b
  BY <1>1, <1>2, <1>4
<1>5. CASE b > a
  <2>1. b * Ticks >= a * Ticks + Ticks
    BY <1>1, <1>2, <1>5, NextMultiple
  <2>2. Cut(t) >= Cut(s) + Ticks
    BY <1>1, <2>1
  <2>. QED BY <1>2, <2>2
<1>. QED BY <1>1, <1>3, <1>4, <1>5
-----------------------------------------------------------------------------
(***************************************************************************)
(* The invariant.                                                          *)
(***************************************************************************)

Mails == transit \cup UNION {{folder[name][i] : i \in 1..Len(folder[name])} : name \in {"INBOX", "Junk"}}

Early == {"opened", "page"}
Waiting == {"asked", "poll", "INBOX", "Junk"}

\* The time that has passed since a code was last asked for, at least.
Elapsed == CASE At("page") -> 2 * Ticks
             [] At("opened") -> 2 * Ticks - login.sleep
             [] At("asked") -> Ticks - login.sleep
             [] At("idle") -> Restart - login.sleep
             [] OTHER -> Ticks

SleepsBounded ==
  /\ At("opened") \/ At("asked") => login.sleep <= Ticks
  /\ At("idle") => login.sleep <= Restart

Numbered ==
  /\ login.step \notin Ended => login.id # 0
  /\ \A a \in asked : a.code <= login.id /\ (login.step \in Early => a.code < login.id)
  /\ \A m \in Mails : m.code <= login.id /\ (login.step \in Early => m.code < login.id)

SentInTime == \A a \in asked : a.at <= now /\ now <= a.at + SendDelay

\* While the clock has not reached its bound.
Spaced ==
  now < MaxTime => /\ \A a \in asked : a.at + Elapsed <= now
                   /\ \A m \in Mails : m.date + Elapsed <= now + SendDelay

\* The codes of this login are dated after its start, all others before.
Dated ==
  /\ \A a \in asked : a.code = login.id => login.after <= Cut(a.at)
  /\ \A m \in Mails : m.code = login.id => login.after <= m.date
  /\ login.step \in Waiting => /\ \A a \in asked : a.code = login.id
                               /\ \A m \in Mails : m.code # login.id => m.date < login.after

\* A browser that was not let in shows a page behind the login only to a
\* keepalive that has typed no code.
PageInv ==
  /\ page \in Inside => \/ Entered
                        \/ /\ login.kind = "keepalive" /\ login.code = None
                           /\ login.step \in {"opened", "tos", "finish", "done", "failed"}
  /\ login.step \in {"tos", "finish", "done"} =>
       page = "none" \/ Entered \/ (login.kind = "keepalive" /\ login.code = None)
  /\ login.step \in {"opened", "page", "asked", "poll", "INBOX", "Junk"} => login.code = None
  /\ login.step \in {"resume", "sign in", "write", "writing"} => page = "none"
-----------------------------------------------------------------------------
Login == [id : 0..MaxLogins, kind : Kinds,
          step : Ended \cup {"opened", "page", "asked", "poll", "INBOX", "Junk", "code",
                             "verified", "tos", "finish", "look", "resume", "sign in",
                             "write", "writing"},
          after : 0..MaxTime, left : 0..Timeout, sleep : Nat,
          code : Logins \cup {None}, missed : BOOLEAN]

LEMMA LoginType == TypeOK => login \in Login /\ now \in 0..MaxTime
  BY DEF TypeOK, Login

LEMMA LoginNumbers ==
  ASSUME TypeOK
  PROVE  /\ login.id \in Nat /\ login.sleep \in Nat /\ login.left \in Nat /\ login.after \in Nat
         /\ now \in Nat
<1>1. login \in Login /\ now \in 0..MaxTime
  BY LoginType
<1>2. login.id \in 0..MaxLogins /\ login.sleep \in Nat /\ login.left \in 0..Timeout
      /\ login.after \in 0..MaxTime
  BY <1>1 DEF Login
<1>. QED BY <1>1, <1>2, CodeAssumption

LEMMA IdleType == IdleLogin \in Login
  BY CodeAssumption DEF IdleLogin, Login, Kinds, Ended, None, Logins

LEMMA MailType ==
  ASSUME TypeOK
  PROVE  /\ \A a \in asked : a.code \in Nat /\ a.code # 0 /\ a.at \in 0..MaxTime
         /\ \A m \in Mails : m.code \in Nat /\ m.date \in 0..MaxTime
<1>1. \A name \in {"INBOX", "Junk"} : folder[name] \in Seq(Mail)
  BY DEF TypeOK
<1>2. \A name \in {"INBOX", "Junk"} : \A i \in 1..Len(folder[name]) : folder[name][i] \in Mail
  BY <1>1
<1>3. ASSUME NEW m \in Mails PROVE m \in Mail
  <2>1. CASE m \in transit
    BY <2>1 DEF TypeOK
  <2>2. CASE \E name \in {"INBOX", "Junk"} : \E i \in 1..Len(folder[name]) : m = folder[name][i]
    BY <1>2, <2>2
  <2>. QED BY <1>3, <2>1, <2>2 DEF Mails
<1>4. \A m \in Mail : m.code \in Nat /\ m.date \in 0..MaxTime
  BY CodeAssumption DEF Mail, Logins
<1>5. \A a \in [code : Logins, at : 0..MaxTime] : a.code \in Nat /\ a.code # 0 /\ a.at \in 0..MaxTime
  BY CodeAssumption DEF Logins
<1>6. asked \subseteq [code : Logins, at : 0..MaxTime]
  BY DEF TypeOK
<1>. QED BY <1>3, <1>4, <1>5, <1>6

(***************************************************************************)
(* Steps that leave the clock and the mail alone.                          *)
(***************************************************************************)

QuietStep ==
  /\ UNCHANGED <<now, asked, transit, folder>>
  /\ Elapsed' \in Nat /\ Elapsed' <= Elapsed
  /\ SleepsBounded'
  /\ login'.step \notin Ended => login'.id # 0
  /\ \/ /\ login'.id = login.id /\ login'.after \in {0, login.after}
        /\ login'.step \in Waiting => login.step \in Waiting /\ login'.after = login.after
        /\ login'.step \in Early => login.step \in Early
     \/ /\ login'.id = login.id + 1 /\ login'.after = 0 /\ login'.step \notin Waiting

LEMMA ElapsedType ==
  ASSUME TypeOK, SleepsBounded
  PROVE  Elapsed \in Nat
<1>1. login.sleep \in Nat
  BY LoginType DEF Login
<1>2. Ticks \in Nat /\ Restart \in Nat
  BY CodeAssumption
<1>. QED BY <1>1, <1>2 DEF Elapsed, SleepsBounded, At

\* The actions by what they do to login.
Changes ==
  /\ login'.id = login.id /\ login'.after = login.after
  /\ \/ login'.step \notin {"opened", "page", "asked", "idle"}
        /\ ~At("idle") /\ (At("asked") => Awake) /\ (login'.step \in Waiting => login.step \in Waiting)
     \/ At("opened") /\ Awake /\ login'.step = "page"
     \/ At("asked") /\ Awake /\ login'.step = "poll"

Begins ==
  /\ login.step \in Ended /\ Awake
  /\ login'.id = login.id + 1 /\ login'.after = 0
  /\ \/ login'.step = "opened" /\ login'.sleep = Ticks
     \/ login'.step \notin {"opened", "page", "asked", "idle"} \cup Waiting

Stops == login'.id = login.id /\ login'.after = 0 /\ login'.step = "idle" /\ login'.sleep = Restart

LEMMA QuietParts ==
  ASSUME TypeOK, SleepsBounded, Numbered, UNCHANGED <<now, asked, transit, folder>>,
         Changes \/ Begins \/ Stops \/ UNCHANGED login,
         login'.step \notin Ended => login.step \notin Ended \/ login'.id # login.id
  PROVE  QuietStep
<1>1. login.sleep \in Nat /\ login.id \in Nat
  BY LoginNumbers
<1>2. Ticks \in Nat /\ Restart \in Nat /\ Ticks <= Restart
  BY CodeAssumption
<1>3. Elapsed' \in Nat /\ Elapsed' <= Elapsed /\ SleepsBounded'
  <2>. USE DEF Elapsed, SleepsBounded, At, Awake
  <2>1. CASE Changes
    BY <1>1, <1>2, <2>1 DEF Changes
  <2>2. CASE Begins
    BY <1>1, <1>2, <2>2 DEF Begins, Ended, Waiting
  <2>3. CASE Stops
    BY <1>1, <1>2, <2>3 DEF Stops
  <2>4. CASE UNCHANGED login
    BY <1>1, <1>2, <2>4
  <2>. QED BY <2>1, <2>2, <2>3, <2>4
<1>4. login'.step \notin Ended => login'.id # 0
  BY <1>1 DEF Changes, Begins, Stops, Numbered
<1>. DEFINE Same == /\ login'.id = login.id /\ login'.after \in {0, login.after}
                    /\ login'.step \in Waiting => login.step \in Waiting /\ login'.after = login.after
                    /\ login'.step \in Early => login.step \in Early
            New == login'.id = login.id + 1 /\ login'.after = 0 /\ login'.step \notin Waiting
<1>5. ASSUME Changes PROVE Same \/ New
  <2>1. Same
    BY <1>5 DEF Changes, Waiting, Early, At
  <2>. QED BY <2>1
<1>6. ASSUME Begins PROVE Same \/ New
  <2>1. New
    BY <1>6 DEF Begins, Waiting
  <2>. QED BY <2>1
<1>7. ASSUME Stops PROVE Same \/ New
  <2>1. Same
    BY <1>7 DEF Stops, Waiting, Early
  <2>. QED BY <2>1
<1>8. ASSUME UNCHANGED login PROVE Same \/ New
  <2>1. Same
    BY <1>8
  <2>. QED BY <2>1
<1>9. Same \/ New
  BY <1>5, <1>6, <1>7, <1>8
<1>. QED BY <1>3, <1>4, <1>9 DEF QuietStep

QuietAction ==
  \/ \E kind \in Kinds : Open(kind) \/ Load(kind)
  \/ Look \/ ScriptRaises \/ Verify \/ Verified \/ AcceptTos \/ FinishSetup \/ LookAgain
  \/ Poll /\ UNCHANGED <<browser, session>>
  \/ ProtocolStep \/ Killed \/ Turn

LEMMA QuietSteps ==
  ASSUME TypeOK, SleepsBounded, Numbered, QuietAction
  PROVE  QuietStep
<1>. USE LoginType DEF Changes, Begins, Stops, Continue, At, Awake, mails
<1>1. login \in Login
  OBVIOUS
<1>0. login'.id = login.id + 1 => login'.id # login.id
  BY LoginNumbers
<1>2. ASSUME NEW kind \in Kinds, Open(kind) PROVE QuietStep
  <2>1. login' = [IdleLogin EXCEPT !.id = login.id + 1, !.kind = kind, !.step = "opened", !.sleep = Ticks]
    BY <1>2 DEF Open, Begin
  <2>2. login'.id = login.id + 1 /\ login'.after = 0 /\ login'.step = "opened" /\ login'.sleep = Ticks
    BY <2>1 DEF IdleLogin
  <2>3. login.step \in Ended /\ Awake /\ UNCHANGED <<now, asked, transit, folder>>
    BY <1>2 DEF Open, Begin
  <2>4. login'.id # login.id
    BY <1>0, <2>2
  <2>. QED BY <2>2, <2>3, <2>4, QuietParts
<1>3. ASSUME NEW kind \in Kinds, Load(kind) PROVE QuietStep
  <2>1. PICK first \in {"failed", "resume", "sign in"} : Begin(kind, first, 0)
    BY <1>3 DEF Load
  <2>2. login' = [IdleLogin EXCEPT !.id = login.id + 1, !.kind = kind, !.step = first, !.sleep = 0]
    BY <2>1 DEF Begin
  <2>3. login'.id = login.id + 1 /\ login'.after = 0 /\ login'.step = first
    BY <2>2 DEF IdleLogin
  <2>4. login.step \in Ended /\ Awake /\ UNCHANGED <<now, asked, transit, folder>>
    BY <1>3, <2>1 DEF Load, Begin
  <2>5. login'.id # login.id
    BY <1>0, <2>3
  <2>6. first \notin {"opened", "page", "asked", "idle"} \cup Waiting
    BY <2>1 DEF Waiting
  <2>. QED BY <2>3, <2>4, <2>5, <2>6, QuietParts
<1>4. CASE Look
  BY <1>1, <1>4, QuietParts DEF Look, Login, Ended, Waiting
<1>5. CASE ScriptRaises
  BY <1>1, <1>5, QuietParts DEF ScriptRaises, Login, Ended, Waiting
<1>6. CASE Verify \/ LookAgain
  BY <1>1, <1>6, QuietParts DEF Verify, LookAgain, Login, Ended, Waiting
<1>7. CASE Verified
  BY <1>1, <1>7, QuietParts DEF Verified, Login, Ended, Waiting
<1>8. CASE AcceptTos \/ FinishSetup
  BY <1>1, <1>8, QuietParts DEF AcceptTos, FinishSetup, Click, Login, Ended, Waiting
<1>9. CASE PollCall \/ PollBegin \/ PollFails
  BY <1>1, <1>9, QuietParts DEF PollCall, PollBegin, PollFails, Login, Ended, Waiting
<1>10. ASSUME NEW name \in DOMAIN folder, ReadFolder(name) \/ FolderRefused(name) PROVE QuietStep
  <2>1. name \in {"INBOX", "Junk"}
    BY <1>10 DEF TypeOK
  <2>. QED BY <1>1, <1>10, <2>1, QuietParts DEF ReadFolder, FolderRefused, PassOver, Login, Ended, Waiting
<1>11. CASE ProtocolStep
  BY <1>1, <1>11, QuietParts DEF ProtocolStep, Prove, Truncate, WriteSession, Login, Ended, Waiting
<1>12. CASE Killed
  BY <1>1, <1>12, QuietParts DEF Killed, IdleLogin, Login, Ended
<1>13. CASE Turn
  BY <1>13, QuietParts DEF Turn
<1>. QED BY <1>2, <1>3, <1>4, <1>5, <1>6, <1>7, <1>8, <1>9, <1>10, <1>11, <1>12, <1>13 DEF QuietAction, Poll

(***************************************************************************)
(* What a quiet step, a request, the console, the mail and the clock do to *)
(* the invariant.                                                          *)
(***************************************************************************)

Order == Numbered /\ SentInTime /\ Spaced /\ Dated

LEMMA QuietOrder ==
  ASSUME TypeOK, SleepsBounded, Order, QuietStep
  PROVE  Order'
<1>. USE DEF Order
<1>1. Mails' = Mails /\ asked' = asked /\ now' = now
  BY DEF QuietStep, Mails
<1>2. /\ \A a \in asked : a.code \in Nat /\ a.at \in Nat /\ Cut(a.at) \in Nat
      /\ \A m \in Mails : m.code \in Nat /\ m.date \in Nat
      /\ SendDelay \in Nat
  BY MailType, CutBounds, CodeAssumption
<1>3. login.id \in Nat /\ now \in Nat /\ Elapsed \in Nat
  BY LoginNumbers, ElapsedType
<1>4. Numbered'
  BY <1>1, <1>2, <1>3 DEF QuietStep, Numbered
<1>5. SentInTime'
  BY <1>1 DEF SentInTime
<1>6. Spaced'
  <2>1. Elapsed' \in Nat /\ Elapsed' <= Elapsed
    BY DEF QuietStep
  <2>. QED BY <1>1, <1>2, <1>3, <2>1 DEF Spaced
<1>7. Dated'
  <2>1. CASE login'.id = login.id
    BY <1>1, <1>2, <1>3, <2>1 DEF QuietStep, Dated
  <2>2. CASE login'.id = login.id + 1 /\ login'.step \notin Waiting
    BY <1>1, <1>2, <1>3, <2>2 DEF Dated, Numbered
  <2>. QED BY <1>3, <2>1, <2>2 DEF QuietStep
<1>. QED BY <1>4, <1>5, <1>6, <1>7

LEMMA RequestOrder ==
  ASSUME TypeOK, SleepsBounded, Order, AskForCode
  PROVE  Order' /\ SleepsBounded'
<1>. USE DEF Order
<1>. DEFINE new == [code |-> login.id, at |-> now]
<1>1. Mails' = Mails /\ asked' = asked \cup {new} /\ now' = now /\ now < MaxTime /\ At("page")
  BY DEF AskForCode, Mails
<1>2. /\ \A a \in asked : a.code \in Nat /\ a.at \in Nat
      /\ \A m \in Mails : m.code \in Nat /\ m.date \in Nat
      /\ SendDelay \in Nat /\ SendDelay <= Ticks /\ Ticks \in Nat /\ Ticks # 0
  BY MailType, CodeAssumption
<1>3. login.id \in Nat /\ now \in Nat /\ Cut(now) \in Nat /\ Cut(now) <= now /\ now < Cut(now) + Ticks
  BY LoginNumbers, CutBounds
<1>4. /\ login'.id = login.id /\ login'.after = Cut(now) /\ login'.step = "asked" /\ login'.sleep = Ticks
  BY LoginType DEF AskForCode, Login
<1>5. Elapsed = 2 * Ticks /\ Elapsed' = 0 /\ SleepsBounded'
  BY <1>1, <1>2, <1>4 DEF Elapsed, At, SleepsBounded
<1>6. asked = {}
  BY <1>1, <1>2, <1>3, <1>5 DEF Spaced, SentInTime
<1>7. \A m \in Mails : m.code < login.id /\ m.date < Cut(now)
  BY <1>1, <1>2, <1>3, <1>5 DEF Spaced, Numbered, Early, At
<1>8. login.id # 0
  BY <1>1 DEF Numbered, At, Ended
<1>. HIDE DEF Elapsed
<1>9. asked' = {new} /\ new.code = login.id /\ new.at = now
  BY <1>1, <1>6
<1>10. Numbered'
  BY <1>1, <1>2, <1>3, <1>4, <1>7, <1>8, <1>9 DEF Numbered, Early
<1>11. SentInTime'
  BY <1>1, <1>2, <1>3, <1>9 DEF SentInTime
<1>12. Spaced'
  <2>1. \A m \in Mails : m.date + 0 <= now + SendDelay
    BY <1>2, <1>3, <1>7
  <2>2. \A a \in {new} : a.at + 0 <= now
    BY <1>3
  <2>. QED BY <1>1, <1>5, <1>9, <2>1, <2>2 DEF Spaced
<1>13. Dated'
  <2>1. \A a \in {new} : login'.after <= Cut(a.at)
    BY <1>3, <1>4
  <2>. QED BY <1>1, <1>2, <1>3, <1>4, <1>7, <1>9, <2>1 DEF Dated
<1>. QED BY <1>5, <1>10, <1>11, <1>12, <1>13

LEMMA SendOrder ==
  ASSUME TypeOK, SleepsBounded, Order, NEW request \in asked, Send(request)
  PROVE  Order'
<1>. USE DEF Order
<1>. DEFINE new == [code |-> request.code, date |-> Cut(now)]
<1>1. now' = now /\ login' = login /\ asked' \subseteq asked /\ Elapsed' = Elapsed
  BY DEF Send, Elapsed, At
<1>2. \A m \in Mails' : m \in Mails \/ m = new
  BY DEF Send, Mails
<1>3. /\ request.code \in Nat /\ request.at \in Nat /\ Cut(request.at) \in Nat
      /\ \A m \in Mails : m.code \in Nat /\ m.date \in Nat
      /\ SendDelay \in Nat
  BY MailType, CutBounds, CodeAssumption
<1>4. login.id \in Nat /\ now \in Nat /\ Elapsed \in Nat /\ Cut(now) \in Nat /\ Cut(now) <= now
      /\ login.after \in Nat
  BY LoginNumbers, ElapsedType, CutBounds
<1>5. Cut(request.at) <= Cut(now)
  BY <1>3, <1>4, CutKeepsOrder DEF SentInTime
<1>6. new.code = request.code /\ new.date = Cut(now)
  OBVIOUS
<1>. HIDE DEF new
<1>7. Numbered'
  BY <1>1, <1>2, <1>6 DEF Numbered
<1>8. SentInTime'
  BY <1>1 DEF SentInTime
<1>9. Spaced'
  <2>1. now < MaxTime => request.at + Elapsed <= now /\ now <= request.at + SendDelay
    BY DEF Spaced, SentInTime
  <2>2. now < MaxTime => new.date + Elapsed <= now + SendDelay
    BY <1>3, <1>4, <1>6, <2>1
  <2>. QED BY <1>1, <1>2, <2>2 DEF Spaced
<1>10. Dated'
  <2>1. request.code = login.id => login.after <= new.date
    BY <1>3, <1>4, <1>5, <1>6 DEF Dated
  <2>. QED BY <1>1, <1>2, <1>6, <2>1 DEF Dated
<1>. QED BY <1>7, <1>8, <1>9, <1>10

LEMMA DeliverOrder ==
  ASSUME TypeOK, SleepsBounded, Order, NEW mail \in transit, NEW name \in DOMAIN folder,
         Deliver(mail, name)
  PROVE  Order'
<1>. USE DEF Order
<1>1. now' = now /\ login' = login /\ asked' = asked /\ Elapsed' = Elapsed
  BY DEF Deliver, Elapsed, At
<1>2. folder \in [{"INBOX", "Junk"} -> Seq(Mail)] /\ transit \subseteq Mail
  BY DEF TypeOK
<1>3. name \in {"INBOX", "Junk"}
  BY <1>2
<1>4. folder' = [folder EXCEPT ![name] = Append(@, mail)] /\ transit' \subseteq transit
  BY DEF Deliver
<1>5. ASSUME NEW m \in Mails' PROVE m \in Mails
  <2>1. CASE m \in transit'
    BY <1>4, <2>1 DEF Mails
  <2>2. ASSUME NEW other \in {"INBOX", "Junk"}, NEW i \in 1..Len(folder'[other]), m = folder'[other][i]
        PROVE  m \in Mails
    <3>1. CASE other # name
      <4>1. folder'[other] = folder[other]
        BY <1>2, <1>4, <3>1
      <4>. QED BY <2>2, <4>1 DEF Mails
    <3>2. CASE other = name
      <4>1. folder[name] \in Seq(Mail) /\ folder'[other] = Append(folder[name], mail) /\ mail \in Mail
        BY <1>2, <1>3, <1>4, <3>2
      <4>2. Len(folder[name]) \in Nat /\ Len(folder'[other]) = Len(folder[name]) + 1
        BY <4>1
      <4>3. CASE i \in 1..Len(folder[name])
        <5>1. m = folder[name][i]
          BY <2>2, <4>1, <4>3
        <5>. QED BY <1>3, <4>3, <5>1 DEF Mails
      <4>4. CASE i = Len(folder[name]) + 1
        <5>1. m = mail
          BY <2>2, <4>1, <4>4
        <5>. QED BY <5>1 DEF Mails
      <4>. QED BY <4>2, <4>3, <4>4
    <3>. QED BY <3>1, <3>2
  <2>. QED BY <1>5, <2>1, <2>2 DEF Mails
<1>6. Numbered'
  BY <1>1, <1>5 DEF Numbered
<1>7. SentInTime'
  BY <1>1 DEF SentInTime
<1>8. Spaced'
  BY <1>1, <1>5 DEF Spaced
<1>9. Dated'
  BY <1>1, <1>5 DEF Dated
<1>. QED BY <1>6, <1>7, <1>8, <1>9

LEMMA TickOrder ==
  ASSUME TypeOK, SleepsBounded, Order, Tick
  PROVE  Order' /\ SleepsBounded'
<1>. USE DEF Order
<1>1. Mails' = Mails /\ asked' = asked
  BY DEF Tick, Mails
<1>2. /\ login'.step = login.step /\ login'.id = login.id /\ login'.after = login.after
      /\ login'.sleep = Less(login.sleep)
  BY LoginType DEF Tick, Login
<1>3. /\ \A a \in asked : a.code \in Nat /\ a.at \in Nat
      /\ \A m \in Mails : m.code \in Nat /\ m.date \in Nat
      /\ SendDelay \in Nat /\ Ticks \in Nat /\ Restart \in Nat /\ MaxTime \in Nat
  BY MailType, CodeAssumption
<1>4. /\ login.id \in Nat /\ now \in Nat /\ Elapsed \in Nat /\ login.sleep \in Nat
      /\ now <= MaxTime
  <2>1. login.id \in Nat /\ now \in Nat /\ Elapsed \in Nat /\ login.sleep \in Nat
    BY LoginNumbers, ElapsedType
  <2>2. now \in 0..MaxTime /\ MaxTime \in Nat
    BY LoginType, <1>3
  <2>. QED BY <2>1, <2>2
<1>5. login'.sleep \in Nat /\ login'.sleep <= login.sleep /\ login.sleep <= login'.sleep + 1
  BY <1>2, <1>4 DEF Less
<1>6. SleepsBounded'
  BY <1>2, <1>3, <1>4, <1>5 DEF SleepsBounded, At
<1>7. Elapsed' \in Nat /\ Elapsed' <= Elapsed + 1
  BY <1>2, <1>3, <1>4, <1>5, <1>6 DEF SleepsBounded, Elapsed, At
<1>8. now' \in Nat /\ (now < MaxTime => now' = now + 1) /\ (now >= MaxTime => now' = now)
  BY <1>3, <1>4 DEF Tick
<1>. HIDE DEF Elapsed
<1>9. Numbered'
  BY <1>1, <1>2 DEF Numbered
<1>10. SentInTime'
  <2>1. \A a \in asked : now < a.at + SendDelay
    BY DEF Tick
  <2>. QED BY <1>1, <1>3, <1>4, <1>8, <2>1 DEF SentInTime
<1>11. Spaced'
  <2>1. CASE now < MaxTime
    BY <1>1, <1>3, <1>4, <1>7, <1>8, <2>1 DEF Spaced
  <2>2. CASE now >= MaxTime
    BY <1>3, <1>4, <1>8, <2>2 DEF Spaced
  <2>. QED BY <1>3, <1>4, <2>1, <2>2
<1>12. Dated'
  BY <1>1, <1>2 DEF Dated
<1>. QED BY <1>6, <1>9, <1>10, <1>11, <1>12

(***************************************************************************)
(* Reading a folder.                                                       *)
(***************************************************************************)

LEMMA FolderType ==
  ASSUME TypeOK, NEW name \in DOMAIN folder, NEW i \in 1..Len(folder[name])
  PROVE  folder[name][i] \in Mail /\ folder[name][i] \in Mails
<1>1. folder \in [{"INBOX", "Junk"} -> Seq(Mail)]
  BY DEF TypeOK
<1>2. name \in {"INBOX", "Junk"} /\ folder[name] \in Seq(Mail)
  BY <1>1
<1>. QED BY <1>2 DEF Mails

LEMMA ReadFindsOwn ==
  ASSUME TypeOK, Dated, NEW name \in DOMAIN folder, login.step = name
  PROVE  \A fetched \in SUBSET Window(name) :
           /\ \A i \in FolderCodes(name, fetched) : folder[name][i].code = login.id
           /\ FolderCodes(name, fetched) = {} => ~Visible(name, fetched)
<1>1. name \in {"INBOX", "Junk"} /\ login.step \in Waiting
  BY DEF TypeOK, Waiting
<1>2. login.after \in Nat
  BY LoginNumbers
<1>3. ASSUME NEW i \in Window(name)
      PROVE  /\ folder[name][i] \in Mails
             /\ folder[name][i].date \in Nat
  <2>1. i \in 1..Len(folder[name])
    BY DEF Window
  <2>2. folder[name][i] \in Mails
    BY <2>1, FolderType
  <2>3. MaxTime \in Nat
    BY CodeAssumption
  <2>. QED BY <2>2, <2>3, MailType
<1>4. \A i \in Window(name) : folder[name][i].date >= login.after <=> folder[name][i].code = login.id
  BY <1>1, <1>2, <1>3 DEF Dated
<1>. QED BY <1>4 DEF FolderCodes, Visible

(***************************************************************************)
(* The scripts: their types, the code they hold, the page and the session. *)
(***************************************************************************)

ScriptInv == TypeOK /\ OwnCode /\ NoCodeMissed

Steps == Ended \cup {"opened", "page", "asked", "poll", "INBOX", "Junk", "code",
                     "verified", "tos", "finish", "look", "resume", "sign in", "write", "writing"}

LEMMA ContinueType ==
  ASSUME TypeOK, NEW next \in Steps, Continue(next)
  PROVE  /\ login' \in Login /\ login'.step = next
         /\ login'.id = login.id /\ login'.code = login.code /\ login'.missed = login.missed
  BY LoginType DEF Continue, Login, Steps

LEMMA BeginType ==
  ASSUME TypeOK, NEW kind \in Kinds, NEW next \in Steps, NEW sleep \in Nat, Begin(kind, next, sleep)
  PROVE  /\ login' \in Login /\ login'.step = next
         /\ login'.code = None /\ login'.missed = FALSE /\ login.step \in Ended
<1>1. login.id + 1 \in 0..MaxLogins
  BY LoginNumbers, CodeAssumption DEF Begin
<1>2. IdleLogin \in Login
  BY IdleType
<1>3. login' = [IdleLogin EXCEPT !.id = login.id + 1, !.kind = kind, !.step = next, !.sleep = sleep]
  BY DEF Begin
<1>4. login' \in Login /\ login'.step = next
  BY <1>1, <1>2, <1>3 DEF Login, Steps
<1>5. login'.code = None /\ login'.missed = FALSE
  BY <1>3 DEF IdleLogin
<1>. QED BY <1>4, <1>5 DEF Begin

LEMMA OpenKeeps ==
  ASSUME ScriptInv, NEW kind \in Kinds, Open(kind) \/ Load(kind)
  PROVE  ScriptInv'
<1>. USE DEF ScriptInv
<1>1. CASE Open(kind)
  <2>1. Begin(kind, "opened", Ticks) /\ "opened" \in Steps /\ Ticks \in Nat
    BY <1>1, CodeAssumption DEF Open, Steps
  <2>2. /\ login' \in Login /\ login'.step = "opened" /\ login'.code = None /\ login'.missed = FALSE
        /\ login.step \in Ended
    BY <2>1, BeginType
  <2>3. /\ page' \in {"login"} \cup Inside /\ profile' \in [Kinds -> BOOLEAN]
        /\ UNCHANGED <<now, asked, transit, folder, session>>
    BY <1>1 DEF Open, mails, TypeOK
  <2>4. TypeOK'
    BY <2>2, <2>3 DEF TypeOK, Login
  <2>5. OwnCode' /\ NoCodeMissed'
    BY <2>2 DEF OwnCode, NoCodeMissed, None
  <2>. QED BY <2>4, <2>5
<1>2. CASE Load(kind)
  <2>1. PICK next \in {"failed", "resume", "sign in"} : Begin(kind, next, 0)
    BY <1>2 DEF Load
  <2>2. next \in Steps
    BY <2>1 DEF Steps, Ended
  <2>3. /\ login' \in Login /\ login'.step = next /\ login'.code = None /\ login'.missed = FALSE
        /\ login.step \in Ended
    BY <2>1, <2>2, BeginType
  <2>4. page' = "none" /\ UNCHANGED <<now, profile, asked, transit, folder, session>>
    BY <1>2 DEF Load, mails
  <2>5. TypeOK'
    BY <2>3, <2>4 DEF TypeOK, Login
  <2>6. OwnCode' /\ NoCodeMissed'
    BY <2>3 DEF OwnCode, NoCodeMissed, None
  <2>. QED BY <2>5, <2>6
<1>. QED BY <1>1, <1>2

\* A step that only moves on, and perhaps turns the page or writes the session.
Moves(next) ==
  /\ Continue(next)
  /\ page' \in {"none", "login"} \cup Inside /\ profile' \in [Kinds -> BOOLEAN]
  /\ session' \in {"none", "cut", "usable"}
  /\ UNCHANGED <<now, asked, transit, folder>>

LEMMA MovesKeep ==
  ASSUME ScriptInv, NEW next \in Steps, Moves(next)
  PROVE  ScriptInv'
<1>. USE DEF ScriptInv, Moves
<1>1. /\ login' \in Login /\ login'.step = next
      /\ login'.id = login.id /\ login'.code = login.code /\ login'.missed = login.missed
  BY ContinueType
<1>2. TypeOK'
  BY <1>1 DEF TypeOK, Login
<1>3. OwnCode' /\ NoCodeMissed'
  BY <1>1 DEF OwnCode, NoCodeMissed
<1>. QED BY <1>2, <1>3

LEMMA MovingSteps ==
  ASSUME ScriptInv,
         \/ ScriptRaises \/ Verify \/ Verified \/ AcceptTos \/ FinishSetup \/ LookAgain
         \/ ProtocolStep
  PROVE  \E next \in Steps : Moves(next)
<1>. USE DEF ScriptInv, Moves, mails, browser, Inside
<1>1. /\ page \in {"none", "login", "setup", "console"} /\ profile \in [Kinds -> BOOLEAN]
      /\ session \in {"none", "cut", "usable"} /\ login.kind \in Kinds
  BY DEF TypeOK
<1>2. {"failed", "verified", "tos", "finish", "look", "done", "write", "writing"} \subseteq Steps
  BY DEF Steps, Ended
<1>3. CASE ScriptRaises
  BY <1>1, <1>2, <1>3 DEF ScriptRaises
<1>4. CASE Verify
  BY <1>1, <1>2, <1>4 DEF Verify
<1>5. CASE Verified
  <2>1. Moves("tos") \/ Moves("finish") \/ Moves("look") \/ Moves("failed")
    BY <1>1, <1>5 DEF Verified
  <2>. QED BY <1>2, <2>1
<1>6. CASE AcceptTos
  BY <1>1, <1>2, <1>6 DEF AcceptTos, Click
<1>7. CASE FinishSetup
  <2>1. Moves("look") \/ Moves("done")
    BY <1>1, <1>7 DEF FinishSetup, Click
  <2>. QED BY <1>2, <2>1
<1>8. CASE LookAgain
  <2>1. Moves("done") \/ Moves("failed")
    BY <1>1, <1>8 DEF LookAgain
  <2>. QED BY <1>2, <2>1
<1>9. CASE ProtocolStep
  <2>1. Moves("write") \/ Moves("writing") \/ Moves("done") \/ Moves("failed")
    BY <1>1, <1>9 DEF ProtocolStep, Prove, Truncate, WriteSession
  <2>. QED BY <1>2, <2>1
<1>. QED BY <1>3, <1>4, <1>5, <1>6, <1>7, <1>8, <1>9

\* A step that leaves the profiles and the session alone.
LEMMA WaitingKeeps ==
  ASSUME ScriptInv, login' \in Login,
         login'.id = login.id, login'.code = login.code, login'.missed = login.missed,
         page' \in {"none", "login"} \cup Inside,
         UNCHANGED <<now, transit, folder, profile, session>>,
         asked' \subseteq [code : Logins, at : 0..MaxTime]
  PROVE  ScriptInv'
<1>. USE DEF ScriptInv
<1>1. TypeOK'
  BY DEF TypeOK, Login
<1>2. OwnCode' /\ NoCodeMissed'
  BY DEF OwnCode, NoCodeMissed
<1>. QED BY <1>1, <1>2

LEMMA LookKeeps ==
  ASSUME ScriptInv, Look
  PROVE  ScriptInv'
<1>. USE DEF ScriptInv
<1>1. login \in Login /\ Ticks \in Nat /\ page \in {"none", "login"} \cup Inside
  BY LoginType, CodeAssumption DEF TypeOK
<1>2. /\ UNCHANGED <<now, asked, transit, folder, profile, session>>
      /\ page' \in {"none", "login"} \cup Inside
  BY <1>1 DEF Look, mails
<1>3. \/ \E next \in {"tos", "page", "done"} : login' = [login EXCEPT !.step = next]
      \/ login' = [login EXCEPT !.step = "page", !.sleep = Ticks]
  BY DEF Look, Continue
<1>4. login' \in Login /\ login'.id = login.id /\ login'.code = login.code /\ login'.missed = login.missed
  BY <1>1, <1>3 DEF Login, Ended
<1>5. asked' \subseteq [code : Logins, at : 0..MaxTime]
  BY <1>2 DEF TypeOK
<1>. QED BY <1>2, <1>4, <1>5, WaitingKeeps

LEMMA RequestKeeps ==
  ASSUME ScriptInv, Numbered, AskForCode, UNCHANGED <<page, profile, session>>
  PROVE  ScriptInv'
<1>. USE DEF ScriptInv
<1>1. login \in Login /\ At("page") /\ Ticks \in Nat /\ Cut(now) \in 0..MaxTime /\ now \in 0..MaxTime
  <2>1. now \in Nat /\ now \in 0..MaxTime /\ MaxTime \in Nat
    BY LoginType, LoginNumbers, CodeAssumption
  <2>2. Cut(now) \in Nat /\ Cut(now) <= now
    BY <2>1, CutBounds
  <2>3. Cut(now) \in 0..MaxTime
    BY <2>1, <2>2
  <2>4. login \in Login /\ Ticks \in Nat
    BY LoginType, CodeAssumption
  <2>. QED BY <2>1, <2>3, <2>4 DEF AskForCode
<1>2. login' = [login EXCEPT !.step = "asked", !.after = Cut(now), !.sleep = Ticks]
  BY DEF AskForCode
<1>3. /\ login' \in Login /\ login'.step = "asked"
      /\ login'.id = login.id /\ login'.code = login.code /\ login'.missed = login.missed
  BY <1>1, <1>2 DEF Login
<1>4. login.id \in Logins
  <2>1. login.id # 0
    BY <1>1 DEF Numbered, At, Ended
  <2>2. login.id \in 0..MaxLogins /\ MaxLogins \in Nat
    BY <1>1, CodeAssumption DEF Login
  <2>. QED BY <2>1, <2>2 DEF Logins
<1>5. asked' \subseteq [code : Logins, at : 0..MaxTime]
  <2>1. [code |-> login.id, at |-> now] \in [code : Logins, at : 0..MaxTime]
    BY <1>1, <1>4
  <2>2. asked \subseteq [code : Logins, at : 0..MaxTime]
    BY DEF TypeOK
  <2>3. asked' = asked \cup {[code |-> login.id, at |-> now]}
    BY DEF AskForCode
  <2>. QED BY <2>1, <2>2, <2>3
<1>6. UNCHANGED <<now, transit, folder>> /\ page' \in {"none", "login"} \cup Inside
  BY DEF AskForCode, TypeOK
<1>. QED BY <1>3, <1>5, <1>6, WaitingKeeps

LEMMA PollKeeps ==
  ASSUME ScriptInv, Dated, Poll, UNCHANGED <<page, profile, session>>
  PROVE  ScriptInv'
<1>. USE DEF ScriptInv
<1>1. /\ login \in Login /\ Timeout \in 0..Timeout /\ Interval \in Nat
      /\ asked \subseteq [code : Logins, at : 0..MaxTime]
      /\ DOMAIN folder = {"INBOX", "Junk"} /\ page' \in {"none", "login"} \cup Inside
  <2>1. Timeout \in Nat /\ Interval \in Nat
    BY CodeAssumption
  <2>2. Timeout \in 0..Timeout
    BY <2>1
  <2>3. login \in Login
    BY LoginType
  <2>. QED BY <2>1, <2>2, <2>3 DEF TypeOK
<1>2. CASE PollCall
  <2>1. login' = [login EXCEPT !.step = "poll", !.left = Timeout]
    BY <1>2 DEF PollCall
  <2>2. /\ login' \in Login /\ login'.step = "poll"
        /\ login'.id = login.id /\ login'.code = login.code /\ login'.missed = login.missed
    BY <1>1, <2>1 DEF Login
  <2>. QED BY <1>1, <1>2, <2>2, WaitingKeeps DEF PollCall
<1>3. CASE PollBegin
  <2>1. PICK next \in {"INBOX", "failed"} : login' = [login EXCEPT !.step = next]
    BY <1>3 DEF PollBegin
  <2>2. /\ login' \in Login /\ login'.step = next
        /\ login'.id = login.id /\ login'.code = login.code /\ login'.missed = login.missed
    BY <1>1, <2>1 DEF Login, Ended
  <2>. QED BY <1>1, <1>3, <2>1, <2>2, WaitingKeeps DEF PollBegin
<1>4. CASE PollFails
  <2>1. login' = [login EXCEPT !.step = "failed"]
    BY <1>4 DEF PollFails
  <2>2. /\ login' \in Login /\ login'.step = "failed"
        /\ login'.id = login.id /\ login'.code = login.code /\ login'.missed = login.missed
    BY <1>1, <2>1 DEF Login, Ended
  <2>. QED BY <1>1, <1>4, <2>2, WaitingKeeps DEF PollFails
<1>5. ASSUME NEW name \in DOMAIN folder, login' = PassOver(name), At(name),
             UNCHANGED <<now, asked, transit, folder>>
      PROVE  ScriptInv'
  <2>1. /\ login' \in Login /\ login'.step \in {"Junk", "poll"}
        /\ login'.id = login.id /\ login'.code = login.code /\ login'.missed = login.missed
    BY <1>1, <1>5 DEF PassOver, Login
  <2>. QED BY <1>1, <1>5, <2>1, WaitingKeeps
<1>6. ASSUME NEW name \in DOMAIN folder, FolderRefused(name) PROVE ScriptInv'
  BY <1>5, <1>6 DEF FolderRefused
<1>7. ASSUME NEW name \in DOMAIN folder, ReadFolder(name) PROVE ScriptInv'
  <2>1. At(name) /\ UNCHANGED <<now, asked, transit, folder>>
    BY <1>7 DEF ReadFolder
  <2>0. PICK fetched \in SUBSET Window(name) :
          \/ \E newest \in FolderCodes(name, fetched) :
               login' = [login EXCEPT !.step = "code", !.code = folder[name][newest].code]
          \/ /\ FolderCodes(name, fetched) = {}
             /\ login' = [PassOver(name) EXCEPT !.missed = @ \/ Visible(name, fetched)]
    BY <1>7 DEF ReadFolder
  <2>2. ASSUME NEW newest \in FolderCodes(name, fetched),
               login' = [login EXCEPT !.step = "code", !.code = folder[name][newest].code]
        PROVE  ScriptInv'
    <3>1. folder[name][newest].code = login.id
      BY <2>1, ReadFindsOwn DEF At
    <3>2. folder[name][newest] \in Mail
      BY FolderType DEF FolderCodes, Window
    <3>3. folder[name][newest].code \in Logins
      BY <3>2 DEF Mail
    <3>4. /\ login' \in Login /\ login'.step = "code" /\ login'.missed = login.missed
          /\ login'.id = login.id /\ login'.code = login.id
      BY <1>1, <2>2, <3>1, <3>3 DEF Login
    <3>5. TypeOK'
      BY <2>1, <3>4 DEF TypeOK, Login
    <3>6. OwnCode' /\ NoCodeMissed'
      BY <3>4 DEF OwnCode, NoCodeMissed
    <3>. QED BY <3>5, <3>6
  <2>3. ASSUME FolderCodes(name, fetched) = {},
               login' = [PassOver(name) EXCEPT !.missed = @ \/ Visible(name, fetched)]
        PROVE  ScriptInv'
    <3>1. ~Visible(name, fetched)
      BY <2>1, <2>3, ReadFindsOwn DEF At
    <3>2. PassOver(name) \in Login
      BY <1>1 DEF PassOver, Login
    <3>3. login' = PassOver(name)
      BY <2>3, <3>1, <3>2 DEF Login
    <3>. QED BY <1>5, <2>1, <3>3
  <2>. QED BY <2>0, <2>2, <2>3
<1>. QED BY <1>2, <1>3, <1>4, <1>6, <1>7 DEF Poll

\* The script's invariants speak of the login's number and codes.
LEMMA ScriptUnread ==
  ASSUME ScriptInv,
         login'.id = login.id, login'.code = login.code, login'.missed = login.missed
  PROVE  OwnCode' /\ NoCodeMissed'
BY DEF ScriptInv, OwnCode, NoCodeMissed

\* Where the mails move, only their types are to be shown again.
LEMMA TypeUnread ==
  ASSUME TypeOK, UNCHANGED <<now, login, page, profile, session>>,
         asked' \subseteq [code : Logins, at : 0..MaxTime], transit' \subseteq Mail,
         folder' \in [{"INBOX", "Junk"} -> Seq(Mail)]
  PROVE  TypeOK'
<1>1. /\ now' \in 0..MaxTime
      /\ page' \in {"none", "login"} \cup Inside /\ profile' \in [Kinds -> BOOLEAN]
      /\ session' \in {"none", "cut", "usable"}
  BY DEF TypeOK
<1>2. login' \in Login
  BY LoginType
<1>. QED BY <1>1, <1>2 DEF TypeOK, Login

LEMMA KilledKeeps ==
  ASSUME ScriptInv, Killed
  PROVE  ScriptInv'
<1>. USE DEF ScriptInv
<1>1. login' = [IdleLogin EXCEPT !.id = login.id, !.sleep = Restart]
  BY DEF Killed
<1>2. login.id \in 0..MaxLogins /\ Restart \in Nat /\ IdleLogin \in Login
  BY LoginType, IdleType, CodeAssumption DEF Login
<1>3. login' \in Login /\ login'.id = login.id
  BY <1>1, <1>2 DEF Login
<1>4. login'.code = None /\ login'.missed = FALSE
  BY <1>1 DEF IdleLogin
<1>5. page' = "none" /\ UNCHANGED <<now, profile, session, asked, transit, folder>>
  BY DEF Killed, mails
<1>6. TypeOK'
  BY <1>3, <1>5 DEF TypeOK, Login
<1>7. OwnCode' /\ NoCodeMissed'
  BY <1>4 DEF OwnCode, NoCodeMissed, None
<1>. QED BY <1>6, <1>7

LEMMA TurnKeeps ==
  ASSUME ScriptInv, Turn
  PROVE  ScriptInv'
<1>1. /\ page' \in {"none", "login"} \cup Inside
      /\ UNCHANGED <<now, login, profile, asked, transit, folder, session>>
  BY DEF Turn, mails
<1>2. login \in Login /\ asked' \subseteq [code : Logins, at : 0..MaxTime]
  BY <1>1, LoginType DEF ScriptInv, TypeOK
<1>. QED BY <1>1, <1>2, WaitingKeeps

LEMMA ExternalKeeps ==
  ASSUME ScriptInv, External, UNCHANGED <<page, profile, session>>
  PROVE  ScriptInv'
<1>. USE DEF ScriptInv
<1>1. ASSUME NEW request \in asked, Send(request) PROVE ScriptInv'
  <2>1. request \in [code : Logins, at : 0..MaxTime] /\ now \in Nat /\ now \in 0..MaxTime /\ MaxTime \in Nat
    BY LoginType, LoginNumbers, CodeAssumption DEF TypeOK
  <2>2. Cut(now) \in Nat /\ Cut(now) <= now
    BY <2>1, CutBounds
  <2>3. Cut(now) \in 0..MaxTime
    BY <2>1, <2>2
  <2>4. [code |-> request.code, date |-> Cut(now)] \in Mail
    BY <2>1, <2>3 DEF Mail
  <2>5. UNCHANGED <<now, login, folder>> /\ asked' \subseteq asked
        /\ transit' = transit \cup {[code |-> request.code, date |-> Cut(now)]}
    BY <1>1 DEF Send
  <2>6. transit' \subseteq Mail /\ asked' \subseteq [code : Logins, at : 0..MaxTime]
    BY <2>4, <2>5 DEF TypeOK
  <2>7. folder' \in [{"INBOX", "Junk"} -> Seq(Mail)]
    BY <2>5 DEF TypeOK
  <2>8. TypeOK'
    BY <2>5, <2>6, <2>7, TypeUnread
  <2>. QED BY <2>5, <2>8, ScriptUnread
<1>2. ASSUME NEW mail \in transit, NEW name \in DOMAIN folder, Deliver(mail, name) PROVE ScriptInv'
  <2>1. UNCHANGED <<now, login, asked>> /\ folder' = [folder EXCEPT ![name] = Append(@, mail)]
        /\ transit' \subseteq transit
    BY <1>2 DEF Deliver
  <2>2. folder \in [{"INBOX", "Junk"} -> Seq(Mail)] /\ transit \subseteq Mail
    BY DEF TypeOK
  <2>3. folder[name] \in Seq(Mail) /\ mail \in Mail
    BY <2>2
  <2>4. Append(folder[name], mail) \in Seq(Mail)
    BY <2>3
  <2>5. folder' \in [{"INBOX", "Junk"} -> Seq(Mail)]
    BY <2>1, <2>2, <2>4
  <2>6. transit' \subseteq Mail
    BY <2>1, <2>2
  <2>7. TypeOK'
    <3>1. asked' \subseteq [code : Logins, at : 0..MaxTime]
      BY <2>1 DEF TypeOK
    <3>. QED BY <2>1, <2>5, <2>6, <3>1, TypeUnread
  <2>. QED BY <2>1, <2>7, ScriptUnread
<1>3. CASE Tick
  <2>1. now' \in 0..MaxTime
    <3>1. now \in 0..MaxTime /\ MaxTime \in Nat
      BY LoginType, CodeAssumption
    <3>. QED BY <1>3, <3>1 DEF Tick
  <2>2. Less(login.sleep) \in Nat
    BY LoginNumbers DEF Less
  <2>3. Less(login.left) \in 0..Timeout
    <3>1. login.left \in 0..Timeout /\ Timeout \in Nat
      BY LoginType, CodeAssumption DEF Login
    <3>. QED BY <3>1 DEF Less
  <2>4. login' = [login EXCEPT !.sleep = Less(login.sleep), !.left = Less(login.left)]
        /\ UNCHANGED <<asked, transit, folder>>
    BY <1>3 DEF Tick
  <2>. HIDE DEF Less
  <2>5. /\ login' \in Login /\ login'.step = login.step
        /\ login'.id = login.id /\ login'.code = login.code /\ login'.missed = login.missed
    BY <2>2, <2>3, <2>4, LoginType DEF Login
  <2>6. TypeOK'
    BY <2>1, <2>4, <2>5 DEF TypeOK, Login
  <2>. QED BY <2>5, <2>6, ScriptUnread
<1>. QED BY <1>1, <1>2, <1>3 DEF External
-----------------------------------------------------------------------------
(***************************************************************************)
(* The page of the browser.                                                *)
(***************************************************************************)

LEMMA PageKeeps ==
  ASSUME TypeOK, PageInv, [Next]_vars
  PROVE  PageInv'
<1>. USE DEF PageInv, Entered, Inside, At, Continue, browser, mails
<1>0. /\ login \in Login /\ login.kind \in Kinds
      /\ page \in {"none", "login", "setup", "console"} /\ profile \in [Kinds -> BOOLEAN]
  BY LoginType DEF TypeOK, Login
<1>2. ASSUME NEW kind \in Kinds, Open(kind) PROVE PageInv'
  <2>0. login' = [IdleLogin EXCEPT !.id = login.id + 1, !.kind = kind, !.step = "opened", !.sleep = Ticks]
    BY <1>2 DEF Open, Begin
  <2>1. login'.kind = kind /\ login'.code = None /\ login'.step = "opened"
    BY <2>0 DEF IdleLogin
  <2>2. kind = "register" => page' = "login"
    BY <1>2 DEF Open
  <2>. QED BY <2>1, <2>2 DEF Kinds
<1>3. ASSUME NEW kind \in Kinds, Load(kind) PROVE PageInv'
  <2>1. PICK next \in {"failed", "resume", "sign in"} : Begin(kind, next, 0)
    BY <1>3 DEF Load
  <2>0. login' = [IdleLogin EXCEPT !.id = login.id + 1, !.kind = kind, !.step = next, !.sleep = 0]
    BY <2>1 DEF Begin
  <2>2. login'.kind = kind /\ login'.code = None /\ login'.step = next
    BY <2>0 DEF IdleLogin
  <2>3. page' = "none"
    BY <1>3 DEF Load
  <2>. QED BY <2>1, <2>2, <2>3
<1>4. CASE Turn
  BY <1>0, <1>4 DEF Turn
<1>5. CASE Look
  BY <1>0, <1>5 DEF Look, Login, LoggedIn, OnSetup, Kinds
<1>6. CASE ScriptRaises
  BY <1>0, <1>6 DEF ScriptRaises, Login
<1>7. CASE Verify
  BY <1>0, <1>7 DEF Verify, Login
<1>8. CASE Verified
  <2>1. PICK next \in {"tos", "finish", "look", "failed"} : login' = [login EXCEPT !.step = next]
    BY <1>8 DEF Verified
  <2>2. login'.kind = login.kind /\ login'.code = login.code /\ login'.step = next
    BY <1>0, <2>1 DEF Login
  <2>3. login.step = "verified" /\ UNCHANGED <<page, profile>>
    BY <1>8 DEF Verified
  <2>4. next \in {"tos", "finish"} => LoggedIn
    BY <1>0, <1>8, <2>2 DEF Verified, Login, LoggedIn, OnSetup
  <2>. QED BY <1>0, <2>2, <2>3, <2>4 DEF LoggedIn
<1>9. CASE AcceptTos \/ FinishSetup
  <2>1. PICK next \in {"finish", "look", "done"} : login' = [login EXCEPT !.step = next]
    BY <1>9 DEF AcceptTos, FinishSetup, Click
  <2>2. login'.kind = login.kind /\ login'.code = login.code /\ login'.step = next
    BY <1>0, <2>1 DEF Login
  <2>3. login.step \in {"tos", "finish"} /\ UNCHANGED <<page, profile>>
    BY <1>9 DEF AcceptTos, FinishSetup, Click
  <2>4. next = "look" => login.kind = "keepalive" /\ login.code # None
    BY <1>0, <1>9, <2>2 DEF AcceptTos, FinishSetup, Click, Login
  <2>. QED BY <1>0, <2>2, <2>3, <2>4
<1>10. CASE LookAgain
  BY <1>0, <1>10 DEF LookAgain, Login, LoggedIn
<1>11. CASE AskForCode /\ UNCHANGED <<browser, session>>
  BY <1>0, <1>11 DEF AskForCode, Login
<1>12. CASE Poll /\ UNCHANGED <<browser, session>>
  <2>1. login'.kind = login.kind /\ login'.step \in {"poll", "INBOX", "Junk", "failed", "code"}
    BY <1>0, <1>12 DEF Poll, PollCall, PollBegin, PollFails, ReadFolder, FolderRefused, PassOver, Login
  <2>2. login.step \in {"asked", "poll", "INBOX", "Junk"}
    BY <1>12 DEF Poll, PollCall, PollBegin, PollFails, ReadFolder, FolderRefused, TypeOK
  <2>3. login'.step # "code" => login'.code = login.code
    BY <1>0, <1>12 DEF Poll, PollCall, PollBegin, PollFails, ReadFolder, FolderRefused, PassOver, Login
  <2>. QED BY <1>0, <1>12, <2>1, <2>2, <2>3
<1>13. CASE ProtocolStep
  BY <1>0, <1>13 DEF ProtocolStep, Prove, Truncate, WriteSession, Login
<1>14. CASE Killed
  <2>1. login' = [IdleLogin EXCEPT !.id = login.id, !.sleep = Restart] /\ page' = "none"
    BY <1>14 DEF Killed
  <2>2. login'.step = "idle"
    BY <2>1 DEF IdleLogin
  <2>. QED BY <2>1, <2>2
<1>15. CASE External /\ UNCHANGED <<browser, session>>
  BY <1>0, <1>15 DEF External, Send, Deliver, Tick, Login
<1>16. CASE UNCHANGED vars
  BY <1>16 DEF vars
<1>. QED BY <1>2, <1>3, <1>4, <1>5, <1>6, <1>7, <1>8, <1>9, <1>10, <1>11, <1>12, <1>13, <1>14, <1>15, <1>16
     DEF Next, BrowserStep
-----------------------------------------------------------------------------
(***************************************************************************)
(* The theorems.                                                           *)
(***************************************************************************)

Inv == ScriptInv /\ PageInv /\ SleepsBounded /\ Order

LEMMA InitInv == Init => Inv
<1>. SUFFICES ASSUME Init PROVE Inv
  OBVIOUS
<1>1. login = IdleLogin /\ login \in Login /\ asked = {} /\ transit = {} /\ now = 0
      /\ folder = [name \in {"INBOX", "Junk"} |-> << >>]
      /\ page = "none" /\ profile = [kind \in Kinds |-> FALSE] /\ session = "none"
  BY IdleType DEF Init
<1>2. 0 \in 0..MaxTime
  BY CodeAssumption
<1>3. << >> \in Seq(Mail)
  OBVIOUS
<1>4. folder \in [{"INBOX", "Junk"} -> Seq(Mail)]
  BY <1>1, <1>3
<1>5. TypeOK
  BY <1>1, <1>2, <1>4 DEF TypeOK, Login
<1>6. login.step = "idle" /\ login.sleep = 0 /\ login.code = None /\ login.missed = FALSE
  BY <1>1 DEF IdleLogin
<1>7. OwnCode /\ NoCodeMissed /\ PageInv
  BY <1>1, <1>6 DEF OwnCode, NoCodeMissed, PageInv, Inside
<1>8. SleepsBounded
  BY <1>6, CodeAssumption DEF SleepsBounded, At
<1>9. Mails = {}
  <2>1. ASSUME NEW m \in Mails PROVE FALSE
    <3>1. PICK name \in {"INBOX", "Junk"} : \E i \in 1..Len(folder[name]) : m = folder[name][i]
      BY <1>1, <2>1 DEF Mails
    <3>2. Len(folder[name]) = 0
      BY <1>1, <3>1
    <3>. QED BY <3>1, <3>2
  <2>. QED BY <2>1
<1>10. Order
  BY <1>1, <1>6, <1>9 DEF Order, Numbered, SentInTime, Spaced, Dated, Ended, Waiting
<1>. QED BY <1>5, <1>7, <1>8, <1>10 DEF Inv, ScriptInv

LEMMA NextInv == Inv /\ [Next]_vars => Inv'
<1>. SUFFICES ASSUME Inv, [Next]_vars PROVE Inv'
  OBVIOUS
<1>0. TypeOK /\ SleepsBounded /\ Order /\ Numbered /\ Dated /\ ScriptInv /\ PageInv
  BY DEF Inv, ScriptInv, Order
<1>5. PageInv'
  BY <1>0, PageKeeps
<1>1. CASE QuietAction
  <2>1. QuietStep
    BY <1>0, <1>1, QuietSteps
  <2>2. Order' /\ SleepsBounded'
    BY <1>0, <2>1, QuietOrder DEF QuietStep
  <2>3. ASSUME NEW kind \in Kinds, Open(kind) \/ Load(kind) PROVE ScriptInv'
    BY <1>0, <2>3, OpenKeeps
  <2>4. ASSUME Look PROVE ScriptInv'
    BY <1>0, <2>4, LookKeeps
  <2>5. ASSUME \/ ScriptRaises \/ Verify \/ Verified \/ AcceptTos \/ FinishSetup \/ LookAgain
               \/ ProtocolStep
        PROVE  ScriptInv'
    BY <1>0, <2>5, MovingSteps, MovesKeep
  <2>6. ASSUME Poll /\ UNCHANGED <<browser, session>> PROVE ScriptInv'
    BY <1>0, <2>6, PollKeeps DEF browser
  <2>7. ASSUME Killed \/ Turn PROVE ScriptInv'
    BY <1>0, <2>7, KilledKeeps, TurnKeeps
  <2>8. ScriptInv'
    BY <1>1, <2>3, <2>4, <2>5, <2>6, <2>7 DEF QuietAction
  <2>. QED BY <1>5, <2>2, <2>8 DEF Inv
<1>2. CASE page = "login" /\ AskForCode /\ UNCHANGED <<browser, session>>
  <2>1. Order' /\ SleepsBounded'
    BY <1>0, <1>2, RequestOrder
  <2>2. ScriptInv'
    BY <1>0, <1>2, RequestKeeps DEF browser
  <2>. QED BY <1>5, <2>1, <2>2 DEF Inv
<1>3. CASE External /\ UNCHANGED <<browser, session>>
  <2>1. ScriptInv'
    BY <1>0, <1>3, ExternalKeeps DEF browser
  <2>2. ASSUME NEW request \in asked, Send(request) PROVE Order' /\ SleepsBounded'
    BY <1>0, <2>2, SendOrder DEF Send, SleepsBounded, At
  <2>3. ASSUME NEW mail \in transit, NEW name \in DOMAIN folder, Deliver(mail, name)
        PROVE  Order' /\ SleepsBounded'
    BY <1>0, <2>3, DeliverOrder DEF Deliver, SleepsBounded, At
  <2>4. ASSUME Tick PROVE Order' /\ SleepsBounded'
    BY <1>0, <2>4, TickOrder
  <2>5. Order' /\ SleepsBounded'
    BY <1>3, <2>2, <2>3, <2>4 DEF External
  <2>. QED BY <1>5, <2>1, <2>5 DEF Inv
<1>4. CASE UNCHANGED vars
  <2>1. UNCHANGED <<now, login, asked, transit, folder, page, profile, session>>
    BY <1>4 DEF vars
  <2>2. Mails' = Mails /\ Elapsed' = Elapsed
    BY <2>1 DEF Mails, Elapsed, At
  <2>3. TypeOK'
    <3>1. /\ asked' \subseteq [code : Logins, at : 0..MaxTime] /\ transit' \subseteq Mail
          /\ folder' \in [{"INBOX", "Junk"} -> Seq(Mail)]
      BY <1>0, <2>1 DEF TypeOK
    <3>. QED BY <1>0, <2>1, <3>1, TypeUnread
  <2>4. OwnCode' /\ NoCodeMissed'
    BY <1>0, <2>1, ScriptUnread
  <2>5. Order' /\ SleepsBounded'
    BY <1>0, <2>1, <2>2 DEF Order, Numbered, SentInTime, Spaced, Dated, SleepsBounded, At
  <2>. QED BY <1>5, <2>3, <2>4, <2>5 DEF Inv, ScriptInv
<1>. QED BY <1>1, <1>2, <1>3, <1>4 DEF Next, BrowserStep, QuietAction

LEMMA AlwaysInv == Spec => []Inv
  BY InitInv, NextInv, PTL DEF Spec

\* The state of a login, its mails and the session file has its types: the poll's
\* time left never falls below zero (poll_otp).
THEOREM TypeCorrect == Spec => []TypeOK
<1>1. Inv => TypeOK
  BY DEF Inv, ScriptInv
<1>. QED BY <1>1, AlwaysInv, PTL

\* A login types the code it asked for, for every number of logins, length of a
\* second, timeout, interval and window: provided a code is sent within a second
\* and a restart takes one (poll_otp, folder_codes).
THEOREM CodeIsOwn == Spec => []OwnCode
<1>1. Inv => OwnCode
  BY DEF Inv, ScriptInv
<1>. QED BY <1>1, AlwaysInv, PTL

\* Under the same conditions no read of a folder passes over the code it waits
\* for, though mail dates and the login's start are cut to the second
\* (folder_codes).
THEOREM CodeIsSeen == Spec => []NoCodeMissed
<1>1. Inv => NoCodeMissed
  BY DEF Inv, ScriptInv
<1>. QED BY <1>1, AlwaysInv, PTL

\* A browser registers, or is kept after a code, only if the console let it in,
\* whenever the console turns its pages (AutomationBackend.register,
\* KeepaliveBackend.keepalive).
THEOREM OnlyEnteredSucceeds == Spec => []CodeEnters
<1>1. Inv => CodeEnters
  BY DEF Inv, PageInv, CodeEnters, At
<1>. QED BY <1>1, AlwaysInv, PTL
=============================================================================
