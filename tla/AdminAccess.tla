------------------------------ MODULE AdminAccess ------------------------------
(* How an administrator comes in: the tabs of the admin app, which share one token     *)
(* in the browser's storage, and the routes of routes_auth.py that make the first      *)
(* account, sign in with a password and a code, and set the second factor up; a reset    *)
(* of the password is SessionEpoch's.  No button is blocked while its request is on its *)
(* way, an answer is taken in whatever form the tab shows by then, and the server ends   *)
(* what it began when the tab is gone.  AUTH_REQUIRED is set.                             *)
EXTENDS Naturals, FiniteSets

CONSTANTS
  Tabs,
  Secrets,   \* bound: set-ups of the second factor
  MaxAsked,  \* bound: requests under way
  None

VARIABLES
  admins,    \* users of kind 'admin'; all the tabs sign in to one of them
  otp,       \* totp_secret and totp_enabled of the administrator
  made,      \* the secrets that were given out
  jwt,       \* localStorage.CONNECTION_JWT holds a token
  page,      \* of each tab: its form, or "in"
  shown,     \* TwoFA of each tab
  app,       \* the secrets in the administrator's OTP app
  asked,     \* requests under way
  raced      \* history: which calls crossed

xvars == <<admins, otp, made, jwt, page, shown, app, asked, raced>>

Forms == {"loading", "login", "bootstrap", "otp"}
Kinds == {"me", "status", "login", "bootstrap", "otp", "setup", "enable"}
Request == [tab : Tabs, here : BOOLEAN, kind : Kinds, secret : Secrets \cup {None},
            answer : {"open", "read", "ok", "code", "refused"}]

TypeOK ==
  /\ admins \in 0..Cardinality(Tabs) /\ jwt \in BOOLEAN
  /\ otp \in [secret : Secrets \cup {None}, enabled : BOOLEAN]
  /\ made \subseteq Secrets /\ app \subseteq made
  /\ page \in [Tabs -> Forms \cup {"start", "in"}]
  /\ shown \in [Tabs -> [step : {"idle", "show", "done"}, secret : Secrets \cup {None}]]
  /\ asked \subseteq Request
  /\ raced \subseteq {"bootstrap", "enable", "storage"}

Server == <<admins, otp, made>>
Ask(t, kind, s) == [tab |-> t, here |-> TRUE, kind |-> kind, secret |-> s, answer |-> "open"]
Send(r) == Cardinality(asked) < MaxAsked /\ r \notin asked /\ asked' = asked \cup {r}
In(t) == page[t] = "in"

-------------------------------------------------------------------------------
(* The tab *)

\* What writes on the server goes on when its tab is left; no answer comes back.
Left(t) ==
  {r \in asked : r.tab # t} \cup
  {[r EXCEPT !.here = FALSE] : r \in {x \in asked : x.tab = t /\ x.answer \in {"open", "read"}
                                       /\ x.kind \in {"bootstrap", "setup", "enable"}}}

\* The tab is opened, or loaded again: App asks for the account of a stored token, and
\* AuthGate, without one, for the form it has to show.
Open(t) ==
  /\ Cardinality(asked) < MaxAsked
  /\ shown' = [shown EXCEPT ![t] = [step |-> "idle", secret |-> None]]
  /\ page' = [page EXCEPT ![t] = IF jwt THEN "start" ELSE "loading"]
  /\ asked' = Left(t) \cup {Ask(t, IF jwt THEN "me" ELSE "status", None)}
  /\ UNCHANGED <<Server, jwt, app, raced>>

\* Removing the token takes it from the tabs that are in, or about to be.
Removed(t) ==
  IF \E u \in Tabs \ {t} : page[u] \in {"in", "start"} THEN raced \cup {"storage"} ELSE raced

Logout(t) ==
  /\ In(t) /\ Cardinality(asked) < MaxAsked
  /\ jwt' = FALSE /\ raced' = Removed(t)
  /\ page' = [page EXCEPT ![t] = "loading"]
  /\ shown' = [shown EXCEPT ![t] = [step |-> "idle", secret |-> None]]
  /\ asked' = Left(t) \cup {Ask(t, "status", None)}
  /\ UNCHANGED <<Server, app>>

\* submit; the form that asks for a reset by mail changes nothing here, and is left out.  A code is typed from the app.
Submit(t) ==
  /\ page[t] \in {"login", "bootstrap"} /\ Send(Ask(t, page[t], None))
  /\ UNCHANGED <<Server, jwt, page, shown, app, raced>>

SubmitCode(t, s) ==
  /\ page[t] = "otp" /\ Send(Ask(t, "otp", s))
  /\ UNCHANGED <<Server, jwt, page, shown, app, raced>>

\* Without a token both are refused, and nothing else comes of it.
OtpSetup(t) ==
  /\ In(t) /\ jwt /\ shown[t].step = "idle" /\ Send(Ask(t, "setup", None))
  /\ UNCHANGED <<Server, jwt, page, shown, app, raced>>

\* The secret that is shown is put into the app.
Register(t) ==
  /\ shown[t].step = "show" /\ app' = app \cup {shown[t].secret}
  /\ UNCHANGED <<Server, jwt, page, shown, asked, raced>>

OtpEnable(t, s) ==
  /\ In(t) /\ jwt /\ shown[t].step = "show" /\ Send(Ask(t, "enable", s))
  /\ UNCHANGED <<Server, jwt, page, shown, app, raced>>

-------------------------------------------------------------------------------
(* The server *)

Answer(r, a) == asked' = (asked \ {r}) \cup {[r EXCEPT !.answer = a]}

\* A wrong password or code, a token of an earlier epoch, a lost request or a lost answer.
Refuse(r) ==
  /\ r.answer \in {"open", "ok", "code"} /\ Answer(r, "refused")
  /\ UNCHANGED <<Server, jwt, page, shown, app, raced>>

\* Whether there is an administrator is answered as a login, or a bootstrap, form.
ServeStatus(r) ==
  /\ r.kind = "status" /\ r.answer = "open"
  /\ Answer(r, IF admins > 0 THEN "ok" ELSE "code")
  /\ UNCHANGED <<Server, jwt, page, shown, app, raced>>

ServeMe(r) ==
  /\ r.kind = "me" /\ r.answer = "open" /\ Answer(r, "ok")
  /\ UNCHANGED <<Server, jwt, page, shown, app, raced>>

\* With the second factor the token only serves to give the code.
ServeLogin(r) ==
  /\ r.kind = "login" /\ r.answer = "open" /\ admins > 0
  /\ Answer(r, IF otp.enabled THEN "code" ELSE "ok")
  /\ UNCHANGED <<Server, jwt, page, shown, app, raced>>

ServeCode(r) ==
  /\ r.kind = "otp" /\ r.answer = "open" /\ r.secret = otp.secret
  /\ Answer(r, "ok")
  /\ UNCHANGED <<Server, jwt, page, shown, app, raced>>

\* The two statements of bootstrap: nothing keeps two of them apart.
BootstrapReads(r) ==
  /\ r.kind = "bootstrap" /\ r.answer = "open" /\ admins = 0 /\ Answer(r, "read")
  /\ raced' = IF \E x \in asked : x.kind = "bootstrap" /\ x.answer = "read"
              THEN raced \cup {"bootstrap"} ELSE raced
  /\ UNCHANGED <<Server, jwt, page, shown, app>>

BootstrapInserts(r) ==
  /\ r.kind = "bootstrap" /\ r.answer = "read"
  /\ admins < Cardinality(Tabs) /\ admins' = admins + 1
  /\ Answer(r, "ok")
  /\ UNCHANGED <<otp, made, jwt, page, shown, app, raced>>

\* A new secret turns the second factor off until its code is given.
ServeSetup(r, s) ==
  /\ r.kind = "setup" /\ r.answer = "open"
  /\ s \notin made /\ made' = made \cup {s} /\ otp' = [secret |-> s, enabled |-> FALSE]
  /\ asked' = (asked \ {r}) \cup {[r EXCEPT !.secret = s, !.answer = "ok"]}
  /\ raced' = IF \E x \in asked : x.kind = "enable" /\ x.answer = "read"
              THEN raced \cup {"enable"} ELSE raced
  /\ UNCHANGED <<admins, jwt, page, shown, app>>

\* otp_enable reads the secret and compares the code; its update names the user alone.
EnableReads(r) ==
  /\ r.kind = "enable" /\ r.answer = "open"
  /\ r.secret = otp.secret /\ Answer(r, "read")
  /\ UNCHANGED <<Server, jwt, page, shown, app, raced>>

EnableWrites(r) ==
  /\ r.kind = "enable" /\ r.answer = "read"
  /\ otp' = [otp EXCEPT !.enabled = TRUE] /\ Answer(r, "ok")
  /\ UNCHANGED <<admins, made, jwt, page, shown, app, raced>>

-------------------------------------------------------------------------------
(* The answers *)

Receive(r) == r.here /\ asked' = asked \ {r} /\ UNCHANGED <<Server, app>>

\* Nobody waits.
Gone(r) ==
  /\ ~r.here /\ r.answer \in {"ok", "code", "refused"} /\ asked' = asked \ {r}
  /\ UNCHANGED <<Server, jwt, page, shown, app, raced>>

OnStatus(r) ==
  /\ r.kind = "status" /\ r.answer \in {"ok", "code", "refused"} /\ Receive(r)
  /\ page' = [page EXCEPT ![r.tab] = IF r.answer = "code" THEN "bootstrap" ELSE "login"]
  /\ UNCHANGED <<jwt, shown, raced>>

OnMe(r) ==
  /\ r.kind = "me" /\ r.answer = "ok" /\ Receive(r)
  /\ page' = [page EXCEPT ![r.tab] = "in"]
  /\ UNCHANGED <<jwt, shown, raced>>

\* Whatever the failure, and whatever another tab has stored by now.
OnMeRefused(r) ==
  /\ r.kind = "me" /\ r.answer = "refused" /\ r.here
  /\ jwt' = FALSE /\ raced' = Removed(r.tab)
  /\ page' = [page EXCEPT ![r.tab] = "loading"]
  /\ asked' = (asked \ {r}) \cup {Ask(r.tab, "status", None)}
  /\ UNCHANGED <<Server, shown, app>>

\* A second answer finds the form gone, and still stores its token.
OnLogin(r) ==
  /\ r.kind = "login" /\ r.answer \in {"ok", "code"} /\ Receive(r)
  /\ jwt' = (jwt \/ r.answer = "ok")
  /\ page' = IF In(r.tab) THEN page
             ELSE [page EXCEPT ![r.tab] = IF r.answer = "ok" THEN "in" ELSE "otp"]
  /\ UNCHANGED <<shown, raced>>

OnSession(r) ==
  /\ r.kind \in {"otp", "bootstrap"} /\ r.answer = "ok" /\ Receive(r)
  /\ jwt' = TRUE /\ page' = [page EXCEPT ![r.tab] = "in"]
  /\ UNCHANGED <<shown, raced>>

OnSetup(r) ==
  /\ r.kind = "setup" /\ r.answer = "ok" /\ Receive(r)
  /\ shown' = [shown EXCEPT ![r.tab] = [step |-> "show", secret |-> r.secret]]
  /\ UNCHANGED <<jwt, page, raced>>

OnEnabled(r) ==
  /\ r.kind = "enable" /\ r.answer = "ok" /\ Receive(r)
  /\ shown' = [shown EXCEPT ![r.tab].step = "done"]
  /\ UNCHANGED <<jwt, page, raced>>

\* The others tell the failure, and that is all.
OnRefused(r) ==
  /\ r.kind \notin {"status", "me"} /\ r.answer = "refused" /\ Receive(r)
  /\ UNCHANGED <<jwt, page, shown, raced>>

-------------------------------------------------------------------------------
XInit ==
  /\ admins = 0 /\ otp = [secret |-> None, enabled |-> FALSE] /\ made = {}
  /\ jwt = FALSE /\ app = {} /\ asked = {} /\ raced = {}
  /\ page = [t \in Tabs |-> "loading"]
  /\ shown = [t \in Tabs |-> [step |-> "idle", secret |-> None]]

XNext ==
  \/ \E t \in Tabs :
       \/ Open(t) \/ Logout(t) \/ Submit(t) \/ OtpSetup(t) \/ Register(t)
       \/ \E s \in app : SubmitCode(t, s) \/ OtpEnable(t, s)
  \/ \E r \in asked :
       \/ Refuse(r) \/ ServeStatus(r) \/ ServeMe(r) \/ ServeLogin(r) \/ ServeCode(r)
       \/ BootstrapReads(r) \/ BootstrapInserts(r)
       \/ \E s \in Secrets : ServeSetup(r, s)
       \/ EnableReads(r) \/ EnableWrites(r)
       \/ Gone(r) \/ OnStatus(r) \/ OnMe(r) \/ OnMeRefused(r) \/ OnLogin(r)
       \/ OnSession(r) \/ OnSetup(r) \/ OnEnabled(r) \/ OnRefused(r)

XSpec == XInit /\ [][XNext]_xvars

-------------------------------------------------------------------------------
(* Properties *)

\* The administrator is never locked out: while the second factor is on, its secret is in
\* the app, however the set-ups of several tabs overlap, unless a set-up came between the
\* comparison of a code and the switch it turns (routes_auth.py:165-171).
NotLockedOut == otp.enabled /\ "enable" \notin raced => otp.secret \in app

\* There is one first administrator, unless two bootstraps overlapped: each asks before the
\* other inserts.
OneBootstrap == "bootstrap" \notin raced => admins <= 1

\* A tab that shows the desk has a token to ask with, unless another tab removed it: by a
\* logout, or because its own, older token was refused.
SignedInHasToken == \A t \in Tabs : In(t) /\ "storage" \notin raced => jwt

\* A tab that asks for its account asks for nothing else, and shows no form meanwhile; a tab
\* that is in, or about to be, has a token.
PagesInv ==
  /\ \A r \in asked : r.kind = "me" =>
       /\ r.here /\ page[r.tab] = "start"
       /\ \A x \in asked : x.tab = r.tab /\ x.here => x = r
  /\ "storage" \notin raced => \A t \in Tabs : page[t] \in {"in", "start"} => jwt

\* What is shown was given out, what is typed is in the app, and a code that was compared is
\* of the secret that is still set.
SecretsInv ==
  /\ \A t \in Tabs : shown[t].step = "show" => shown[t].secret \in made
  /\ \A r \in asked :
       /\ r.kind = "setup" /\ r.answer = "ok" => r.secret \in made
       /\ r.kind = "enable" => r.secret \in app
       /\ r.kind = "enable" /\ r.answer = "read" /\ "enable" \notin raced => r.secret = otp.secret

\* A bootstrap that has asked is the only one, and finds nobody when it inserts.
BootstrapInv ==
  "bootstrap" \notin raced =>
    \A r \in asked : r.kind = "bootstrap" /\ r.answer = "read" =>
      /\ admins = 0
      /\ \A x \in asked : x.kind = "bootstrap" /\ x.answer = "read" => x = r
===============================================================================
