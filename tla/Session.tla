-------------------------------- MODULE Session --------------------------------
(* The session of one browser: the token in its storage, the account the page     *)
(* believes in, and the answers in flight between a page and routes_auth.py.       *)
(*                                                                                 *)
(* The surfaces serve the same engine-live.js.  The token outlives the page; the   *)
(* account, the requests, the chip and the panel do not.  A request carries the    *)
(* token that is stored when it is sent, and no answer looks at it again.          *)
EXTENDS Naturals

CONSTANTS
  Accounts,
  Tokens,    \* bound: how many sessions are issued
  None

VARIABLES
  surface,   \* the page: "brand", "creator" or "bjoin"
  issued,    \* what the server knows of each token: its account, 2FA, its validity
  jwt,       \* localStorage.CONNECTION_JWT
  me,        \* window.__ME
  chip,      \* the login chip is on the page
  panel,     \* the one dialog of authPanel
  asked,     \* requests in flight
  raced      \* history: an answer came when another token was stored than it was sent with
svars == <<surface, issued, jwt, me, chip, panel, asked, raced>>

Surfaces == {"brand", "creator", "bjoin"}
Kinds == {"me", "login", "otp", "magic", "accept"}
Record == [account : Accounts, pending : BOOLEAN, revoked : BOOLEAN]
Request == [kind : Kinds, token : Tokens \cup {None}, answer : Tokens \cup {"open", "refused"}]

TypeOK ==
  /\ surface \in Surfaces
  /\ issued \in [Tokens -> Record \cup {None}]
  /\ jwt \in Tokens \cup {None} /\ me \in Accounts \cup {None}
  /\ chip \in BOOLEAN /\ raced \in BOOLEAN
  /\ panel \in {"none", "account", "mail", "login", "otp", "invite"}
  /\ asked \subseteq Request

Ask(kind) == [kind |-> kind, token |-> jwt, answer |-> "open"]

-------------------------------------------------------------------------------
(* The page *)

\* The foot of engine-live.js.  A magic link is verified on the creator's page only (the
\* others hand it over); /auth/me is asked for whenever a token is stored, and only its
\* answer puts the chip on such a page.
Startup(s, link) ==
  /\ surface' = s
  /\ me' = None /\ raced' = FALSE
  /\ asked' = (IF link = "magic" /\ s = "creator" THEN {Ask("magic")} ELSE {})
               \cup (IF jwt # None THEN {Ask("me")} ELSE {})
  /\ chip' = (jwt = None /\ (s \in {"brand", "creator"} \/ link = "invite"))
  /\ panel' = IF link = "invite" THEN "invite" ELSE "none"
  /\ UNCHANGED <<issued, jwt>>

ChipClick ==
  /\ chip
  /\ panel' = IF panel # "none" THEN "none"
              ELSE IF me # None THEN "account"
              ELSE IF surface = "creator" THEN "mail" ELSE "login"
  /\ UNCHANGED <<surface, issued, jwt, me, chip, asked, raced>>

\* A form stays open while its request is in flight; bound: one of a kind.
Submit(kind) ==
  /\ \A r \in asked : r.kind # kind
  /\ asked' = asked \cup {Ask(kind)}
  /\ UNCHANGED <<surface, issued, jwt, me, chip, panel, raced>>

AuthLogin  == panel = "login" /\ Submit("login")
AuthOtp    == panel = "otp" /\ Submit("otp")
AuthAccept == panel = "invite" /\ Submit("accept")

AuthLogout ==
  /\ panel = "account"
  /\ jwt' = None /\ me' = None /\ panel' = "none" /\ chip' = TRUE
  /\ UNCHANGED <<surface, issued, asked, raced>>

-------------------------------------------------------------------------------
(* The server *)

Valid(t) == t # None /\ issued[t] # None /\ ~issued[t].revoked
Answer(r, a) == asked' = (asked \ {r}) \cup {[r EXCEPT !.answer = a]}

\* A wrong password, an expired link, a lost connection.
Refuse(r) ==
  /\ r.answer = "open"
  /\ Answer(r, "refused")
  /\ UNCHANGED <<surface, issued, jwt, me, chip, panel, raced>>

\* /auth/me tells the account of the token; it does not ask whether 2FA is complete.
ServeMe(r) ==
  /\ r.answer = "open" /\ r.kind = "me" /\ Valid(r.token)
  /\ Answer(r, r.token)
  /\ UNCHANGED <<surface, issued, jwt, me, chip, panel, raced>>

\* The others issue a token: of any account for a form or a link, of the same for a code.
ServeSignIn(r, t, a, pending) ==
  /\ r.answer = "open" /\ issued[t] = None
  /\ \/ r.kind = "login"
     \/ r.kind \in {"magic", "accept"} /\ ~pending
     \/ r.kind = "otp" /\ Valid(r.token) /\ issued[r.token].account = a /\ ~pending
  /\ issued' = [issued EXCEPT ![t] = [account |-> a, pending |-> pending, revoked |-> FALSE]]
  /\ Answer(r, t)
  /\ UNCHANGED <<surface, jwt, me, chip, panel, raced>>

\* A reset of the password, an expired token, an account that is closed.
Revoke(t) ==
  /\ Valid(t)
  /\ issued' = [issued EXCEPT ![t].revoked = TRUE]
  /\ UNCHANGED <<surface, jwt, me, chip, panel, asked, raced>>

-------------------------------------------------------------------------------
(* The answers *)

Receive(r) ==
  /\ asked' = asked \ {r}
  /\ raced' = (raced \/ jwt # r.token)
  /\ UNCHANGED <<surface, issued>>

\* The callback of /auth/me takes the account of the answer, whatever is stored by now.
OnMe(r) ==
  /\ r.kind = "me" /\ r.answer \in Tokens
  /\ me' = issued[r.answer].account /\ chip' = TRUE
  /\ Receive(r)
  /\ UNCHANGED <<jwt, panel>>

\* Mutant: the page keeps the account it had.
OnMeRefused_Keeps(r) ==
  /\ r.kind = "me" /\ r.answer = "refused"
  /\ jwt' = None /\ chip' = TRUE /\ me' \in Accounts
  /\ Receive(r)
  /\ UNCHANGED panel

\* Its catch empties the storage, whatever is stored by now.
OnMeRefused(r) ==
  /\ r.kind = "me" /\ r.answer = "refused"
  /\ jwt' = None /\ chip' = TRUE
  /\ Receive(r)
  /\ UNCHANGED <<me, panel>>

\* A pending token is stored at once, and asks for the code.
OnSignIn(r) ==
  /\ r.kind # "me" /\ r.answer \in Tokens
  /\ jwt' = r.answer
  /\ IF issued[r.answer].pending
       THEN panel' = "otp" /\ UNCHANGED <<me, chip>>
       ELSE /\ me' = issued[r.answer].account /\ chip' = TRUE
            /\ panel' = IF r.kind = "magic" THEN panel ELSE "none"
  /\ Receive(r)

OnRefusal(r) ==
  /\ r.kind # "me" /\ r.answer = "refused"
  /\ Receive(r)
  /\ UNCHANGED <<jwt, me, chip, panel>>

-------------------------------------------------------------------------------
SInit ==
  /\ surface \in Surfaces
  /\ issued = [t \in Tokens |-> None]
  /\ jwt = None /\ me = None /\ asked = {} /\ panel = "none" /\ raced = FALSE
  /\ chip = (surface \in {"brand", "creator"})

SNext ==
  \/ \E s \in Surfaces, link \in {"none", "magic", "invite"} : Startup(s, link)
  \/ ChipClick \/ AuthLogin \/ AuthOtp \/ AuthAccept \/ AuthLogout
  \/ \E t \in Tokens : Revoke(t)
  \/ \E r \in asked :
       \/ Refuse(r) \/ ServeMe(r)
       \/ \E t \in Tokens, a \in Accounts, p \in BOOLEAN : ServeSignIn(r, t, a, p)
       \/ OnMe(r) \/ OnMeRefused(r) \/ OnSignIn(r) \/ OnRefusal(r)

SSpec == SInit /\ [][SNext]_svars

-------------------------------------------------------------------------------
(* Properties *)

\* The account the page shows is the one its requests are made for, unless an answer came
\* for another token than the stored one: a link signed in while /auth/me was asked about
\* the old token, a logout overtook it, a form and an invitation were both sent.  Nothing
\* else mixes two accounts: not the code of the second factor, a reload or a revocation.
MixedOnlyInRace == me # None /\ ~raced => jwt # None /\ issued[jwt].account = me

\* A token is stored, sent and answered only when it was issued; the answer to /auth/me is of
\* the token it was asked with, and every other answer brings a token nobody has seen yet.
TokensInv ==
  /\ jwt # None => issued[jwt] # None
  /\ \A r \in asked :
       /\ r.token # None => issued[r.token] # None
       /\ r.answer \in Tokens => issued[r.answer] # None
       /\ r.kind = "me" => r.token # None /\ (r.answer \in Tokens => r.answer = r.token)
       /\ r.kind # "me" /\ r.answer \in Tokens =>
            /\ r.answer # jwt
            /\ issued[r.answer].pending => r.kind = "login"
            /\ \A x \in asked : x.token # r.answer /\ (x.answer = r.answer => x = r)
       /\ r.kind = "magic" => surface = "creator"
  /\ \A r, x \in asked : r.kind = "me" /\ x.kind = "me" => r = x
  /\ surface = "creator" => panel # "login"

\* While /auth/me is asked about the stored token the page has neither an account nor a
\* chip, and no form to sign in; and it has no account while such a form is sent.
SignedInv ==
  ~raced =>
    /\ me # None => jwt # None /\ issued[jwt].account = me /\ panel # "login"
    /\ \A r \in asked : r.token = jwt =>
         /\ r.kind = "me" => me = None /\ ~chip /\ panel # "login"
         /\ r.kind = "login" => me = None /\ \A x \in asked : x.kind = "me" => x.token # jwt
===============================================================================
