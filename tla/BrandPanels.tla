------------------------------ MODULE BrandPanels ------------------------------
(* What the console shows of a brand, and the answers that come after the brand    *)
(* changed.  An administrator picks one brand after another on one page; every     *)
(* change runs reloadBrand, which empties the panels and asks for all of them      *)
(* again.  Each loader has its own idea of which answer is still wanted.  Panels   *)
(* share nothing but the account, so a behaviour follows one, chosen at the start. *)
EXTENDS Naturals

CONSTANTS
  Brands,
  MaxSignIns,  \* bound: how often somebody signs in
  MaxLoads,    \* bound: how often the panel is asked for
  None

VARIABLES
  panel,      \* the panel this behaviour follows
  kind,       \* window.__ME.kind, None when nobody is signed in
  own,        \* the brand of a brand account
  adminBrand, \* the brand an administrator picked; it outlives the session
  token,      \* the token in use: how many there have been
  version,    \* the panel's counter of loads
  shown,      \* what the panel shows: the request it was the answer to
  failed,     \* the request whose failure it shows
  asked       \* requests in flight

bvars == <<panel, kind, own, adminBrand, token, version, shown, failed, asked>>

Panels == {"outreach", "gmail", "inbox", "identity", "products", "campaigns",
           "profile", "candidates", "cells"}

\* Mutant: the campaigns of a late answer are kept.
Compares_Nothing == [p \in Panels |-> IF p = "campaigns" THEN {} ELSE {"brand", "version"}]

\* What the callback of each loader compares before it keeps the data.
Compares == [outreach   |-> {"brand", "version"},
             gmail      |-> {"brand", "token", "version"},
             inbox      |-> {"brand", "token", "version"},
             identity   |-> {"brand", "token"},
             products   |-> {"brand"},
             campaigns  |-> {"brand"},
             profile    |-> {"brand"},
             candidates |-> {"brand", "token", "version"},
             cells      |-> {"brand", "token", "version"}]

\* The panels with a counter of their loads.
Counted == {"outreach", "gmail", "inbox", "candidates", "cells"}

\* ... and before it shows a failure: not the same in three of them.  The identity and the
\* campaigns show none, a failure of the candidates is a passing toast.
ComparesFailure ==
  [Compares EXCEPT !.profile = {}, !.cells = {"version"}]
Silent == {"identity", "campaigns", "candidates"}

\* How often reloadBrand asks, and how often adminPickBrand asks again.
Reloads == [p \in Panels |-> IF p = "identity" THEN 2 ELSE IF p \in {"candidates", "cells"} THEN 0 ELSE 1]
Again   == [p \in Panels |-> IF p \in {"outreach", "gmail", "inbox"} THEN 1 ELSE 0]

Request == [brand : Brands, token : Nat, version : Nat]

TypeOK ==
  /\ panel \in Panels
  /\ kind \in {"brand", "admin", None} /\ own \in Brands \cup {None}
  /\ adminBrand \in Brands \cup {None}
  /\ token \in 0..MaxSignIns /\ version \in 0..MaxLoads
  /\ shown \in Request \cup {None} /\ failed \in Request \cup {None}
  /\ asked \subseteq Request

Brand(k, o, a) == IF k = "brand" THEN o ELSE IF k = "admin" THEN a ELSE None
BRAND == Brand(kind, own, adminBrand)

\* render: the login, the list of brands an administrator picks from, or the panels.
Body == IF kind = None THEN "login" ELSE IF BRAND = None THEN "brands" ELSE "panels"

-------------------------------------------------------------------------------
\* n calls of the loader for brand b with token t; without a brand a call asks nothing,
\* but the counters of the panels that compare them move on.
Load(n, b, t) ==
  /\ version + n <= MaxLoads
  /\ version' = version + n
  /\ asked' = IF b = None THEN asked
              ELSE asked \cup {[brand |-> b, token |-> t, version |-> version + i] : i \in 1..n}

\* The panels without a load of their own still move their counter.
ReloadBrand(b, t, again) ==
  /\ shown' = None /\ failed' = None
  /\ IF Reloads[panel] = 0
       THEN version < MaxLoads /\ version' = version + 1 /\ UNCHANGED asked
       ELSE Load(Reloads[panel] + again, b, t)

SignIn(k, o) ==
  /\ kind = None /\ token < MaxSignIns
  /\ (k = "brand") = (o # None)
  /\ kind' = k /\ own' = o /\ token' = token + 1
  /\ ReloadBrand(Brand(k, o, adminBrand), token + 1, 0)
  /\ UNCHANGED <<panel, adminBrand>>

\* The brand an administrator picked stays for the next one who signs in.
AuthLogout ==
  /\ kind # None
  /\ kind' = None /\ own' = None
  /\ ReloadBrand(None, token, 0)
  /\ UNCHANGED <<panel, adminBrand, token>>

\* The list of brands, of all communities, is shown while none is picked.
AdminPickBrand(b) ==
  /\ Body = "brands"
  /\ adminBrand' = b
  /\ ReloadBrand(b, token, Again[panel])
  /\ UNCHANGED <<panel, kind, own, token>>

AdminSwitchBrand ==
  /\ kind = "admin" /\ Body = "panels"
  /\ adminBrand' = None
  /\ ReloadBrand(None, token, 0)
  /\ UNCHANGED <<panel, kind, own, token>>

\* The user asks for the panel again, or an operation of the page does when it is done.
\* Gmail, inbox, candidates and conversations are emptied when they are asked for; the
\* profile is asked for by reloadBrand only.
AskAgain ==
  /\ Body = "panels" /\ panel # "profile"
  /\ Load(1, BRAND, token)
  /\ shown' = IF panel \in {"gmail", "inbox", "candidates"} THEN None ELSE shown
  /\ failed' = IF panel = "identity" THEN failed ELSE None
  /\ UNCHANGED <<panel, kind, own, adminBrand, token>>

\* Another country is chosen: the candidates on their way are no longer wanted.
CandidateCountryChanged ==
  /\ panel = "candidates" /\ Body = "panels"
  /\ version < MaxLoads /\ version' = version + 1
  /\ shown' = None
  /\ UNCHANGED <<panel, kind, own, adminBrand, token, failed, asked>>

-------------------------------------------------------------------------------
Wanted(r, compared) ==
  /\ "brand" \in compared => r.brand = BRAND
  /\ "token" \in compared => r.token = token /\ kind # None
  /\ "version" \in compared => r.version = version

Answer(r) ==
  /\ r \in asked /\ asked' = asked \ {r}
  /\ IF Wanted(r, Compares[panel])
       THEN shown' = r /\ failed' = IF panel = "products" THEN None ELSE failed
       ELSE UNCHANGED <<shown, failed>>
  /\ UNCHANGED <<panel, kind, own, adminBrand, token, version>>

Fail(r) ==
  /\ r \in asked /\ asked' = asked \ {r}
  /\ IF panel \notin Silent /\ Wanted(r, ComparesFailure[panel])
       THEN failed' = r /\ shown' = IF panel = "outreach" THEN None ELSE shown
       ELSE UNCHANGED <<shown, failed>>
  /\ UNCHANGED <<panel, kind, own, adminBrand, token, version>>

-------------------------------------------------------------------------------
BInit ==
  /\ panel \in Panels
  /\ kind = None /\ own = None /\ adminBrand \in Brands \cup {None}
  /\ token = 0 /\ version = 0
  /\ shown = None /\ failed = None /\ asked = {}

BNext ==
  \/ \E k \in {"brand", "admin"}, o \in Brands \cup {None} : SignIn(k, o)
  \/ AuthLogout
  \/ \E b \in Brands : AdminPickBrand(b)
  \/ AdminSwitchBrand \/ AskAgain \/ CandidateCountryChanged
  \/ \E r \in asked : Answer(r) \/ Fail(r)

BSpec == BInit /\ [][BNext]_bvars

-------------------------------------------------------------------------------
(* Properties *)

\* A brand's account has its brand, and a request of the latest load is of the session and
\* the brand of now: whatever changes one of them moves the counter, in a panel that compares
\* it and in one that does not.
AskedInv ==
  /\ kind = "brand" => own # None
  /\ \A r \in asked :
       /\ r.version <= version
       /\ r.version = version => r.brand = BRAND /\ r.token = token /\ kind # None

\* No panel shows data of another brand than the one whose name stands above it, however
\* late an answer comes and however often the brand, or the account, changed meanwhile.
OwnBrandOnly == shown # None => shown.brand = BRAND

\* A panel that counts its loads shows the answer to the last one: one that was overtaken
\* (a refresh, a change to another brand and back) is dropped.
NewestAnswer ==
  shown # None /\ panel \in Counted =>
    shown.version = version \/ \E r \in asked \cup {failed} : r # None /\ r.version = version

\* A failure that is shown is of the brand that is shown, but on the page that learns a
\* brand's profile: its catch compares nothing.
FailureOfTheBrand == failed # None /\ panel # "profile" => failed.brand = BRAND
===============================================================================
