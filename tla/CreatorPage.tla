------------------------------ MODULE CreatorPage ------------------------------
(* The lists of the creator's page: memberships, communities, campaigns and offers.  *)
(* All are asked for when somebody signs in and after everything a creator does; the *)
(* memberships compare the token and a counter when the answer comes, the others     *)
(* nothing.  A login link signs in on the page it opens, also over another session.  *)
(* The lists share nothing but the session: a behaviour follows one.                 *)
EXTENDS Naturals

CONSTANTS
  Creators,
  MaxTokens,  \* bound: sessions
  MaxLoads,   \* bound: loads of the list
  None

VARIABLES
  list,      \* the list this behaviour follows
  owner,     \* whose token is stored
  jwt,       \* the stored token: how many there have been
  signedIn,  \* window.__ME is set
  status,    \* membershipState
  request,   \* membershipRequest, and the number of the load for the other lists
  rows,      \* what is shown: the load that brought it
  loads,     \* loads in flight
  relinked   \* history: another account signed in on this page after something was asked

rvars == <<list, owner, jwt, signedIn, status, request, rows, loads, relinked>>

Lists == {"memberships", "cells", "campaigns", "offers"}
LoadRecord == [owner : Creators, jwt : 1..MaxTokens, n : 1..MaxLoads]

TypeOK ==
  /\ list \in Lists /\ owner \in Creators \cup {None} /\ jwt \in 0..MaxTokens
  /\ signedIn \in BOOLEAN /\ relinked \in BOOLEAN
  /\ status \in {"loading", "ready", "error"}
  /\ request \in 0..MaxLoads
  /\ rows \in LoadRecord \cup {None} /\ loads \subseteq LoadRecord

-------------------------------------------------------------------------------
\* creatorRetryMemberships and the requests of loadCreatorData: what is shown stays.
LoadFor(a, t) ==
  /\ request < MaxLoads /\ request' = request + 1
  /\ loads' = loads \cup {[owner |-> a, jwt |-> t, n |-> request + 1]}
  /\ status' = "loading"

Open ==
  /\ signedIn' = FALSE /\ status' = "loading" /\ rows' = None /\ loads' = {}
  /\ relinked' = FALSE
  /\ UNCHANGED <<list, owner, jwt, request>>

\* The callback of /auth/me.
OnMe ==
  /\ owner # None /\ ~signedIn /\ signedIn' = TRUE
  /\ LoadFor(owner, jwt)
  /\ UNCHANGED <<list, owner, jwt, rows, relinked>>

\* A link was verified.
OnMagic(a) ==
  /\ jwt < MaxTokens /\ jwt' = jwt + 1
  /\ owner' = a /\ signedIn' = TRUE
  /\ LoadFor(a, jwt + 1)
  /\ relinked' = (relinked \/ (a # owner /\ (rows # None \/ loads # {})))
  /\ UNCHANGED <<list, rows>>

\* Nothing of the page is emptied.
AuthLogout ==
  /\ signedIn
  /\ owner' = None /\ signedIn' = FALSE
  /\ UNCHANGED <<list, jwt, status, request, rows, loads, relinked>>

\* creatorReload, and the end of crApply, crAgree, crSpark, crContent and creatorJoin.
LoadCreatorData ==
  /\ signedIn /\ LoadFor(owner, jwt)
  /\ UNCHANGED <<list, owner, jwt, signedIn, rows, relinked>>

-------------------------------------------------------------------------------
\* Mutant: the counter is not compared.
Wanted_Token(l) == list = "memberships" => l.jwt = jwt /\ owner # None

Wanted(l) == list = "memberships" => l.n = request /\ l.jwt = jwt /\ owner # None

Answer(l) ==
  /\ l \in loads /\ loads' = loads \ {l}
  /\ IF Wanted(l) THEN rows' = l /\ status' = "ready" ELSE UNCHANGED <<rows, status>>
  /\ UNCHANGED <<list, owner, jwt, signedIn, request, relinked>>

\* The rows of before stay under the notice.
Fail(l) ==
  /\ l \in loads /\ loads' = loads \ {l}
  /\ status' = IF Wanted(l) THEN "error" ELSE status
  /\ UNCHANGED <<list, owner, jwt, signedIn, request, rows, relinked>>

-------------------------------------------------------------------------------
RInit ==
  /\ list \in Lists
  /\ owner = None /\ jwt = 0 /\ signedIn = FALSE /\ status = "loading" /\ request = 0
  /\ rows = None /\ loads = {} /\ relinked = FALSE

RNext ==
  \/ Open \/ OnMe \/ AuthLogout \/ LoadCreatorData
  \/ \E a \in Creators : OnMagic(a)
  \/ \E l \in loads : Answer(l) \/ Fail(l)

RSpec == RInit /\ [][RNext]_rvars

-------------------------------------------------------------------------------
(* Properties *)

\* What is on its way, or shown, was asked for with a token of its owner: the stored one has
\* one owner, and on a page where nobody signed in over another session so have all.
LoadsInv ==
  /\ signedIn => owner # None
  /\ owner # None => jwt > 0
  /\ \A l \in loads \cup ({rows} \ {None}) :
       /\ l.jwt <= jwt /\ l.n <= request
       /\ owner # None /\ l.jwt = jwt => l.owner = owner
       /\ owner # None /\ ~relinked => l.owner = owner

\* Whether a creator may join, and which memberships are told as complete, is decided on
\* the last answer for this very session: the button to join, which is charged for, waits
\* for it however many loads and sign-ins overlap.
ReadyIsNewest ==
  list = "memberships" /\ signedIn /\ status = "ready" =>
    rows # None /\ rows.jwt = jwt /\ rows.owner = owner /\ rows.n = request

\* No list is of another creator than the one signed in, but on a page whose link signed
\* somebody in over another session: what was asked before is then shown, or stays.
ForeignOnlyAfterLink == signedIn /\ rows # None /\ ~relinked => rows.owner = owner
===============================================================================
