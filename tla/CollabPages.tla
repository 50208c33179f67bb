------------------------------ MODULE CollabPages ------------------------------
(* A collaboration as two people see it: the brand on the card of its campaign in     *)
(* the console, the creator on two lists of the app, each drawn from an answer that   *)
(* may be old.  A page offers what the state it shows allows, several requests may be *)
(* on their way, the answers come in any order and may be lost after the server has   *)
(* done what was asked.  The server is Collab, with one campaign and one creator.     *)
EXTENDS Naturals, FiniteSets

CONSTANTS
  Creator,
  Offers,    \* commissions a brand may propose
  MaxAsked,  \* bound: requests at a time
  None

VARIABLES
  status, terms, select, reviewed,  \* of Collab
  rows,      \* the console's collabOpen.rows: the campaign when they were read
  camps,     \* the app's myCampaigns
  offers,    \* the app's myOffers
  wire,      \* requests on their way to the server and back
  told,      \* what a page has just said is done
  accepted   \* history: the commission the creator saw when agreeing

pvars == <<status, terms, select, reviewed, rows, camps, offers, wire, told, accepted>>

C == INSTANCE Collab WITH Creators <- {Creator}, Capacity <- 0, Selections <- {"tx"}

server == <<status, terms, select, reviewed>>
shown == <<rows, camps, offers>>

BrandOps == {"select", "ship", "link", "complete"}
CreatorOps == {"apply", "agree", "decline", "spark", "content"}
Lists == {"campaigns", "offers"}

\* What a read of the campaign returns to the card and to the two lists, as far as
\* they offer anything: the state of the terms, and the commission proposed.
Seen == [state : C!TermStates \cup {"none", "applied"}, proposed : Offers \cup {None}]
Now(what) ==
  LET t == terms[Creator] IN
    [state    |-> IF status[Creator] = "none" THEN "none"
                  ELSE IF t = None \/ what = "campaigns" THEN "applied" ELSE t.state,
     proposed |-> IF what = "offers" /\ t # None THEN t.proposed ELSE None]

Request == [what : BrandOps \cup CreatorOps \cup Lists \cup {"show"}, offer : Offers \cup {None},
            at : {"sent", "locked", "ok", "no"}, seen : Seen \cup {None}]

TypeOK ==
  /\ C!TypeOK
  /\ rows \in Seen \cup {None} /\ camps \in Seen \cup {None} /\ offers \in Seen \cup {None}
  /\ wire \subseteq Request
  /\ told \in BrandOps \cup CreatorOps \cup {None}
  /\ accepted \in Offers \cup {None}

-------------------------------------------------------------------------------
Sent(what, offer) == [what |-> what, offer |-> offer, at |-> "sent", seen |-> None]

\* collabCard: what the console offers for the state it shows.
BrandOffers ==
  IF rows = None THEN {}
  ELSE CASE rows.state = "applied"           -> {"select"}
         [] rows.state = "terms_agreed"      -> {"ship", "link"}
         [] rows.state = "sample_shipped"    -> {"link"}
         [] rows.state = "content_submitted" -> {"complete"}
         [] OTHER                            -> {}

\* campHtml and offersHtml.  A notice covers a list whose answer failed until it is asked
\* for again; here the rows under it go on offering what they offered.
CreatorOffers ==
  {op \in CreatorOps :
     \/ op = "apply" /\ camps # None /\ camps.state = "none"
     \/ /\ offers # None
        /\ \/ op \in {"agree", "decline"} /\ offers.state = "selected"
           \/ op \in {"spark", "content"} /\ offers.state \in {"terms_agreed", "sample_shipped"}}

\* collabShow, creatorReload.
Look ==
  \/ /\ Cardinality(wire) < MaxAsked
     /\ wire' = wire \cup {Sent("show", None)}
     /\ told' = None /\ UNCHANGED <<server, shown, accepted>>
  \/ /\ Cardinality(wire) + 1 < MaxAsked
     /\ wire' = wire \cup {Sent(l, None) : l \in Lists}
     /\ told' = None /\ UNCHANGED <<server, shown, accepted>>

\* collabSelect, collabShip, collabLink, collabComplete: the page stays as it is.
BrandActs(op, offer) ==
  /\ op \in BrandOffers /\ (op = "select") = (offer # None)
  /\ Cardinality(wire) < MaxAsked
  /\ wire' = wire \cup {Sent(op, offer)}
  /\ told' = None /\ UNCHANGED <<server, shown, accepted>>

\* crApply, crAgree, crSpark, crContent.
CreatorActs(op) ==
  /\ op \in CreatorOffers
  /\ Cardinality(wire) < MaxAsked
  /\ wire' = wire \cup {Sent(op, None)}
  /\ accepted' = IF op = "agree" THEN offers.proposed ELSE accepted
  /\ told' = None /\ UNCHANGED <<server, shown>>

-------------------------------------------------------------------------------
Becomes(r, at, seen) == wire' = (wire \ {r}) \cup {[r EXCEPT !.at = at, !.seen = seen]}

ServeRead(r) ==
  /\ r.at = "sent" /\ r.what \in Lists \cup {"show"}
  /\ Becomes(r, "ok", Now(r.what))
  /\ told' = None /\ UNCHANGED <<server, shown, accepted>>

Does(what) ==
  \/ what = "apply"    /\ C!Apply(Creator)
  \/ what = "agree"    /\ C!Agree(Creator)
  \/ what = "decline"  /\ C!Decline(Creator)
  \/ what = "ship"     /\ C!SampleShipped(Creator)
  \/ what = "link"     /\ C!IssueAffiliateLink(Creator)
  \/ what = "spark"    /\ C!SubmitSparkCode(Creator)
  \/ what = "content"  /\ C!SubmitContent(Creator)
  \/ what = "complete" /\ C!CompleteTerms(Creator)

\* The answer to what was done may be lost: the page hears of a failure.
ServeOp(r) ==
  /\ r.at = "sent" /\ Does(r.what)
  /\ \E at \in {"ok", "no"} : Becomes(r, at, None)
  /\ told' = None /\ UNCHANGED <<shown, accepted>>

ServeSelect(r) ==
  /\ r.what = "select"
  /\ \/ r.at = "sent" /\ C!SelectBegins("tx", Creator) /\ Becomes(r, "locked", None)
     \/ r.at = "locked" /\ C!SelectCounts("tx") /\ UNCHANGED wire
     \/ /\ r.at = "locked" /\ C!SelectInserts("tx", r.offer)
        /\ \E at \in {"ok", "no"} : Becomes(r, at, None)
     \/ r.at = "locked" /\ C!SelectEnds("tx") /\ Becomes(r, "no", None)
  /\ told' = None /\ UNCHANGED <<shown, accepted>>

\* Refused, or never arrived.
Refuse(r) ==
  /\ r.at = "sent" /\ Becomes(r, "no", None)
  /\ told' = None /\ UNCHANGED <<server, shown, accepted>>

-------------------------------------------------------------------------------
\* The callbacks: of the lists none compares anything.
OnRead(r) ==
  /\ r.at \in {"ok", "no"} /\ r.what \in Lists \cup {"show"}
  /\ wire' = wire \ {r}
  /\ rows'   = IF r.what = "show" /\ r.at = "ok" THEN r.seen ELSE rows
  /\ camps'  = IF r.what = "campaigns" /\ r.at = "ok" THEN r.seen ELSE camps
  /\ offers' = IF r.what = "offers" /\ r.at = "ok" THEN r.seen ELSE offers
  /\ told' = None /\ UNCHANGED <<server, accepted>>

\* Success is told, and what is shown is asked for again; a failure is only told.
OnOp(r) ==
  /\ r.at \in {"ok", "no"} /\ r.what \in BrandOps \cup CreatorOps
  /\ IF r.at = "no"
       THEN wire' = wire \ {r} /\ told' = None
       ELSE /\ told' = r.what
            /\ wire' = (wire \ {r}) \cup
                 IF r.what \in BrandOps THEN {Sent("show", None)} ELSE {Sent(l, None) : l \in Lists}
            /\ Cardinality(wire') <= MaxAsked
  /\ UNCHANGED <<server, shown, accepted>>

-------------------------------------------------------------------------------
PInit ==
  /\ C!CInit
  /\ rows = None /\ camps = None /\ offers = None
  /\ wire = {} /\ told = None /\ accepted = None

PNext ==
  \/ Look
  \/ \E op \in BrandOps, o \in Offers \cup {None} : BrandActs(op, o)
  \/ \E op \in CreatorOps : CreatorActs(op)
  \/ \E r \in wire :
       \/ ServeRead(r) \/ ServeOp(r) \/ ServeSelect(r) \/ Refuse(r)
       \/ OnRead(r) \/ OnOp(r)

PSpec == PInit /\ [][PNext]_pvars

-------------------------------------------------------------------------------
(* Properties *)

\* A creator who agreed to a commission agreed to the one the page showed at the click,
\* although the click sends none: whatever the console asks meanwhile, on however old a
\* card, cannot change what was proposed.
AgreedAsShown ==
  terms[Creator] # None /\ terms[Creator].agreed # None => terms[Creator].agreed = accepted

\* What either page tells its user as done has been done.
Reached(op) ==
  LET t == terms[Creator] IN
    CASE op = "apply"    -> status[Creator] # "none"
      [] op = "select"   -> t # None
      [] op = "agree"    -> t # None /\ t.state \notin {"selected", "declined"}
      [] op = "decline"  -> t # None /\ t.state = "declined"
      [] op = "ship"     -> t # None /\ t.state \in {"sample_shipped", "content_submitted", "completed"}
      [] op = "link"     -> t # None /\ t.link
      [] op = "spark"    -> t # None /\ t.spark
      [] op = "content"  -> t # None /\ t.state \in {"content_submitted", "completed"}
      [] op = "complete" -> t # None /\ t.state = "completed"
ToldIsDone == told # None => Reached(told)

\* ... and stays done, whatever old card a button of is pressed.
DoneStaysDone == \A op \in BrandOps \cup CreatorOps : Reached(op) => Reached(op)'

\* Why they hold.  An offer that is seen is the one that was made, for it is made once; who
\* agrees has seen one; and what was answered with success has been done.
Fits(seen) == seen.state = "selected" => terms[Creator] # None /\ seen.proposed = terms[Creator].proposed
Sound(r) ==
  /\ r.what = "select" => r.offer # None
  /\ r.what = "agree" => accepted # None
  /\ r.what = "offers" /\ r.at = "ok" => Fits(r.seen)
  /\ r.what \in BrandOps \cup CreatorOps /\ r.at = "ok" => Reached(r.what)
WireInv == \A r \in wire : Sound(r)
SeenInv ==
  /\ offers # None => Fits(offers)
  /\ accepted # None => terms[Creator] # None /\ accepted = terms[Creator].proposed
  /\ terms[Creator] # None /\ terms[Creator].agreed # None =>
       terms[Creator].agreed = terms[Creator].proposed /\ accepted # None
===============================================================================
