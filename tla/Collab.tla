-------------------------------- MODULE Collab --------------------------------
(* A campaign from its applications to its completed collaborations, as              *)
(* routes_collab.py keeps it in two tables: the application, which the review of a    *)
(* submission also writes, and the terms, made when the brand selects an applicant.   *)
(* A selection locks the campaign, counts the places and inserts; every other step    *)
(* locks the terms it changes and is one transaction.                                 *)
EXTENDS Naturals, FiniteSets

CONSTANTS
  Creators,
  Capacity,
  Offers,      \* commissions a brand may propose
  Selections,  \* bound: selections at a time
  None

VARIABLES
  status,    \* campaign_applications.status, "none" before the application
  terms,     \* campaign_terms: state, proposed and agreed commission, affiliate link, code
  select,    \* the selections under way
  reviewed   \* history: a review of a submission passed the application

cvars == <<status, terms, select, reviewed>>

TermStates == {"selected", "terms_agreed", "sample_shipped", "content_submitted", "completed", "declined"}
Statuses == {"none", "applied", "selected", "shipping", "submitted", "passed"}

TypeOK ==
  /\ status \in [Creators -> Statuses]
  /\ terms \in [Creators -> [state : TermStates, proposed : Offers, agreed : Offers \cup {None},
                             link : BOOLEAN, spark : BOOLEAN] \cup {None}]
  /\ select \in [Selections -> [creator : Creators, step : {"locked", "counted"}] \cup {None}]
  /\ reviewed \in [Creators -> BOOLEAN]

-------------------------------------------------------------------------------
Apply(c) ==
  /\ status[c] = "none"
  /\ status' = [status EXCEPT ![c] = "applied"]
  /\ UNCHANGED <<terms, select, reviewed>>

Taken == {c \in Creators : terms[c] # None /\ terms[c].state # "declined"}

\* The row of the campaign admits one selection at a time.
SelectBegins(s, c) ==
  /\ \A x \in Selections : select[x] = None
  /\ status[c] # "none"
  /\ select' = [select EXCEPT ![s] = [creator |-> c, step |-> "locked"]]
  /\ UNCHANGED <<status, terms, reviewed>>

SelectCounts(s) ==
  /\ select[s] # None /\ select[s].step = "locked"
  /\ Capacity > 0 => Cardinality(Taken) < Capacity
  /\ select' = [select EXCEPT ![s].step = "counted"]
  /\ UNCHANGED <<status, terms, reviewed>>

\* The key of the terms refuses a creator who was selected before, or has declined.
SelectInserts(s, offer) ==
  /\ select[s] # None /\ select[s].step = "counted"
  /\ LET c == select[s].creator IN
       /\ terms[c] = None
       /\ terms' = [terms EXCEPT ![c] = [state |-> "selected", proposed |-> offer, agreed |-> None,
                                         link |-> FALSE, spark |-> FALSE]]
       /\ status' = [status EXCEPT ![c] = "selected"]
  /\ select' = [select EXCEPT ![s] = None]
  /\ UNCHANGED reviewed

\* The campaign is full, the creator is selected already, or the process dies.
SelectEnds(s) ==
  /\ select[s] # None
  /\ select' = [select EXCEPT ![s] = None]
  /\ UNCHANGED <<status, terms, reviewed>>

-------------------------------------------------------------------------------
In(c, states) == terms[c] # None /\ terms[c].state \in states
Move(c, state) == terms' = [terms EXCEPT ![c].state = state]

\* Declining leaves the application as it was: selected.
Decline(c) ==
  /\ In(c, {"selected"}) /\ Move(c, "declined")
  /\ UNCHANGED <<status, select, reviewed>>

Agree(c) ==
  /\ In(c, {"selected"})
  /\ terms' = [terms EXCEPT ![c].state = "terms_agreed", ![c].agreed = terms[c].proposed]
  /\ UNCHANGED <<status, select, reviewed>>

SampleShipped(c) ==
  /\ In(c, {"terms_agreed"}) /\ Move(c, "sample_shipped")
  /\ status' = [status EXCEPT ![c] = "shipping"]
  /\ UNCHANGED <<select, reviewed>>

IssueAffiliateLink(c) ==
  /\ In(c, TermStates \ {"selected", "declined"})
  /\ terms' = [terms EXCEPT ![c].link = TRUE]
  /\ UNCHANGED <<status, select, reviewed>>

SubmitSparkCode(c) ==
  /\ In(c, {"terms_agreed", "sample_shipped", "content_submitted"})
  /\ terms' = [terms EXCEPT ![c].spark = TRUE]
  /\ UNCHANGED <<status, select, reviewed>>

\* Content may be submitted before the sample is shipped.
SubmitContent(c) ==
  /\ In(c, {"terms_agreed", "sample_shipped"}) /\ Move(c, "content_submitted")
  /\ status' = [status EXCEPT ![c] = "submitted"]
  /\ UNCHANGED <<select, reviewed>>

CompleteTerms(c) ==
  /\ In(c, {"content_submitted"}) /\ Move(c, "completed")
  /\ status' = [status EXCEPT ![c] = "passed"]
  /\ UNCHANGED <<select, reviewed>>

\* review_submission passes the application of whoever sent a submission, whatever the
\* terms say, and whether there are any.
ReviewPasses(c) ==
  /\ ~reviewed[c]
  /\ reviewed' = [reviewed EXCEPT ![c] = TRUE]
  /\ status' = IF status[c] = "none" THEN status ELSE [status EXCEPT ![c] = "passed"]
  /\ UNCHANGED <<terms, select>>

-------------------------------------------------------------------------------
CInit ==
  /\ status = [c \in Creators |-> "none"]
  /\ terms = [c \in Creators |-> None]
  /\ select = [s \in Selections |-> None]
  /\ reviewed = [c \in Creators |-> FALSE]

CNext ==
  \/ \E s \in Selections :
       \/ \E c \in Creators : SelectBegins(s, c)
       \/ SelectCounts(s) \/ SelectEnds(s)
       \/ \E o \in Offers : SelectInserts(s, o)
  \/ \E c \in Creators :
       \/ Apply(c) \/ Decline(c) \/ Agree(c) \/ SampleShipped(c) \/ IssueAffiliateLink(c)
       \/ SubmitSparkCode(c) \/ SubmitContent(c) \/ CompleteTerms(c) \/ ReviewPasses(c)

CSpec == CInit /\ [][CNext]_cvars

-------------------------------------------------------------------------------
(* Properties *)

\* However many selections are sent at once, the campaign never holds more collaborations
\* than places; a place that is declined may be given again, to another creator.
CapacityKept == Capacity > 0 => Cardinality(Taken) <= Capacity

\* Nothing is shipped, linked, submitted or completed, and so nothing will be paid, on a
\* commission the creator did not agree to.
WorkIsAgreed ==
  \A c \in Creators : terms[c] # None =>
    /\ terms[c].state \notin {"selected", "declined"} => terms[c].agreed = terms[c].proposed
    /\ terms[c].link \/ terms[c].spark => terms[c].agreed # None

\* What the application shows, where the creator's app and the brand's counts read it, is
\* what the terms say, unless a review passed it past them.  A declined offer is the
\* exception: it still reads as selected.
Told == [selected |-> "selected", terms_agreed |-> "selected", sample_shipped |-> "shipping",
         content_submitted |-> "submitted", completed |-> "passed", declined |-> "selected"]
ApplicationFollowsTerms ==
  \A c \in Creators : ~reviewed[c] =>
    status[c] = IF terms[c] = None THEN (IF status[c] = "none" THEN "none" ELSE "applied")
                ELSE Told[terms[c].state]
===============================================================================
