------------------------------ MODULE Submissions ------------------------------
(* What a creator is told to say of a product, and what is said of it: the brief of a    *)
(* campaign (content_agent.py), the rules it is written by (compliance.py), and the      *)
(* posts that are checked by the same rules and then reviewed (routes_ops.py).  The      *)
(* brand publishes its profile, and the creator changes the language, at any time.       *)
EXTENDS Naturals, FiniteSets

CONSTANTS
  Posts,   \* bound: submissions of the creator to the campaign
  None

VARIABLES
  land,    \* the country whose rules hold, by the creator's language
  banned,  \* latest profile: a word the creators would use is forbidden
  usp,     \* latest profile: the claims in the brand's own words
  brief,   \* the brief the creator was given last
  post     \* submissions

svars == <<land, banned, usp, brief, post>>

Lands == {"KR", "TH"}
Claims == {"medical_claim", "absolute_claim", "functional_claim", "banned_word"}
Kinds == Claims \cup {"missing_disclosure"}

\* A text: what it claims, and whether it says that it is paid for.
Text == [claims : SUBSET Claims, disclosed : BOOLEAN]
\* Of the texts, those with one claim at most.
Faults == {c \in SUBSET Claims : Cardinality(c) <= 1}
Texts == {t \in Text : t.claims \in Faults}

\* allowed: the functional claims of the product were approved; rules are those that were
\* read; same (history): they are still the rules.
Brief == [ai : BOOLEAN, allowed : BOOLEAN, says : SUBSET Claims, donts : SUBSET Kinds,
          land : Lands, banned : BOOLEAN, same : BOOLEAN]
\* heeds (history): the text avoids what a brief told it to avoid, by the rules of today.
Post == [state : {"checking", "in_review", "needs_fix", "passed"}, found : SUBSET Kinds,
         heeds : BOOLEAN, allowed : BOOLEAN]

TypeOK ==
  /\ land \in Lands /\ banned \in BOOLEAN /\ usp \subseteq Claims
  /\ brief \in Brief \cup {None}
  /\ post \in [Posts -> Post \cup {None}]

-------------------------------------------------------------------------------
(* The rules *)

\* check_content; outside Korea nobody asks for the approval of a functional claim.
Violations(text, country, words, allowed) ==
  (text.claims \cap {"medical_claim", "absolute_claim"})
    \cup {k \in text.claims \cap {"functional_claim"} : country = "KR" /\ ~allowed}
    \cup {k \in text.claims \cap {"banned_word"} : words}
    \cup {k \in {"missing_disclosure"} : ~text.disclosed}

\* An absolute claim is warned of only.
Blocking(found) == found \ {"absolute_claim"}

\* dont_list
Donts(country, words, allowed) ==
  Violations([claims |-> Claims, disclosed |-> FALSE], country, words, allowed)

-------------------------------------------------------------------------------
(* The brand and the creator *)

Outdated == IF brief = None THEN None ELSE [brief EXCEPT !.same = FALSE]

Publish(words, claims) ==
  /\ words # banned \/ claims # usp
  /\ banned' = words /\ usp' = claims
  /\ brief' = IF words = banned THEN brief ELSE Outdated
  /\ UNCHANGED <<land, post>>

UpdateLocale(l) ==
  /\ l # land /\ land' = l
  /\ brief' = Outdated
  /\ UNCHANGED <<banned, usp, post>>

\* generate_brief: what the model writes is checked again, and the template is taken when
\* it breaks a rule, refuses or cannot be read.  The template repeats the brand's words.
Written(ai, says, allowed, country, words) ==
  [ai |-> ai, allowed |-> allowed, says |-> says, donts |-> Donts(country, words, allowed),
   land |-> country, banned |-> words, same |-> country = land /\ words = banned]

\* create_brief read the creator's country and the profile (words, own) before it asked the
\* model: by now they may have changed.
WriteBrief(says, allowed, country, words) ==
  /\ Blocking(Violations([claims |-> says, disclosed |-> TRUE], country, words, allowed)) = {}
  /\ brief' = Written(TRUE, says, allowed, country, words)
  /\ UNCHANGED <<land, banned, usp, post>>

\* The template, whatever the model did wrong.
FallBack(own, allowed, country, words) ==
  /\ brief' = Written(FALSE, own, allowed, country, words)
  /\ UNCHANGED <<land, banned, usp, post>>

-------------------------------------------------------------------------------
(* Submissions *)

Heeds(text) ==
  brief # None /\ brief.same /\ text.claims \cap brief.donts = {} /\ text.disclosed

\* create_submission reads the creator and the profile, and checks; what a brief allowed
\* is not known here.
Submit(p, text) ==
  /\ post[p] = None
  /\ post' = [post EXCEPT ![p] =
       [state |-> "checking", found |-> Violations(text, land, banned, FALSE),
        heeds |-> Heeds(text), allowed |-> brief # None /\ brief.allowed]]
  /\ UNCHANGED <<land, banned, usp, brief>>

\* Then it inserts.  One fault, even one to be warned of, or a bad link sends it back.
Insert(p, link) ==
  /\ post[p] # None /\ post[p].state = "checking"
  /\ post' = [post EXCEPT ![p].state =
       IF link /\ post[p].found = {} THEN "in_review" ELSE "needs_fix"]
  /\ UNCHANGED <<land, banned, usp, brief>>

\* What it does to the creator's application is ReviewPasses of Collab.
ReviewSubmission(p, result) ==
  /\ post[p] # None /\ post[p].state = "in_review"
  /\ post' = [post EXCEPT ![p].state = result]
  /\ UNCHANGED <<land, banned, usp, brief>>

SInit ==
  /\ land \in Lands /\ banned \in BOOLEAN
  /\ usp \in {{}, {"medical_claim"}}
  /\ brief = None
  /\ post = [p \in Posts |-> None]

SNext ==
  \/ \E b \in BOOLEAN, c \in {{}, {"medical_claim"}} : Publish(b, c)
  \/ \E l \in Lands : UpdateLocale(l)
  \/ \E a, w \in BOOLEAN, l \in Lands :
       \/ \E c \in Faults : WriteBrief(c, a, l, w)
       \/ \E o \in {{}, {"medical_claim"}} : FallBack(o, a, l, w)
  \/ \E p \in Posts :
       \/ \E t \in Texts : Submit(p, t)
       \/ \E l \in BOOLEAN : Insert(p, l)
       \/ \E r \in {"passed", "needs_fix"} : ReviewSubmission(p, r)

-------------------------------------------------------------------------------
\* A creator who avoids what the brief says to avoid is not sent back by the check
\* (content_agent.py:100, routes_ops.py:394): but when the rules changed after the brief,
\* or the brief allowed a functional claim, which the check of a post knows nothing of.
HeedingPasses ==
  \A p \in Posts : post[p] # None /\ post[p].heeds
    => \/ post[p].found = {}
       \/ post[p].allowed /\ post[p].found = {"functional_claim"}

\* A brief proposes nothing that the rules it was written by forbid (content_agent.py:146),
\* but for the template, which repeats the brand's words unchecked.
ProposalsAreAllowed ==
  brief # None /\ brief.ai =>
    brief.says \cap Blocking(Donts(brief.land, brief.banned, brief.allowed)) = {}

\* What makes them inductive: a brief forbids what the rules it was written by forbid, and they
\* are the rules of today as long as it says so.
BriefInv ==
  brief # None =>
    /\ brief.donts = Donts(brief.land, brief.banned, brief.allowed)
    /\ brief.same => brief.land = land /\ brief.banned = banned
===============================================================================
