------------------------------ MODULE SignupForm -------------------------------
(* The form a brand applies with.  The page of the brand is analysed and fills the     *)
(* fields that are empty, or hold what an earlier analysis put there; the address the  *)
(* brand wants is checked when its field is left, and once more by the submit, which   *)
(* reads the fields again after that check.  The form stays open to edits all the      *)
(* while.  Others apply as well, and administrators decide.                            *)
EXTENDS Naturals, Sequences, FiniteSets

CONSTANTS
  Urls,      \* pages of a brand
  Slugs,     \* addresses in the service
  MaxEdits,  \* bound: edits of the fields and analyses
  MaxApps,   \* bound: applications
  MaxChecks, \* bound: checks of the address at a time
  None

VARIABLES
  site,        \* [url, manual]: the page, and the box for those who have none
  learning,    \* the page whose analysis the form has; its URL is learnedUrl
  blocked,     \* the button of the analysis is disabled
  slug,        \* the field of the address
  text,        \* [now, filled]: a field the analysis fills, and autofilled
  busy,
  asked,       \* the requests of the analysis and the submit
  checks,      \* the requests of the address field
  slugStatus,  \* what is told of the address: about which, and by whom
  receipt,     \* the address in the receipt, and the form is gone
  apps,        \* brand_applications, and the brands of those approved
  edits,       \* the edits and analyses so far
  lacking,     \* history: the latest analysis found no text, and left another's
  lost         \* history: the answer to an application was lost

svars == <<site, learning, blocked, slug, text, busy, asked, checks, slugStatus, receipt, apps,
           edits, lacking, lost>>
fields == <<site, learning, blocked, slug, text>>
told == <<slugStatus, receipt>>

Texts == Urls \cup {None, "own"}
Request == [what : {"learn", "check", "post"}, url : Urls \cup {None},
            slug : Slugs \cup {None}, learning : Urls \cup {None}, text : Texts,
            at : {"sent", "ok", "taken", "no"}]
App == [slug : Slugs, status : {"pending", "approved", "rejected"}, mine : BOOLEAN,
        url : Urls \cup {None}, learning : Urls \cup {None}, text : Texts]

TypeOK ==
  /\ site \in [url : Urls \cup {None}, manual : BOOLEAN]
  /\ learning \in Urls \cup {None} /\ blocked \in BOOLEAN
  /\ slug \in Slugs \cup {None}
  /\ text \in [now : Texts, filled : Urls \cup {None}]
  /\ busy \in BOOLEAN /\ asked \subseteq Request
  /\ checks \subseteq [slug : Slugs, wanted : BOOLEAN]
  /\ slugStatus \in [slug : Slugs, by : {"field", "submit"}] \cup {None}
  /\ receipt \in Slugs \cup {None}
  /\ apps \in Seq(App) /\ Len(apps) <= MaxApps
  /\ edits \in 0..MaxEdits /\ lacking \in BOOLEAN /\ lost \in BOOLEAN

-------------------------------------------------------------------------------
(* The fields *)

Open == receipt = None
Edit == Open /\ edits < MaxEdits /\ edits' = edits + 1

\* The analysis is of another page now, and does not come back with its URL.
EditUrl(u) ==
  /\ Edit /\ u # site.url
  /\ site' = [site EXCEPT !.url = u]
  /\ learning' = None
  /\ UNCHANGED <<blocked, slug, text, busy, asked, checks, told, apps, lacking, lost>>

ToggleManual ==
  /\ Edit
  /\ site' = [site EXCEPT !.manual = ~@] /\ blocked' = ~site.manual
  /\ UNCHANGED <<learning, slug, text, busy, asked, checks, told, apps, lacking, lost>>

EditText(t) ==
  /\ Edit /\ t # text.now
  /\ text' = [text EXCEPT !.now = t]
  /\ UNCHANGED <<site, learning, blocked, slug, busy, asked, checks, told, apps, lacking, lost>>

\* Earlier checks count no more.
Unwanted == {[c EXCEPT !.wanted = FALSE] : c \in checks}

EditSlug(s) ==
  /\ Edit /\ s # slug
  /\ slug' = s /\ checks' = Unwanted /\ slugStatus' = None
  /\ UNCHANGED <<site, learning, blocked, text, busy, asked, receipt, apps, lacking, lost>>

\* The field of the address is left.
Blur ==
  /\ Open /\ slug # None /\ Cardinality(checks) < MaxChecks
  /\ checks' = Unwanted \cup {[slug |-> slug, wanted |-> TRUE]}
  /\ slugStatus' = None
  /\ UNCHANGED <<fields, busy, asked, receipt, apps, edits, lacking, lost>>

-------------------------------------------------------------------------------
(* The buttons *)

Ask(r) == asked' = asked \cup {r}
Sent(what) ==
  [what |-> what, url |-> site.url, slug |-> None, learning |-> None, text |-> None, at |-> "sent"]

Learn ==
  /\ Edit /\ ~busy /\ ~blocked /\ site.url # None
  /\ busy' = TRUE /\ learning' = None /\ blocked' = TRUE
  /\ Ask(Sent("learn"))
  /\ UNCHANGED <<site, slug, text, checks, told, apps, lacking, lost>>

Submit ==
  /\ Open /\ ~busy /\ slug # None
  /\ site.manual \/ (learning # None /\ site.url = learning)
  /\ busy' = TRUE
  /\ Ask([Sent("check") EXCEPT !.slug = slug])
  /\ UNCHANGED <<fields, checks, told, apps, edits, lacking, lost>>

-------------------------------------------------------------------------------
(* The server *)

Taken(s) == \E k \in DOMAIN apps : apps[k].slug = s /\ apps[k].status \in {"pending", "approved"}

Apply(app) ==
  /\ ~Taken(app.slug) /\ Len(apps) < MaxApps
  /\ apps' = Append(apps, app)

Answered(r, at) == asked' = (asked \ {r}) \cup {[r EXCEPT !.at = at]}

ServeCheck(r) ==
  /\ r.what = "check" /\ r.at = "sent"
  /\ \/ ~Taken(r.slug) /\ Answered(r, "ok")
     \/ Taken(r.slug) /\ Answered(r, "taken")
     \/ Answered(r, "no")
  /\ UNCHANGED <<fields, busy, checks, told, apps, edits, lacking, lost>>

\* The address is looked up and the application stored under the lock of the address;
\* a request may get lost, and so may the answer to one that is stored.
ServePost(r) ==
  /\ r.what = "post" /\ r.at = "sent"
  /\ \/ /\ r.slug # None
        /\ Apply([slug |-> r.slug, status |-> "pending", mine |-> TRUE,
                  url |-> r.url, learning |-> r.learning, text |-> r.text])
        /\ \/ Answered(r, "ok") /\ UNCHANGED lost
           \/ Answered(r, "no") /\ lost' = TRUE
     \/ Answered(r, "no") /\ UNCHANGED <<apps, lost>>
  /\ UNCHANGED <<fields, busy, checks, told, edits, lacking>>

OtherApplies(s) ==
  /\ Apply([slug |-> s, status |-> "pending", mine |-> FALSE,
            url |-> None, learning |-> None, text |-> None])
  /\ UNCHANGED <<fields, busy, asked, checks, told, edits, lacking, lost>>

\* An approved application becomes a brand of its address.
Decide(k, status) ==
  /\ apps[k].status = "pending"
  /\ apps' = [apps EXCEPT ![k].status = status]
  /\ UNCHANGED <<fields, busy, asked, checks, told, edits, lacking, lost>>

-------------------------------------------------------------------------------
(* The answers *)

\* What the user typed stays, and what an earlier analysis filled in goes.
Fill(u) ==
  text' = IF text.now \in {None, text.filled} THEN [now |-> u, filled |-> u] ELSE text

\* The analysis has a text for the field, or none, or failed.  The button is free again,
\* also for those who said that they have no page.
OnLearn(r, found) ==
  /\ r.what = "learn"
  /\ asked' = asked \ {r} /\ busy' = FALSE /\ blocked' = FALSE
  /\ IF found # "failure" /\ r.url = site.url
       THEN /\ learning' = r.url
            /\ IF found = "text" THEN Fill(r.url) ELSE UNCHANGED text
            /\ lacking' = (found = "nothing" /\ text.now \in Urls \ {r.url})
       ELSE UNCHANGED <<learning, text, lacking>>
  /\ UNCHANGED <<site, slug, checks, told, apps, edits, lost>>

GiveUp(r) == asked' = asked \ {r} /\ busy' = FALSE

\* The application holds what the fields hold by now; an analysis that is needed and was
\* dropped in the meantime is an error.
OnCheck(r) ==
  /\ r.what = "check" /\ r.at # "sent"
  /\ slugStatus' = IF r.at = "no" THEN slugStatus
                   ELSE [slug |-> r.slug, by |-> "submit"]
  /\ IF r.at = "ok" /\ (site.manual \/ learning # None)
       THEN /\ asked' = (asked \ {r}) \cup
                 {[Sent("post") EXCEPT !.slug = slug, !.text = text.now,
                                       !.learning = IF site.manual THEN None ELSE learning]}
            /\ UNCHANGED busy
       ELSE GiveUp(r)
  /\ UNCHANGED <<fields, checks, receipt, apps, edits, lacking, lost>>

OnPost(r) ==
  /\ r.what = "post" /\ r.at # "sent"
  /\ GiveUp(r)
  /\ receipt' = IF r.at = "ok" THEN r.slug ELSE receipt
  /\ UNCHANGED <<fields, checks, slugStatus, apps, edits, lacking, lost>>

\* The answer to a check of the address when its field was left, or none.
OnField(c) ==
  /\ checks' = checks \ {c}
  /\ slugStatus' \in IF c.wanted THEN {None, [slug |-> c.slug, by |-> "field"]} ELSE {slugStatus}
  /\ UNCHANGED <<fields, busy, asked, receipt, apps, edits, lacking, lost>>

-------------------------------------------------------------------------------
SInit ==
  /\ site = [url |-> None, manual |-> FALSE] /\ learning = None /\ blocked = FALSE
  /\ slug = None /\ text = [now |-> None, filled |-> None] /\ busy = FALSE
  /\ asked = {} /\ checks = {} /\ slugStatus = None /\ receipt = None /\ apps = <<>>
  /\ edits = 0 /\ lacking = FALSE /\ lost = FALSE

SNext ==
  \/ \E u \in Urls : EditUrl(u)
  \/ ToggleManual \/ Blur \/ Learn \/ Submit
  \/ \E t \in {None, "own"} : EditText(t)
  \/ \E s \in Slugs : EditSlug(s) \/ OtherApplies(s)
  \/ \E k \in DOMAIN apps, status \in {"approved", "rejected"} : Decide(k, status)
  \/ \E r \in asked : ServeCheck(r) \/ ServePost(r) \/ OnCheck(r) \/ OnPost(r)
  \/ \E r \in asked, found \in {"text", "nothing", "failure"} : OnLearn(r, found)
  \/ \E c \in checks : OnField(c)

SSpec == SInit /\ [][SNext]_svars

-------------------------------------------------------------------------------
(* Properties *)

Mine == {k \in DOMAIN apps : apps[k].mine}

\* A text that is not the user's is the one that was filled in last, a check that is still
\* wanted is of the address in the field, and an application is sent with the analysis of
\* its page, or without one.
FormInv ==
  /\ text.now \in Urls => text.now = text.filled
  /\ \A c \in checks : c.wanted => c.slug = slug
  /\ \A r \in asked : IF r.what = "post" THEN r.learning \in {None, r.url}
                        ELSE r.what = "check" => r.slug # None

\* Whatever is edited while the page is analysed or the address checked, the form has the
\* analysis of the page it names, or none, and so has the application it sends.
LearningFitsTheSite ==
  /\ learning \in {None, site.url}
  /\ \A k \in Mine : apps[k].learning \in {None, apps[k].url}

\* The text of an application is the user's, or of the page analysed: the text of an
\* earlier page stays only where the new one has none.
TextIsOfTheSite ==
  learning # None /\ text.now \in Urls => text.now = learning \/ lacking

\* What is told of the address is of the address in the field, but when it was edited
\* while the submit had it checked.
StatusIsOfTheSlug == slugStatus # None => slugStatus.slug = slug \/ slugStatus.by = "submit"

\* An address has one application that is pending or approved, however many apply at once.
OneOwnerASlug ==
  \A j, k \in DOMAIN apps :
    /\ j # k /\ apps[j].slug = apps[k].slug
    => "rejected" \in {apps[j].status, apps[k].status}

\* A brand that presses twice applies once; only when an answer was lost can it apply once
\* more, under another address.  The receipt tells an application that was stored.
AppliesOnce ==
  /\ Cardinality({k \in Mine : apps[k].status # "rejected"}) > 1 => lost
  /\ receipt # None => \E k \in Mine : apps[k].slug = receipt

\* What makes it inductive: the form asks one thing at a time and nothing once it is gone, and
\* the answer to an application that was stored is on its way, was told, or was lost.
Stored(r) == r.what = "post" /\ r.at = "ok"

OnceInv ==
  /\ \A q, r \in asked : q = r
  /\ asked # {} => busy /\ receipt = None
  /\ \A r \in asked : Stored(r) => \E k \in Mine : apps[k].slug = r.slug
  /\ receipt # None => \E k \in Mine : apps[k].slug = receipt
  /\ ~lost => /\ \A j, k \in Mine : j = k
              /\ Mine # {} => receipt # None \/ \E r \in asked : Stored(r)
===============================================================================
