---------------------------- MODULE CommunitySeeding ----------------------------
(* The agent that writes to communities outside (harvest/community.py), and what it      *)
(* remembers of each (core/norms.py).  A draft is judged once, when it is written; a      *)
(* person approves it, and posts it, later.  A community gets one post a week, and none    *)
(* for a month after it warned the agent; what it warned of is not written again.         *)
EXTENDS Naturals, Sequences, FiniteSets

CONSTANTS
  Communities,
  Items,      \* what a text may contain, and a community object to
  Week, Ban,  \* the days of a week, and STRIKE_BAN_DAYS
  MaxDay,     \* bound: the last day
  MaxDrafts   \* bound: drafts that wait

VARIABLES
  day,
  posted,       \* _posted: the day of each post; history: its text, and whether it was overtaken
  bannedUntil,  \* _banned_until
  banned,       \* the current norms: banned
  drafts        \* drafts, and requests to post them, that wait

gvars == <<day, posted, bannedUntil, banned, drafts>>

Draft == [community : Communities, items : SUBSET Items, requested : BOOLEAN,
          overtaken : BOOLEAN]
Post == [on : 0..MaxDay, items : SUBSET Items, overtaken : BOOLEAN]

TypeOK ==
  /\ day \in 0..MaxDay
  /\ posted \in [Communities -> Seq(Post)]
  /\ bannedUntil \in [Communities -> 0..(MaxDay + Ban)]
  /\ banned \in [Communities -> SUBSET Items]
  /\ drafts \subseteq Draft

Recent(c) == {i \in DOMAIN posted[c] : posted[c][i].on + Week > day}
CanPost(c) == day >= bannedUntil[c] /\ Recent(c) = {}

\* draft, of those that violate nothing; the others are never requested.
WriteDraft(c, items) ==
  /\ Cardinality(drafts) < MaxDrafts
  /\ CanPost(c) /\ items \cap banned[c] = {}
  /\ drafts' = drafts \cup {[community |-> c, items |-> items, requested |-> FALSE,
                             overtaken |-> FALSE]}
  /\ UNCHANGED <<day, posted, bannedUntil, banned>>

RequestPost(d) ==
  /\ ~d.requested /\ drafts' = (drafts \ {d}) \cup {[d EXCEPT !.requested = TRUE]}
  /\ UNCHANGED <<day, posted, bannedUntil, banned>>

Refuse(d) ==
  /\ d.requested /\ drafts' = drafts \ {d}
  /\ UNCHANGED <<day, posted, bannedUntil, banned>>

Overtake(ds, c) == {IF d.community = c THEN [d EXCEPT !.overtaken = TRUE] ELSE d : d \in ds}

\* The request was approved, and its text posted.
RecordPosted(d) ==
  /\ d.requested
  /\ posted' = [posted EXCEPT ![d.community] = Append(@,
                [on |-> day, items |-> d.items, overtaken |-> d.overtaken])]
  /\ drafts' = Overtake(drafts \ {d}, d.community)
  /\ UNCHANGED <<day, bannedUntil, banned>>

\* record_strike, and add_banned of the norms.
RecordStrike(c, item) ==
  /\ posted[c] # <<>>
  /\ bannedUntil' = [bannedUntil EXCEPT ![c] = day + Ban]
  /\ banned' = [banned EXCEPT ![c] = @ \cup {item}]
  /\ drafts' = Overtake(drafts, c)
  /\ UNCHANGED <<day, posted>>

NextDay == day < MaxDay /\ day' = day + 1 /\ UNCHANGED <<posted, bannedUntil, banned, drafts>>

GInit ==
  /\ day = 0 /\ posted = [c \in Communities |-> <<>>]
  /\ bannedUntil = [c \in Communities |-> 0]
  /\ banned = [c \in Communities |-> {}] /\ drafts = {}

GNext ==
  \/ \E c \in Communities :
       \/ \E items \in SUBSET Items : WriteDraft(c, items)
       \/ \E item \in Items : RecordStrike(c, item)
  \/ \E d \in drafts : RequestPost(d) \/ Refuse(d) \/ RecordPosted(d)
  \/ NextDay

GSpec == GInit /\ [][GNext]_gvars

-------------------------------------------------------------------------------
(* Properties *)

\* A community gets one post a week, although posts are approved days after they were
\* written; unless another post came between the draft and its approval: nothing looks
\* again.
OnePostAWeek ==
  \A c \in Communities : \A i, j \in DOMAIN posted[c] :
    i < j /\ ~posted[c][j].overtaken => posted[c][j].on >= posted[c][i].on + Week

\* It gets none within a month of a warning, and later none with anything it ever warned
\* of, unless the warning came between the draft and its approval.
WarningsAreHeeded ==
  \A c \in Communities : posted'[c] # posted[c] =>
    LET post == posted'[c][Len(posted'[c])]
    IN post.overtaken \/ (day >= bannedUntil[c] /\ post.items \cap banned[c] = {})

\* What let a draft be written still lets it be posted, but for what overtook it.
DraftsInv ==
  \A d \in drafts : ~d.overtaken =>
    CanPost(d.community) /\ d.items \cap banned[d.community] = {}
===============================================================================
