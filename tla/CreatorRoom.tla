------------------------------ MODULE CreatorRoom ------------------------------
(* The community rooms of the creator's page: one room is open at a time, its answer  *)
(* opens it whenever it comes, and what is typed lives in the page until the next     *)
(* render.  A post is sent to the room that is open when the button is pressed; its   *)
(* callback speaks of the room that is open when it is answered.  The language of the *)
(* page is chosen here, or detected by a request of the start.                        *)
EXTENDS Naturals, FiniteSets

CONSTANTS
  Cells,
  Langs,
  MaxPosts,  \* bound: posts in flight
  None

VARIABLES
  commOpen,   \* the open room
  typed,      \* the room in which the text of the input was typed
  opening,    \* rooms asked for
  posting,    \* posts on their way, each with the room it was typed in, the one it is sent
              \* to, whether it is stored and whether the answer is lost
  posted,     \* what the server stored: typed in, stored in
  misled,     \* history: "posting failed" was said of a post that is stored
  excused,    \* history: a room was closed while a post was on its way, or an answer lost
  lang, saved, \* the language of the page, and of the storage
  chosen,     \* the language the creator chose last
  detecting   \* /locale/detect is on its way

mvars == <<commOpen, typed, opening, posting, posted, misled, excused, lang, saved, chosen, detecting>>
language == <<lang, saved, chosen, detecting>>

Post == [typedIn : Cells, sentTo : Cells, reply : {"open", "stored", "refused", "lost"}]

TypeOK ==
  /\ commOpen \in Cells \cup {None} /\ typed \in Cells \cup {None}
  /\ opening \subseteq Cells /\ posting \subseteq Post
  /\ posted \subseteq [typedIn : Cells, storedIn : Cells]
  /\ misled \in BOOLEAN /\ excused \in BOOLEAN /\ detecting \in BOOLEAN
  /\ lang \in Langs \cup {None} /\ saved \in Langs \cup {None} /\ chosen \in Langs \cup {None}

-------------------------------------------------------------------------------
(* Rooms *)

\* The list of rooms is shown while none is open; a direct message is opened from a tab.
CommOpenCell(c) ==
  /\ opening' = opening \cup {c}
  /\ UNCHANGED <<commOpen, typed, posting, posted, misled, excused, language>>

\* The answer opens its room, over another one too; the render empties the input.
OnRoom(c) ==
  /\ c \in opening /\ opening' = opening \ {c}
  /\ commOpen' = c /\ typed' = None
  /\ UNCHANGED <<posting, posted, misled, excused, language>>

OnRoomRefused(c) ==
  /\ c \in opening /\ opening' = opening \ {c}
  /\ UNCHANGED <<commOpen, typed, posting, posted, misled, excused, language>>

CommClose ==
  /\ commOpen # None
  /\ commOpen' = None /\ typed' = None
  /\ excused' = (excused \/ posting # {})
  /\ UNCHANGED <<opening, posting, posted, misled, language>>

Type ==
  /\ commOpen # None /\ typed' = commOpen
  /\ UNCHANGED <<commOpen, opening, posting, posted, misled, excused, language>>

\* Any list that arrives renders the page.
Render ==
  /\ typed' = None
  /\ UNCHANGED <<commOpen, opening, posting, posted, misled, excused, language>>

-------------------------------------------------------------------------------
(* Posts *)

\* Nothing blocks the button while the post is on its way.
CommPost ==
  /\ typed # None /\ commOpen # None /\ Cardinality(posting) < MaxPosts
  /\ posting' = posting \cup {[typedIn |-> typed, sentTo |-> commOpen, reply |-> "open"]}
  /\ UNCHANGED <<commOpen, typed, opening, posted, misled, excused, language>>

Becomes(p, reply) == posting' = (posting \ {p}) \cup {[p EXCEPT !.reply = reply]}

ServePost(p) ==
  /\ p.reply = "open"
  /\ \/ /\ Becomes(p, "stored")
        /\ posted' = posted \cup {[typedIn |-> p.typedIn, storedIn |-> p.sentTo]}
     \/ Becomes(p, "refused") /\ UNCHANGED posted
  /\ UNCHANGED <<commOpen, typed, opening, misled, excused, language>>

LosePost(p) ==
  /\ p.reply = "stored" /\ Becomes(p, "lost")
  /\ excused' = TRUE
  /\ UNCHANGED <<commOpen, typed, opening, posted, misled, language>>

\* The room is read again: the one that is open by now.  When none is, the callback fails
\* on it, and its failure is told as one of the post.
OnPosted(p) ==
  /\ p.reply = "stored" /\ posting' = posting \ {p}
  /\ IF commOpen # None
       THEN opening' = opening \cup {commOpen} /\ UNCHANGED misled
       ELSE misled' = TRUE /\ UNCHANGED opening
  /\ UNCHANGED <<commOpen, typed, posted, excused, language>>

OnPostFailed(p) ==
  /\ p.reply \in {"refused", "lost"} /\ posting' = posting \ {p}
  /\ misled' = (misled \/ p.reply = "lost")
  /\ UNCHANGED <<commOpen, typed, opening, posted, excused, language>>

-------------------------------------------------------------------------------
(* The language *)

rooms == <<commOpen, opening, posting, posted, misled, excused>>

\* applyLang stores what it applies, whoever chose it.
Reload ==
  /\ lang' = saved /\ detecting' = (saved = None) /\ chosen' = saved
  /\ commOpen' = None /\ typed' = None /\ opening' = {} /\ posting' = {}
  /\ UNCHANGED <<posted, misled, excused, saved>>

\* The text is carried over this render.
SetConversationLang(l) ==
  /\ lang' = l /\ saved' = l /\ chosen' = (IF detecting THEN None ELSE l)
  /\ UNCHANGED <<rooms, typed, detecting>>

OnDetected(l) ==
  /\ detecting /\ detecting' = FALSE
  /\ lang' = l /\ saved' = l /\ typed' = None
  /\ UNCHANGED <<rooms, chosen>>

-------------------------------------------------------------------------------
MInit ==
  /\ commOpen = None /\ typed = None /\ opening = {} /\ posting = {} /\ posted = {}
  /\ misled = FALSE /\ excused = FALSE
  /\ lang = None /\ saved = None /\ chosen = None /\ detecting = TRUE

MNext ==
  \/ \E c \in Cells : CommOpenCell(c) \/ OnRoom(c) \/ OnRoomRefused(c)
  \/ CommClose \/ Type \/ Render \/ CommPost \/ Reload
  \/ \E p \in posting : ServePost(p) \/ LosePost(p) \/ OnPosted(p) \/ OnPostFailed(p)
  \/ \E l \in Langs : SetConversationLang(l) \/ OnDetected(l)

MSpec == MInit /\ [][MNext]_mvars

-------------------------------------------------------------------------------
(* Properties *)

\* A message is stored in the room it was typed in, whichever answers open, close and
\* change rooms between the first letter and the button.
PostedWhereTyped == \A p \in posted : p.storedIn = p.typedIn

\* "Posting failed" is said of a message that is stored, and invites to send it again, only
\* when the room was closed before the answer, or the answer was lost.
MisledOnlyWhenClosed == misled => excused

\* The language a creator chose stays until another is chosen, over reloads too; one that
\* is chosen while the start still detects is overwritten, here and in the storage.
ChoiceIsKept == chosen # None => lang = chosen /\ saved = chosen

\* What makes the properties inductive: a text and a post are of the room they are in; who
\* has a post under way and no room has closed one; and a language that is chosen is not
\* detected any more.
RoomInv ==
  /\ typed \in {None, commOpen}
  /\ \A p \in posting : p.typedIn = p.sentTo /\ (p.reply = "lost" => excused)
  /\ commOpen = None /\ posting # {} => excused
  /\ detecting => chosen = None
===============================================================================
