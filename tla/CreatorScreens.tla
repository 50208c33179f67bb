----------------------------- MODULE CreatorScreens -----------------------------
(* The React screens of the creator, on the web and in the mobile app: a campaign is     *)
(* applied for, a notification read, a field of the pass or the language changed.  The    *)
(* screen shows the change at once, posts it when it is live, and looks at no answer.     *)
(* It opens with made-up values (mock.ts), and again whenever it is come back to.         *)
EXTENDS Naturals, Sequences

CONSTANTS
  MaxPosts,  \* bound: posts on their way
  None

VARIABLES
  kind,    \* what is shown, and changed
  screen,  \* the screen is open
  live,    \* the screen has had its list
  shown,
  typing,  \* the field is being typed into
  asked,   \* None, or the list asked for: its value, None until it is read, and whether it
           \* is behind
  posts,   \* values on their way
  stored,  \* what the server has
  had,     \* history: the server had a value from the start
  why      \* history: why what is shown may not be stored

rvars == <<kind, screen, live, shown, typing, asked, posts, stored, had, why>>

Kinds == {"apply", "read", "field", "locale"}
Values == {"none", "mock", "a", "b"}
Causes == {"never_loaded", "not_live", "failed", "crossed", "covered"}
Question == [value : Values \cup {None}, behind : BOOLEAN]

TypeOK ==
  /\ kind \in Kinds /\ screen \in BOOLEAN /\ live \in BOOLEAN /\ typing \in BOOLEAN
  /\ shown \in Values /\ stored \in Values /\ had \in BOOLEAN
  /\ asked \in {None} \cup Question
  /\ posts \in Seq(Values) /\ Len(posts) <= MaxPosts
  /\ why \in Causes \cup {None}

Read == asked # None /\ asked.value # None

-------------------------------------------------------------------------------
(* The screen *)

\* The language is of the whole app: it is shown from the start, and never loaded.
Open ==
  /\ ~screen /\ screen' = TRUE
  /\ live' = FALSE /\ asked' = [value |-> None, behind |-> FALSE]
  /\ IF kind = "locale" THEN UNCHANGED <<shown, why>>
     ELSE shown' = "mock" /\ why' = "never_loaded"
  /\ UNCHANGED <<kind, typing, posts, stored, had>>

\* Its answers find no screen, and a text that is typed is gone.
Leave ==
  /\ screen /\ screen' = FALSE
  /\ typing' = FALSE /\ asked' = None
  /\ UNCHANGED <<kind, live, shown, posts, stored, had, why>>

\* The list goes over what is shown, also over a text that is being typed; a field that the
\* server does not have stays as it is.
Load ==
  /\ Read
  /\ live' = TRUE /\ asked' = None
  /\ CASE kind = "locale" -> UNCHANGED <<shown, why>>
       [] kind = "field" /\ asked.value = "none" -> why' = "not_live" /\ UNCHANGED shown
       [] OTHER -> /\ shown' = asked.value
                   /\ why' = IF posts # <<>> \/ asked.behind THEN "covered" ELSE None
  /\ UNCHANGED <<kind, screen, typing, posts, stored, had>>

LoadFails ==
  /\ asked # None
  /\ live' = FALSE /\ asked' = None
  /\ UNCHANGED <<kind, screen, shown, typing, posts, stored, had, why>>

\* Nothing is posted before the list was there.
Post(v) ==
  IF live
    THEN /\ Len(posts) < MaxPosts
         /\ posts' = Append(posts, v)
         /\ why' = IF posts = <<>> THEN None ELSE "crossed"
    ELSE /\ why' = "not_live"
         /\ UNCHANGED posts

\* A campaign that is applied for already has no button; a notification is there once it is
\* loaded.
Offered ==
  CASE kind = "apply" -> {"a"} \ {shown}
    [] kind = "read" -> IF live THEN {"a"} ELSE {}
    [] kind = "locale" -> {"a", "b"}
    [] OTHER -> {}

Choose(v) ==
  /\ screen /\ v \in Offered
  /\ shown' = v
  /\ Post(v)
  /\ UNCHANGED <<kind, screen, live, typing, asked, stored, had>>

Type(v) ==
  /\ screen /\ kind = "field" /\ v # shown
  /\ shown' = v /\ typing' = TRUE
  /\ UNCHANGED <<kind, screen, live, asked, posts, stored, had, why>>

\* onBlur saves what is shown, typed or not, and says that it is saved.
Blur ==
  /\ screen /\ kind = "field"
  /\ typing' = FALSE
  /\ Post(shown)
  /\ UNCHANGED <<kind, screen, live, shown, asked, stored, had>>

-------------------------------------------------------------------------------
(* The server *)

ReadList ==
  /\ asked # None /\ ~Read
  /\ asked' = [value |-> stored, behind |-> FALSE]
  /\ UNCHANGED <<kind, screen, live, shown, typing, posts, stored, had, why>>

\* The others, in their order.
Without(s, k) == SubSeq(s, 1, k - 1) \o SubSeq(s, k + 1, Len(s))

\* In any order.
Arrive(k) ==
  /\ k \in DOMAIN posts
  /\ stored' = posts[k]
  /\ posts' = Without(posts, k)
  /\ asked' = IF Read THEN [asked EXCEPT !.behind = TRUE] ELSE asked
  /\ UNCHANGED <<kind, screen, live, shown, typing, had, why>>

\* Refused, or lost; the page does not tell.
Fail(k) ==
  /\ k \in DOMAIN posts
  /\ posts' = Without(posts, k) /\ why' = "failed"
  /\ UNCHANGED <<kind, screen, live, shown, typing, asked, stored, had>>

RInit ==
  /\ kind \in Kinds
  /\ stored \in IF kind = "locale" THEN {"a"} ELSE {"none", "a"}
  /\ had = (stored # "none")
  /\ screen = FALSE /\ live = FALSE /\ typing = FALSE
  /\ shown = "mock" /\ asked = None /\ posts = <<>> /\ why = "never_loaded"

RNext ==
  \/ Open \/ Leave \/ ReadList \/ Load \/ LoadFails
  \/ \E v \in {"a", "b"} : Choose(v) \/ Type(v)
  \/ Blur
  \/ \E k \in DOMAIN posts : Arrive(k) \/ Fail(k)

-------------------------------------------------------------------------------
\* What the screen shows is stored (PassScreen.tsx: "saved, in the brand's table at once"), but
\* for what was never loaded, was changed before the list came or after it failed, was
\* refused, crossed with another change, or covered by a list that was read before it arrived.
ShownIsStored ==
  screen /\ ~typing /\ posts = <<>> /\ why = None => shown = stored

\* A made-up value is not stored where the server had a value when the screens opened: only
\* where it had none, by a field that is left without being typed into.
MockStaysOnThePage == stored = "mock" => kind = "field" /\ ~had

\* Why they hold.  What is typed is a field; the language has no screen that is left.  What is
\* shown without a cause to differ is stored, or is the one value on its way there; a list
\* that is behind nothing is what is stored.
OnShow == screen \/ kind = "locale"
StoredInv ==
  /\ typing => kind = "field"
  /\ Read /\ ~asked.behind => asked.value = stored
  /\ OnShow /\ ~typing /\ why = None =>
       \/ posts = <<>> /\ shown = stored
       \/ Len(posts) = 1 /\ posts[1] = shown

\* A made-up value leaves the screen only of a field the server did not have.
Real == {"a", "b"} \cup IF kind = "field" /\ ~had THEN {"mock"} ELSE {}
Kept == Real \cup IF had THEN {} ELSE {"none"}
MockInv ==
  /\ posts \in Seq(Real) /\ stored \in Kept
  /\ Read => asked.value \in Kept
  /\ kind = "field" => shown # "none" /\ (live => shown \in Real)
===============================================================================
