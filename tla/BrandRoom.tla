------------------------------- MODULE BrandRoom -------------------------------
(* The conversations of a brand on the console: its rooms, the one that is open, the  *)
(* reply that is typed, its sending and the retry of a translation.  One counter      *)
(* makes answers unwanted when another room, or another brand, is opened; a flag      *)
(* blocks the page while a reply is on its way.  A reply and a retry read the         *)
(* messages of the room again when they are done.                                     *)
EXTENDS Naturals

CONSTANTS
  Brands,
  Ids,         \* bound: requests in flight at a time
  MaxVersion,  \* bound: rooms opened and lists read
  MaxPosts,    \* bound: messages of a room; it begins with one
  None

VARIABLES
  brand,     \* BRAND()
  version,   \* brandConversationVersion
  cells,     \* brandCells: the brand whose rooms are listed
  room,      \* brandConversation: its cell, and how many messages it shows
  draft,     \* brandConversationDraft: the room it was typed in
  busy,      \* brandConversationBusy
  retrying,  \* translationRetryBusy
  wire,      \* requests in flight, each with what it will answer
  posts,     \* the messages of each room on the server
  misplaced, \* history: a message was stored in a room it was not typed in
  older,     \* history: messages that were shown disappeared
  crossed    \* history: a reply and a retry were on their way together

gvars == <<brand, version, cells, room, draft, busy, retrying, wire, posts, misplaced, older, crossed>>

Cells == Brands \X {1, 2}
Owner(c) == c[1]
Kinds == {"list", "open", "send", "sent", "retry", "retried"}
Request == [kind : Kinds, brand : Brands, version : 0..MaxVersion, cell : Cells \cup {None},
            draft : Cells \cup {None}, reply : {"open", "done", "failed"}, saw : 0..MaxPosts]

TypeOK ==
  /\ brand \in Brands \cup {None} /\ version \in 0..MaxVersion
  /\ cells \in Brands \cup {None}
  /\ room \in [cell : Cells, shown : 0..MaxPosts] \cup {None}
  /\ draft \in Cells \cup {None}
  /\ busy \in BOOLEAN /\ retrying \in BOOLEAN
  /\ wire \in [Ids -> Request \cup {None}]
  /\ posts \in [Cells -> 1..MaxPosts]
  /\ misplaced \in BOOLEAN /\ older \in BOOLEAN /\ crossed \in BOOLEAN

Flying == {i \in Ids : wire[i] # None}
Ask(kind, v, c) == [kind |-> kind, brand |-> brand, version |-> v, cell |-> c,
                    draft |-> draft, reply |-> "open", saw |-> 0]
Send(i, r) == wire[i] = None /\ wire' = [wire EXCEPT ![i] = r]
Land(i) == wire' = [wire EXCEPT ![i] = None]
Turn == version < MaxVersion /\ version' = version + 1

-------------------------------------------------------------------------------
(* The page *)

ReloadBrand(b) ==
  /\ b # brand /\ brand' = b
  /\ Turn
  /\ cells' = None /\ room' = None /\ draft' = None /\ busy' = FALSE
  /\ UNCHANGED <<retrying, wire, posts, misplaced, older, crossed>>

BrandCommunityRefresh(i) ==
  /\ ~busy /\ brand # None /\ Turn
  /\ Send(i, Ask("list", version + 1, None))
  /\ UNCHANGED <<brand, cells, room, draft, busy, retrying, posts, misplaced, older, crossed>>

\* Opening a room closes the other one, with the reply that was typed in it.
BrandCommunityOpen(i, c) ==
  /\ ~busy /\ cells = Owner(c) /\ brand # None /\ Turn
  /\ draft' = None /\ room' = None
  /\ Send(i, [Ask("open", version + 1, c) EXCEPT !.draft = None])
  /\ UNCHANGED <<brand, cells, busy, retrying, posts, misplaced, older, crossed>>

BrandCommunityDraft ==
  /\ room # None /\ ~busy
  /\ draft' = room.cell
  /\ UNCHANGED <<brand, version, cells, room, busy, retrying, wire, posts, misplaced, older, crossed>>

BrandCommunitySend(i) ==
  /\ ~busy /\ room # None /\ draft # None
  /\ busy' = TRUE
  /\ Send(i, Ask("send", version, room.cell))
  /\ crossed' = (crossed \/ retrying)
  /\ UNCHANGED <<brand, version, cells, room, draft, retrying, posts, misplaced, older>>

\* Offered for a message whose translation failed; bound: one message.
BrandTranslationRetry(i) ==
  /\ room # None /\ ~retrying
  /\ retrying' = TRUE
  /\ Send(i, Ask("retry", version, room.cell))
  /\ crossed' = (crossed \/ busy)
  /\ UNCHANGED <<brand, version, cells, room, draft, busy, posts, misplaced, older>>

-------------------------------------------------------------------------------
(* The server *)

Serve(i) ==
  /\ i \in Flying /\ wire[i].reply = "open"
  /\ \/ /\ wire[i].kind = "send" /\ posts[wire[i].cell] < MaxPosts
        /\ posts' = [posts EXCEPT ![wire[i].cell] = @ + 1]
        /\ misplaced' = (misplaced \/ wire[i].draft # wire[i].cell)
        /\ wire' = [wire EXCEPT ![i].reply = "done"]
     \/ /\ wire[i].kind # "send"
        /\ wire' = [wire EXCEPT ![i].reply = "done",
                                 ![i].saw = IF wire[i].cell = None THEN 0 ELSE posts[wire[i].cell]]
        /\ UNCHANGED <<posts, misplaced>>
     \/ wire' = [wire EXCEPT ![i].reply = "failed"] /\ UNCHANGED <<posts, misplaced>>
  /\ UNCHANGED <<brand, version, cells, room, draft, busy, retrying, older, crossed>>

\* The members of the room write too.
MemberPosts(c) ==
  /\ posts[c] < MaxPosts /\ posts' = [posts EXCEPT ![c] = @ + 1]
  /\ UNCHANGED <<brand, version, cells, room, draft, busy, retrying, wire, misplaced, older, crossed>>

-------------------------------------------------------------------------------
(* The answers *)

Answered(i, kind) == i \in Flying /\ wire[i].kind = kind /\ wire[i].reply # "open"
Good(i) == wire[i].reply = "done"
Wanted(i) == wire[i].version = version /\ wire[i].brand = brand

OnList(i) ==
  /\ Answered(i, "list") /\ Land(i)
  /\ cells' = IF Good(i) /\ Wanted(i) THEN wire[i].brand ELSE cells
  /\ UNCHANGED <<brand, version, room, draft, busy, retrying, posts, misplaced, older, crossed>>

OnOpen(i) ==
  /\ Answered(i, "open") /\ Land(i)
  /\ room' = IF Good(i) /\ Wanted(i) THEN [cell |-> wire[i].cell, shown |-> wire[i].saw] ELSE room
  /\ UNCHANGED <<brand, version, cells, draft, busy, retrying, posts, misplaced, older, crossed>>

\* The reply is cleared once it is stored, and the messages are read.
OnSend(i) ==
  /\ Answered(i, "send")
  /\ IF Good(i) /\ Wanted(i)
       THEN /\ draft' = None /\ UNCHANGED busy
            /\ wire' = [wire EXCEPT ![i] = Ask("sent", version, wire[i].cell)]
       ELSE /\ Land(i) /\ UNCHANGED draft
            /\ busy' = (busy /\ wire[i].version # version)
  /\ UNCHANGED <<brand, version, cells, room, retrying, posts, misplaced, older, crossed>>

OnRetry(i) ==
  /\ Answered(i, "retry")
  /\ IF Good(i) /\ Wanted(i)
       THEN wire' = [wire EXCEPT ![i] = Ask("retried", version, wire[i].cell)] /\ UNCHANGED retrying
       ELSE Land(i) /\ retrying' = FALSE
  /\ UNCHANGED <<brand, version, cells, room, draft, busy, posts, misplaced, older, crossed>>

\* brandConversation.messages is replaced by whatever was read.
Shows(i) ==
  IF Good(i) /\ Wanted(i)
    THEN /\ room' = [room EXCEPT !.shown = wire[i].saw]
         /\ older' = (older \/ wire[i].saw < room.shown)
    ELSE UNCHANGED <<room, older>>

OnSent(i) ==
  /\ Answered(i, "sent") /\ Land(i)
  /\ Shows(i)
  /\ busy' = (busy /\ wire[i].version # version)
  /\ UNCHANGED <<brand, version, cells, draft, retrying, posts, misplaced, crossed>>

OnRetried(i) ==
  /\ Answered(i, "retried") /\ Land(i)
  /\ Shows(i) /\ retrying' = FALSE
  /\ UNCHANGED <<brand, version, cells, draft, busy, posts, misplaced, crossed>>

-------------------------------------------------------------------------------
GInit ==
  /\ brand \in Brands \cup {None} /\ version = 0 /\ cells = None /\ room = None /\ draft = None
  /\ busy = FALSE /\ retrying = FALSE /\ misplaced = FALSE /\ older = FALSE
  /\ crossed = FALSE
  /\ wire = [i \in Ids |-> None]
  /\ posts = [c \in Cells |-> 1]

GNext ==
  \/ \E b \in Brands \cup {None} : ReloadBrand(b)
  \/ BrandCommunityDraft
  \/ \E c \in Cells : MemberPosts(c)
  \/ \E i \in Ids :
       \/ BrandCommunityRefresh(i) \/ BrandCommunitySend(i) \/ BrandTranslationRetry(i)
       \/ \E c \in Cells : BrandCommunityOpen(i, c)
       \/ Serve(i) \/ OnList(i) \/ OnOpen(i) \/ OnSend(i) \/ OnSent(i) \/ OnRetry(i) \/ OnRetried(i)

GSpec == GInit /\ [][GNext]_gvars

-------------------------------------------------------------------------------
(* Properties *)

\* A reply is stored in the room it was typed in, and both are of the brand that is shown,
\* whichever rooms and brands are opened while answers are on their way.
RepliedWhereTyped ==
  /\ ~misplaced
  /\ draft # None => room # None /\ draft = room.cell
  /\ room # None => Owner(room.cell) = brand

\* A reply that is typed, which a redraw puts back, is gone only when a room is opened, the
\* rooms are read again or the brand is changed, or when it was stored in its room: no other
\* answer takes it.
DraftIsKept ==
  draft # None /\ draft' # draft =>
    \/ version' # version
    \/ /\ draft' = None
       /\ \E i \in Flying : wire[i].kind = "send" /\ wire[i].reply = "done" /\ wire[i].cell = draft

\* The page is blocked only while a reply of this room is on its way: neither a change of
\* the brand nor a late answer leaves it blocked, or frees it early.
BlockedWhileReplying ==
  busy <=> \E i \in Flying : wire[i].kind \in {"send", "sent"} /\ wire[i].version = version

\* A message that was shown disappears only when a retry of a translation and a reply were
\* on their way together: neither looks at which reading of the room is the newer one.
OlderOnlyByRetry == older => crossed

\* What makes the properties inductive: what is asked at this version is asked of the room
\* that is open, by one reply and one retry at most, and what they read is no older than
\* what is shown unless they crossed.
Current(i) == wire[i].version = version
Replying(i) == wire[i].kind \in {"send", "sent"}
Retrying(i) == wire[i].kind \in {"retry", "retried"}

AskedOfTheRoom(i) ==
  /\ wire[i].version <= version
  /\ wire[i].kind # "list" => wire[i].cell # None /\ wire[i].saw <= posts[wire[i].cell]
  /\ wire[i].kind = "send" => wire[i].draft = wire[i].cell
  /\ wire[i].kind = "open" => Owner(wire[i].cell) = wire[i].brand
  /\ Current(i) /\ wire[i].kind = "open" => room = None /\ draft = None
  /\ Current(i) /\ (Replying(i) \/ Retrying(i)) =>
       /\ room # None /\ wire[i].cell = room.cell
       /\ wire[i].kind \in {"sent", "retried"} /\ wire[i].reply = "done" /\ ~crossed
            => room.shown <= wire[i].saw
  /\ Retrying(i) => retrying

OneOfAKind(i, j) ==
  /\ Retrying(i) /\ Retrying(j) => i = j
  /\ Current(i) /\ Current(j) /\ wire[i].kind = "open" /\ wire[j].kind = "open" => i = j
  /\ Current(i) /\ Current(j) /\ Replying(i) /\ Replying(j) => i = j
  /\ Current(i) /\ Replying(i) /\ Retrying(j) => crossed

AskedInv ==
  /\ cells \in {None, brand}
  /\ room # None => room.shown <= posts[room.cell]
  /\ \A i \in Flying : AskedOfTheRoom(i)
  /\ \A i, j \in Flying : OneOfAKind(i, j)
===============================================================================
