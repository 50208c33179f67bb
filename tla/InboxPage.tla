------------------------------- MODULE InboxPage -------------------------------
(* The inbox of the brand console: its list of threads, the one thread that is open,    *)
(* the replies written there and approved for sending, and the synchronisation with     *)
(* Gmail.  What is on the screen is what the last render drew; a thread that is asked    *)
(* for is opened by its answer, whenever that comes and whatever was opened since.  The   *)
(* reply that is typed lives in a field of the open thread, and no render puts it back:   *)
(* every one empties the field, those of the synchronisation of every minute too.         *)
EXTENDS Naturals, FiniteSets

CONSTANTS
  Threads,
  Brands,
  MaxReplies,  \* bound: replies written
  MaxAsked,    \* bound: requests about threads under way
  None

VARIABLES
  home,      \* the brand of each thread
  replies,   \* mail_messages: the thread and the state of each reply, and the thread it was
             \* typed in
  brand,     \* BRAND()
  inbox,     \* __INBOX: the brand of the list, None while it is loaded
  listing,   \* the brand the newest load of the list was sent for
  open,      \* __INBOX_OPEN: a thread and the states of its replies
  rows,      \* the brand whose rows are drawn
  drawn,     \* the thread that is drawn open below its row, and where the text in its field
             \* (ibxBody) was typed, None if the field is empty
  asked,     \* requests about threads under way
  syncBusy,  \* gmailSyncBusy
  syncing,   \* synchronisations under way
  notice,    \* gmailSyncNotice: whose it is
  told,      \* history: what the page was told of each reply
  doubt      \* history: the last answer was overtaken by a later one, or lost

nvars == <<home, replies, brand, inbox, listing, open, rows, drawn, asked, syncBusy, syncing,
           notice, told, doubt>>

Replies == 1..MaxReplies
States == {"none", "pending", "sending", "sent", "review"}
Seen == [Replies -> States]
Text == Threads \cup {None}
Request == [kind : {"open", "reply", "send"}, id : Threads, reply : Replies \cup {0}, typed : Text,
            answer : {"asked", "taken", "ok"}, seen : Seen, late : BOOLEAN]

TypeOK ==
  /\ home \in [Threads -> Brands]
  /\ replies \in [Replies -> [id : Threads \cup {None}, typed : Text, state : States]]
  /\ brand \in Brands /\ {inbox, listing, rows} \subseteq Brands \cup {None}
  /\ open \in [id : Threads, seen : Seen] \cup {None}
  /\ drawn \in [id : Threads, seen : Seen, typed : Text] \cup {None}
  /\ asked \subseteq Request
  /\ syncBusy \in BOOLEAN /\ syncing \subseteq Brands
  /\ notice \in [brand : Brands, of : {"result", "failure"}] \cup {None}
  /\ told \in Seen /\ doubt \in BOOLEAN

Nothing == [r \in Replies |-> "none"]
Server == <<home, replies>>
Screen == <<inbox, open, rows, drawn>>
Sync == <<syncBusy, syncing, notice>>
Ask(kind, t, r, text) ==
  [kind |-> kind, id |-> t, reply |-> r, typed |-> text, answer |-> "asked", seen |-> Nothing, late |-> FALSE]
Room == Cardinality(asked) < MaxAsked

\* Mutant: the field is put back as those of the outreach form are, by its id.
Render_PutsBack(list, thread) ==
  /\ rows' = list
  /\ drawn' = IF thread # None /\ list # None /\ home[thread.id] = list
                THEN [id |-> thread.id, seen |-> thread.seen,
                      typed |-> IF drawn = None THEN None ELSE drawn.typed] ELSE None

\* inboxCard draws the open thread below its row of the list, its field empty: render puts
\* back the fields of the outreach form, and the question, but not this one.
Render(list, thread) ==
  /\ rows' = list
  /\ drawn' = IF thread # None /\ list # None /\ home[thread.id] = list
                THEN [id |-> thread.id, seen |-> thread.seen, typed |-> None] ELSE None

\* A load of a thread; those on their way are older.
Load(t, others) ==
  asked' = {[q EXCEPT !.late = @ \/ (q.kind = "open" /\ q.id = t)] : q \in others}
           \cup {Ask("open", t, 0, None)}

\* loadInbox: the list is emptied at once, and drawn with the next render.
LoadInbox == inbox' = None /\ listing' = brand

-------------------------------------------------------------------------------
(* The page *)

\* reloadBrand: what is under way goes on.
ReloadBrand(b) ==
  /\ b # brand /\ brand' = b /\ inbox' = None /\ listing' = b
  /\ open' = None /\ rows' = None /\ drawn' = None /\ notice' = None
  /\ UNCHANGED <<Server, asked, syncBusy, syncing, told, doubt>>

Refresh ==
  /\ LoadInbox
  /\ UNCHANGED <<Server, brand, open, rows, drawn, asked, Sync, told, doubt>>

OnInbox ==
  /\ listing # None /\ listing' = None /\ inbox' = listing
  /\ Render(inbox', open)
  /\ UNCHANGED <<Server, brand, open, asked, Sync, told, doubt>>

OnInboxFailed ==
  /\ listing # None /\ listing' = None
  /\ Render(inbox, open)
  /\ UNCHANGED <<Server, brand, inbox, open, asked, Sync, told, doubt>>

\* A click on a row: it closes the thread that is open, and asks for another.
InboxOpen(t) ==
  /\ rows # None /\ home[t] = rows
  /\ IF open # None /\ open.id = t
       THEN open' = None /\ Render(inbox, None) /\ UNCHANGED asked
       ELSE Room /\ Load(t, asked) /\ UNCHANGED <<open, rows, drawn>>
  /\ UNCHANGED <<Server, brand, inbox, listing, Sync, told, doubt>>

\* Into the field of the thread that is drawn.
Type ==
  /\ drawn # None /\ drawn' = [drawn EXCEPT !.typed = drawn.id]
  /\ UNCHANGED <<Server, brand, inbox, listing, open, rows, asked, Sync, told, doubt>>

\* An answer of another card, a row of the list folded out, a page visited and left.
Redraw ==
  /\ Render(inbox, open)
  /\ UNCHANGED <<Server, brand, inbox, listing, open, asked, Sync, told, doubt>>

\* The button names the thread it was drawn for; the text stays in the field, and nothing
\* blocks the button.
InboxReply ==
  /\ drawn # None /\ drawn.typed # None /\ Room
  /\ \E r \in Replies :
       /\ replies[r].id = None /\ \A q \in asked : q.reply # r
       /\ asked' = asked \cup {Ask("reply", drawn.id, r, drawn.typed)}
  /\ UNCHANGED <<Server, brand, listing, Screen, Sync, told, doubt>>

\* The button stands beside a reply that was pending when the thread was read.
InboxSend(r) ==
  /\ drawn # None /\ drawn.seen[r] = "pending" /\ Room
  /\ Ask("send", drawn.id, r, None) \notin asked
  /\ asked' = asked \cup {Ask("send", drawn.id, r, None)}
  /\ UNCHANGED <<Server, brand, listing, Screen, Sync, told, doubt>>

\* The button, and the timer of every minute.
GmailSync ==
  /\ ~syncBusy /\ syncBusy' = TRUE
  /\ syncing' = syncing \cup {brand} /\ notice' = None
  /\ Render(inbox, open)
  /\ UNCHANGED <<Server, brand, inbox, listing, open, asked, told, doubt>>

-------------------------------------------------------------------------------
(* The server *)

Answer(q, a) == asked' = (asked \ {q}) \cup {[q EXCEPT !.answer = a]}

ServeThread(q) ==
  /\ q.kind = "open" /\ q.answer = "asked"
  /\ asked' = (asked \ {q}) \cup
       {[q EXCEPT !.answer = "ok",
                  !.seen = [r \in Replies |-> IF replies[r].id = q.id THEN replies[r].state ELSE "none"]]}
  /\ UNCHANGED <<Server, brand, listing, Screen, Sync, told, doubt>>

ServeReply(q) ==
  /\ q.kind = "reply" /\ q.answer = "asked"
  /\ replies' = [replies EXCEPT ![q.reply] = [id |-> q.id, typed |-> q.typed, state |-> "pending"]]
  /\ Answer(q, "ok")
  /\ UNCHANGED <<home, brand, listing, Screen, Sync, told, doubt>>

\* send_reply takes the reply in a transaction of its own...
ServeTake(q) ==
  /\ q.kind = "send" /\ q.answer = "asked" /\ replies[q.reply].state = "pending"
  /\ replies' = [replies EXCEPT ![q.reply].state = "sending"]
  /\ Answer(q, "taken")
  /\ UNCHANGED <<home, brand, listing, Screen, Sync, told, doubt>>

\* ...and sends it, or cannot today; after an exception nobody knows.
ServeSend(q, state) ==
  /\ q.answer = "taken"
  /\ replies' = [replies EXCEPT ![q.reply].state = state]
  /\ IF state = "review" THEN asked' = asked \ {q}
     ELSE asked' = (asked \ {q}) \cup {[q EXCEPT !.answer = "ok", !.seen = [Nothing EXCEPT ![q.reply] = state]]}
  /\ UNCHANGED <<home, brand, listing, Screen, Sync, told, doubt>>

-------------------------------------------------------------------------------
(* The answers *)

\* A request, or its answer, is lost, or refused: the page only tells so.
Fail(q) ==
  /\ q.answer # "taken" /\ asked' = asked \ {q}
  /\ doubt' = (doubt \/ q.kind = "open")
  /\ UNCHANGED <<Server, brand, listing, Screen, Sync, told>>

OnThread(q) ==
  /\ q.kind = "open" /\ q.answer = "ok" /\ asked' = asked \ {q}
  /\ open' = [id |-> q.id, seen |-> q.seen] /\ Render(inbox, open')
  /\ doubt' = q.late
  /\ UNCHANGED <<Server, brand, inbox, listing, Sync, told>>

\* Opened twice over: the first call closes the thread that is open, or both ask for it.
OnReply(q) ==
  /\ q.kind = "reply" /\ q.answer = "ok"
  /\ told' = [told EXCEPT ![q.reply] = "pending"]
  /\ Load(q.id, asked \ {q})
  /\ IF open # None /\ open.id = q.id THEN open' = None /\ Render(inbox, None) ELSE UNCHANGED <<open, rows, drawn>>
  /\ LoadInbox
  /\ UNCHANGED <<Server, brand, Sync, doubt>>

\* The thread is not open any more, stays drawn, and is asked for.
OnSend(q) ==
  /\ q.kind = "send" /\ q.answer = "ok"
  /\ told' = [told EXCEPT ![q.reply] = q.seen[q.reply]]
  /\ open' = None /\ Load(q.id, asked \ {q})
  /\ LoadInbox
  /\ UNCHANGED <<Server, brand, rows, drawn, Sync, doubt>>

\* The answer of a synchronisation frees the flag, whatever brand it is of.
Synced(b) == b \in syncing /\ syncing' = syncing \ {b} /\ syncBusy' = FALSE

OnSynced(b) ==
  /\ Synced(b)
  /\ IF b = brand
       THEN notice' = [brand |-> b, of |-> "result"] /\ LoadInbox
       ELSE UNCHANGED <<notice, inbox, listing>>
  /\ Render(inbox', open)
  /\ UNCHANGED <<Server, brand, open, asked, told, doubt>>

\* A failure is told without asking for the brand.
OnSyncFailed(b) ==
  /\ Synced(b) /\ notice' = [brand |-> b, of |-> "failure"]
  /\ Render(inbox, open)
  /\ UNCHANGED <<Server, brand, inbox, listing, open, asked, told, doubt>>

-------------------------------------------------------------------------------
NInit ==
  /\ home \in [Threads -> Brands] /\ brand \in Brands
  /\ replies = [r \in Replies |-> [id |-> None, typed |-> None, state |-> "none"]]
  /\ inbox = None /\ listing = brand /\ open = None /\ rows = None /\ drawn = None /\ asked = {}
  /\ syncBusy = FALSE /\ syncing = {} /\ notice = None /\ told = Nothing /\ doubt = FALSE

NNext ==
  \/ \E b \in Brands : ReloadBrand(b) \/ OnSynced(b) \/ OnSyncFailed(b)
  \/ Refresh \/ OnInbox \/ OnInboxFailed
  \/ \E t \in Threads : InboxOpen(t)
  \/ Type \/ Redraw \/ InboxReply \/ \E r \in Replies : InboxSend(r)
  \/ GmailSync
  \/ \E q \in asked :
       \/ ServeThread(q) \/ ServeReply(q) \/ ServeTake(q)
       \/ \E state \in {"sent", "pending", "review"} : ServeSend(q, state)
       \/ Fail(q) \/ OnThread(q) \/ OnReply(q) \/ OnSend(q)

NSpec == NInit /\ [][NNext]_nvars

-------------------------------------------------------------------------------
(* Properties *)

\* The thread that is drawn is of the brand above it, although threads of another brand are
\* opened by answers that come late.
ThreadOfTheBrand == drawn # None => home[drawn.id] = brand

\* What the page was told of a reply, that it is stored, that it was sent, stands in the
\* thread it shows, or the thread is on its way; unless its load failed, or was overtaken
\* by the answer to an older one.
Coming(t) == \E q \in asked : q.kind = "open" /\ q.id = t
Tells(t, seen) ==
  \A r \in Replies : replies[r].id = t =>
    /\ told[r] # "none" => seen[r] # "none"
    /\ told[r] = "sent" => seen[r] = "sent"
RepliesAreShown == drawn # None /\ ~doubt /\ ~Coming(drawn.id) => Tells(drawn.id, drawn.seen)

\* One synchronisation is under way at a time, of whatever brand, and blocks the button.
OneSync == (\A b, c \in syncing : b = c) /\ (syncBusy <=> syncing # {})

\* The result that is told of a synchronisation is of the brand that is shown; a failure
\* may be of the brand before.
ResultOfTheBrand == notice # None /\ notice.of = "result" => notice.brand = brand

\* A reply is stored in the thread it was typed in, although late answers open other threads
\* under the field and the button.  That the text is still there when the button is pressed
\* is not said: every render takes it.
RepliedWhereTyped == \A r \in Replies : replies[r].id # None => replies[r].typed = replies[r].id

\* Why: the text in the field, and that of a reply on its way, is of the thread it is for.
TypedInv ==
  /\ drawn # None => drawn.typed \in {None, drawn.id}
  /\ \A q \in asked : q.kind = "reply" => q.typed = q.id

\* What makes the properties inductive: a list, the load of one, and the rows that are drawn
\* are of the brand above them; what is told of a synchronisation is of that brand, or failed.
ListsInv == {inbox, listing, rows} \subseteq {brand, None}

\* What is told of a reply is of one that is stored; what was read of a thread is of its
\* replies; a request is for a reply that is not stored yet, is taken, or was sent; and no two
\* store, or take, one reply.
ToldInv == \A r \in Replies :
  /\ told[r] # "none" => replies[r].id # None
  /\ told[r] = "sent" => replies[r].state = "sent"
  /\ replies[r].id # None => replies[r].state # "none"
Fits(t, seen) == \A r \in Replies : seen[r] # "none" => replies[r].id = t
Sound(q) ==
  /\ q.kind = "open" =>
       Fits(q.id, q.seen) /\ (q.answer = "ok" /\ ~q.late => Tells(q.id, q.seen))
  /\ q.kind = "reply" =>
       /\ q.reply \in Replies
       /\ replies[q.reply].id = IF q.answer = "asked" THEN None ELSE q.id
  /\ q.kind = "send" =>
       /\ q.reply \in Replies /\ replies[q.reply].id = q.id
       /\ q.answer = "taken" => replies[q.reply].state = "sending"
       /\ q.answer = "ok" => q.seen[q.reply] \in {"sent", "pending"}
       /\ q.answer = "ok" /\ q.seen[q.reply] = "sent" => replies[q.reply].state = "sent"
  /\ q.answer = "taken" => q.kind = "send"
Claims(q) == q.kind = "reply" \/ q.answer = "taken"
AskedInv ==
  /\ \A q \in asked : Sound(q)
  /\ \A p, q \in asked : Claims(p) /\ Claims(q) /\ p.kind = q.kind /\ p.reply = q.reply => p = q
OpenInv ==
  /\ open # None => Fits(open.id, open.seen)
  /\ drawn # None => Fits(drawn.id, drawn.seen)
  /\ open # None /\ ~doubt /\ ~Coming(open.id) => Tells(open.id, open.seen)
===============================================================================
