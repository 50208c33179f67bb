------------------------------- MODULE InboxSync -------------------------------
(* How the mail of a brand's account reaches the thread of one creator (gmail_sync.py). *)
(* A synchronisation reads the newest page of the inbox and, behind a cursor kept with   *)
(* the account, one older page; it is one transaction that holds the account, which a    *)
(* reply (send_reply) holds too.  Answers also come in by a webhook (inbound_reply).      *)
(* A mail is named by the time it arrived; Gmail's list and its cursors are external.     *)
EXTENDS Naturals, FiniteSetsExt

CONSTANTS
  MaxTime,     \* bound: mails, replies and webhook calls
  PageSize,
  MaxFaults    \* bound: failed synchronisations and expired cursors

VARIABLES
  open,       \* the console stands at its mail page
  clock,
  inbox,      \* the mails in the account's inbox, younger than the window of 30 days
  known,      \* mail_messages of the account
  cursor,     \* sync_page_token: the older page starts below it; 0 for ''
  sync,       \* the synchronisation under way
  reply,      \* the reply under way, by the time its transaction began; 0 for none
  written,    \* times of replies and webhook answers in the thread: [out, in]
  thread,     \* mail_threads: last_message_at and last_direction
  crossed,    \* history: a mail or a webhook answer came while a reply was under way
  faults

qvars == <<open, clock, inbox, known, cursor, sync, reply, written, thread, crossed, faults>>

Times == 1..MaxTime
Idle == [step |-> "idle", found |-> {}, next |-> 0]

TypeOK ==
  /\ open \in BOOLEAN /\ clock \in 0..MaxTime /\ faults \in 0..MaxFaults
  /\ inbox \subseteq Times /\ known \subseteq Times
  /\ cursor \in 0..MaxTime /\ reply \in 0..MaxTime
  /\ sync \in [step : {"idle", "newest", "listed"}, found : SUBSET Times, next : 0..MaxTime]
  /\ written \in [out : SUBSET Times, in : SUBSET Times]
  /\ thread \in [at : 0..MaxTime, direction : {"none", "in", "out"}]
  /\ crossed \in BOOLEAN

\* Gmail's page of the mails below a cursor, newest first, and the cursor of the next page.
Page(below) ==
  LET older == {m \in inbox : m < below}
  IN  {m \in older : Cardinality({x \in older : x > m}) < PageSize}
NextPage(below) ==
  LET page == Page(below)
  IN  IF \E m \in inbox : m < below /\ m \notin page /\ \A x \in page : m < x THEN Min(page) ELSE 0

Tick == clock < MaxTime /\ clock' = clock + 1

-------------------------------------------------------------------------------
Arrive ==
  /\ Tick /\ inbox' = inbox \cup {clock'}
  /\ crossed' = (crossed \/ reply # 0)
  /\ UNCHANGED <<open, known, cursor, sync, reply, written, thread, faults>>

\* A mail is archived, or leaves the window.
Leave(m) ==
  /\ m \in inbox /\ inbox' = inbox \ {m}
  /\ UNCHANGED <<open, clock, known, cursor, sync, reply, written, thread, crossed, faults>>

Webhook ==
  /\ Tick
  /\ written' = [written EXCEPT !.in = @ \cup {clock'}]
  /\ thread' = [at |-> clock', direction |-> "in"]
  /\ crossed' = (crossed \/ reply # 0)
  /\ UNCHANGED <<open, inbox, known, cursor, sync, reply, faults>>

\* now() is when the transaction begins, before it waits for the account.
ReplyBegins ==
  /\ reply = 0 /\ Tick /\ reply' = clock'
  /\ UNCHANGED <<open, inbox, known, cursor, sync, written, thread, crossed, faults>>

ReplySent ==
  /\ reply # 0 /\ sync = Idle
  /\ thread' = [at |-> reply, direction |-> "out"]
  /\ written' = [written EXCEPT !.out = @ \cup {reply}]
  /\ reply' = 0
  /\ UNCHANGED <<open, clock, inbox, known, cursor, sync, crossed, faults>>

-------------------------------------------------------------------------------
\* Mail is opened in the console, and left open.
Open ==
  /\ ~open /\ open' = TRUE
  /\ UNCHANGED <<clock, inbox, known, cursor, sync, reply, written, thread, crossed, faults>>

\* sync: the newest page, and its next page for an account that has no cursor.
SyncBegins ==
  /\ open /\ sync = Idle
  /\ sync' = [step |-> IF cursor = 0 THEN "listed" ELSE "newest",
              found |-> Page(clock + 1), next |-> NextPage(clock + 1)]
  /\ UNCHANGED <<open, clock, inbox, known, cursor, reply, written, thread, crossed, faults>>

\* The older page, from the cursor on, and the cursor after it.
ListOlder ==
  /\ sync.step = "newest"
  /\ sync' = [step |-> "listed", found |-> sync.found \cup Page(cursor), next |-> NextPage(cursor)]
  /\ UNCHANGED <<open, clock, inbox, known, cursor, reply, written, thread, crossed, faults>>

\* The cursor expired: the next one is that of the newest page.
CursorExpired ==
  /\ sync.step = "newest" /\ faults < MaxFaults /\ faults' = faults + 1
  /\ sync' = [sync EXCEPT !.step = "listed"]
  /\ UNCHANGED <<open, clock, inbox, known, cursor, reply, written, thread, crossed>>

\* Mutant: an older mail takes the thread back to its time.
Newer_Always(m) == TRUE

Newer(m) == m >= thread.at

\* Every mail that is new and still in the inbox is stored, and moves its thread forward.
SyncCommits ==
  /\ sync.step = "listed"
  /\ LET new == (sync.found \cap inbox) \ known
     IN  /\ known' = known \cup new
         /\ thread' = IF new # {} /\ Newer(Max(new)) THEN [at |-> Max(new), direction |-> "in"] ELSE thread
  /\ cursor' = sync.next
  /\ sync' = Idle
  /\ UNCHANGED <<open, clock, inbox, reply, written, crossed, faults>>

\* The account's work is rolled back and its error is told; the cursor stays.
SyncFails ==
  /\ sync # Idle /\ faults < MaxFaults /\ faults' = faults + 1
  /\ sync' = Idle
  /\ UNCHANGED <<open, clock, inbox, known, cursor, reply, written, thread, crossed>>

-------------------------------------------------------------------------------
QInit ==
  /\ open = FALSE /\ clock = 0 /\ inbox = {} /\ known = {} /\ cursor = 0 /\ sync = Idle
  /\ reply = 0 /\ written = [out |-> {}, in |-> {}]
  /\ thread = [at |-> 0, direction |-> "none"] /\ crossed = FALSE /\ faults = 0

QNext ==
  \/ Open \/ Arrive \/ Webhook \/ ReplyBegins \/ ReplySent
  \/ \E m \in Times : Leave(m)
  \/ SyncBegins \/ ListOlder \/ CursorExpired \/ SyncCommits \/ SyncFails

\* The mail page asks for a synchronisation every minute while it is open, and one that has
\* begun is answered.
QFairness == WF_qvars(SyncBegins) /\ WF_qvars(ListOlder \/ CursorExpired) /\ WF_qvars(SyncCommits)

QSpec == QInit /\ [][QNext]_qvars /\ QFairness

-------------------------------------------------------------------------------
(* Properties *)

\* The list of threads tells the newest of what is stored, in whatever order an account's
\* older pages are brought in, unless something came while a reply was being sent: a reply
\* is dated by the begin of its transaction and written over what came since.
ThreadTellsNewest ==
  ~crossed =>
    LET stored == known \cup written.out \cup written.in
    IN  IF stored = {} THEN thread.direction = "none"
        ELSE thread = [at |-> Max(stored), direction |-> IF Max(stored) \in written.out THEN "out" ELSE "in"]

\* With the mail page open, every mail that stays in the inbox is stored some day, though new mail keeps coming before
\* older pages are read and a cursor or a synchronisation may fail.
EveryMailIsStored == <>[](open => inbox \subseteq known)
===============================================================================
