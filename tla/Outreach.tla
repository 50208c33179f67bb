-------------------------------- MODULE Outreach --------------------------------
(***************************************************************************)
(* Outreach mail of one brand (routes_outreach.py) through its Gmail       *)
(* account (routes_gmail.py).  A sender is a call of deliver_pending, by   *)
(* the send route or by the runner, or one of send_reply.  Each mail takes *)
(* two transactions: the first marks it 'sending', the second locks the    *)
(* account, calls Gmail and records the outcome.  A request to Gmail whose *)
(* sender gave up or died may still be delivered.                          *)
(***************************************************************************)
EXTENDS Naturals, Sequences, FiniteSetTheorems, TLAPS, TLC

CONSTANTS
  Batches, Emails,
  Replies,   \* answers in the inbox, written and sent by a person
  Senders,
  Plan,      \* WARMUP_PLAN: the daily limit after 0, 1, 2... days of sending
  Window,    \* bound: the days in which an address is not mailed again
  MaxDay,    \* bound: the last day
  None

Recipients == Batches \X Emails
Mails == Recipients \cup Replies

ASSUME NoneAssumption == None \notin Senders \cup Mails
ASSUME ReplyAssumption == Replies \cap Recipients = {}
ASSUME DayAssumption == None \notin 0..MaxDay
ASSUME PlanAssumption == Plan \in Seq(Nat) /\ Len(Plan) > 0
ASSUME WindowAssumption == Window \in Nat /\ MaxDay \in Nat

VARIABLES
  day,
  batch, created,  \* outreach_batches: state, created_at as a day
  mail, sentOn,    \* outreach_recipients, mail_messages: state, sent_at (of a reply: history)
  optout,          \* the addresses with opted_out_at
  connected, paused, counter,  \* gmail_accounts: state, sending_paused, sent_today...
  brandLock,       \* holder of the advisory lock 'outreach:' || brand
  acctLock,        \* holder of the account's row lock
  pc, todo, cur, txDay,  \* each sender: step, ids to go, mail, start of its transaction
  posts,           \* requests on their way to Gmail
  mailed,          \* how often Gmail accepted each mail
  takenOn,         \* history: when each recipient was found fit to send
  blurred,         \* history: the first day whose midnight a sender passed waiting
  excused          \* history: what was under way when its address opted out

tables  == <<batch, created, mail, sentOn, optout>>
account == <<connected, paused, counter>>
senders == <<brandLock, acctLock, pc, todo, cur, txDay>>
history == <<takenOn, blurred, excused>>
vars    == <<day, tables, account, senders, posts, mailed, history>>

Days   == 0..MaxDay
Begun  == {"sending", "sent", "review"}
States == {"none", "pending", "blocked"} \cup Begun
Steps  == {"idle", "next", "take", "taken", "waiting", "ready", "posted",
           "accepted", "failing", "paused"}
Counter == [sent : Nat, on : Days, days : Nat, last : Days \cup {None}]

TypeOK ==
  /\ day \in Days
  /\ batch \in [Batches -> {"none", "draft", "approved", "cancelled"}]
  /\ created \in [Batches -> Days]
  /\ mail \in [Mails -> States]
  /\ sentOn \in [Mails -> Days \cup {None}]
  /\ optout \subseteq Emails
  /\ connected \in BOOLEAN /\ paused \in BOOLEAN
  /\ counter \in Counter
  /\ brandLock \in Senders \cup {None} /\ acctLock \in Senders \cup {None}
  /\ pc \in [Senders -> Steps]
  /\ todo \in [Senders -> SUBSET Recipients]
  /\ cur \in [Senders -> Mails \cup {None}]
  /\ txDay \in [Senders -> Days]
  /\ posts \subseteq Mails
  /\ mailed \in [Mails -> Nat]
  /\ takenOn \in [Recipients -> Days]
  /\ blurred \in 0..(MaxDay + 1) /\ excused \subseteq Recipients

Init ==
  /\ day = 0
  /\ batch = [b \in Batches |-> "none"]
  /\ created = [b \in Batches |-> 0]
  /\ mail = [m \in Mails |-> "none"]
  /\ sentOn = [m \in Mails |-> None]
  /\ optout = {}
  /\ connected = TRUE /\ paused = FALSE   \* the brand has one account
  /\ counter = [sent |-> 0, on |-> 0, days |-> 0, last |-> None]
  /\ brandLock = None /\ acctLock = None
  /\ pc = [s \in Senders |-> "idle"]
  /\ todo = [s \in Senders |-> {}]
  /\ cur = [s \in Senders |-> None]
  /\ txDay = [s \in Senders |-> 0]
  /\ posts = {}
  /\ mailed = [m \in Mails |-> 0]
  /\ takenOn = [r \in Recipients |-> 0]
  /\ blurred = MaxDay + 1 /\ excused = {}

NextDay ==
  /\ day < MaxDay
  /\ day' = day + 1
  /\ UNCHANGED <<tables, account, senders, posts, mailed, history>>

-------------------------------------------------------------------------------
(* Requests of the brand and of the recipients, one transaction each *)

CreateBatch(b, es) ==
  /\ batch[b] = "none"
  /\ batch' = [batch EXCEPT ![b] = "draft"]
  /\ created' = [created EXCEPT ![b] = day]
  /\ mail' = [m \in Mails |-> IF m \in {b} \X es THEN "pending" ELSE mail[m]]
  /\ UNCHANGED <<day, sentOn, optout, account, senders, posts, mailed, history>>

\* Mutant: a batch that is being sent is cancelled.
CancelBatch_Approved(b) ==
  /\ batch[b] \in {"draft", "approved"}
  /\ batch' = [batch EXCEPT ![b] = "cancelled"]
  /\ UNCHANGED <<day, created, mail, sentOn, optout, account, senders, posts, mailed, history>>

CancelBatch(b) ==
  /\ batch[b] = "draft"
  /\ batch' = [batch EXCEPT ![b] = "cancelled"]
  /\ UNCHANGED <<day, created, mail, sentOn, optout, account, senders, posts, mailed, history>>

\* First transaction of send_batch, for a draft or again.
Approve(b) ==
  /\ batch[b] \in {"draft", "approved"} /\ connected
  /\ batch' = [batch EXCEPT ![b] = "approved"]
  /\ UNCHANGED <<day, created, mail, sentOn, optout, account, senders, posts, mailed, history>>

WriteReply(m) ==
  /\ mail[m] = "none"
  /\ mail' = [mail EXCEPT ![m] = "pending"]
  /\ UNCHANGED <<day, batch, created, sentOn, optout, account, senders, posts, mailed, history>>

\* A sender has found r fit to send, or marked it, or sent it.
UnderWay(r) == mail[r] \in Begun \/ \E s \in Senders : pc[s] = "take" /\ cur[s] = r

\* The link in a mail that arrived.
Unsubscribe(e) ==
  /\ \E b \in Batches : mailed[<<b, e>>] > 0
  /\ e \notin optout
  /\ optout' = optout \cup {e}
  /\ excused' = excused \cup {r \in Batches \X {e} : UnderWay(r)}
  /\ UNCHANGED <<day, batch, created, mail, sentOn, account, senders, posts, mailed,
                 takenOn, blurred>>

\* Updates of the account wait for its row lock.  A new connection keeps the counters
\* and the pause.
SetAccount(c, p) ==
  /\ acctLock = None
  /\ connected' = c /\ paused' = p
  /\ UNCHANGED <<day, tables, counter, senders, posts, mailed, history>>

Connect    == ~connected /\ SetAccount(TRUE, paused)
Disconnect == connected /\ SetAccount(FALSE, paused)
SendingControl(p) == paused # p /\ SetAccount(connected, p)

-------------------------------------------------------------------------------
(* deliver_pending: the first transaction of each recipient *)

Goto(s, step) == pc' = [pc EXCEPT ![s] = step]
Forget(s) == cur' = [cur EXCEPT ![s] = None] /\ txDay' = [txDay EXCEPT ![s] = 0]

Stop(s) ==
  /\ Goto(s, "idle")
  /\ todo' = [todo EXCEPT ![s] = {}]
  /\ Forget(s)

\* The next recipient, if there is one.
Continue(s) ==
  /\ Goto(s, IF todo'[s] = {} THEN "idle" ELSE "next")
  /\ Forget(s)

Deliver(s, b) ==
  /\ pc[s] = "idle" /\ batch[b] = "approved"
  /\ LET ids == {r \in {b} \X Emails : mail[r] = "pending"}
     IN  ids # {} /\ todo' = [todo EXCEPT ![s] = ids]
  /\ Goto(s, "next")
  /\ UNCHANGED <<day, tables, account, brandLock, acctLock, cur, txDay, posts, mailed, history>>

\* Mutant: an outcome nobody knows is no reason to refuse another mail.
Duplicate_SentOnly(r) ==
  \E b \in Batches \ {r[1]} : mail[<<b, r[2]>>] = "sent" /\ created[b] + Window > day

\* Another batch has the address, and that batch was created within the window.
Duplicate(r) ==
  \E b \in Batches \ {r[1]} : mail[<<b, r[2]>>] \in Begun /\ created[b] + Window > day

\* Mutant: the opt-out is not consulted.
Blocked_DuplicatesOnly(r) == Duplicate(r)

Blocked(r) == r[2] \in optout \/ Duplicate(r)

\* The row is no longer pending.
SkipTaken(s, r) ==
  /\ pc[s] = "next" /\ brandLock = None
  /\ r \in todo[s] /\ mail[r] # "pending"
  /\ todo' = [todo EXCEPT ![s] = @ \ {r}]
  /\ Continue(s)
  /\ UNCHANGED <<day, tables, account, brandLock, acctLock, posts, mailed, history>>

SetMail(m, state) == mail' = [mail EXCEPT ![m] = state]
Free(lock, s) == IF lock = s THEN None ELSE lock

\* The advisory lock, the row, the opt-out and the duplicates.
Block(s, r) ==
  /\ pc[s] = "next" /\ brandLock = None
  /\ r \in todo[s] /\ mail[r] = "pending" /\ Blocked(r)
  /\ todo' = [todo EXCEPT ![s] = @ \ {r}]
  /\ SetMail(r, "blocked")
  /\ Continue(s)
  /\ UNCHANGED <<day, batch, created, sentOn, optout, account, brandLock, acctLock, posts,
                 mailed, history>>

Fit(s, r) ==
  /\ r \in todo[s] /\ mail[r] = "pending" /\ ~Blocked(r)
  /\ brandLock' = s
  /\ todo' = [todo EXCEPT ![s] = @ \ {r}]
  /\ cur' = [cur EXCEPT ![s] = r]
  /\ Goto(s, "take")
  /\ takenOn' = [takenOn EXCEPT ![r] = day]
  /\ UNCHANGED <<day, tables, account, acctLock, txDay, posts, mailed, blurred, excused>>

Inspect(s, r) == pc[s] = "next" /\ brandLock = None /\ Fit(s, r)

Take(s) ==
  /\ pc[s] = "take"
  /\ SetMail(cur[s], "sending")
  /\ brandLock' = Free(brandLock, s)
  /\ Goto(s, "taken")
  /\ UNCHANGED <<day, batch, created, sentOn, optout, account, acctLock, todo, cur, txDay,
                 posts, mailed, history>>

\* First transaction of send_reply.
TakeReply(s, m) ==
  /\ pc[s] = "idle" /\ mail[m] = "pending"
  /\ SetMail(m, "sending")
  /\ cur' = [cur EXCEPT ![s] = m]
  /\ Goto(s, "taken")
  /\ UNCHANGED <<day, batch, created, sentOn, optout, account, brandLock, acctLock, todo,
                 txDay, posts, mailed, history>>

-------------------------------------------------------------------------------
(* The second transaction: send_via_brand_gmail and the outcome *)

\* CURRENT_TIMESTAMP is the start of the transaction, before it waits for the row.
BeginSend(s) ==
  /\ pc[s] = "taken"
  /\ txDay' = [txDay EXCEPT ![s] = day]
  /\ Goto(s, "waiting")
  /\ UNCHANGED <<day, tables, account, brandLock, acctLock, todo, cur, posts, mailed, history>>

\* _acct_out, by the clock of the process.
SentToday == IF counter.on = day THEN counter.sent ELSE 0
CompletedDays == IF counter.last = day /\ counter.days > 0 THEN counter.days - 1 ELSE counter.days
Cap(days) == Plan[IF days < Len(Plan) THEN days + 1 ELSE Len(Plan)]
MaySend == connected /\ ~paused /\ SentToday < Cap(CompletedDays)

\* Nothing was sent: the mail waits, and the sender stops.
Postpone(s) ==
  /\ pc[s] = "waiting" /\ acctLock = None /\ ~MaySend
  /\ SetMail(cur[s], "pending")
  /\ Stop(s)
  /\ UNCHANGED <<day, batch, created, sentOn, optout, account, brandLock, acctLock,
                 posts, mailed, history>>

\* Mutant: the account is read without FOR UPDATE.
LockAccount_NoLock(s) ==
  /\ pc[s] = "waiting" /\ MaySend
  /\ Goto(s, "ready")
  /\ blurred' = IF txDay[s] < day /\ txDay[s] < blurred THEN txDay[s] ELSE blurred
  /\ UNCHANGED <<day, tables, account, brandLock, acctLock, todo, cur, txDay, posts,
                 mailed, takenOn, excused>>

LockAccount(s) ==
  /\ pc[s] = "waiting" /\ acctLock = None /\ MaySend
  /\ acctLock' = s
  /\ Goto(s, "ready")
  /\ blurred' = IF txDay[s] < day /\ txDay[s] < blurred THEN txDay[s] ELSE blurred
  /\ UNCHANGED <<day, tables, account, brandLock, todo, cur, txDay, posts, mailed,
                 takenOn, excused>>

\* The exception rolls the transaction back, with the account's lock.
FailSend(s) == Goto(s, "failing") /\ acctLock' = Free(acctLock, s)

\* _refresh_if_needed fails; the 'error' it writes is rolled back.
RefreshFails(s) ==
  /\ pc[s] = "ready"
  /\ FailSend(s)
  /\ UNCHANGED <<day, tables, account, brandLock, todo, cur, txDay, posts, mailed, history>>

Post(s) ==
  /\ pc[s] = "ready"
  /\ posts' = posts \cup {cur[s]}
  /\ Goto(s, "posted")
  /\ UNCHANGED <<day, tables, account, brandLock, acctLock, todo, cur, txDay, mailed, history>>

\* No answer, or one without a message id; or the database fails afterwards.
NoAnswer(s) ==
  /\ pc[s] \in {"posted", "accepted"}
  /\ FailSend(s)
  /\ UNCHANGED <<day, tables, account, brandLock, todo, cur, txDay, posts, mailed, history>>

\* sent_today, warmup_days and the outcome, in one transaction.
Count(d) ==
  counter' = [sent |-> IF counter.on = d THEN counter.sent + 1 ELSE 1, on |-> d,
              days |-> IF counter.last = d THEN counter.days ELSE counter.days + 1, last |-> d]

Record(s) ==
  /\ pc[s] = "accepted"
  /\ Count(txDay[s])
  /\ SetMail(cur[s], "sent")
  /\ sentOn' = [sentOn EXCEPT ![cur[s]] = txDay[s]]
  /\ acctLock' = Free(acctLock, s)
  /\ todo' = todo
  /\ Continue(s)
  /\ UNCHANGED <<day, batch, created, optout, connected, paused, brandLock, posts,
                 mailed, history>>

\* pause_after_uncertain_send, a transaction of its own.
Pause(s) ==
  /\ pc[s] = "failing" /\ acctLock = None
  /\ paused' = (paused \/ connected)
  /\ Goto(s, "paused")
  /\ UNCHANGED <<day, tables, connected, counter, brandLock, acctLock, todo, cur, txDay,
                 posts, mailed, history>>

\* Mutant: the mail is tried again.
Review_Retries(s) ==
  /\ pc[s] = "paused"
  /\ SetMail(cur[s], "pending")
  /\ Stop(s)
  /\ UNCHANGED <<day, batch, created, sentOn, optout, account, brandLock, acctLock,
                 posts, mailed, history>>

Review(s) ==
  /\ pc[s] = "paused"
  /\ SetMail(cur[s], "review")
  /\ Stop(s)
  /\ UNCHANGED <<day, batch, created, sentOn, optout, account, brandLock, acctLock,
                 posts, mailed, history>>

\* The process dies: its locks are released, a mail it marked stays 'sending'.
Crash(s) ==
  /\ pc[s] # "idle"
  /\ brandLock' = Free(brandLock, s) /\ acctLock' = Free(acctLock, s)
  /\ Stop(s)
  /\ UNCHANGED <<day, tables, account, posts, mailed, history>>

-------------------------------------------------------------------------------
(* Gmail (external) *)

Answer(m, step) ==
  /\ pc' = [s \in Senders |-> IF pc[s] = "posted" /\ cur[s] = m THEN step ELSE pc[s]]
  /\ acctLock' = IF step = "failing" /\ acctLock # None /\ cur[acctLock] = m
                   THEN None ELSE acctLock

Accept(m) ==
  /\ m \in posts
  /\ posts' = posts \ {m}
  /\ mailed' = [mailed EXCEPT ![m] = @ + 1]
  /\ Answer(m, "accepted")
  /\ UNCHANGED <<day, tables, account, brandLock, todo, cur, txDay, history>>

Refuse(m) ==
  /\ m \in posts
  /\ posts' = posts \ {m}
  /\ Answer(m, "failing")
  /\ UNCHANGED <<day, tables, account, brandLock, todo, cur, txDay, mailed, history>>

-------------------------------------------------------------------------------
SenderNext(s) ==
  \/ \E b \in Batches : Deliver(s, b)
  \/ \E r \in Recipients : SkipTaken(s, r) \/ Block(s, r) \/ Inspect(s, r)
  \/ \E m \in Replies : TakeReply(s, m)
  \/ Take(s) \/ BeginSend(s) \/ Postpone(s) \/ LockAccount(s)
  \/ RefreshFails(s) \/ Post(s) \/ NoAnswer(s) \/ Record(s) \/ Pause(s) \/ Review(s)
  \/ Crash(s)

Next ==
  \/ NextDay
  \/ \E b \in Batches :
       \/ CancelBatch(b) \/ Approve(b)
       \/ \E es \in SUBSET Emails \ {{}} : CreateBatch(b, es)
  \/ \E m \in Replies : WriteReply(m)
  \/ \E e \in Emails : Unsubscribe(e)
  \/ Connect \/ Disconnect \/ \E p \in BOOLEAN : SendingControl(p)
  \/ \E s \in Senders : SenderNext(s)
  \/ \E m \in Mails : Accept(m) \/ Refuse(m)

Spec == Init /\ [][Next]_vars

-------------------------------------------------------------------------------
(* Properties *)

\* A mail goes out at most once, whatever is lost or dies, and its row tells: what may
\* have gone out is neither pending nor blocked, what is 'sent' was accepted by Gmail.
MailIsToldOnce ==
  \A m \in Mails :
    /\ mailed[m] + (IF m \in posts THEN 1 ELSE 0) <= 1
    /\ mailed[m] > 0 \/ m \in posts => mail[m] \in Begun
    /\ mail[m] = "sent" => mailed[m] > 0

\* Two batches are both sent to an address only if one of them was found fit when the
\* other was at least a window old, although senders work on both at the same time and
\* some outcomes are unknown.
OnlyOldBatchesRepeat ==
  \A b, c \in Batches, e \in Emails :
    b # c /\ mail[<<b, e>>] \in Begun /\ mail[<<c, e>>] \in Begun
      => \/ created[b] + Window <= takenOn[<<c, e>>]
         \/ created[c] + Window <= takenOn[<<b, e>>]

\* An address that opted out gets no mail any more, but those that were under way.
OptOutIsHonoured ==
  \A b \in Batches, e \in optout :
    mailed[<<b, e>>] > 0 \/ <<b, e>> \in posts => <<b, e>> \in excused

\* A cancelled batch was not sent and will not be, to none of its recipients.
CancelledIsNotSent ==
  \A b \in Batches, e \in Emails :
    batch[b] = "cancelled" => mail[<<b, e>>] \in {"none", "pending"}

\* The mails recorded for a day are within the plan's limit for as many days of sending
\* as there were before, unless a sender waited for the account over midnight.
SentOn(d) == {m \in Mails : sentOn[m] = d}
DailyLimit ==
  \A d \in 0..(blurred - 1) \cap Days :
      Cardinality(SentOn(d)) <= Cap(Cardinality({n \in 0..(d - 1) : SentOn(n) # {}}))

\* docs/OPERATIONS_NEXT.md:11 says that a brand does not mail the same address again
\* within 90 days.
NoRepeatWithinWindow ==
  \A b, c \in Batches, e \in Emails :
    b # c /\ sentOn[<<b, e>>] # None /\ sentOn[<<c, e>>] # None
      => \/ sentOn[<<b, e>>] + Window <= sentOn[<<c, e>>]
         \/ sentOn[<<c, e>>] + Window <= sentOn[<<b, e>>]

-------------------------------------------------------------------------------
(* Instances for TLC *)

\* The daily limit grows once.
Ramp == <<1, 2>>

\* Two mails a day.
Flat == <<2>>

Symmetry == Permutations(Senders) \cup Permutations(Batches) \cup Permutations(Emails)

-------------------------------------------------------------------------------
(* Proofs, for any number of batches, addresses, replies and senders: a mail goes out  *)
(* once at most and its row tells; opt-outs and cancellations hold; an address is not  *)
(* judged fit twice within the window.                                                 *)

\* The steps of a sender that has marked a mail 'sending'.
Working == {"taken", "waiting", "ready", "posted", "accepted", "failing", "paused"}

(* The inductive invariant. *)

LockInv == \A s \in Senders : pc[s] = "take" => brandLock = s

\* What a sender works on is what its row says, and nobody else's.
CurInv ==
  \A s \in Senders :
    /\ pc[s] = "take" => cur[s] \in Recipients /\ mail[cur[s]] = "pending"
    /\ pc[s] \in Working => cur[s] \in Mails /\ mail[cur[s]] = "sending"

OneInv ==
  \A s, t \in Senders :
    pc[s] \in Working /\ pc[t] \in Working /\ cur[s] = cur[t] => s = t

Unsent(m) == mailed[m] = 0 /\ m \notin posts

\* A sender before its request, during it and after it knows where the mail is.
SentInv ==
  /\ \A m \in Mails : /\ mail[m] \notin Begun => Unsent(m)
                      /\ mailed[m] \in {0, 1}
                      /\ m \in posts => mailed[m] = 0
                      /\ mail[m] = "sent" => mailed[m] > 0
  /\ \A s \in Senders : /\ pc[s] \in {"taken", "waiting", "ready"} => Unsent(cur[s])
                        /\ pc[s] = "posted" => cur[s] \in posts
                        /\ pc[s] = "accepted" => mailed[cur[s]] > 0

\* Senders work for approved batches only, and a batch that is approved stays so.
BatchInv ==
  /\ \A b \in Batches, e \in Emails :
       /\ batch[b] = "none" => mail[<<b, e>>] = "none"
       /\ batch[b] \in {"draft", "cancelled"} => mail[<<b, e>>] \in {"none", "pending"}
  /\ \A s \in Senders : \A r \in todo[s] : batch[r[1]] = "approved"
  /\ \A s \in Senders : pc[s] = "take" => batch[cur[s][1]] = "approved"

OptInv ==
  \A b \in Batches, e \in optout : UnderWay(<<b, e>>) => <<b, e>> \in excused

\* The judgement of a recipient still holds when its sender marks it.
WindowInv ==
  /\ OnlyOldBatchesRepeat
  /\ \A s \in Senders : pc[s] = "take" =>
       \A b \in Batches \ {cur[s][1]} :
         mail[<<b, cur[s][2]>>] \in Begun => created[b] + Window <= takenOn[cur[s]]

IInv == TypeOK /\ LockInv /\ CurInv /\ OneInv /\ SentInv /\ BatchInv /\ OptInv /\ WindowInv

-------------------------------------------------------------------------------
LEMMA InitInv == Init => IInv
  <1> SUFFICES ASSUME Init PROVE IInv
    OBVIOUS
  <1> USE NoneAssumption, WindowAssumption DEF Init, Mails, Recipients
  <1>1. TypeOK
    <2>1. 0 \in Days /\ MaxDay + 1 \in 0..(MaxDay + 1)
      BY DEF Days
    <2>2. counter \in Counter
      BY <2>1 DEF Counter
    <2> QED
      BY <2>1, <2>2 DEF TypeOK, States, Steps
  <1>2. LockInv /\ CurInv /\ OneInv /\ SentInv
    BY DEF LockInv, CurInv, OneInv, SentInv, Unsent, Begun, Working
  <1>3. BatchInv /\ OptInv /\ WindowInv
    BY DEF BatchInv, OptInv, WindowInv, OnlyOldBatchesRepeat, Begun
  <1> QED
    BY <1>1, <1>2, <1>3 DEF IInv

(* Every action keeps it, part by part. *)

LEMMA NextDayKeeps == ASSUME IInv, NextDay PROVE IInv'
  <1> USE NoneAssumption, ReplyAssumption, WindowAssumption
      DEF IInv, Mails, Recipients, NextDay, tables, account, senders, history
  <1>1. TypeOK'
    BY DEF TypeOK, Days, States, Begun, Steps, Counter, CurInv, Working
  <1>2. LockInv' /\ CurInv' /\ OneInv'
    BY DEF TypeOK, LockInv, CurInv, OneInv, Working, Begun, BatchInv
  <1>3. SentInv' /\ BatchInv'
    BY DEF TypeOK, LockInv, CurInv, OneInv, SentInv, Unsent, BatchInv, Working, Begun
  <1>4. OptInv'
    BY DEF TypeOK, OptInv, UnderWay, LockInv, CurInv, SentInv, Unsent, Working, Begun, Steps
  <1>5. WindowInv'
    BY DEF TypeOK, WindowInv, OnlyOldBatchesRepeat, LockInv, CurInv, BatchInv, Begun
  <1> QED
    BY <1>1, <1>2, <1>3, <1>4, <1>5

\* A new batch has no mail yet.
LEMMA CreateBatchKeeps == ASSUME IInv, NEW b \in Batches, NEW es \in SUBSET Emails, CreateBatch(b, es) PROVE IInv'
  <1> USE NoneAssumption, ReplyAssumption, WindowAssumption
      DEF IInv, Mails, Recipients, CreateBatch, account, senders, history
  <1>0. \A e \in Emails : mail[<<b, e>>] = "none"
    BY DEF BatchInv
  <1>1. TypeOK'
    BY <1>0 DEF TypeOK, Days, States, Begun, Steps, Counter, CurInv, Working
  <1>2. LockInv' /\ OneInv'
    BY <1>0 DEF TypeOK, LockInv, OneInv, Working
  <1>6. CurInv'
    <2>1. \A m \in {b} \X es : m \in Mails /\ mail[m] = "none"
      BY <1>0
    <2>2. \A m \in Mails : mail[m] \in {"pending", "sending"} => mail'[m] = mail[m]
      BY <2>1
    <2> QED
      BY <2>2 DEF CurInv, Working
  <1>3. SentInv' /\ BatchInv'
    BY <1>0 DEF TypeOK, LockInv, CurInv, OneInv, SentInv, Unsent, BatchInv, Working, Begun
  <1>4. OptInv'
    BY <1>0 DEF TypeOK, OptInv, UnderWay, LockInv, CurInv, SentInv, Unsent, Working, Begun, Steps
  <1>5. WindowInv'
    BY <1>0 DEF TypeOK, WindowInv, OnlyOldBatchesRepeat, LockInv, CurInv, BatchInv, Begun
  <1> QED
    BY <1>1, <1>2, <1>3, <1>4, <1>5, <1>6

LEMMA CancelBatchKeeps == ASSUME IInv, NEW b \in Batches, CancelBatch(b) PROVE IInv'
  <1> USE NoneAssumption, ReplyAssumption, WindowAssumption
      DEF IInv, Mails, Recipients, CancelBatch, account, senders, history
  <1>1. TypeOK'
    BY DEF TypeOK, Days, States, Begun, Steps, Counter, CurInv, Working
  <1>2. LockInv' /\ CurInv' /\ OneInv'
    BY DEF TypeOK, LockInv, CurInv, OneInv, Working, Begun, BatchInv
  <1>3. SentInv' /\ BatchInv'
    BY DEF TypeOK, LockInv, CurInv, OneInv, SentInv, Unsent, BatchInv, Working, Begun
  <1>4. OptInv'
    BY DEF TypeOK, OptInv, UnderWay, LockInv, CurInv, SentInv, Unsent, Working, Begun, Steps
  <1>5. WindowInv'
    BY DEF TypeOK, WindowInv, OnlyOldBatchesRepeat, LockInv, CurInv, BatchInv, Begun
  <1> QED
    BY <1>1, <1>2, <1>3, <1>4, <1>5

LEMMA ApproveKeeps == ASSUME IInv, NEW b \in Batches, Approve(b) PROVE IInv'
  <1> USE NoneAssumption, ReplyAssumption, WindowAssumption
      DEF IInv, Mails, Recipients, Approve, account, senders, history
  <1>1. TypeOK'
    BY DEF TypeOK, Days, States, Begun, Steps, Counter, CurInv, Working
  <1>2. LockInv' /\ CurInv' /\ OneInv'
    BY DEF TypeOK, LockInv, CurInv, OneInv, Working, Begun, BatchInv
  <1>3. SentInv' /\ BatchInv'
    BY DEF TypeOK, LockInv, CurInv, OneInv, SentInv, Unsent, BatchInv, Working, Begun
  <1>4. OptInv'
    BY DEF TypeOK, OptInv, UnderWay, LockInv, CurInv, SentInv, Unsent, Working, Begun, Steps
  <1>5. WindowInv'
    BY DEF TypeOK, WindowInv, OnlyOldBatchesRepeat, LockInv, CurInv, BatchInv, Begun
  <1> QED
    BY <1>1, <1>2, <1>3, <1>4, <1>5

LEMMA WriteReplyKeeps == ASSUME IInv, NEW m \in Replies, WriteReply(m) PROVE IInv'
  <1> USE NoneAssumption, ReplyAssumption, WindowAssumption
      DEF IInv, Mails, Recipients, WriteReply, account, senders, history
  <1>1. TypeOK'
    BY DEF TypeOK, Days, States, Begun, Steps, Counter, CurInv, Working
  <1>2. LockInv' /\ CurInv' /\ OneInv'
    BY DEF TypeOK, LockInv, CurInv, OneInv, Working, Begun, BatchInv
  <1>3. SentInv' /\ BatchInv'
    BY DEF TypeOK, LockInv, CurInv, OneInv, SentInv, Unsent, BatchInv, Working, Begun
  <1>4. OptInv'
    BY DEF TypeOK, OptInv, UnderWay, LockInv, CurInv, SentInv, Unsent, Working, Begun, Steps
  <1>5. WindowInv'
    BY DEF TypeOK, WindowInv, OnlyOldBatchesRepeat, LockInv, CurInv, BatchInv, Begun
  <1> QED
    BY <1>1, <1>2, <1>3, <1>4, <1>5

LEMMA UnsubscribeKeeps == ASSUME IInv, NEW e \in Emails, Unsubscribe(e) PROVE IInv'
  <1> USE NoneAssumption, ReplyAssumption, WindowAssumption
      DEF IInv, Mails, Recipients, Unsubscribe, account, senders
  <1>1. TypeOK'
    BY DEF TypeOK, Days, States, Begun, Steps, Counter, CurInv, Working
  <1>2. LockInv' /\ CurInv' /\ OneInv'
    BY DEF TypeOK, LockInv, CurInv, OneInv, Working, Begun, BatchInv
  <1>3. SentInv' /\ BatchInv'
    BY DEF TypeOK, LockInv, CurInv, OneInv, SentInv, Unsent, BatchInv, Working, Begun
  <1>4. OptInv'
    BY DEF TypeOK, OptInv, UnderWay, LockInv, CurInv, SentInv, Unsent, Working, Begun, Steps
  <1>5. WindowInv'
    BY DEF TypeOK, WindowInv, OnlyOldBatchesRepeat, LockInv, CurInv, BatchInv, Begun
  <1> QED
    BY <1>1, <1>2, <1>3, <1>4, <1>5

LEMMA SetAccountKeeps == ASSUME IInv, NEW c \in BOOLEAN, NEW p \in BOOLEAN, SetAccount(c, p) PROVE IInv'
  <1> USE NoneAssumption, ReplyAssumption, WindowAssumption
      DEF IInv, Mails, Recipients, SetAccount, tables, senders, history
  <1>1. TypeOK'
    BY DEF TypeOK, Days, States, Begun, Steps, Counter, CurInv, Working
  <1>2. LockInv' /\ CurInv' /\ OneInv'
    BY DEF TypeOK, LockInv, CurInv, OneInv, Working, Begun, BatchInv
  <1>3. SentInv' /\ BatchInv'
    BY DEF TypeOK, LockInv, CurInv, OneInv, SentInv, Unsent, BatchInv, Working, Begun
  <1>4. OptInv'
    BY DEF TypeOK, OptInv, UnderWay, LockInv, CurInv, SentInv, Unsent, Working, Begun, Steps
  <1>5. WindowInv'
    BY DEF TypeOK, WindowInv, OnlyOldBatchesRepeat, LockInv, CurInv, BatchInv, Begun
  <1> QED
    BY <1>1, <1>2, <1>3, <1>4, <1>5

LEMMA DeliverKeeps == ASSUME IInv, NEW s \in Senders, NEW b \in Batches, Deliver(s, b) PROVE IInv'
  <1> USE NoneAssumption, ReplyAssumption, WindowAssumption
      DEF IInv, Mails, Recipients, Deliver, tables, account, history, Goto
  <1>1. TypeOK'
    BY DEF TypeOK, Days, States, Begun, Steps, Counter, CurInv, Working
  <1>2. LockInv' /\ CurInv' /\ OneInv'
    BY DEF TypeOK, LockInv, CurInv, OneInv, Working, Begun, BatchInv
  <1>3. SentInv' /\ BatchInv'
    BY DEF TypeOK, LockInv, CurInv, OneInv, SentInv, Unsent, BatchInv, Working, Begun
  <1>4. OptInv'
    BY DEF TypeOK, OptInv, UnderWay, LockInv, CurInv, SentInv, Unsent, Working, Begun, Steps
  <1>5. WindowInv'
    BY DEF TypeOK, WindowInv, OnlyOldBatchesRepeat, LockInv, CurInv, BatchInv, Begun
  <1> QED
    BY <1>1, <1>2, <1>3, <1>4, <1>5

LEMMA SkipTakenKeeps == ASSUME IInv, NEW s \in Senders, NEW r \in Recipients, SkipTaken(s, r) PROVE IInv'
  <1> USE NoneAssumption, ReplyAssumption, WindowAssumption
      DEF IInv, Mails, Recipients, SkipTaken, tables, account, history, Goto, Forget, Continue
  <1>1. TypeOK'
    BY DEF TypeOK, Days, States, Begun, Steps, Counter, CurInv, Working
  <1>2. LockInv' /\ CurInv' /\ OneInv'
    BY DEF TypeOK, LockInv, CurInv, OneInv, Working, Begun, BatchInv
  <1>3. SentInv' /\ BatchInv'
    BY DEF TypeOK, LockInv, CurInv, OneInv, SentInv, Unsent, BatchInv, Working, Begun
  <1>4. OptInv'
    BY DEF TypeOK, OptInv, UnderWay, LockInv, CurInv, SentInv, Unsent, Working, Begun, Steps
  <1>5. WindowInv'
    BY DEF TypeOK, WindowInv, OnlyOldBatchesRepeat, LockInv, CurInv, BatchInv, Begun
  <1> QED
    BY <1>1, <1>2, <1>3, <1>4, <1>5

\* The advisory lock: a recipient is judged while nobody is between judging and marking one.
LEMMA BlockKeeps == ASSUME IInv, NEW s \in Senders, NEW r \in Recipients, Block(s, r) PROVE IInv'
  <1> USE NoneAssumption, ReplyAssumption, WindowAssumption
      DEF IInv, Mails, Recipients, Block, account, history, SetMail, Goto, Forget, Continue
  <1>1. TypeOK'
    BY DEF TypeOK, Days, States, Begun, Steps, Counter, CurInv, Working
  <1>2. LockInv' /\ CurInv' /\ OneInv'
    BY DEF TypeOK, LockInv, CurInv, OneInv, Working, Begun, BatchInv
  <1>3. SentInv' /\ BatchInv'
    BY DEF TypeOK, LockInv, CurInv, OneInv, SentInv, Unsent, BatchInv, Working, Begun
  <1>4. OptInv'
    BY DEF TypeOK, OptInv, UnderWay, LockInv, CurInv, SentInv, Unsent, Working, Begun, Steps
  <1>5. WindowInv'
    BY DEF TypeOK, WindowInv, OnlyOldBatchesRepeat, LockInv, CurInv, BatchInv, Begun
  <1> QED
    BY <1>1, <1>2, <1>3, <1>4, <1>5

LEMMA InspectKeeps == ASSUME IInv, NEW s \in Senders, NEW r \in Recipients, Inspect(s, r) PROVE IInv'
  <1> USE NoneAssumption, ReplyAssumption, WindowAssumption
      DEF IInv, Mails, Recipients, Inspect, tables, account, Goto, Fit
  <1>0. PICK b \in Batches, e \in Emails : r = <<b, e>>
    OBVIOUS
  <1>1. TypeOK'
    BY <1>0 DEF TypeOK, Days, States, Begun, Steps, Counter, CurInv, Working
  <1>2. LockInv' /\ CurInv' /\ OneInv'
    BY <1>0 DEF TypeOK, LockInv, CurInv, OneInv, Working, Begun, BatchInv
  <1>3. SentInv' /\ BatchInv'
    BY <1>0 DEF TypeOK, LockInv, CurInv, OneInv, SentInv, Unsent, BatchInv, Working, Begun
  <1>4. OptInv'
    BY <1>0 DEF TypeOK, OptInv, UnderWay, LockInv, CurInv, SentInv, Unsent, Working, Begun, Steps, Blocked
  <1>5. WindowInv'
    <2>1. OnlyOldBatchesRepeat'
      <3>1. \A m \in Recipients : mail[m] \in Begun => takenOn'[m] = takenOn[m]
        BY DEF TypeOK, Begun
      <3> QED
        BY <3>1 DEF WindowInv, OnlyOldBatchesRepeat
    <2>2. \A c \in Batches \ {b} : mail[<<c, e>>] \in Begun => created[c] + Window <= day
      <3>1. ~Duplicate(r) /\ r[1] = b /\ r[2] = e
        BY <1>0 DEF Blocked
      <3>2. day \in Nat /\ \A c \in Batches : created[c] \in Nat
        BY DEF TypeOK, Days
      <3> QED
        BY <3>1, <3>2 DEF Duplicate
    <2>3. \A t \in Senders : pc'[t] = "take" => t = s
      BY DEF LockInv, TypeOK
    <2> QED
      BY <1>0, <2>1, <2>2, <2>3 DEF TypeOK, WindowInv
  <1> QED
    BY <1>1, <1>2, <1>3, <1>4, <1>5

LEMMA TakeReplyKeeps == ASSUME IInv, NEW s \in Senders, NEW m \in Replies, TakeReply(s, m) PROVE IInv'
  <1> USE NoneAssumption, ReplyAssumption, WindowAssumption
      DEF IInv, Mails, Recipients, TakeReply, account, history, SetMail, Goto
  <1>1. TypeOK'
    BY DEF TypeOK, Days, States, Begun, Steps, Counter, CurInv, Working
  <1>2. LockInv' /\ CurInv' /\ OneInv'
    BY DEF TypeOK, LockInv, CurInv, OneInv, Working, Begun, BatchInv
  <1>3. SentInv' /\ BatchInv'
    BY DEF TypeOK, LockInv, CurInv, OneInv, SentInv, Unsent, BatchInv, Working, Begun
  <1>4. OptInv'
    BY DEF TypeOK, OptInv, UnderWay, LockInv, CurInv, SentInv, Unsent, Working, Begun, Steps
  <1>5. WindowInv'
    BY DEF TypeOK, WindowInv, OnlyOldBatchesRepeat, LockInv, CurInv, BatchInv, Begun
  <1> QED
    BY <1>1, <1>2, <1>3, <1>4, <1>5

\* Nobody marked another mail to the address since the sender judged this one fit.
LEMMA TakeKeeps == ASSUME IInv, NEW s \in Senders, Take(s) PROVE IInv'
  <1> USE NoneAssumption, ReplyAssumption, WindowAssumption
      DEF IInv, Mails, Recipients, Take, account, history, SetMail, Goto, Free
  <1>0. PICK b \in Batches, e \in Emails : cur[s] = <<b, e>> /\ mail[<<b, e>>] = "pending"
    BY DEF CurInv
  <1>1. TypeOK'
    BY <1>0 DEF TypeOK, Days, States, Begun, Steps, Counter, CurInv, Working
  <1>2. LockInv' /\ CurInv' /\ OneInv'
    BY <1>0 DEF TypeOK, LockInv, CurInv, OneInv, Working, Begun, BatchInv
  <1>3. SentInv' /\ BatchInv'
    BY <1>0 DEF TypeOK, LockInv, CurInv, OneInv, SentInv, Unsent, BatchInv, Working, Begun
  <1>4. OptInv'
    BY <1>0 DEF TypeOK, OptInv, UnderWay, LockInv, CurInv, SentInv, Unsent, Working, Begun, Steps
  <1>5. WindowInv'
    <2>1. \A c \in Batches \ {b} : mail[<<c, e>>] \in Begun => created[c] + Window <= takenOn[<<b, e>>]
      BY <1>0 DEF WindowInv
    <2>2. \A c \in Batches, f \in Emails : <<c, f>> # <<b, e>> => mail'[<<c, f>>] = mail[<<c, f>>]
      BY <1>0 DEF TypeOK
    <2>3. OnlyOldBatchesRepeat'
      BY <1>0, <2>1, <2>2 DEF WindowInv, OnlyOldBatchesRepeat
    <2>4. \A t \in Senders : pc'[t] # "take"
      BY DEF LockInv, TypeOK
    <2> QED
      BY <2>3, <2>4 DEF WindowInv
  <1> QED
    BY <1>1, <1>2, <1>3, <1>4, <1>5

LEMMA BeginSendKeeps == ASSUME IInv, NEW s \in Senders, BeginSend(s) PROVE IInv'
  <1> USE NoneAssumption, ReplyAssumption, WindowAssumption
      DEF IInv, Mails, Recipients, BeginSend, tables, account, history, Goto
  <1>1. TypeOK'
    BY DEF TypeOK, Days, States, Begun, Steps, Counter, CurInv, Working
  <1>2. LockInv' /\ CurInv' /\ OneInv'
    BY DEF TypeOK, LockInv, CurInv, OneInv, Working, Begun, BatchInv
  <1>3. SentInv' /\ BatchInv'
    BY DEF TypeOK, LockInv, CurInv, OneInv, SentInv, Unsent, BatchInv, Working, Begun
  <1>4. OptInv'
    BY DEF TypeOK, OptInv, UnderWay, LockInv, CurInv, SentInv, Unsent, Working, Begun, Steps
  <1>5. WindowInv'
    BY DEF TypeOK, WindowInv, OnlyOldBatchesRepeat, LockInv, CurInv, BatchInv, Begun
  <1> QED
    BY <1>1, <1>2, <1>3, <1>4, <1>5

\* What was not sent is pending again: the account never got it.
LEMMA PostponeKeeps == ASSUME IInv, NEW s \in Senders, Postpone(s) PROVE IInv'
  <1> USE NoneAssumption, ReplyAssumption, WindowAssumption
      DEF IInv, Mails, Recipients, Postpone, account, history, SetMail, Goto, Stop, Forget
  <1>0. cur[s] \in Mails /\ mail[cur[s]] = "sending"
    BY DEF CurInv, Working
  <1>1. TypeOK'
    BY <1>0 DEF TypeOK, Days, States, Begun, Steps, Counter, CurInv, Working
  <1>2. LockInv' /\ CurInv' /\ OneInv'
    BY <1>0 DEF TypeOK, LockInv, CurInv, OneInv, Working, Begun, BatchInv
  <1>3. SentInv' /\ BatchInv'
    BY <1>0 DEF TypeOK, LockInv, CurInv, OneInv, SentInv, Unsent, BatchInv, Working, Begun
  <1>4. OptInv'
    BY <1>0 DEF TypeOK, OptInv, UnderWay, LockInv, CurInv, SentInv, Unsent, Working, Begun, Steps
  <1>5. WindowInv'
    BY <1>0 DEF TypeOK, WindowInv, OnlyOldBatchesRepeat, LockInv, CurInv, BatchInv, Begun
  <1> QED
    BY <1>1, <1>2, <1>3, <1>4, <1>5

LEMMA LockAccountKeeps == ASSUME IInv, NEW s \in Senders, LockAccount(s) PROVE IInv'
  <1> USE NoneAssumption, ReplyAssumption, WindowAssumption
      DEF IInv, Mails, Recipients, LockAccount, tables, account, Goto
  <1>1. TypeOK'
    BY DEF TypeOK, Days, States, Begun, Steps, Counter, CurInv, Working
  <1>2. LockInv' /\ CurInv' /\ OneInv'
    BY DEF TypeOK, LockInv, CurInv, OneInv, Working, Begun, BatchInv
  <1>3. SentInv' /\ BatchInv'
    BY DEF TypeOK, LockInv, CurInv, OneInv, SentInv, Unsent, BatchInv, Working, Begun
  <1>4. OptInv'
    BY DEF TypeOK, OptInv, UnderWay, LockInv, CurInv, SentInv, Unsent, Working, Begun, Steps
  <1>5. WindowInv'
    BY DEF TypeOK, WindowInv, OnlyOldBatchesRepeat, LockInv, CurInv, BatchInv, Begun
  <1> QED
    BY <1>1, <1>2, <1>3, <1>4, <1>5

LEMMA RefreshFailsKeeps == ASSUME IInv, NEW s \in Senders, RefreshFails(s) PROVE IInv'
  <1> USE NoneAssumption, ReplyAssumption, WindowAssumption
      DEF IInv, Mails, Recipients, RefreshFails, tables, account, history, Goto, Free, FailSend
  <1>1. TypeOK'
    BY DEF TypeOK, Days, States, Begun, Steps, Counter, CurInv, Working
  <1>2. LockInv' /\ CurInv' /\ OneInv'
    BY DEF TypeOK, LockInv, CurInv, OneInv, Working, Begun, BatchInv
  <1>3. SentInv' /\ BatchInv'
    BY DEF TypeOK, LockInv, CurInv, OneInv, SentInv, Unsent, BatchInv, Working, Begun
  <1>4. OptInv'
    BY DEF TypeOK, OptInv, UnderWay, LockInv, CurInv, SentInv, Unsent, Working, Begun, Steps
  <1>5. WindowInv'
    BY DEF TypeOK, WindowInv, OnlyOldBatchesRepeat, LockInv, CurInv, BatchInv, Begun
  <1> QED
    BY <1>1, <1>2, <1>3, <1>4, <1>5

LEMMA PostKeeps == ASSUME IInv, NEW s \in Senders, Post(s) PROVE IInv'
  <1> USE NoneAssumption, ReplyAssumption, WindowAssumption
      DEF IInv, Mails, Recipients, Post, tables, account, history, Goto
  <1>1. TypeOK'
    BY DEF TypeOK, Days, States, Begun, Steps, Counter, CurInv, Working
  <1>2. LockInv' /\ CurInv' /\ OneInv'
    BY DEF TypeOK, LockInv, CurInv, OneInv, Working, Begun, BatchInv
  <1>3. SentInv' /\ BatchInv'
    BY DEF TypeOK, LockInv, CurInv, OneInv, SentInv, Unsent, BatchInv, Working, Begun
  <1>4. OptInv'
    BY DEF TypeOK, OptInv, UnderWay, LockInv, CurInv, SentInv, Unsent, Working, Begun, Steps
  <1>5. WindowInv'
    BY DEF TypeOK, WindowInv, OnlyOldBatchesRepeat, LockInv, CurInv, BatchInv, Begun
  <1> QED
    BY <1>1, <1>2, <1>3, <1>4, <1>5

LEMMA NoAnswerKeeps == ASSUME IInv, NEW s \in Senders, NoAnswer(s) PROVE IInv'
  <1> USE NoneAssumption, ReplyAssumption, WindowAssumption
      DEF IInv, Mails, Recipients, NoAnswer, tables, account, history, Goto, Free, FailSend
  <1>1. TypeOK'
    BY DEF TypeOK, Days, States, Begun, Steps, Counter, CurInv, Working
  <1>2. LockInv' /\ CurInv' /\ OneInv'
    BY DEF TypeOK, LockInv, CurInv, OneInv, Working, Begun, BatchInv
  <1>3. SentInv' /\ BatchInv'
    BY DEF TypeOK, LockInv, CurInv, OneInv, SentInv, Unsent, BatchInv, Working, Begun
  <1>4. OptInv'
    BY DEF TypeOK, OptInv, UnderWay, LockInv, CurInv, SentInv, Unsent, Working, Begun, Steps
  <1>5. WindowInv'
    BY DEF TypeOK, WindowInv, OnlyOldBatchesRepeat, LockInv, CurInv, BatchInv, Begun
  <1> QED
    BY <1>1, <1>2, <1>3, <1>4, <1>5

\* The outcome: only the mail of the sender changes, and nobody else works on that one.
LEMMA RecordKeeps == ASSUME IInv, NEW s \in Senders, Record(s) PROVE IInv'
  <1> USE NoneAssumption, ReplyAssumption, WindowAssumption
      DEF IInv, Mails, Recipients, Record, history, SetMail, Goto, Free, Forget, Continue, Count
  <1>0. cur[s] \in Mails /\ mail[cur[s]] = "sending"
    BY DEF CurInv, Working
  <1>1. TypeOK'
    BY <1>0 DEF TypeOK, Days, States, Begun, Steps, Counter, CurInv, Working
  <1>2. LockInv' /\ CurInv' /\ OneInv'
    BY <1>0 DEF TypeOK, LockInv, CurInv, OneInv, Working, Begun, BatchInv
  <1>3. SentInv' /\ BatchInv'
    BY <1>0 DEF TypeOK, LockInv, CurInv, OneInv, SentInv, Unsent, BatchInv, Working, Begun
  <1>6. \A m \in Mails : mail'[m] \in Begun <=> mail[m] \in Begun
    BY <1>0 DEF TypeOK, Begun
  <1>4. OptInv'
    <2>1. \A t \in Senders : pc'[t] = "take" => pc[t] = "take" /\ cur'[t] = cur[t]
      BY DEF TypeOK
    <2>2. ASSUME NEW b \in Batches, NEW e \in optout, UnderWay(<<b, e>>)' PROVE UnderWay(<<b, e>>)
      <3>1. e \in Emails /\ <<b, e>> \in Mails
        BY DEF TypeOK
      <3>2. CASE mail'[<<b, e>>] \in Begun
        BY <1>6, <3>1, <3>2 DEF UnderWay
      <3>3. CASE \E t \in Senders : pc'[t] = "take" /\ cur'[t] = <<b, e>>
        BY <2>1, <3>3 DEF UnderWay
      <3> QED
        BY <2>2, <3>2, <3>3 DEF UnderWay
    <2> QED
      BY <2>2 DEF OptInv
  <1>5. WindowInv'
    <2>1. OnlyOldBatchesRepeat'
      BY <1>6 DEF WindowInv, OnlyOldBatchesRepeat
    <2>2. \A t \in Senders : pc'[t] = "take" => pc[t] = "take" /\ cur'[t] = cur[t] /\ cur[t] \in Recipients
      BY DEF TypeOK, CurInv
    <2> QED
      BY <1>6, <2>1, <2>2 DEF WindowInv
  <1> QED
    BY <1>1, <1>2, <1>3, <1>4, <1>5

LEMMA PauseKeeps == ASSUME IInv, NEW s \in Senders, Pause(s) PROVE IInv'
  <1> USE NoneAssumption, ReplyAssumption, WindowAssumption
      DEF IInv, Mails, Recipients, Pause, tables, history, Goto
  <1>1. TypeOK'
    BY DEF TypeOK, Days, States, Begun, Steps, Counter, CurInv, Working
  <1>2. LockInv' /\ CurInv' /\ OneInv'
    BY DEF TypeOK, LockInv, CurInv, OneInv, Working, Begun, BatchInv
  <1>3. SentInv' /\ BatchInv'
    BY DEF TypeOK, LockInv, CurInv, OneInv, SentInv, Unsent, BatchInv, Working, Begun
  <1>4. OptInv'
    BY DEF TypeOK, OptInv, UnderWay, LockInv, CurInv, SentInv, Unsent, Working, Begun, Steps
  <1>5. WindowInv'
    BY DEF TypeOK, WindowInv, OnlyOldBatchesRepeat, LockInv, CurInv, BatchInv, Begun
  <1> QED
    BY <1>1, <1>2, <1>3, <1>4, <1>5

LEMMA ReviewKeeps == ASSUME IInv, NEW s \in Senders, Review(s) PROVE IInv'
  <1> USE NoneAssumption, ReplyAssumption, WindowAssumption
      DEF IInv, Mails, Recipients, Review, account, history, SetMail, Goto, Stop, Forget
  <1>0. cur[s] \in Mails /\ mail[cur[s]] = "sending"
    BY DEF CurInv, Working
  <1>1. TypeOK'
    BY <1>0 DEF TypeOK, Days, States, Begun, Steps, Counter, CurInv, Working
  <1>2. LockInv' /\ CurInv' /\ OneInv'
    BY <1>0 DEF TypeOK, LockInv, CurInv, OneInv, Working, Begun, BatchInv
  <1>3. SentInv' /\ BatchInv'
    BY <1>0 DEF TypeOK, LockInv, CurInv, OneInv, SentInv, Unsent, BatchInv, Working, Begun
  <1>6. \A m \in Mails : mail'[m] \in Begun <=> mail[m] \in Begun
    BY <1>0 DEF TypeOK, Begun
  <1>4. OptInv'
    <2>1. \A t \in Senders : pc'[t] = "take" => pc[t] = "take" /\ cur'[t] = cur[t]
      BY DEF TypeOK
    <2>2. ASSUME NEW b \in Batches, NEW e \in optout, UnderWay(<<b, e>>)' PROVE UnderWay(<<b, e>>)
      <3>1. e \in Emails /\ <<b, e>> \in Mails
        BY DEF TypeOK
      <3>2. CASE mail'[<<b, e>>] \in Begun
        BY <1>6, <3>1, <3>2 DEF UnderWay
      <3>3. CASE \E t \in Senders : pc'[t] = "take" /\ cur'[t] = <<b, e>>
        BY <2>1, <3>3 DEF UnderWay
      <3> QED
        BY <2>2, <3>2, <3>3 DEF UnderWay
    <2> QED
      BY <2>2 DEF OptInv
  <1>5. WindowInv'
    <2>1. OnlyOldBatchesRepeat'
      BY <1>6 DEF WindowInv, OnlyOldBatchesRepeat
    <2>2. \A t \in Senders : pc'[t] = "take" => pc[t] = "take" /\ cur'[t] = cur[t] /\ cur[t] \in Recipients
      BY DEF TypeOK, CurInv
    <2> QED
      BY <1>6, <2>1, <2>2 DEF WindowInv
  <1> QED
    BY <1>1, <1>2, <1>3, <1>4, <1>5

LEMMA CrashKeeps == ASSUME IInv, NEW s \in Senders, Crash(s) PROVE IInv'
  <1> USE NoneAssumption, ReplyAssumption, WindowAssumption
      DEF IInv, Mails, Recipients, Crash, tables, account, history, Goto, Free, Stop, Forget
  <1>1. TypeOK'
    BY DEF TypeOK, Days, States, Begun, Steps, Counter, CurInv, Working
  <1>2. LockInv' /\ CurInv' /\ OneInv'
    BY DEF TypeOK, LockInv, CurInv, OneInv, Working, Begun, BatchInv
  <1>3. SentInv' /\ BatchInv'
    BY DEF TypeOK, LockInv, CurInv, OneInv, SentInv, Unsent, BatchInv, Working, Begun
  <1>4. OptInv'
    BY DEF TypeOK, OptInv, UnderWay, LockInv, CurInv, SentInv, Unsent, Working, Begun, Steps
  <1>5. WindowInv'
    BY DEF TypeOK, WindowInv, OnlyOldBatchesRepeat, LockInv, CurInv, BatchInv, Begun
  <1> QED
    BY <1>1, <1>2, <1>3, <1>4, <1>5

\* Gmail takes a mail once: the request goes away and its sender knows, or is gone.
LEMMA AcceptKeeps == ASSUME IInv, NEW m \in Mails, Accept(m) PROVE IInv'
  <1> USE NoneAssumption, ReplyAssumption, WindowAssumption
      DEF IInv, Mails, Recipients, Accept, tables, account, history, Answer
  <1>1. TypeOK'
    BY DEF TypeOK, Days, States, Begun, Steps, Counter, CurInv, Working
  <1>2. LockInv' /\ CurInv' /\ OneInv'
    BY DEF TypeOK, LockInv, CurInv, OneInv, Working, Begun, BatchInv
  <1>3. SentInv' /\ BatchInv'
    BY DEF TypeOK, LockInv, CurInv, OneInv, SentInv, Unsent, BatchInv, Working, Begun
  <1>4. OptInv'
    BY DEF TypeOK, OptInv, UnderWay, LockInv, CurInv, SentInv, Unsent, Working, Begun, Steps
  <1>5. WindowInv'
    BY DEF TypeOK, WindowInv, OnlyOldBatchesRepeat, LockInv, CurInv, BatchInv, Begun
  <1> QED
    BY <1>1, <1>2, <1>3, <1>4, <1>5

LEMMA RefuseKeeps == ASSUME IInv, NEW m \in Mails, Refuse(m) PROVE IInv'
  <1> USE NoneAssumption, ReplyAssumption, WindowAssumption
      DEF IInv, Mails, Recipients, Refuse, tables, account, history, Answer
  <1>1. TypeOK'
    BY DEF TypeOK, Days, States, Begun, Steps, Counter, CurInv, Working
  <1>2. LockInv' /\ CurInv' /\ OneInv'
    BY DEF TypeOK, LockInv, CurInv, OneInv, Working, Begun, BatchInv
  <1>3. SentInv' /\ BatchInv'
    BY DEF TypeOK, LockInv, CurInv, OneInv, SentInv, Unsent, BatchInv, Working, Begun
  <1>4. OptInv'
    BY DEF TypeOK, OptInv, UnderWay, LockInv, CurInv, SentInv, Unsent, Working, Begun, Steps
  <1>5. WindowInv'
    BY DEF TypeOK, WindowInv, OnlyOldBatchesRepeat, LockInv, CurInv, BatchInv, Begun
  <1> QED
    BY <1>1, <1>2, <1>3, <1>4, <1>5

-------------------------------------------------------------------------------
LEMMA StutterKeeps == IInv /\ UNCHANGED vars => IInv'
  BY DEF vars, tables, account, senders, history, IInv, TypeOK, LockInv, CurInv, OneInv, SentInv,
         Unsent, BatchInv, OptInv, UnderWay, WindowInv, OnlyOldBatchesRepeat

LEMMA SenderKeeps == ASSUME IInv, NEW s \in Senders, SenderNext(s) PROVE IInv'
  BY DeliverKeeps, SkipTakenKeeps, BlockKeeps, InspectKeeps, TakeReplyKeeps, TakeKeeps,
     BeginSendKeeps, PostponeKeeps, LockAccountKeeps, RefreshFailsKeeps, PostKeeps, NoAnswerKeeps,
     RecordKeeps, PauseKeeps, ReviewKeeps, CrashKeeps DEF SenderNext

LEMMA StepKeeps == IInv /\ [Next]_vars => IInv'
  <1> SUFFICES ASSUME IInv, [Next]_vars PROVE IInv'
    OBVIOUS
  <1>1. CASE NextDay \/ UNCHANGED vars
    BY <1>1, NextDayKeeps, StutterKeeps
  <1>2. ASSUME NEW b \in Batches,
               CancelBatch(b) \/ Approve(b) \/ \E es \in SUBSET Emails : CreateBatch(b, es)
        PROVE  IInv'
    BY <1>2, CancelBatchKeeps, ApproveKeeps, CreateBatchKeeps
  <1>3. CASE Connect \/ Disconnect \/ \E p \in BOOLEAN : SendingControl(p)
    <2>1. connected \in BOOLEAN /\ paused \in BOOLEAN
      BY DEF IInv, TypeOK
    <2> QED
      BY <1>3, <2>1, SetAccountKeeps DEF Connect, Disconnect, SendingControl
  <1>4. CASE (\E m \in Replies : WriteReply(m)) \/ (\E e \in Emails : Unsubscribe(e))
    BY <1>4, WriteReplyKeeps, UnsubscribeKeeps
  <1>5. CASE \E s \in Senders : SenderNext(s)
    BY <1>5, SenderKeeps
  <1>6. CASE \E m \in Mails : Accept(m) \/ Refuse(m)
    BY <1>6, AcceptKeeps, RefuseKeeps
  <1> QED
    BY <1>1, <1>2, <1>3, <1>4, <1>5, <1>6 DEF Next

-------------------------------------------------------------------------------
(* The theorems. *)

\* Rows, locks and counters keep their types: no state the tables' CHECKs do not admit.
THEOREM Typing == Spec => []TypeOK
  BY InitInv, StepKeeps, PTL DEF Spec, IInv

\* Whatever is lost, refused or dies, Gmail gets a mail once at most, and its row never
\* calls pending or blocked what may have gone out.
THEOREM MailGoesOutOnce == Spec => []MailIsToldOnce
  <1>1. IInv => MailIsToldOnce
    BY DEF IInv, SentInv, TypeOK, Unsent, MailIsToldOnce
  <1> QED
    BY <1>1, InitInv, StepKeeps, PTL DEF Spec

\* Two batches reach the same address only when one was judged a window after the other
\* was created: the brand's lock covers the judgement and the mark.
THEOREM DuplicatesWaitTheirWindow == Spec => []OnlyOldBatchesRepeat
  BY InitInv, StepKeeps, PTL DEF Spec, IInv, WindowInv

\* After an opt-out only what was under way at that moment still goes out.
THEOREM OptOutsHold == Spec => []OptOutIsHonoured
  <1>1. IInv => OptOutIsHonoured
    <2> SUFFICES ASSUME IInv, NEW b \in Batches, NEW e \in optout,
                        mailed[<<b, e>>] > 0 \/ <<b, e>> \in posts
                 PROVE  <<b, e>> \in excused
      BY DEF OptOutIsHonoured
    <2>1. <<b, e>> \in Mails
      BY DEF IInv, TypeOK, Mails, Recipients
    <2>2. mail[<<b, e>>] \in Begun
      BY <2>1 DEF IInv, SentInv, Unsent
    <2> QED
      BY <2>2 DEF IInv, OptInv, UnderWay
  <1> QED
    BY <1>1, InitInv, StepKeeps, PTL DEF Spec

\* A batch that was cancelled as a draft reaches nobody, then or later.
THEOREM CancelledStaysUnsent == Spec => []CancelledIsNotSent
  <1>1. IInv => CancelledIsNotSent
    BY DEF IInv, BatchInv, CancelledIsNotSent
  <1> QED
    BY <1>1, InitInv, StepKeeps, PTL DEF Spec

-------------------------------------------------------------------------------
(* The daily limit: a second invariant, on top of the first. *)

Holding == {"ready", "posted", "accepted"}
\* What the limit says of one day.
Before(d) == {n \in 0..(d - 1) : SentOn(n) # {}}
Within(d) == Cardinality(SentOn(d)) <= Cap(Cardinality(Before(d)))

HoldInv == \A s \in Senders : pc[s] \in Holding => acctLock = s

RecordInv ==
  /\ \A m \in Mails : sentOn[m] # None => mail[m] = "sent" /\ sentOn[m] <= day
  /\ \A d \in Days : IsFiniteSet(SentOn(d))

SentDays(l) == {n \in 0..l : SentOn(n) # {}}

\* Before the first mail the counter is new; until a midnight is blurred it counts what
\* the rows say.
CounterInv ==
  /\ counter.last = None =>
       counter.sent = 0 /\ counter.days = 0 /\ \A m \in Mails : sentOn[m] = None
  /\ counter.last # None => counter.last <= day
  /\ counter.last # None /\ counter.last < blurred =>
       /\ counter.on = counter.last
       /\ counter.sent = Cardinality(SentOn(counter.last)) /\ counter.sent > 0
       /\ counter.days = Cardinality(SentDays(counter.last))
       /\ \A m \in Mails : sentOn[m] # None => sentOn[m] <= counter.last

Room(d) ==
  /\ counter.last = None \/ counter.last <= d
  /\ (IF counter.on = d THEN counter.sent ELSE 0)
       < Cap(IF counter.last = d /\ counter.days > 0 THEN counter.days - 1 ELSE counter.days)

RoomInv == \A s \in Senders : pc[s] \in Holding /\ txDay[s] < blurred => Room(txDay[s])

BlurInv ==
  /\ blurred <= MaxDay => blurred < day
  /\ \A s \in Senders : txDay[s] <= day

DayInv == HoldInv /\ RecordInv /\ CounterInv /\ RoomInv /\ BlurInv /\ DailyLimit

LEMMA CapIsNat == ASSUME NEW n \in Nat PROVE Cap(n) \in Nat
<1>1. (IF n < Len(Plan) THEN n + 1 ELSE Len(Plan)) \in 1..Len(Plan)
  BY PlanAssumption
<1>. QED  BY <1>1, PlanAssumption DEF Cap

LEMMA DaysAreFinite ==
  ASSUME NEW l \in Nat
  PROVE  IsFiniteSet(SentDays(l)) /\ Cardinality(SentDays(l)) \in Nat
<1>1. IsFiniteSet(0..l)
  BY FS_Interval
<1>2. SentDays(l) \subseteq 0..l
  BY DEF SentDays
<1>. QED  BY <1>1, <1>2, FS_Subset, FS_CardinalityType

LEMMA FirstDay == Init => DayInv
<1>. SUFFICES ASSUME Init PROVE DayInv
  OBVIOUS
<1>1. \A d \in Days : SentOn(d) = {}
  BY DayAssumption DEF Init, SentOn, Days
<1>2. HoldInv /\ RoomInv /\ BlurInv
  BY WindowAssumption DEF Init, HoldInv, RoomInv, BlurInv, Holding
<1>3. RecordInv
  BY <1>1, FS_EmptySet DEF Init, RecordInv
<1>4. CounterInv
  BY DEF Init, CounterInv
<1>5. DailyLimit
  <2>. SUFFICES ASSUME NEW d \in Days
                PROVE  Cardinality(SentOn(d)) <= Cap(Cardinality({n \in 0..(d - 1) : SentOn(n) # {}}))
    BY DEF DailyLimit
  <2>1. \A n \in 0..(d - 1) : n \in Days
    BY WindowAssumption DEF Days
  <2>2. {n \in 0..(d - 1) : SentOn(n) # {}} = {}
    BY <1>1, <2>1
  <2>. QED  BY <1>1, <2>2, FS_EmptySet, CapIsNat
<1>. QED  BY <1>2, <1>3, <1>4, <1>5 DEF DayInv

\* A step that records nothing, and gives the account to nobody new.
LEMMA QuietKeeps ==
  ASSUME IInv, IInv', DayInv, UNCHANGED <<sentOn, counter, blurred>>, day <= day',
         \A m \in Mails : mail[m] = "sent" => mail'[m] = "sent",
         \A s \in Senders : txDay'[s] <= day',
         \A s \in Senders : pc'[s] \in Holding =>
           pc[s] \in Holding /\ txDay'[s] = txDay[s] /\ acctLock' = s
  PROVE  DayInv'
<1>1. day \in Nat /\ day' \in Nat /\ blurred \in Nat
  BY WindowAssumption DEF IInv, TypeOK, Days
<1>2. \A m \in Mails : sentOn[m] # None => sentOn[m] \in Nat
  BY WindowAssumption DEF IInv, TypeOK, Days
<1>3. counter.last # None => counter.last \in Nat
  BY WindowAssumption DEF IInv, TypeOK, Days, Counter
<1>4. HoldInv'
  BY DEF HoldInv
<1>5. RecordInv'
  BY <1>1, <1>2 DEF DayInv, RecordInv, SentOn
<1>6. CounterInv'
  BY <1>1, <1>3 DEF DayInv, CounterInv, SentOn, SentDays
<1>7. RoomInv'
  BY DEF DayInv, RoomInv, Room, Cap
<1>8. BlurInv'
  BY <1>1, WindowAssumption DEF DayInv, BlurInv
<1>9. DailyLimit'
  BY DEF DayInv, DailyLimit, SentOn, Cap
<1>. QED  BY <1>4, <1>5, <1>6, <1>7, <1>8, <1>9 DEF DayInv

LEMMA LockAccountInDay ==
  ASSUME IInv, IInv', DayInv, NEW s \in Senders, LockAccount(s)
  PROVE  DayInv'
<1>. USE DEF LockAccount, Goto, tables, account
<1>1. /\ day \in Nat /\ day <= MaxDay /\ blurred \in Nat /\ blurred' \in Nat /\ txDay[s] \in Nat
      /\ blurred' <= blurred /\ blurred <= MaxDay + 1
  BY WindowAssumption DEF IInv, TypeOK, Days
<1>2. counter.last # None => counter.last \in Nat
  BY WindowAssumption DEF IInv, TypeOK, Days, Counter
<1>3. HoldInv'
  <2>1. \A t \in Senders : pc[t] \in Holding => t = None
    BY DEF DayInv, HoldInv
  <2>2. \A t \in Senders : pc'[t] \in Holding => t = s
    BY <2>1, NoneAssumption DEF IInv, TypeOK
  <2>. QED  BY <2>2 DEF HoldInv
<1>4. RecordInv' /\ DailyLimit'
  <2>1. UNCHANGED <<sentOn, mail, day>>
    OBVIOUS
  <2>2. ASSUME NEW d \in 0..(blurred' - 1) \cap Days PROVE Within(d)
    BY <1>1 DEF DayInv, DailyLimit, Within, Before
  <2>3. RecordInv'
    BY <2>1 DEF DayInv, RecordInv, SentOn
  <2>4. ASSUME NEW d \in 0..(blurred' - 1) \cap Days PROVE Within(d)'
    BY <2>1, <2>2 DEF Within, Before, SentOn, Cap
  <2>. QED  BY <2>3, <2>4 DEF DailyLimit, Within, Before
<1>5. CounterInv'
  <2>1. UNCHANGED <<counter, sentOn, day>> /\ (counter.last # None /\ counter.last < blurred' => counter.last < blurred)
    BY <1>1, <1>2
  <2>. QED  BY <2>1 DEF DayInv, CounterInv, SentOn, SentDays
<1>6. BlurInv'
  BY <1>1, WindowAssumption DEF DayInv, BlurInv
<1>7. RoomInv'
  <2>1. ASSUME NEW t \in Senders, pc'[t] \in Holding, txDay'[t] < blurred'
        PROVE  t = s /\ txDay[s] = day
    <3>1. t = s
      BY <2>1, NoneAssumption DEF IInv, TypeOK, DayInv, HoldInv
    <3>2. txDay[s] < blurred'
      BY <2>1, <3>1
    <3>3. txDay[s] <= day
      BY DEF DayInv, BlurInv
    <3>. QED  BY <1>1, <3>1, <3>2, <3>3
  <2>2. Room(day)
    BY <1>1, <1>2 DEF DayInv, CounterInv, MaySend, Room, SentToday, CompletedDays
  <2>. QED  BY <2>1, <2>2 DEF RoomInv, Room, Cap
<1>. QED  BY <1>3, <1>4, <1>5, <1>6, <1>7 DEF DayInv

\* What is recorded for a day that is not blurred was sent within the limit.
LEMMA RecordInDay ==
  ASSUME IInv, IInv', DayInv, NEW s \in Senders, Record(s)
  PROVE  DayInv'
<1>0. PICK t \in Days, m \in Mails : t = txDay[s] /\ m = cur[s]
  BY DEF Record, IInv, TypeOK, CurInv, Working
<1>1. /\ day \in Nat /\ day <= MaxDay /\ blurred \in Nat /\ blurred <= MaxDay + 1
      /\ t \in Nat /\ t <= day
      /\ counter \in Counter /\ counter.sent \in Nat /\ counter.days \in Nat
      /\ counter.last # None => counter.last \in Nat
  BY <1>0, WindowAssumption DEF IInv, TypeOK, Days, Counter, DayInv, BlurInv
<1>2. /\ pc[s] = "accepted" /\ mail[m] = "sending" /\ acctLock = s
      /\ sentOn[m] = None
  BY <1>0 DEF Record, IInv, CurInv, Working, DayInv, HoldInv, Holding, RecordInv
<1>3. /\ sentOn' = [sentOn EXCEPT ![m] = t] /\ mail' = [mail EXCEPT ![m] = "sent"]
      /\ counter' = [sent |-> IF counter.on = t THEN counter.sent + 1 ELSE 1, on |-> t,
                     days |-> IF counter.last = t THEN counter.days ELSE counter.days + 1,
                     last |-> t]
      /\ UNCHANGED <<day, blurred>> /\ acctLock' = None
      /\ \A u \in Senders \ {s} : pc'[u] = pc[u] /\ txDay'[u] = txDay[u]
      /\ pc'[s] \in {"idle", "next"} /\ txDay'[s] = 0
  BY <1>0, <1>2 DEF Record, Count, SetMail, Free, Continue, Goto, Forget, history, IInv, TypeOK
<1>4. \A x \in Mails : sentOn'[x] = IF x = m THEN t ELSE sentOn[x]
  BY <1>3 DEF IInv, TypeOK
<1>12. None \notin Days /\ \A d \in Days : d \in Nat
  BY DayAssumption DEF Days
<1>13. m \notin SentOn(t) /\ SentOn(t)' = SentOn(t) \cup {m}
  BY <1>2, <1>4, <1>12 DEF SentOn
<1>14. ASSUME NEW d \in Days, d # t PROVE SentOn(d)' = SentOn(d)
  BY <1>2, <1>4, <1>12, <1>14 DEF SentOn
<1>5. IsFiniteSet(SentOn(t)) /\ IsFiniteSet(SentOn(t)') /\ Cardinality(SentOn(t)) \in Nat
      /\ Cardinality(SentOn(t)') = Cardinality(SentOn(t)) + 1
  BY <1>13, FS_AddElement, FS_CardinalityType DEF DayInv, RecordInv
<1>6. HoldInv' /\ RoomInv'
  <2>1. \A u \in Senders : pc'[u] \notin Holding
    BY <1>2, <1>3 DEF DayInv, HoldInv, Holding
  <2>. QED  BY <2>1 DEF HoldInv, RoomInv
<1>7. RecordInv'
  <2>1. \A d \in Days : IsFiniteSet(SentOn(d)')
    BY <1>5, <1>14 DEF DayInv, RecordInv
  <2>2. \A x \in Mails : sentOn'[x] # None => mail'[x] = "sent" /\ sentOn'[x] <= day
    BY <1>1, <1>2, <1>3 DEF DayInv, RecordInv, IInv, TypeOK
  <2>. QED  BY <1>3, <2>1, <2>2 DEF RecordInv, SentOn
<1>8. BlurInv'
  BY <1>1, <1>3 DEF DayInv, BlurInv
\* The days before t, when the counter is right.
<1>9. ASSUME t < blurred
      PROVE  /\ CounterInv' /\ Cardinality(SentOn(t)') <= Cap(Cardinality(Before(t)'))
             /\ \A d \in Days : d > t => SentOn(d) = {}
  <2>1. Room(t) /\ (counter.last = None \/ counter.last <= t)
    BY <1>0, <1>2, <1>9 DEF DayInv, RoomInv, Room, Holding
  <2>2. Before(t)' = Before(t) /\ IsFiniteSet(Before(t)) /\ Cardinality(Before(t)) \in Nat
    <3>1. \A n \in 0..(t - 1) : n \in Days /\ n # t
      BY <1>1, WindowAssumption DEF Days
    <3>2. IsFiniteSet(0..(t - 1))
      BY <1>1, FS_Interval
    <3>3. Before(t)' = Before(t) /\ Before(t) \subseteq 0..(t - 1)
      BY <3>1, <1>14 DEF Before
    <3>. QED  BY <3>2, <3>3, FS_Subset, FS_CardinalityType
  <2>3. SentDays(t)' = Before(t) \cup {t} /\ t \notin Before(t)
    BY <1>1, <1>13, <2>2 DEF SentDays, Before
  <2>4. Cardinality(SentDays(t)') = Cardinality(Before(t)) + 1
    BY <2>2, <2>3, FS_AddElement
  \* Today's mails and the days before, as the counter has them.
  <2>5. /\ Cardinality(SentOn(t)) = (IF counter.on = t THEN counter.sent ELSE 0)
        /\ Cardinality(Before(t)) = (IF counter.last = t THEN counter.days - 1 ELSE counter.days)
        /\ counter.last = t => counter.days > 0
        /\ \A d \in Days : d > t => SentOn(d) = {}
    <3>1. CASE counter.last = None
      <4>1. \A d \in Days : SentOn(d) = {}
        BY <3>1, <1>12 DEF DayInv, CounterInv, SentOn
      <4>2. \A n \in 0..(t - 1) : n \in Days
        BY <1>1, WindowAssumption DEF Days
      <4>3. Before(t) = {} /\ SentOn(t) = {}
        BY <4>1, <4>2 DEF Before
      <4>4. counter.sent = 0 /\ counter.days = 0 /\ counter.last # t
        BY <3>1, <1>12 DEF DayInv, CounterInv
      <4>. QED  BY <4>1, <4>3, <4>4, FS_EmptySet
    <3>2. CASE counter.last = t
      <4>1. /\ counter.on = t /\ counter.sent = Cardinality(SentOn(t)) /\ counter.sent > 0
            /\ counter.days = Cardinality(SentDays(t))
            /\ \A x \in Mails : sentOn[x] # None => sentOn[x] <= t
        BY <3>2, <1>9, <1>12 DEF DayInv, CounterInv
      <4>2. SentOn(t) # {}
        BY <4>1, FS_EmptySet
      <4>3. SentDays(t) = Before(t) \cup {t}
        BY <4>2, <1>1 DEF SentDays, Before
      <4>4. Cardinality(SentDays(t)) = Cardinality(Before(t)) + 1
        BY <4>3, <2>2, <2>3, FS_AddElement
      <4>5. \A d \in Days : d > t => SentOn(d) = {}
        BY <4>1, <1>1, <1>12 DEF SentOn
      <4>. QED  BY <3>2, <4>1, <4>4, <4>5, <2>2
    <3>3. CASE counter.last # None /\ counter.last < t
      <4>1. counter.last \in Nat /\ counter.last < blurred
        BY <3>3, <1>1, <1>9
      <4>2. /\ counter.on = counter.last /\ counter.days = Cardinality(SentDays(counter.last))
            /\ \A x \in Mails : sentOn[x] # None => sentOn[x] <= counter.last
        BY <3>3, <4>1 DEF DayInv, CounterInv
      <4>3. \A d \in Days : d > counter.last => SentOn(d) = {}
        BY <4>1, <4>2, <1>12 DEF SentOn
      <4>4. \A n \in 0..(t - 1) : n \in Days
        BY <1>1, WindowAssumption DEF Days
      <4>5. Before(t) = SentDays(counter.last)
        BY <4>1, <4>3, <4>4, <3>3, <1>1, <1>12 DEF Before, SentDays
      <4>6. SentOn(t) = {} /\ counter.last # t /\ counter.on # t
        BY <4>1, <4>2, <4>3, <3>3, <1>1
      <4>7. \A d \in Days : d > t => SentOn(d) = {}
        BY <4>1, <4>3, <3>3, <1>1, <1>12
      <4>. QED  BY <4>2, <4>5, <4>6, <4>7, FS_EmptySet
    <3>. QED  BY <1>1, <2>1, <3>1, <3>2, <3>3
  <2>6. Cardinality(SentOn(t)') <= Cap(Cardinality(Before(t)))
    BY <2>1, <2>2, <2>5, <1>1, <1>5, CapIsNat DEF Room
  <2>7. \A x \in Mails : sentOn'[x] # None => sentOn'[x] <= t
    <3>1. ASSUME NEW x \in Mails, sentOn[x] # None PROVE sentOn[x] \in Nat /\ ~(sentOn[x] > t)
      BY <3>1, <1>12, <2>5 DEF SentOn, IInv, TypeOK
    <3>. QED  BY <3>1, <1>1, <1>4
  <2>8. /\ counter'.on = t /\ counter'.last = t
        /\ counter'.sent = Cardinality(SentOn(t)')
        /\ counter'.days = Cardinality(SentDays(t)')
        /\ counter'.sent > 0
    <3>1. counter'.on = t /\ counter'.last = t
      BY <1>3
    <3>2. counter'.sent = Cardinality(SentOn(t)) + 1
      <4>1. counter'.sent = IF counter.on = t THEN counter.sent + 1 ELSE 1
        BY <1>3
      <4>. QED  BY <4>1, <2>5
    <3>3. counter'.days = Cardinality(Before(t)) + 1
      <4>1. counter'.days = IF counter.last = t THEN counter.days ELSE counter.days + 1
        BY <1>3
      <4>. QED  BY <4>1, <1>1, <2>5
    <3>. QED  BY <3>1, <3>2, <3>3, <1>5, <2>4
  <2>9. CounterInv'
    BY <1>1, <1>3, <1>5, <1>12, <2>7, <2>8 DEF CounterInv
  <2>. QED  BY <2>2, <2>5, <2>6, <2>9
<1>10. CounterInv'
  <2>1. CASE t < blurred
    BY <2>1, <1>9
  <2>2. CASE ~(t < blurred)
    BY <2>2, <1>1, <1>3, <1>12 DEF CounterInv
  <2>. QED  BY <2>1, <2>2
<1>11. DailyLimit'
  <2>1. ASSUME t < blurred PROVE Within(t)'
    BY <2>1, <1>9 DEF Within, Cap
  <2>2. ASSUME NEW d \in 0..(blurred' - 1) \cap Days PROVE Within(d)'
    <3>1. d \in Days /\ d < blurred /\ d \in Nat
      BY <2>2, <1>1, <1>3, <1>12
    <3>2. CASE d = t
      BY <3>1, <3>2, <2>1 DEF Within, Before, SentOn, Cap
    <3>3. CASE d < t
      <4>1. \A n \in 0..d : n \in Days /\ n # t
        BY <3>3, <1>1, WindowAssumption DEF Days
      <4>2. \A n \in 0..d : SentOn(n)' = SentOn(n)
        BY <4>1, <1>14
      <4>3. SentOn(d)' = SentOn(d) /\ Before(d)' = Before(d)
        BY <4>2 DEF Days, Before
      <4>4. Within(d)
        BY <3>1, <1>1, <1>12 DEF DayInv, DailyLimit, Within, Before
      <4>. QED  BY <4>3, <4>4 DEF Within, Cap
    <3>4. CASE d > t
      <4>1. SentOn(d)' = {}
        BY <3>1, <3>4, <1>1, <1>9, <1>14
      <4>2. Cardinality(Before(d)') \in Nat
        <5>1. IsFiniteSet(0..(d - 1)) /\ Before(d)' \subseteq 0..(d - 1)
          BY FS_Interval DEF Days, Before
        <5>. QED  BY <5>1, FS_Subset, FS_CardinalityType
      <4>3. Cap(Cardinality(Before(d)')) \in Nat
        BY <4>2, CapIsNat
      <4>. QED  BY <4>1, <4>3, FS_EmptySet DEF Within, Cap
    <3>5. d = t \/ d < t \/ d > t
      BY <1>1, <3>1
    <3>. QED  BY <3>2, <3>3, <3>4, <3>5
  <2>. QED  BY <2>2 DEF DailyLimit, Within, Before, SentOn, Cap
<1>. QED  BY <1>6, <1>7, <1>8, <1>10, <1>11 DEF DayInv

\* What a mail that was sent keeps.
LEMMA AnswerInDay ==
  ASSUME IInv, IInv', DayInv, NEW m \in Mails, Accept(m) \/ Refuse(m)
  PROVE  DayInv'
<1>1. UNCHANGED <<day, mail, sentOn, counter, blurred, txDay>>
  BY DEF Accept, Refuse, tables, account, history
<1>2. ASSUME NEW s \in Senders, pc'[s] \in Holding
      PROVE  pc[s] \in Holding /\ acctLock' = s
  <2>1. pc[s] \in Holding
    BY <1>2 DEF Accept, Refuse, Answer, Holding
  <2>2. acctLock = s
    BY <2>1 DEF DayInv, HoldInv
  <2>3. CASE Accept(m)
    BY <2>1, <2>2, <2>3 DEF Accept, Answer
  <2>4. CASE Refuse(m)
    <3>1. cur[s] # m
      <4>1. ASSUME cur[s] = m PROVE FALSE
        <5>1. mailed[m] = 0 /\ m \in posts
          BY <2>4 DEF Refuse, IInv, SentInv
        <5>2. pc[s] = "posted"
          BY <4>1, <5>1, <2>1 DEF Holding, IInv, SentInv, Unsent
        <5>3. pc'[s] = "failing"
          BY <4>1, <5>2, <2>4 DEF Refuse, Answer
        <5>. QED  BY <5>3, <1>2 DEF Holding
      <4>. QED  BY <4>1
    <3>. QED  BY <3>1, <2>1, <2>2, <2>4 DEF Refuse, Answer
  <2>. QED  BY <2>1, <2>3, <2>4
<1>3. \A s \in Senders : txDay'[s] <= day'
  BY <1>1 DEF DayInv, BlurInv
<1>. QED  BY <1>1, <1>2, <1>3, QuietKeeps, WindowAssumption DEF IInv, TypeOK, Days

\* A sender's other steps: it holds the account before the step if it does so after.
LEMMA SenderInDay ==
  ASSUME IInv, IInv', DayInv, NEW s \in Senders, SenderNext(s)
  PROVE  DayInv'
<1>1. day \in Nat
  BY WindowAssumption DEF IInv, TypeOK, Days
<1>2. ASSUME UNCHANGED <<day, sentOn, counter, blurred>>,
             \A m \in Mails : mail[m] = "sent" => mail'[m] = "sent",
             txDay'[s] \in {0, day, txDay[s]},
             \A t \in Senders \ {s} : txDay'[t] = txDay[t] /\ pc'[t] = pc[t],
             acctLock' = acctLock \/ acctLock' = Free(acctLock, s),
             pc'[s] \in Holding =>
               pc[s] \in Holding /\ txDay'[s] = txDay[s] /\ acctLock' = acctLock
      PROVE  DayInv'
  <2>1. \A t \in Senders : txDay'[t] <= day'
    BY <1>1, <1>2 DEF DayInv, BlurInv
  <2>2. \A t \in Senders : pc'[t] \in Holding =>
          pc[t] \in Holding /\ txDay'[t] = txDay[t] /\ acctLock' = t
    BY <1>2 DEF DayInv, HoldInv, Free
  <2>. QED  BY <1>1, <1>2, <2>1, <2>2, QuietKeeps
<1>3. ASSUME NEW b \in Batches, Deliver(s, b) PROVE DayInv'
  BY <1>2, <1>3 DEF Deliver, Goto, tables, account, history, Holding, IInv, TypeOK
<1>4. ASSUME NEW r \in Recipients, SkipTaken(s, r) PROVE DayInv'
  BY <1>2, <1>4 DEF SkipTaken, Continue, Forget, Goto, tables, account, history, Holding, IInv, TypeOK
<1>5. ASSUME NEW r \in Recipients, Block(s, r) PROVE DayInv'
  BY <1>2, <1>5 DEF Block, SetMail, Continue, Forget, Goto, account, history, Holding, IInv, TypeOK
<1>6. ASSUME NEW r \in Recipients, Inspect(s, r) PROVE DayInv'
  BY <1>2, <1>6 DEF Inspect, Fit, Goto, tables, account, Holding, IInv, TypeOK
<1>7. ASSUME NEW m \in Replies, TakeReply(s, m) PROVE DayInv'
  BY <1>2, <1>7 DEF TakeReply, SetMail, Goto, account, history, Holding, IInv, TypeOK
<1>8. CASE Take(s)
  BY <1>2, <1>8 DEF Take, SetMail, Goto, account, history, Holding, IInv, TypeOK, CurInv
<1>9. CASE BeginSend(s)
  BY <1>2, <1>9 DEF BeginSend, Goto, tables, account, history, Holding, IInv, TypeOK
<1>10. CASE Postpone(s)
  BY <1>2, <1>10 DEF Postpone, SetMail, Stop, Forget, Goto, account, history, Holding, IInv, TypeOK,
                     CurInv, Working
<1>11. CASE RefreshFails(s)
  BY <1>2, <1>11 DEF RefreshFails, FailSend, Goto, tables, account, history, Holding, IInv, TypeOK
<1>12. CASE Post(s)
  BY <1>2, <1>12 DEF Post, Goto, tables, account, history, Holding, IInv, TypeOK
<1>13. CASE NoAnswer(s)
  BY <1>2, <1>13 DEF NoAnswer, FailSend, Goto, tables, account, history, Holding, IInv, TypeOK
<1>14. CASE Pause(s)
  BY <1>2, <1>14 DEF Pause, Goto, tables, history, Holding, IInv, TypeOK
<1>15. CASE Review(s)
  BY <1>2, <1>15 DEF Review, SetMail, Stop, Forget, Goto, account, history, Holding, IInv, TypeOK,
                     CurInv, Working
<1>16. CASE Crash(s)
  BY <1>2, <1>16 DEF Crash, Stop, Forget, Goto, tables, account, history, Holding, IInv, TypeOK
<1>. QED  BY <1>3, <1>4, <1>5, <1>6, <1>7, <1>8, <1>9, <1>10, <1>11, <1>12, <1>13, <1>14, <1>15,
             <1>16, LockAccountInDay, RecordInDay DEF SenderNext

LEMMA DayStep == IInv /\ IInv' /\ DayInv /\ [Next]_vars => DayInv'
<1>. SUFFICES ASSUME IInv, IInv', DayInv, [Next]_vars PROVE DayInv'
  OBVIOUS
<1>1. day \in Nat
  BY WindowAssumption DEF IInv, TypeOK, Days
\* Steps in which no sender takes part.
<1>2. ASSUME UNCHANGED <<sentOn, counter, blurred, senders>>, day' \in {day, day + 1},
             \A m \in Mails : mail[m] = "sent" => mail'[m] = "sent"
      PROVE  DayInv'
  <2>1. \A t \in Senders : txDay[t] \in Nat /\ txDay[t] <= day
    BY WindowAssumption DEF DayInv, BlurInv, IInv, TypeOK, Days
  <2>2. day <= day' /\ \A t \in Senders : txDay'[t] <= day'
    BY <1>1, <1>2, <2>1 DEF senders
  <2>3. \A t \in Senders : pc'[t] \in Holding =>
          pc[t] \in Holding /\ txDay'[t] = txDay[t] /\ acctLock' = t
    BY <1>2 DEF DayInv, HoldInv, senders
  <2>. QED  BY <1>2, <2>2, <2>3, QuietKeeps
<1>3. CASE NextDay
  BY <1>2, <1>3 DEF NextDay, tables, account, history
<1>4. ASSUME NEW b \in Batches, CancelBatch(b) \/ Approve(b) PROVE DayInv'
  BY <1>2, <1>4 DEF CancelBatch, Approve, account, history
<1>5. ASSUME NEW b \in Batches, NEW es \in SUBSET Emails, CreateBatch(b, es) PROVE DayInv'
  <2>1. \A m \in Mails : mail[m] = "sent" => m \notin {b} \X es
    BY <1>5 DEF CreateBatch, IInv, BatchInv
  <2>. QED  BY <1>2, <1>5, <2>1 DEF CreateBatch, account, history
<1>6. ASSUME NEW m \in Replies, WriteReply(m) PROVE DayInv'
  BY <1>2, <1>6 DEF WriteReply, account, history, IInv, TypeOK, Mails
<1>7. ASSUME NEW e \in Emails, Unsubscribe(e) PROVE DayInv'
  BY <1>2, <1>7 DEF Unsubscribe, account
<1>8. ASSUME NEW c, NEW p, SetAccount(c, p) PROVE DayInv'
  BY <1>2, <1>8 DEF SetAccount, tables, history
<1>9. CASE UNCHANGED vars
  BY <1>2, <1>9 DEF vars, tables, account, history
<1>10. ASSUME Connect \/ Disconnect \/ \E p \in BOOLEAN : SendingControl(p) PROVE DayInv'
  BY <1>8, <1>10 DEF Connect, Disconnect, SendingControl
<1>. QED  BY <1>3, <1>4, <1>5, <1>6, <1>7, <1>9, <1>10, SenderInDay, AnswerInDay DEF Next

\* DailyLimit, for any warm-up plan: a day's mails are counted from the rows and the limit
\* from the counters of the account, which are read when its row is locked and written
\* with the outcome; the two agree on every day whose midnight no sender passed waiting
\* for the account, with any number of senders, lost answers and crashes.
THEOREM LimitIsKept == Spec => []DailyLimit
<1>1. DayInv => DailyLimit
  BY DEF DayInv
<1>. QED  BY <1>1, InitInv, FirstDay, StepKeeps, DayStep, PTL DEF Spec
===============================================================================
