------------------------------ MODULE Settlement ------------------------------
(***************************************************************************)
(* Settlement of the monthly sign-up invoices (routes_payments.py) through *)
(* the payment gateway NICEpay, called PG below.  Money is captured in two *)
(* ways, by the brand in a payment window (checkout, /payments/return) and *)
(* by the runner from a registered card (autocharge_tick); the outcome is  *)
(* confirmed by the answer to the capture itself, by PG webhooks, by the   *)
(* reconcile route and by the runner's reconcile tick.  They all run       *)
(* concurrently and meet only in the rows of the database and at the PG.   *)
(*                                                                         *)
(* One database transaction is one step.  A call to the PG is a step of    *)
(* its own between two transactions: the request may be processed late,    *)
(* and its answer may be lost or be stale when it is used.                 *)
(***************************************************************************)
EXTENDS Naturals, FiniteSets

CONSTANTS
  Invoices,   \* invoice ids; the PG's orderId is the invoice id
  Tids,       \* transaction ids the PG may hand out
  Workers,    \* processes that run autocharge_tick
  None,       \* SQL NULL
  MaxJobs     \* bound: requests in progress in the API at one time

ASSUME NoneAssumption == None \notin Tids /\ None \notin Invoices
ASSUME MaxJobsAssumption == MaxJobs \in Nat

VARIABLES
  status,     \* signup_invoices.status
  tid,        \* signup_invoices.tid
  cancelled,  \* signup_invoices.cancel_reported_at IS NOT NULL
  attempt,    \* invoice_charge_attempts.outcome, "none" when there is no row
  ledger,     \* how often each event was appended for each invoice
  pgState,    \* the PG's transactions
  pgOrder,    \* the invoice a transaction was created for
  approvals,  \* POST approvals the PG has received and not processed
  charges,    \* card charges the PG has received and not processed
  jobs,       \* requests in progress: a PG answer is held, or awaited
  wpc, winv, wtid   \* autocharge workers: step, invoice, answered tid

rows   == <<status, tid, cancelled, attempt, ledger>>
pgvars == <<pgState, pgOrder, approvals, charges>>
wvars  == <<wpc, winv, wtid>>
vars   == <<rows, pgvars, jobs, wvars>>

Statuses == {"open", "processing", "review", "paid"}
Outcomes == {"none", "pending", "paid", "failed", "review"}
Events   == {"INVOICE_PAID", "INVOICE_CANCEL_REPORTED", "INVOICE_AUTOCHARGE_REVIEW"}
PgStates == {"unused", "ready", "paid", "cancelled", "failed"}
Steps    == {"idle", "scanned", "locked", "claimed", "charging", "answered",
             "bound", "settled", "failing", "holding"}

\* A request in progress.  The answer it acts on is a copy of the PG's state at
\* the time of the lookup; hasAttempt is what reconcile read of the attempt row.
Job ==
  [by : {"return", "webhook", "reconcile", "tick"},
   step : {"approve", "await", "get", "bind", "settle", "mark"},
   inv : Invoices, tid : Tids, data : PgStates, hasAttempt : BOOLEAN]
  \cup
  [by : {"reconcile"}, step : {"find"}, inv : Invoices, tid : {None},
   data : {"unused"}, hasAttempt : {TRUE}]

TypeOK ==
  /\ status \in [Invoices -> Statuses]
  /\ tid \in [Invoices -> Tids \cup {None}]
  /\ cancelled \in [Invoices -> BOOLEAN]
  /\ attempt \in [Invoices -> Outcomes]
  /\ ledger \in [Invoices -> [Events -> Nat]]
  /\ pgState \in [Tids -> PgStates]
  /\ pgOrder \in [Tids -> Invoices \cup {None}]
  /\ approvals \subseteq Tids
  /\ charges \subseteq Invoices
  /\ jobs \subseteq Job
  /\ wpc \in [Workers -> Steps]
  /\ winv \in [Workers -> Invoices \cup {None}]
  /\ wtid \in [Workers -> Tids \cup {None}]
  /\ \A w \in Workers : wpc[w] = "idle" <=> winv[w] = None

Init ==
  /\ status = [i \in Invoices |-> "open"]
  /\ tid = [i \in Invoices |-> None]
  /\ cancelled = [i \in Invoices |-> FALSE]
  /\ attempt = [i \in Invoices |-> "none"]
  /\ ledger = [i \in Invoices |-> [e \in Events |-> 0]]
  /\ pgState = [t \in Tids |-> "unused"]
  /\ pgOrder = [t \in Tids |-> None]
  /\ approvals = {}
  /\ charges = {}
  /\ jobs = {}
  /\ wpc = [w \in Workers |-> "idle"]
  /\ winv = [w \in Workers |-> None]
  /\ wtid = [w \in Workers |-> None]

-------------------------------------------------------------------------------
(* settle and _bind_verified_tid, one transaction each *)

Log(i, e) == ledger' = [ledger EXCEPT ![i][e] = @ + 1]

\* nicepay.payment_valid and nicepay.cancellation_reported: signed data about
\* exactly this transaction and order.
PaymentValid(i, t, d) == d = "paid" /\ pgOrder[t] = i
CancellationReported(i, t, d) == d = "cancelled" /\ pgOrder[t] = i

\* Mutant: a late approval confirms an invoice whose cancellation is recorded.
Confirms_AfterCancel(i, t, d) == tid[i] = t /\ PaymentValid(i, t, d)

\* settle returns True exactly here.
Confirms(i, t, d) == tid[i] = t /\ PaymentValid(i, t, d) /\ ~cancelled[i]

\* Mutant: every confirmation writes the ledger.
SettlePaid_LogsAlways(i, t, d) ==
  /\ Confirms(i, t, d)
  /\ status' = [status EXCEPT ![i] = "paid"]
  /\ Log(i, "INVOICE_PAID")
  /\ UNCHANGED cancelled

SettlePaid(i, t, d) ==
  /\ Confirms(i, t, d)
  /\ status' = [status EXCEPT ![i] = "paid"]
  /\ IF status[i] = "paid" THEN UNCHANGED ledger ELSE Log(i, "INVOICE_PAID")
  /\ UNCHANGED cancelled

SettleCancelled(i, t, d) ==
  /\ tid[i] = t /\ CancellationReported(i, t, d) /\ ~cancelled[i]
  /\ status' = [status EXCEPT ![i] = "review"]
  /\ cancelled' = [cancelled EXCEPT ![i] = TRUE]
  /\ Log(i, "INVOICE_CANCEL_REPORTED")

SettleUnverified(i, t, d) ==
  /\ tid[i] = t /\ ~PaymentValid(i, t, d) /\ ~CancellationReported(i, t, d)
  /\ status' = [status EXCEPT ![i] = IF @ = "paid" THEN @ ELSE "review"]
  /\ UNCHANGED <<cancelled, ledger>>

\* Another tid is recorded, or a signed cancellation came first.
SettleRefused(i, t, d) ==
  /\ \/ tid[i] # t
     \/ cancelled[i] /\ (PaymentValid(i, t, d) \/ CancellationReported(i, t, d))
  /\ UNCHANGED <<status, cancelled, ledger>>

Settle(i, t, d) ==
  SettlePaid(i, t, d) \/ SettleCancelled(i, t, d)
    \/ SettleUnverified(i, t, d) \/ SettleRefused(i, t, d)

\* _bind_verified_tid returns the tid exactly when CanBind holds.
CanBind(i, t, d) ==
  /\ PaymentValid(i, t, d) \/ CancellationReported(i, t, d)
  /\ tid[i] = t \/ (tid[i] = None /\ status[i] \in {"processing", "review"})

Bind(i, t) == tid' = [tid EXCEPT ![i] = t]

-------------------------------------------------------------------------------
(* Payment window: checkout, /payments/return *)

Room == Cardinality(jobs) < MaxJobs

NewJob(by, step, i, t, att) ==
  [by |-> by, step |-> step, inv |-> i, tid |-> t, data |-> "unused", hasAttempt |-> att]

\* checkout: the browser opens a window at the PG for an invoice that is open now.
\* The customer authenticates in it and returns any time later, or never.
Checkout(i, t) ==
  /\ status[i] = "open"
  /\ pgState[t] = "unused"
  /\ pgState' = [pgState EXCEPT ![t] = "ready"]
  /\ pgOrder' = [pgOrder EXCEPT ![t] = i]
  /\ UNCHANGED <<rows, approvals, charges, jobs, wvars>>

\* Mutant: a return claims any invoice that is not paid yet.
PaymentReturn_Unpaid(i, t) ==
  /\ Room
  /\ pgState[t] = "ready" /\ pgOrder[t] = i
  /\ status[i] # "paid"
  /\ status' = [status EXCEPT ![i] = "processing"]
  /\ Bind(i, t)
  /\ jobs' = jobs \cup {NewJob("return", "approve", i, t, FALSE)}
  /\ UNCHANGED <<cancelled, attempt, ledger, pgvars, wvars>>

\* Mutant: the tid is recorded with the answer, not before the capture is asked for.
PaymentReturn_NoTid(i, t) ==
  /\ Room
  /\ pgState[t] = "ready" /\ pgOrder[t] = i
  /\ status[i] = "open"
  /\ status' = [status EXCEPT ![i] = "processing"]
  /\ jobs' = jobs \cup {NewJob("return", "approve", i, t, FALSE)}
  /\ UNCHANGED <<tid, cancelled, attempt, ledger, pgvars, wvars>>

\* First transaction of payment_return.  A return for an invoice that is no
\* longer open changes nothing.
PaymentReturn(i, t) ==
  /\ Room
  /\ pgState[t] = "ready" /\ pgOrder[t] = i
  /\ status[i] = "open"
  /\ status' = [status EXCEPT ![i] = "processing"]
  /\ Bind(i, t)
  /\ jobs' = jobs \cup {NewJob("return", "approve", i, t, FALSE)}
  /\ UNCHANGED <<cancelled, attempt, ledger, pgvars, wvars>>

\* GET has confirmed the order, POST asks for the capture.
Approve(j) ==
  /\ j.step = "approve"
  /\ pgOrder[j.tid] = j.inv
  /\ approvals' = approvals \cup {j.tid}
  /\ jobs' = (jobs \ {j}) \cup {[j EXCEPT !.step = "await"]}
  /\ UNCHANGED <<rows, pgState, pgOrder, charges, wvars>>

-------------------------------------------------------------------------------
(* Requests that look a transaction up and settle it *)

\* A signed webhook; the PG repeats and delays them at will.
Webhook(i, t) ==
  /\ Room
  /\ pgState[t] \in {"paid", "cancelled", "failed"} /\ pgOrder[t] = i
  /\ jobs' = jobs \cup {NewJob("webhook", "get", i, t, FALSE)}
  /\ UNCHANGED <<rows, pgvars, wvars>>

\* reconcile reads the invoice and its attempt: it will GET the recorded tid, or
\* find the transaction by order id if there is an attempt without one.
Reconcile(i) ==
  /\ Room
  /\ tid[i] # None \/ attempt[i] # "none"
  /\ jobs' = jobs \cup {NewJob("reconcile", IF tid[i] = None THEN "find" ELSE "get",
                                i, tid[i], attempt[i] # "none")}
  /\ UNCHANGED <<rows, pgvars, wvars>>

\* Mutant: the tick looks after card charges only.
ReconcileTick_CardOnly(i) ==
  /\ \A j \in jobs : j.by = "tick" => j.inv # i
  /\ status[i] = "processing" /\ tid[i] # None /\ attempt[i] # "none"
  /\ jobs' = jobs \cup {NewJob("tick", "get", i, tid[i], FALSE)}
  /\ UNCHANGED <<rows, pgvars, wvars>>

\* The runner's _reconcile_tick only selects rows that have a tid.
ReconcileTick(i) ==
  /\ \A j \in jobs : j.by = "tick" => j.inv # i
  /\ status[i] = "processing" /\ tid[i] # None
  /\ jobs' = jobs \cup {NewJob("tick", "get", i, tid[i], FALSE)}
  /\ UNCHANGED <<rows, pgvars, wvars>>

\* GET /v1/payments/{tid}: a snapshot of the PG's state.
Get(j) ==
  /\ j.step = "get"
  /\ jobs' = (jobs \ {j}) \cup {[j EXCEPT !.step = "settle", !.data = pgState[j.tid]]}
  /\ UNCHANGED <<rows, pgvars, wvars>>

\* GET /v1/payments/find/{orderId}: some transaction of this order.
Find(j, t) ==
  /\ j.step = "find" /\ pgOrder[t] = j.inv
  /\ jobs' = (jobs \ {j}) \cup {[j EXCEPT !.step = "bind", !.tid = t, !.data = pgState[t]]}
  /\ UNCHANGED <<rows, pgvars, wvars>>

BindJob(j) ==
  /\ j.step = "bind"
  /\ IF CanBind(j.inv, j.tid, j.data)
       THEN /\ Bind(j.inv, j.tid)
            /\ jobs' = (jobs \ {j}) \cup {[j EXCEPT !.step = "settle"]}
       ELSE /\ jobs' = jobs \ {j}
            /\ UNCHANGED tid
  /\ UNCHANGED <<status, cancelled, attempt, ledger, pgvars, wvars>>

\* settle; reconcile goes on to its attempt row when it returned True.
SettleJob(j) ==
  /\ j.step = "settle"
  /\ Settle(j.inv, j.tid, j.data)
  /\ jobs' = (jobs \ {j}) \cup
       {k \in {[j EXCEPT !.step = "mark"]} :
          j.by = "reconcile" /\ j.hasAttempt /\ Confirms(j.inv, j.tid, j.data)}
  /\ UNCHANGED <<tid, attempt, pgvars, wvars>>

MarkAttempt(j) ==
  /\ j.step = "mark"
  /\ attempt' = [attempt EXCEPT ![j.inv] = "paid"]
  /\ jobs' = jobs \ {j}
  /\ UNCHANGED <<status, tid, cancelled, ledger, pgvars, wvars>>

\* The PG does not answer in time, the process dies, or the transaction aborts
\* (ledger_append loses a race for its sequence number).
DropJob(j) ==
  /\ jobs' = jobs \ {j}
  /\ UNCHANGED <<rows, pgvars, wvars>>

-------------------------------------------------------------------------------
(* autocharge_tick *)

\* The scan; the row may be stale when the worker comes to it.
Scan(w, i) ==
  /\ wpc[w] = "idle"
  /\ status[i] = "open" /\ ~cancelled[i] /\ attempt[i] = "none"
  /\ wpc' = [wpc EXCEPT ![w] = "scanned"]
  /\ winv' = [winv EXCEPT ![w] = i]
  /\ UNCHANGED <<rows, pgvars, jobs, wtid>>

\* The worker is done with this row and has released the card lock.
Done(w) ==
  /\ wpc' = [wpc EXCEPT ![w] = "idle"]
  /\ winv' = [winv EXCEPT ![w] = None]
  /\ wtid' = [wtid EXCEPT ![w] = None]

\* _card_operation, then the card is read again; BillingCard details this step.
TakeCard(w) ==
  /\ wpc[w] = "scanned"
  /\ wpc' = [wpc EXCEPT ![w] = "locked"]
  /\ UNCHANGED <<rows, pgvars, jobs, winv, wtid>>

SkipCard(w) ==
  /\ wpc[w] = "scanned"
  /\ Done(w)
  /\ UNCHANGED <<rows, pgvars, jobs>>

\* Row lock, recheck, INSERT the attempt ON CONFLICT DO NOTHING, 'processing'.
Claimable(i) == status[i] = "open" /\ ~cancelled[i] /\ attempt[i] = "none"

\* Mutant: the claim moves the invoice and records no attempt.
Claim_NoAttempt(w) ==
  /\ wpc[w] = "locked" /\ Claimable(winv[w])
  /\ status' = [status EXCEPT ![winv[w]] = "processing"]
  /\ wpc' = [wpc EXCEPT ![w] = "claimed"]
  /\ UNCHANGED <<attempt, tid, cancelled, ledger, pgvars, jobs, winv, wtid>>

Claim(w) ==
  /\ wpc[w] = "locked" /\ Claimable(winv[w])
  /\ attempt' = [attempt EXCEPT ![winv[w]] = "pending"]
  /\ status' = [status EXCEPT ![winv[w]] = "processing"]
  /\ wpc' = [wpc EXCEPT ![w] = "claimed"]
  /\ UNCHANGED <<tid, cancelled, ledger, pgvars, jobs, winv, wtid>>

Yield(w) ==
  /\ wpc[w] = "locked" /\ ~Claimable(winv[w])
  /\ Done(w)
  /\ UNCHANGED <<rows, pgvars, jobs>>

\* dec_bid: the stored key cannot be decrypted.
CryptoUnavailable(w) ==
  /\ wpc[w] = "claimed"
  /\ wpc' = [wpc EXCEPT ![w] = "failing"]
  /\ UNCHANGED <<rows, pgvars, jobs, winv, wtid>>

SendCharge(w) ==
  /\ wpc[w] = "claimed"
  /\ charges' = charges \cup {winv[w]}
  /\ wpc' = [wpc EXCEPT ![w] = "charging"]
  /\ UNCHANGED <<rows, pgState, pgOrder, approvals, jobs, winv, wtid>>

\* PaymentUnavailable: the request may still be on its way.
ChargeTimeout(w) ==
  /\ wpc[w] = "charging"
  /\ wpc' = [wpc EXCEPT ![w] = "failing"]
  /\ UNCHANGED <<rows, pgvars, jobs, winv, wtid>>

Usable(w) == wtid[w] # None /\ CanBind(winv[w], wtid[w], "paid")

BindCharge(w) ==
  /\ wpc[w] = "answered" /\ Usable(w)
  /\ Bind(winv[w], wtid[w])
  /\ wpc' = [wpc EXCEPT ![w] = "bound"]
  /\ UNCHANGED <<status, cancelled, attempt, ledger, pgvars, jobs, winv, wtid>>

\* Declined, malformed, or another tid is bound already.
NoTid(w) ==
  /\ wpc[w] = "answered" /\ ~Usable(w)
  /\ wpc' = [wpc EXCEPT ![w] = "failing"]
  /\ UNCHANGED <<rows, pgvars, jobs, winv, wtid>>

\* Mutant: the result of settle is ignored.
SettleCharge_IgnoresResult(w) ==
  /\ wpc[w] = "bound"
  /\ Settle(winv[w], wtid[w], "paid")
  /\ wpc' = [wpc EXCEPT ![w] = "settled"]
  /\ UNCHANGED <<tid, attempt, pgvars, jobs, winv, wtid>>

SettleCharge(w) ==
  /\ wpc[w] = "bound"
  /\ Settle(winv[w], wtid[w], "paid")
  /\ wpc' = [wpc EXCEPT ![w] = IF Confirms(winv[w], wtid[w], "paid")
                                 THEN "settled" ELSE "failing"]
  /\ UNCHANGED <<tid, attempt, pgvars, jobs, winv, wtid>>

\* _finish_attempt only writes a pending row.
FinishAttempt(i, outcome) ==
  attempt' = [attempt EXCEPT ![i] = IF @ = "pending" THEN outcome ELSE @]

FinishPaid(w) ==
  /\ wpc[w] = "settled"
  /\ FinishAttempt(winv[w], "paid")
  /\ Done(w)
  /\ UNCHANGED <<status, tid, cancelled, ledger, pgvars, jobs>>

FinishReview(w) ==
  /\ wpc[w] = "failing"
  /\ FinishAttempt(winv[w], "review")
  /\ wpc' = [wpc EXCEPT ![w] = "holding"]
  /\ UNCHANGED <<status, tid, cancelled, ledger, pgvars, jobs, winv, wtid>>

\* Mutant: the invoice is held whatever became of it meanwhile.
HoldInvoice_Always(w) ==
  /\ wpc[w] = "holding"
  /\ status' = [status EXCEPT ![winv[w]] = "review"]
  /\ Log(winv[w], "INVOICE_AUTOCHARGE_REVIEW")
  /\ Done(w)
  /\ UNCHANGED <<tid, cancelled, attempt, pgvars, jobs>>

\* _autocharge_review: processing -> review, and a ledger entry in any case.
HoldInvoice(w) ==
  /\ wpc[w] = "holding"
  /\ status' = [status EXCEPT ![winv[w]] = IF @ = "processing" THEN "review" ELSE @]
  /\ Log(winv[w], "INVOICE_AUTOCHARGE_REVIEW")
  /\ Done(w)
  /\ UNCHANGED <<tid, cancelled, attempt, pgvars, jobs>>

\* The process dies or a transaction of it aborts and the exception ends the
\* tick: nothing is resumed, the card lock is released by the database.
WorkerCrash(w) ==
  /\ wpc[w] # "idle"
  /\ Done(w)
  /\ UNCHANGED <<rows, pgvars, jobs>>

-------------------------------------------------------------------------------
(* The PG (external): it need not refuse a second capture of an order *)

Answer(t, d) ==
  jobs' = {IF j.step = "await" /\ j.tid = t
             THEN [j EXCEPT !.step = "settle", !.data = d] ELSE j : j \in jobs}

PgApprove(t, d) ==
  /\ t \in approvals /\ pgState[t] = "ready"
  /\ approvals' = approvals \ {t}
  /\ pgState' = [pgState EXCEPT ![t] = d]
  /\ Answer(t, d)
  /\ UNCHANGED <<rows, pgOrder, charges, wvars>>

\* The workers that still wait for the charge of i get the answer.
AnswerWorkers(i, t) ==
  /\ wpc' = [w \in Workers |->
       IF wpc[w] = "charging" /\ winv[w] = i THEN "answered" ELSE wpc[w]]
  /\ wtid' = [w \in Workers |->
       IF wpc[w] = "charging" /\ winv[w] = i THEN t ELSE wtid[w]]

\* The charge is captured; the answer may be incomplete (no usable tid).
PgCharge(i, t, answered) ==
  /\ i \in charges /\ pgState[t] = "unused"
  /\ charges' = charges \ {i}
  /\ pgState' = [pgState EXCEPT ![t] = "paid"]
  /\ pgOrder' = [pgOrder EXCEPT ![t] = i]
  /\ AnswerWorkers(i, answered)
  /\ UNCHANGED <<rows, approvals, jobs, winv>>

PgDecline(i) ==
  /\ i \in charges
  /\ charges' = charges \ {i}
  /\ AnswerWorkers(i, None)
  /\ UNCHANGED <<rows, pgState, pgOrder, approvals, jobs, winv>>

\* The merchant or the card company cancels a captured payment at the PG.
PgCancel(t) ==
  /\ pgState[t] = "paid"
  /\ pgState' = [pgState EXCEPT ![t] = "cancelled"]
  /\ UNCHANGED <<rows, pgOrder, approvals, charges, jobs, wvars>>

-------------------------------------------------------------------------------
JobNext(j) ==
  \/ Approve(j) \/ Get(j) \/ BindJob(j) \/ SettleJob(j) \/ MarkAttempt(j) \/ DropJob(j)
  \/ \E t \in Tids : Find(j, t)

WorkerNext(w) ==
  \/ \E i \in Invoices : Scan(w, i)
  \/ TakeCard(w) \/ SkipCard(w) \/ Claim(w) \/ Yield(w)
  \/ CryptoUnavailable(w) \/ SendCharge(w) \/ ChargeTimeout(w)
  \/ BindCharge(w) \/ NoTid(w) \/ SettleCharge(w)
  \/ FinishPaid(w) \/ FinishReview(w) \/ HoldInvoice(w) \/ WorkerCrash(w)

PgNext ==
  \/ \E t \in Tids : \/ PgCancel(t)
                     \/ \E d \in {"paid", "failed"} : PgApprove(t, d)
  \/ \E i \in Invoices : \/ PgDecline(i)
                         \/ \E t \in Tids : \E a \in {t, None} : PgCharge(i, t, a)

Next ==
  \/ \E i \in Invoices, t \in Tids : Checkout(i, t) \/ PaymentReturn(i, t) \/ Webhook(i, t)
  \/ \E i \in Invoices : Reconcile(i) \/ ReconcileTick(i)
  \/ \E j \in jobs : JobNext(j)
  \/ \E w \in Workers : WorkerNext(w)
  \/ PgNext

Spec == Init /\ [][Next]_vars

\* The runner's reconcile tick comes back every 30 minutes; each of its requests
\* ends (answer or timeout), and its lookups and writes do not fail every time.
TickJobs(i) == {j \in jobs : j.by = "tick" /\ j.inv = i}
TickGet(i) == \E j \in TickJobs(i) : Get(j)
TickSettle(i) == \E j \in TickJobs(i) : SettleJob(j)
TickEnds(i) == \E j \in TickJobs(i) : Get(j) \/ SettleJob(j) \/ DropJob(j)

Fairness ==
  /\ \A i \in Invoices : /\ WF_vars(ReconcileTick(i)) /\ WF_vars(TickEnds(i))
                         /\ SF_vars(TickGet(i)) /\ SF_vars(TickSettle(i))
  /\ \A w \in Workers : WF_vars(WorkerNext(w))

FairSpec == Spec /\ Fairness

-------------------------------------------------------------------------------
(* Properties *)

\* The transactions of an invoice in which money has moved.
Captured(i) == {t \in Tids : pgOrder[t] = i /\ pgState[t] \in {"paid", "cancelled"}}

\* However returns, workers and their retries interleave, the money of an invoice
\* is captured at most once: payment_return and autocharge_tick exclude each other
\* by the row they move from 'open' to 'processing', not by the PG's goodwill.
OneCapture == \A i \in Invoices : \A t, u \in Captured(i) : t = u

\* An invoice is 'paid' only for money that was captured for it, under the tid
\* its row records (it may have been returned since).
PaidIsCaptured ==
  \A i \in Invoices : status[i] = "paid" => tid[i] # None /\ tid[i] \in Captured(i)

\* Captured money is never lost: the row records its tid, or it records none and
\* an attempt row lets reconcile find it by order id.  This holds at every point
\* where a process may die.
CapturedIsTraceable ==
  \A i \in Invoices : \A t \in Captured(i) :
    tid[i] = t \/ (tid[i] = None /\ attempt[i] # "none")

\* Once a signed cancellation is recorded, no approval or lookup that was under
\* way, however stale, takes the invoice out of review again.
CancelledStaysInReview == \A i \in Invoices : cancelled[i] => status[i] = "review"

\* Repeated notices and racing confirmations record each event once, and every
\* paid invoice has its ledger entry.
LoggedOnce ==
  \A i \in Invoices :
    /\ \A e \in Events : ledger[i][e] <= 1
    /\ status[i] = "paid" => ledger[i]["INVOICE_PAID"] = 1
    /\ cancelled[i] <=> ledger[i]["INVOICE_CANCEL_REPORTED"] = 1

\* An attempt is shown as 'paid' only if its invoice was confirmed as paid.
PaidAttemptWasConfirmed ==
  \A i \in Invoices : attempt[i] = "paid" => ledger[i]["INVOICE_PAID"] = 1

\* A paid invoice leaves 'paid' only by a cancellation the PG really has, never
\* by a stale, failed or unverified answer.
PaidEndsByCancellation ==
  [][\A i \in Invoices : status[i] = "paid" /\ status'[i] # "paid" =>
       cancelled'[i] /\ pgState[tid[i]] = "cancelled"]_vars

\* The reconcile tick resolves every invoice in 'processing' that has a tid,
\* whichever process died on it.
ProcessingWithTidIsResolved ==
  \A i \in Invoices :
    (status[i] = "processing" /\ tid[i] # None) ~> (status[i] \in {"paid", "review"})

\* The docstring of _reconcile_tick says that invoices left in 'processing' are
\* looked up at the PG and confirmed or held.
ProcessingIsResolved ==
  \A i \in Invoices : status[i] = "processing" ~> status[i] # "processing"

\* Settlement keeps the promise of InvoiceLifecycle.
Phase(s) == CASE s = "open" -> "due" [] s = "processing" -> "paying"
              [] s = "review" -> "held" [] s = "paid" -> "settled"
Money(i) ==
  IF \E t \in Captured(i) : pgState[t] = "paid" THEN "captured"
  ELSE IF Captured(i) # {} THEN "returned" ELSE "none"

Lifecycle == INSTANCE InvoiceLifecycle WITH
  phase <- [i \in Invoices |-> Phase(status[i])],
  money <- [i \in Invoices |-> Money(i)],
  reversed <- cancelled

ImplementsLifecycle == Lifecycle!ASpec
===============================================================================
