--------------------------- MODULE SettlementProofs ---------------------------
(***************************************************************************)
(* The safety of Settlement for any number of invoices, transactions,      *)
(* workers and concurrent requests.                                        *)
(***************************************************************************)
EXTENDS CardBilling, TLAPS

Moved == {"paid", "cancelled"}
PastClaim == {"claimed", "charging", "answered", "bound", "settled", "failing", "holding"}

(* The inductive invariant, one part per place the state lives in. *)

PgInv == \A t \in Tids : pgState[t] = "unused" <=> pgOrder[t] = None

\* A row that is still open has no trace of a payment; a bound tid is one of the
\* invoice's own transactions, and the captured one if a worker claimed the row.
RowInv ==
  \A i \in Invoices :
    /\ status[i] = "open" => tid[i] = None /\ attempt[i] = "none" /\ ~cancelled[i]
    /\ tid[i] # None => pgOrder[tid[i]] = i
    /\ tid[i] # None /\ attempt[i] # "none" => pgState[tid[i]] \in Moved
    /\ cancelled[i] => status[i] = "review" /\ tid[i] # None /\ pgState[tid[i]] = "cancelled"

\* A request may hold a stale answer, but only one the PG has moved on from.
JobOk(j) ==
  /\ j.step # "find" => pgOrder[j.tid] = j.inv
  /\ j.data = "paid" => pgState[j.tid] \in Moved
  /\ j.data = "cancelled" => pgState[j.tid] = "cancelled"
  /\ j.step = "approve" => tid[j.inv] = j.tid /\ attempt[j.inv] = "none"
  /\ j.hasAttempt => attempt[j.inv] # "none"
  /\ j.step = "mark" => j.hasAttempt /\ ledger[j.inv]["INVOICE_PAID"] = 1

JobInv == \A j \in jobs : JobOk(j)

\* An approval on its way belongs to the tid its invoice records, and no worker
\* ever claimed that invoice.
ApprovalOk(t) == pgOrder[t] # None /\ tid[pgOrder[t]] = t /\ attempt[pgOrder[t]] = "none"
ApprovalInv == \A t \in approvals : ApprovalOk(t)

\* A worker has claimed the invoice and no money has moved for it.
Uncharged(i) ==
  /\ attempt[i] # "none" /\ tid[i] = None
  /\ \A t \in Tids : pgOrder[t] = i => pgState[t] \notin Moved

\* A charge on its way is the only source of money for its invoice.
ChargeInv == \A i \in charges : Uncharged(i)

WorkerOk(w) ==
  /\ wpc[w] = "idle" => wtid[w] = None
  /\ wtid[w] # None => pgOrder[wtid[w]] = winv[w] /\ pgState[wtid[w]] \in Moved
  /\ wpc[w] = "bound" => wtid[w] # None
  /\ wpc[w] = "settled" => ledger[winv[w]]["INVOICE_PAID"] = 1
  /\ wpc[w] \in PastClaim =>
       attempt[winv[w]] # "none" /\ ledger[winv[w]]["INVOICE_AUTOCHARGE_REVIEW"] = 0
  /\ wpc[w] = "claimed" => Uncharged(winv[w]) /\ winv[w] \notin charges

WorkerInv == \A w \in Workers : WorkerOk(w)

\* The attempt row admits one worker to an invoice, ever.
OneClaim ==
  \A v, w \in Workers :
    wpc[v] \in PastClaim /\ wpc[w] \in PastClaim /\ winv[v] = winv[w] => v = w

MoneyInv == OneCapture /\ CapturedIsTraceable

LedgerOk(i) ==
  /\ ledger[i]["INVOICE_PAID"] \in {0, 1}
  /\ status[i] = "paid" => ledger[i]["INVOICE_PAID"] = 1
  /\ status[i] # "paid" /\ ~cancelled[i] => ledger[i]["INVOICE_PAID"] = 0
  /\ ledger[i]["INVOICE_CANCEL_REPORTED"] = IF cancelled[i] THEN 1 ELSE 0
  /\ ledger[i]["INVOICE_AUTOCHARGE_REVIEW"] \in {0, 1}
  /\ attempt[i] = "none" => ledger[i]["INVOICE_AUTOCHARGE_REVIEW"] = 0
  /\ attempt[i] = "paid" => ledger[i]["INVOICE_PAID"] = 1
  /\ status[i] = "paid" => tid[i] # None /\ pgState[tid[i]] \in Moved

LedgerInv == \A i \in Invoices : LedgerOk(i)

IInv == PgInv /\ RowInv /\ JobInv /\ ApprovalInv /\ ChargeInv /\ WorkerInv
          /\ OneClaim /\ MoneyInv /\ LedgerInv

-------------------------------------------------------------------------------
(* Types *)

\* Requests in progress are records of type Job, and stay so when they advance.
LEMMA NewJobType ==
  ASSUME NEW by \in {"return", "webhook", "reconcile", "tick"},
         NEW step \in {"approve", "get"}, NEW i \in Invoices,
         NEW t \in Tids, NEW att \in BOOLEAN
  PROVE  NewJob(by, step, i, t, att) \in Job
  BY DEF NewJob, Job, PgStates

LEMMA FindJobType ==
  ASSUME NEW i \in Invoices
  PROVE  NewJob("reconcile", "find", i, None, TRUE) \in Job
  BY DEF NewJob, Job, PgStates

LEMMA StepJobType ==
  ASSUME NEW j \in Job, j.step # "find", NEW step \in {"await", "settle", "mark"}
  PROVE  [j EXCEPT !.step = step] \in Job
  BY DEF Job

LEMMA AnswerJobType ==
  ASSUME NEW j \in Job, j.step # "find", NEW d \in PgStates
  PROVE  [j EXCEPT !.step = "settle", !.data = d] \in Job
  BY DEF Job

LEMMA FoundJobType ==
  ASSUME NEW j \in Job, NEW t \in Tids, NEW d \in PgStates
  PROVE  [j EXCEPT !.step = "bind", !.tid = t, !.data = d] \in Job
  BY DEF Job, PgStates

LEMMA JobFields ==
  ASSUME NEW j \in Job
  PROVE  /\ j.inv \in Invoices /\ j.data \in PgStates /\ j.hasAttempt \in BOOLEAN
         /\ j.step # "find" => j.tid \in Tids
         /\ j.step = "find" => j.tid = None /\ j.data = "unused" /\ j.hasAttempt
  BY DEF Job, PgStates

LEMMA LogType ==
  ASSUME TypeOK, NEW i \in Invoices, NEW e \in Events, Log(i, e)
  PROVE  ledger' \in [Invoices -> [Events -> Nat]]
  BY DEF TypeOK, Log

LEMMA SettleTypes ==
  ASSUME TypeOK, NEW i \in Invoices, NEW t, NEW d, Settle(i, t, d)
  PROVE  /\ status' \in [Invoices -> Statuses]
         /\ cancelled' \in [Invoices -> BOOLEAN]
         /\ ledger' \in [Invoices -> [Events -> Nat]]
  <1> USE DEF TypeOK, Statuses
  <1> "INVOICE_PAID" \in Events /\ "INVOICE_CANCEL_REPORTED" \in Events
    BY DEF Events
  <1>1. CASE SettlePaid(i, t, d)
    <2>1. ledger' \in [Invoices -> [Events -> Nat]] BY <1>1, LogType DEF SettlePaid
    <2> QED BY <1>1, <2>1 DEF SettlePaid
  <1>2. CASE SettleCancelled(i, t, d)
    <2>1. ledger' \in [Invoices -> [Events -> Nat]] BY <1>2, LogType DEF SettleCancelled
    <2> QED BY <1>2, <2>1 DEF SettleCancelled
  <1>3. CASE SettleUnverified(i, t, d) BY <1>3 DEF SettleUnverified
  <1>4. CASE SettleRefused(i, t, d)   BY <1>4 DEF SettleRefused
  <1> QED BY <1>1, <1>2, <1>3, <1>4 DEF Settle

\* Every step keeps the types.
LEMMA TypeStep == ASSUME TypeOK, [Next]_vars PROVE TypeOK'
  <1> USE DEF TypeOK, rows, pgvars, wvars, Bind, Done
  <1> USE NoneAssumption
  <1>1. ASSUME NEW i \in Invoices, NEW t \in Tids, Checkout(i, t) PROVE TypeOK'
    BY <1>1 DEF Checkout, PgStates
  <1>2. ASSUME NEW i \in Invoices, NEW t \in Tids, PaymentReturn(i, t) PROVE TypeOK'
    <2>1. NewJob("return", "approve", i, t, FALSE) \in Job BY NewJobType
    <2> QED BY <1>2, <2>1 DEF PaymentReturn, Statuses
  <1>3. ASSUME NEW i \in Invoices, NEW t \in Tids, Webhook(i, t) PROVE TypeOK'
    <2>1. NewJob("webhook", "get", i, t, FALSE) \in Job BY NewJobType
    <2> QED BY <1>3, <2>1 DEF Webhook
  <1>4. ASSUME NEW i \in Invoices, Reconcile(i) PROVE TypeOK'
    <2>1. CASE tid[i] = None
      BY <1>4, <2>1, FindJobType DEF Reconcile
    <2>2. CASE tid[i] # None
      <3>1. tid[i] \in Tids BY <2>2
      <3>2. NewJob("reconcile", "get", i, tid[i], attempt[i] # "none") \in Job
        BY <3>1, NewJobType
      <3> QED BY <1>4, <2>2, <3>2 DEF Reconcile
    <2> QED BY <2>1, <2>2
  <1>5. ASSUME NEW i \in Invoices, ReconcileTick(i) PROVE TypeOK'
    <2>1. NewJob("tick", "get", i, tid[i], FALSE) \in Job
      BY <1>5, NewJobType DEF ReconcileTick
    <2> QED BY <1>5, <2>1 DEF ReconcileTick
  <1>6. ASSUME NEW j \in jobs, Approve(j) PROVE TypeOK'
    BY <1>6, StepJobType, JobFields DEF Approve
  <1>7. ASSUME NEW j \in jobs, Get(j) PROVE TypeOK'
    <2>1. pgState[j.tid] \in PgStates BY <1>7, JobFields DEF Get
    <2>2. [j EXCEPT !.step = "settle", !.data = pgState[j.tid]] \in Job
      BY <1>7, <2>1, AnswerJobType DEF Get
    <2> QED BY <1>7, <2>2 DEF Get
  <1>8. ASSUME NEW j \in jobs, NEW t \in Tids, Find(j, t) PROVE TypeOK'
    <2>1. pgState[t] \in PgStates OBVIOUS
    <2>2. [j EXCEPT !.step = "bind", !.tid = t, !.data = pgState[t]] \in Job
      BY <2>1, FoundJobType
    <2> QED BY <1>8, <2>2 DEF Find
  <1>9. ASSUME NEW j \in jobs, BindJob(j) PROVE TypeOK'
    <2>1. [j EXCEPT !.step = "settle"] \in Job /\ j.tid \in Tids /\ j.inv \in Invoices
      BY <1>9, StepJobType, JobFields DEF BindJob
    <2> QED BY <1>9, <2>1 DEF BindJob
  <1>10. ASSUME NEW j \in jobs, SettleJob(j) PROVE TypeOK'
    <2>1. j.inv \in Invoices BY JobFields
    <2>2. jobs' \subseteq Job BY <1>10, StepJobType DEF SettleJob
    <2>3. Settle(j.inv, j.tid, j.data) BY <1>10 DEF SettleJob
    <2>4. /\ status' \in [Invoices -> Statuses]
          /\ cancelled' \in [Invoices -> BOOLEAN]
          /\ ledger' \in [Invoices -> [Events -> Nat]]
      BY <2>1, <2>3, SettleTypes
    <2> QED BY <1>10, <2>2, <2>4 DEF SettleJob
  <1>11. ASSUME NEW j \in jobs, MarkAttempt(j) PROVE TypeOK'
    BY <1>11, JobFields DEF MarkAttempt, Outcomes
  <1>12. ASSUME NEW j \in jobs, DropJob(j) PROVE TypeOK'
    BY <1>12 DEF DropJob
  <1>13. ASSUME NEW w \in Workers, WorkerNext(w) PROVE TypeOK'
    <2> USE DEF Steps
    <2>1. ASSUME NEW i \in Invoices, Scan(w, i) PROVE TypeOK'
      BY <2>1 DEF Scan
    <2>2. CASE TakeCard(w)
      BY <2>2 DEF TakeCard
    <2>3. CASE SkipCard(w)
      BY <2>3 DEF SkipCard
    <2>4. CASE Claim(w)
      BY <2>4 DEF Claim, Outcomes, Statuses
    <2>5. CASE Yield(w)
      BY <2>5 DEF Yield
    <2>6. CASE CryptoUnavailable(w)
      BY <2>6 DEF CryptoUnavailable
    <2>7. CASE SendCharge(w)
      BY <2>7 DEF SendCharge
    <2>8. CASE ChargeTimeout(w)
      BY <2>8 DEF ChargeTimeout
    <2>9. CASE BindCharge(w)
      BY <2>9 DEF BindCharge, Usable
    <2>10. CASE NoTid(w)
      BY <2>10 DEF NoTid
    <2>11. CASE SettleCharge(w)
      <3>1. winv[w] \in Invoices BY <2>11 DEF SettleCharge
      <3>2. /\ status' \in [Invoices -> Statuses]
            /\ cancelled' \in [Invoices -> BOOLEAN]
            /\ ledger' \in [Invoices -> [Events -> Nat]]
        BY <2>11, <3>1, SettleTypes DEF SettleCharge
      <3> QED BY <2>11, <3>2 DEF SettleCharge
    <2>12. CASE FinishPaid(w)
      BY <2>12 DEF FinishPaid, FinishAttempt, Outcomes
    <2>13. CASE FinishReview(w)
      BY <2>13 DEF FinishReview, FinishAttempt, Outcomes
    <2>14. CASE HoldInvoice(w)
      <3>1. "INVOICE_AUTOCHARGE_REVIEW" \in Events BY DEF Events
      <3>2. winv[w] \in Invoices BY <2>14 DEF HoldInvoice
      <3>3. ledger' \in [Invoices -> [Events -> Nat]]
        BY <2>14, <3>1, <3>2, LogType DEF HoldInvoice
      <3> QED BY <2>14, <3>3 DEF HoldInvoice, Statuses
    <2>15. CASE WorkerCrash(w)
      BY <2>15 DEF WorkerCrash
    <2> QED
      BY <1>13, <2>1, <2>2, <2>3, <2>4, <2>5, <2>6, <2>7, <2>8, <2>9, <2>10, <2>11, <2>12, <2>13, <2>14, <2>15 DEF WorkerNext
  <1>14. ASSUME PgNext PROVE TypeOK'
    <2>1. ASSUME NEW t \in Tids, NEW d \in {"paid", "failed"}, PgApprove(t, d)
          PROVE  TypeOK'
      <3>1. d \in PgStates BY DEF PgStates
      <3>2. \A j \in jobs : j.step = "await" =>
              [j EXCEPT !.step = "settle", !.data = d] \in Job
        BY <3>1, AnswerJobType
      <3>3. ASSUME NEW k \in jobs' PROVE k \in Job
        <4>1. PICK j \in jobs : k = IF j.step = "await" /\ j.tid = t
                THEN [j EXCEPT !.step = "settle", !.data = d] ELSE j
          BY <2>1 DEF PgApprove, Answer
        <4> QED BY <3>2, <4>1
      <3> QED BY <2>1, <3>1, <3>3 DEF PgApprove
    <2>2. ASSUME NEW t \in Tids, PgCancel(t) PROVE TypeOK'
      BY <2>2 DEF PgCancel, PgStates
    <2>3. ASSUME NEW i \in Invoices, PgDecline(i) PROVE TypeOK'
      BY <2>3 DEF PgDecline, AnswerWorkers, Steps
    <2>4. ASSUME NEW i \in Invoices, NEW t \in Tids, NEW a \in {t, None},
                 PgCharge(i, t, a)
          PROVE  TypeOK'
      BY <2>4 DEF PgCharge, AnswerWorkers, Steps, PgStates
    <2> QED BY <1>14, <2>1, <2>2, <2>3, <2>4 DEF PgNext
  <1>15. CASE UNCHANGED vars
    BY <1>15 DEF vars
  <1> QED
    BY <1>1, <1>2, <1>3, <1>4, <1>5, <1>6, <1>7, <1>8, <1>9, <1>10, <1>11, <1>12,
       <1>13, <1>14, <1>15 DEF Next, JobNext

\* Every variable keeps its type.
THEOREM Typing == Spec => []TypeOK
  <1>1. Init => TypeOK
    BY DEF Init, TypeOK, Statuses, Outcomes, Events, PgStates, Steps
  <1>2. TypeOK /\ [Next]_vars => TypeOK'
    BY TypeStep
  <1> QED BY <1>1, <1>2, PTL DEF Spec

-------------------------------------------------------------------------------
(* What no step ever takes back; requests in progress, approvals and charges  *)
(* rely on nothing else.                                                      *)

Forward ==
  /\ \A t \in Tids :
       /\ pgOrder[t] # None => pgOrder'[t] = pgOrder[t]
       /\ pgState[t] \in Moved => pgState'[t] \in Moved
       /\ pgState[t] = "cancelled" => pgState'[t] = "cancelled"
  /\ \A i \in Invoices :
       /\ attempt[i] # "none" => attempt'[i] # "none"
       /\ tid[i] # None /\ attempt[i] = "none" => tid'[i] = tid[i] /\ attempt'[i] = "none"
       /\ ledger[i]["INVOICE_PAID"] = 1 => ledger'[i]["INVOICE_PAID"] = 1
       /\ Uncharged(i) /\ (i \in charges => i \in charges') => Uncharged(i)'

LEMMA KeepJob ==
  ASSUME TypeOK, Forward, NEW j \in jobs, JobOk(j)
  PROVE  JobOk(j)'
  <1>1. j.inv \in Invoices /\ (j.step # "find" => j.tid \in Tids) /\ j.hasAttempt \in BOOLEAN
        /\ (j.step = "find" => j.data = "unused")
    BY JobFields DEF TypeOK
  <1>2. CASE j.step = "find"
    BY <1>1, <1>2 DEF Forward, JobOk
  <1>3. CASE j.step # "find"
    BY <1>1, <1>3, NoneAssumption DEF Forward, JobOk
  <1> QED BY <1>2, <1>3

LEMMA KeepApproval ==
  ASSUME TypeOK, Forward, NEW t \in approvals, ApprovalOk(t)
  PROVE  ApprovalOk(t)'
  <1>1. t \in Tids /\ pgOrder[t] \in Invoices BY DEF TypeOK, ApprovalOk
  <1> QED BY <1>1, NoneAssumption DEF Forward, ApprovalOk

\* A worker keeps what it relies on if it does not move, no REVIEW entry is written
\* for its invoice, and no second charge is sent for it.
LEMMA KeepWorker ==
  ASSUME TypeOK, Forward, NEW w \in Workers, WorkerOk(w),
         wpc'[w] = wpc[w], winv'[w] = winv[w], wtid'[w] = wtid[w],
         wpc[w] \in PastClaim =>
           ledger'[winv[w]]["INVOICE_AUTOCHARGE_REVIEW"] = ledger[winv[w]]["INVOICE_AUTOCHARGE_REVIEW"],
         wpc[w] = "claimed" /\ winv[w] \in charges' => winv[w] \in charges
  PROVE  WorkerOk(w)'
  <1>1. winv[w] \in Invoices \/ wpc[w] = "idle" BY DEF TypeOK
  <1>2. wtid[w] # None => wtid[w] \in Tids BY DEF TypeOK
  <1>3. CASE wpc[w] = "idle"
    BY <1>3 DEF WorkerOk, PastClaim
  <1>4. CASE wpc[w] # "idle"
    <2>1. winv[w] \in Invoices BY <1>1, <1>4
    <2>2. wtid[w] # None => pgOrder'[wtid[w]] = winv[w] /\ pgState'[wtid[w]] \in Moved
      BY <1>2, <2>1, NoneAssumption DEF Forward, WorkerOk
    <2>3. wpc[w] = "settled" => ledger'[winv[w]]["INVOICE_PAID"] = 1
      BY <2>1 DEF Forward, WorkerOk
    <2>4. wpc[w] \in PastClaim =>
            attempt'[winv[w]] # "none" /\ ledger'[winv[w]]["INVOICE_AUTOCHARGE_REVIEW"] = 0
      BY <2>1 DEF Forward, WorkerOk
    <2>5. wpc[w] = "claimed" => Uncharged(winv[w])' /\ winv[w] \notin charges'
      BY <2>1 DEF Forward, WorkerOk, Uncharged
    <2> QED BY <1>4, <2>2, <2>3, <2>4, <2>5 DEF WorkerOk, Uncharged
  <1> QED BY <1>3, <1>4

\* A step that only touches requests in progress.
LEMMA JobsOnly ==
  ASSUME IInv, UNCHANGED <<rows, pgvars, wvars>>, \A j \in jobs' : JobOk(j)'
  PROVE  IInv'
  <1> USE DEF rows, pgvars, wvars
  <1>1. PgInv' /\ RowInv' /\ ApprovalInv' /\ ChargeInv'
    BY DEF IInv, PgInv, RowInv, ApprovalInv, ApprovalOk, ChargeInv, Uncharged
  <1>2. WorkerInv' /\ OneClaim'
    BY DEF IInv, WorkerInv, WorkerOk, OneClaim, Uncharged
  <1>3. MoneyInv' /\ LedgerInv'
    BY DEF IInv, MoneyInv, OneCapture, CapturedIsTraceable, Captured, LedgerInv, LedgerOk
  <1> QED BY <1>1, <1>2, <1>3 DEF IInv, JobInv

\* A step of one worker that touches nothing but its own step and answer.
LEMMA WorkerOnly ==
  ASSUME TypeOK, IInv, UNCHANGED <<rows, pgvars, jobs>>, NEW w \in Workers,
         \A v \in Workers \ {w} :
           wpc'[v] = wpc[v] /\ winv'[v] = winv[v] /\ wtid'[v] = wtid[v],
         WorkerOk(w)',
         wpc'[w] \in PastClaim => wpc[w] \in PastClaim /\ winv'[w] = winv[w]
  PROVE  IInv'
  <1> USE DEF rows, pgvars
  <1>1. PgInv' /\ RowInv' /\ JobInv' /\ ApprovalInv' /\ ChargeInv'
    BY DEF IInv, PgInv, RowInv, JobInv, JobOk, ApprovalInv, ApprovalOk, ChargeInv, Uncharged
  <1>2. ASSUME NEW v \in Workers PROVE WorkerOk(v)'
    <2>1. CASE v = w BY <2>1
    <2>2. CASE v # w
      <3>1. WorkerOk(v) BY DEF IInv, WorkerInv
      <3> QED BY <2>2, <3>1 DEF WorkerOk, Uncharged
    <2> QED BY <2>1, <2>2
  <1>3. OneClaim'
    BY DEF IInv, OneClaim
  <1>4. MoneyInv' /\ LedgerInv'
    BY DEF IInv, MoneyInv, OneCapture, CapturedIsTraceable, Captured, LedgerInv, LedgerOk
  <1> QED BY <1>1, <1>2, <1>3, <1>4 DEF IInv, WorkerInv

-------------------------------------------------------------------------------
(* What settle and _bind_verified_tid do to a row, whoever calls them *)

\* The event names are different strings, and members of the ledger's domain.
LEMMA LogEffect ==
  ASSUME TypeOK, NEW i \in Invoices, NEW e \in Events, Log(i, e)
  PROVE  \A k \in Invoices : \A f \in Events :
           ledger'[k][f] = IF k = i /\ f = e THEN ledger[k][f] + 1 ELSE ledger[k][f]
  BY DEF TypeOK, Log

LEMMA SettleEffect ==
  ASSUME TypeOK, IInv, NEW i \in Invoices, NEW t \in Tids, NEW d \in PgStates,
         pgOrder[t] = i, d = "paid" => pgState[t] \in Moved,
         d = "cancelled" => pgState[t] = "cancelled",
         Settle(i, t, d), UNCHANGED <<tid, attempt, pgvars>>
  PROVE  /\ Forward /\ PgInv' /\ RowInv' /\ ChargeInv' /\ MoneyInv' /\ LedgerInv'
         /\ \A k \in Invoices : ledger'[k]["INVOICE_AUTOCHARGE_REVIEW"]
                                  = ledger[k]["INVOICE_AUTOCHARGE_REVIEW"]
         /\ Confirms(i, t, d) => ledger'[i]["INVOICE_PAID"] = 1
  <1> USE DEF pgvars
  <1>0. /\ "INVOICE_PAID" \in Events /\ "INVOICE_CANCEL_REPORTED" \in Events
        /\ "INVOICE_AUTOCHARGE_REVIEW" \in Events
    BY DEF Events
  <1>1. PgInv' /\ ChargeInv' /\ MoneyInv'
    BY DEF IInv, PgInv, ChargeInv, Uncharged, MoneyInv, OneCapture, CapturedIsTraceable, Captured
  <1>2. LedgerInv /\ RowInv BY DEF IInv
  <1>3. CASE SettlePaid(i, t, d)
    <2>1. CASE status[i] = "paid"
      <3>1. status' = status /\ cancelled' = cancelled /\ ledger' = ledger
        BY <1>3, <2>1 DEF SettlePaid, TypeOK
      <3>2. Forward BY <3>1 DEF Forward, Uncharged
      <3> QED BY <1>1, <1>2, <2>1, <3>1, <3>2 DEF RowInv, LedgerInv, LedgerOk
    <2>2. CASE status[i] # "paid"
      <3>1. Log(i, "INVOICE_PAID") BY <1>3, <2>2 DEF SettlePaid
      <3>2. \A k \in Invoices : \A f \in Events :
              ledger'[k][f] = IF k = i /\ f = "INVOICE_PAID" THEN ledger[k][f] + 1 ELSE ledger[k][f]
        BY <1>0, <3>1, LogEffect
      <3>3. /\ tid[i] = t /\ ~cancelled[i] /\ pgState[t] \in Moved /\ cancelled' = cancelled
            /\ status'[i] = "paid" /\ \A k \in Invoices : k # i => status'[k] = status[k]
        BY <1>3 DEF SettlePaid, Confirms, PaymentValid, TypeOK
      <3>4. ledger[i]["INVOICE_PAID"] = 0 BY <1>2, <2>2, <3>3 DEF LedgerInv, LedgerOk
      <3>5. ledger'[i]["INVOICE_PAID"] = 1 BY <1>0, <3>2, <3>4
      <3>6. Forward BY <1>0, <3>2, <3>4 DEF Forward, Uncharged
      <3>7. RowInv'
        BY <1>2, <3>3, NoneAssumption DEF RowInv
      <3>8. LedgerInv'
        <4> SUFFICES ASSUME NEW k \in Invoices PROVE LedgerOk(k)'
          BY DEF LedgerInv
        <4>1. CASE k = i BY <1>0, <1>2, <3>2, <3>3, <3>5, <4>1, NoneAssumption DEF LedgerInv, LedgerOk
        <4>2. CASE k # i BY <1>0, <1>2, <3>2, <3>3, <4>2 DEF LedgerInv, LedgerOk
        <4> QED BY <4>1, <4>2
      <3> QED BY <1>0, <1>1, <3>2, <3>5, <3>6, <3>7, <3>8
    <2> QED BY <2>1, <2>2
  <1>4. CASE SettleCancelled(i, t, d)
    <2>1. \A k \in Invoices : \A f \in Events :
            ledger'[k][f] = IF k = i /\ f = "INVOICE_CANCEL_REPORTED"
                              THEN ledger[k][f] + 1 ELSE ledger[k][f]
      BY <1>0, <1>4, LogEffect DEF SettleCancelled
    <2>2. /\ tid[i] = t /\ ~cancelled[i] /\ pgState[t] = "cancelled" /\ d = "cancelled"
          /\ status'[i] = "review" /\ cancelled'[i]
          /\ \A k \in Invoices : k # i => status'[k] = status[k] /\ cancelled'[k] = cancelled[k]
      BY <1>4 DEF SettleCancelled, CancellationReported, TypeOK
    <2>3. Forward BY <1>0, <2>1 DEF Forward, Uncharged
    <2>4. RowInv' BY <1>2, <2>2, NoneAssumption DEF RowInv
    <2>5. LedgerInv'
      <3> SUFFICES ASSUME NEW k \in Invoices PROVE LedgerOk(k)'
        BY DEF LedgerInv
      <3>1. CASE k = i BY <1>0, <1>2, <2>1, <2>2, <3>1, NoneAssumption DEF LedgerInv, LedgerOk
      <3>2. CASE k # i BY <1>0, <1>2, <2>1, <2>2, <3>2 DEF LedgerInv, LedgerOk
      <3> QED BY <3>1, <3>2
    <2>6. ~Confirms(i, t, d) BY <2>2 DEF Confirms, PaymentValid
    <2> QED BY <1>0, <1>1, <2>1, <2>3, <2>4, <2>5, <2>6
  <1>5. CASE SettleUnverified(i, t, d)
    <2>1. /\ tid[i] = t /\ cancelled' = cancelled /\ ledger' = ledger
          /\ \A k \in Invoices : status'[k] = status[k]
               \/ (k = i /\ status[k] # "paid" /\ status'[k] = "review")
      BY <1>5 DEF SettleUnverified, TypeOK
    <2>2. Forward BY <2>1 DEF Forward, Uncharged
    <2>3. RowInv' BY <1>2, <2>1, NoneAssumption DEF RowInv
    <2>4. LedgerInv' BY <1>2, <2>1 DEF LedgerInv, LedgerOk
    <2>5. ~Confirms(i, t, d) BY <1>5 DEF Confirms, SettleUnverified
    <2> QED BY <1>1, <2>1, <2>2, <2>3, <2>4, <2>5
  <1>6. CASE SettleRefused(i, t, d)
    <2>1. status' = status /\ cancelled' = cancelled /\ ledger' = ledger /\ ~Confirms(i, t, d)
      BY <1>6 DEF SettleRefused, Confirms
    <2>2. Forward BY <2>1 DEF Forward, Uncharged
    <2> QED BY <1>1, <1>2, <2>1, <2>2 DEF RowInv, LedgerInv, LedgerOk
  <1> QED BY <1>3, <1>4, <1>5, <1>6 DEF Settle

\* A tid is only bound after money moved in its transaction, so the invoice was
\* not waiting for a first charge.
LEMMA BindEffect ==
  ASSUME TypeOK, IInv, NEW i \in Invoices, NEW t \in Tids, pgOrder[t] = i,
         pgState[t] \in Moved, tid[i] \in {t, None}, status[i] # "open" \/ tid[i] = t,
         Bind(i, t), UNCHANGED <<status, cancelled, attempt, ledger, pgvars>>
  PROVE  Forward /\ PgInv' /\ RowInv' /\ ChargeInv' /\ MoneyInv' /\ LedgerInv'
  <1> USE DEF pgvars
  <1>1. tid'[i] = t /\ \A k \in Invoices : k # i => tid'[k] = tid[k]
    BY DEF Bind, TypeOK
  <1>2. ~Uncharged(i) BY DEF Uncharged
  <1>3. PgInv' BY DEF IInv, PgInv
  <1>4. RowInv' BY <1>1, NoneAssumption DEF IInv, RowInv
  <1>5. ChargeInv'
    BY <1>1, <1>2 DEF IInv, ChargeInv, Uncharged, TypeOK
  <1>6. MoneyInv'
    <2>1. OneCapture' BY DEF IInv, MoneyInv, OneCapture, Captured
    <2>2. t \in Captured(i) BY DEF Captured, Moved
    <2>3. CapturedIsTraceable'
      BY <1>1, <2>2 DEF IInv, MoneyInv, OneCapture, CapturedIsTraceable, Captured
    <2> QED BY <2>1, <2>3 DEF MoneyInv
  <1>7. LedgerInv' BY <1>1, NoneAssumption DEF IInv, LedgerInv, LedgerOk
  <1>8. Forward BY <1>1, <1>2 DEF Forward, Uncharged
  <1> QED BY <1>3, <1>4, <1>5, <1>6, <1>7, <1>8

-------------------------------------------------------------------------------
(* Every step keeps the invariant *)

Unmoved(w) ==
  /\ wpc'[w] = wpc[w] /\ winv'[w] = winv[w] /\ wtid'[w] = wtid[w]
  /\ wpc[w] \in PastClaim =>
       ledger'[winv[w]]["INVOICE_AUTOCHARGE_REVIEW"] = ledger[winv[w]]["INVOICE_AUTOCHARGE_REVIEW"]
  /\ wpc[w] = "claimed" /\ winv[w] \in charges' => winv[w] \in charges

\* A step that takes nothing back only has to answer for what it adds.
LEMMA Keep ==
  ASSUME TypeOK, IInv, Forward, PgInv', RowInv', ChargeInv', MoneyInv', LedgerInv',
         \A t \in approvals' : t \in approvals \/ ApprovalOk(t)',
         \A j \in jobs' : j \in jobs \/ JobOk(j)',
         \A w \in Workers : Unmoved(w) \/ WorkerOk(w)',
         OneClaim'
  PROVE  IInv'
  <1>1. JobInv' BY KeepJob DEF IInv, JobInv
  <1>2. ApprovalInv' BY KeepApproval DEF IInv, ApprovalInv
  <1>3. WorkerInv'
    <2> SUFFICES ASSUME NEW w \in Workers, Unmoved(w) PROVE WorkerOk(w)'
      BY DEF WorkerInv
    <2>1. WorkerOk(w) BY DEF IInv, WorkerInv
    <2> QED BY <2>1, KeepWorker DEF Unmoved
  <1> QED BY <1>1, <1>2, <1>3 DEF IInv

\* The requests of the API.
LEMMA RequestStep ==
  ASSUME TypeOK, TypeOK', IInv,
         \/ \E i \in Invoices, t \in Tids : Checkout(i, t) \/ PaymentReturn(i, t) \/ Webhook(i, t)
         \/ \E i \in Invoices : Reconcile(i) \/ ReconcileTick(i)
         \/ \E j \in jobs : JobNext(j)
  PROVE  IInv'
  <1> USE DEF rows, pgvars, wvars
  <1>0. \A j \in jobs : JobOk(j) /\ j \in Job BY DEF IInv, JobInv, TypeOK
  <1>1. ASSUME NEW i \in Invoices, NEW t \in Tids, Checkout(i, t) PROVE IInv'
    <2>1. /\ pgState[t] = "unused" /\ pgState'[t] = "ready" /\ pgOrder[t] = None /\ pgOrder'[t] = i
          /\ \A u \in Tids : u # t => pgState'[u] = pgState[u] /\ pgOrder'[u] = pgOrder[u]
      BY <1>1 DEF Checkout, TypeOK, IInv, PgInv
    <2>2. Forward BY <1>1, <2>1 DEF Checkout, Forward, Uncharged, Moved
    <2>3. PgInv' BY <1>1, <2>1, NoneAssumption DEF IInv, PgInv
    <2>4. RowInv' BY <1>1, <2>1, NoneAssumption DEF Checkout, IInv, RowInv, Moved, TypeOK
    <2>5. ChargeInv' BY <1>1, <2>1 DEF Checkout, IInv, ChargeInv, Uncharged, Moved
    <2>6. \A k \in Invoices : Captured(k)' = Captured(k)
      BY <2>1 DEF Captured
    <2>7. MoneyInv'
      BY <1>1, <2>6 DEF Checkout, IInv, MoneyInv, OneCapture, CapturedIsTraceable
    <2>8. LedgerInv' BY <1>1, <2>1, NoneAssumption DEF Checkout, IInv, LedgerInv, LedgerOk, RowInv, Moved, TypeOK
    <2>9. \A w \in Workers : Unmoved(w) BY <1>1 DEF Checkout, Unmoved
    <2>10. OneClaim' BY <1>1 DEF Checkout, IInv, OneClaim
    <2> QED BY <1>1, <2>2, <2>3, <2>4, <2>5, <2>7, <2>8, <2>9, <2>10, Keep DEF Checkout
  <1>2. ASSUME NEW i \in Invoices, NEW t \in Tids, PaymentReturn(i, t) PROVE IInv'
    <2>1. /\ status[i] = "open" /\ status'[i] = "processing" /\ tid'[i] = t
          /\ pgState[t] = "ready" /\ pgOrder[t] = i
          /\ \A k \in Invoices : k # i => status'[k] = status[k] /\ tid'[k] = tid[k]
      BY <1>2 DEF PaymentReturn, Bind, TypeOK
    <2>2. tid[i] = None /\ attempt[i] = "none" /\ ~cancelled[i]
      BY <2>1 DEF IInv, RowInv
    <2>3. Captured(i) = {}
      BY <2>2, NoneAssumption DEF IInv, MoneyInv, CapturedIsTraceable, Captured
    <2>4. Forward BY <1>2, <2>1, <2>2 DEF PaymentReturn, Forward, Uncharged
    <2>5. PgInv' BY <1>2 DEF PaymentReturn, IInv, PgInv
    <2>6. RowInv' BY <1>2, <2>1, <2>2, NoneAssumption DEF PaymentReturn, IInv, RowInv
    <2>7. ChargeInv'
      BY <1>2, <2>1, <2>2 DEF PaymentReturn, IInv, ChargeInv, Uncharged, TypeOK
    <2>8. MoneyInv'
      BY <1>2, <2>1, <2>3 DEF PaymentReturn, IInv, MoneyInv, OneCapture, CapturedIsTraceable, Captured
    <2>9. LedgerInv'
      BY <1>2, <2>1, <2>2 DEF PaymentReturn, IInv, LedgerInv, LedgerOk
    <2>10. JobOk(NewJob("return", "approve", i, t, FALSE))'
      BY <1>2, <2>1, <2>2 DEF PaymentReturn, NewJob, JobOk
    <2>11. \A w \in Workers : Unmoved(w) BY <1>2 DEF PaymentReturn, Unmoved
    <2>12. OneClaim' BY <1>2 DEF PaymentReturn, IInv, OneClaim
    <2> QED
      BY <1>2, <2>4, <2>5, <2>6, <2>7, <2>8, <2>9, <2>10, <2>11, <2>12, Keep DEF PaymentReturn
  <1>3. ASSUME NEW i \in Invoices, NEW t \in Tids, Webhook(i, t) PROVE IInv'
    <2>1. JobOk(NewJob("webhook", "get", i, t, FALSE))'
      BY <1>3 DEF Webhook, NewJob, JobOk
    <2>2. \A j \in jobs : JobOk(j)' BY <1>0, <1>3 DEF Webhook, JobOk
    <2> QED BY <1>3, <2>1, <2>2, JobsOnly DEF Webhook
  <1>4. ASSUME NEW i \in Invoices, Reconcile(i) PROVE IInv'
    <2>1. JobOk(NewJob("reconcile", IF tid[i] = None THEN "find" ELSE "get",
                       i, tid[i], attempt[i] # "none"))'
      BY <1>4 DEF Reconcile, NewJob, JobOk, IInv, RowInv
    <2>2. \A j \in jobs : JobOk(j)' BY <1>0, <1>4 DEF Reconcile, JobOk
    <2> QED BY <1>4, <2>1, <2>2, JobsOnly DEF Reconcile
  <1>5. ASSUME NEW i \in Invoices, ReconcileTick(i) PROVE IInv'
    <2>1. JobOk(NewJob("tick", "get", i, tid[i], FALSE))'
      BY <1>5 DEF ReconcileTick, NewJob, JobOk, IInv, RowInv
    <2>2. \A j \in jobs : JobOk(j)' BY <1>0, <1>5 DEF ReconcileTick, JobOk
    <2> QED BY <1>5, <2>1, <2>2, JobsOnly DEF ReconcileTick
  <1>6. ASSUME NEW j \in jobs, Approve(j) PROVE IInv'
    <2>1. j.step = "approve" /\ pgOrder[j.tid] = j.inv /\ tid[j.inv] = j.tid /\ attempt[j.inv] = "none"
          /\ j.tid \in Tids /\ j.inv \in Invoices
      BY <1>0, <1>6, JobFields DEF Approve, JobOk
    <2>2. ApprovalOk(j.tid)'
      BY <1>6, <2>1, NoneAssumption DEF Approve, ApprovalOk
    <2>3. JobOk([j EXCEPT !.step = "await"])'
      BY <1>0, <1>6, <2>1 DEF Approve, JobOk, Job
    <2>4. Forward /\ PgInv' /\ RowInv' /\ ChargeInv' /\ MoneyInv' /\ LedgerInv' /\ OneClaim'
      BY <1>6 DEF Approve, Forward, Uncharged, IInv, PgInv, RowInv, ChargeInv, MoneyInv,
        OneCapture, CapturedIsTraceable, Captured, LedgerInv, LedgerOk, OneClaim
    <2>5. \A w \in Workers : Unmoved(w) BY <1>6 DEF Approve, Unmoved
    <2> QED BY <1>6, <2>2, <2>3, <2>4, <2>5, Keep DEF Approve
  <1>7. ASSUME NEW j \in jobs, Get(j) PROVE IInv'
    <2>1. JobOk([j EXCEPT !.step = "settle", !.data = pgState[j.tid]])'
      BY <1>0, <1>7 DEF Get, JobOk, Job, Moved
    <2>2. \A k \in jobs : JobOk(k)' BY <1>0, <1>7 DEF Get, JobOk
    <2> QED BY <1>7, <2>1, <2>2, JobsOnly DEF Get
  <1>8. ASSUME NEW j \in jobs, NEW t \in Tids, Find(j, t) PROVE IInv'
    <2>1. JobOk([j EXCEPT !.step = "bind", !.tid = t, !.data = pgState[t]])'
      BY <1>0, <1>8 DEF Find, JobOk, Job, Moved
    <2>2. \A k \in jobs : JobOk(k)' BY <1>0, <1>8 DEF Find, JobOk
    <2> QED BY <1>8, <2>1, <2>2, JobsOnly DEF Find
  <1>9. ASSUME NEW j \in jobs, BindJob(j) PROVE IInv'
    <2>1. j.step = "bind" /\ pgOrder[j.tid] = j.inv /\ j.inv \in Invoices /\ j.tid \in Tids
      BY <1>0, <1>9, JobFields DEF BindJob, JobOk
    <2>2. CASE ~CanBind(j.inv, j.tid, j.data)
      BY <1>0, <1>9, <2>2, JobsOnly DEF BindJob, JobOk
    <2>3. CASE CanBind(j.inv, j.tid, j.data)
      <3>1. Bind(j.inv, j.tid) /\ UNCHANGED <<status, cancelled, attempt, ledger, pgvars, wvars>>
            /\ jobs' = (jobs \ {j}) \cup {[j EXCEPT !.step = "settle"]}
        BY <1>9, <2>3 DEF BindJob
      <3>2. pgState[j.tid] \in Moved /\ tid[j.inv] \in {j.tid, None}
            /\ (status[j.inv] # "open" \/ tid[j.inv] = j.tid)
        BY <1>0, <2>3 DEF CanBind, PaymentValid, CancellationReported, JobOk, Moved
      <3>3. Forward /\ PgInv' /\ RowInv' /\ ChargeInv' /\ MoneyInv' /\ LedgerInv'
        BY <2>1, <3>1, <3>2, BindEffect
      <3>4. JobOk([j EXCEPT !.step = "settle"])'
        BY <1>0, <2>1, <3>1 DEF JobOk, Job
      <3>5. \A w \in Workers : Unmoved(w) BY <3>1 DEF Unmoved
      <3>6. OneClaim' BY <3>1 DEF IInv, OneClaim
      <3> QED BY <3>1, <3>3, <3>4, <3>5, <3>6, Keep
    <2> QED BY <2>2, <2>3
  <1>10. ASSUME NEW j \in jobs, SettleJob(j) PROVE IInv'
    <2>1. j.step = "settle" /\ pgOrder[j.tid] = j.inv /\ j.inv \in Invoices /\ j.tid \in Tids
          /\ j.data \in PgStates /\ (j.data = "paid" => pgState[j.tid] \in Moved)
          /\ (j.data = "cancelled" => pgState[j.tid] = "cancelled")
      BY <1>0, <1>10, JobFields DEF SettleJob, JobOk
    <2>2. Settle(j.inv, j.tid, j.data) /\ UNCHANGED <<tid, attempt, pgvars, wvars>>
      BY <1>10 DEF SettleJob
    <2>3. /\ Forward /\ PgInv' /\ RowInv' /\ ChargeInv' /\ MoneyInv' /\ LedgerInv'
          /\ \A k \in Invoices : ledger'[k]["INVOICE_AUTOCHARGE_REVIEW"]
                                   = ledger[k]["INVOICE_AUTOCHARGE_REVIEW"]
          /\ Confirms(j.inv, j.tid, j.data) => ledger'[j.inv]["INVOICE_PAID"] = 1
      BY <2>1, <2>2, SettleEffect
    <2>4. j.hasAttempt /\ Confirms(j.inv, j.tid, j.data) => JobOk([j EXCEPT !.step = "mark"])'
      BY <1>0, <2>1, <2>2, <2>3 DEF JobOk, Job
    <2>5. \A k \in jobs' : k \in jobs \/ JobOk(k)'
      BY <1>10, <2>4 DEF SettleJob
    <2>6. \A w \in Workers : Unmoved(w)
      BY <2>2, <2>3 DEF Unmoved, TypeOK, PastClaim
    <2>7. OneClaim' BY <2>2 DEF IInv, OneClaim
    <2> QED BY <2>2, <2>3, <2>5, <2>6, <2>7, Keep
  <1>11. ASSUME NEW j \in jobs, MarkAttempt(j) PROVE IInv'
    <2>1. j.inv \in Invoices /\ attempt[j.inv] # "none" /\ ledger[j.inv]["INVOICE_PAID"] = 1
      BY <1>0, <1>11, JobFields DEF MarkAttempt, JobOk
    <2>2. attempt'[j.inv] = "paid" /\ \A k \in Invoices : k # j.inv => attempt'[k] = attempt[k]
      BY <1>11, <2>1 DEF MarkAttempt, TypeOK
    <2>3. Forward BY <1>11, <2>1, <2>2 DEF MarkAttempt, Forward, Uncharged
    <2>4. PgInv' /\ RowInv' /\ OneClaim'
      BY <1>11, <2>1, <2>2 DEF MarkAttempt, IInv, PgInv, RowInv, OneClaim
    <2>5. ChargeInv' BY <1>11, <2>1, <2>2 DEF MarkAttempt, IInv, ChargeInv, Uncharged
    <2>6. MoneyInv'
      BY <1>11, <2>1, <2>2
      DEF MarkAttempt, IInv, MoneyInv, OneCapture, CapturedIsTraceable, Captured
    <2>7. LedgerInv' BY <1>11, <2>1, <2>2 DEF MarkAttempt, IInv, LedgerInv, LedgerOk
    <2>8. \A w \in Workers : Unmoved(w) BY <1>11 DEF MarkAttempt, Unmoved
    <2> QED BY <1>11, <2>3, <2>4, <2>5, <2>6, <2>7, <2>8, Keep DEF MarkAttempt
  <1>12. ASSUME NEW j \in jobs, DropJob(j) PROVE IInv'
    BY <1>0, <1>12, JobsOnly DEF DropJob, JobOk
  <1> QED
    BY <1>1, <1>2, <1>3, <1>4, <1>5, <1>6, <1>7, <1>8, <1>9, <1>10, <1>11, <1>12 DEF JobNext

\* The steps of a worker of autocharge_tick.
LEMMA WorkerStep ==
  ASSUME TypeOK, TypeOK', IInv, NEW w \in Workers, WorkerNext(w)
  PROVE  IInv'
  <1> USE DEF rows, pgvars, wvars
  <1>0. WorkerOk(w) /\ (wpc[w] # "idle" => winv[w] \in Invoices)
    BY DEF IInv, WorkerInv, TypeOK
  <1>1. ASSUME NEW i \in Invoices, Scan(w, i) PROVE IInv'
    <2>1. WorkerOk(w)' BY <1>0, <1>1 DEF Scan, WorkerOk, PastClaim, TypeOK
    <2> QED BY <1>1, <2>1, WorkerOnly DEF Scan, PastClaim, TypeOK
  <1>2. ASSUME SkipCard(w) \/ Yield(w) \/ WorkerCrash(w) PROVE IInv'
    <2>1. Done(w) /\ UNCHANGED <<rows, pgvars, jobs>>
      BY <1>2 DEF SkipCard, Yield, WorkerCrash
    <2>2. WorkerOk(w)' BY <2>1 DEF Done, WorkerOk, PastClaim, TypeOK
    <2> QED BY <2>1, <2>2, WorkerOnly DEF Done, PastClaim, TypeOK
  <1>3. CASE TakeCard(w)
    <2>1. WorkerOk(w)' BY <1>0, <1>3 DEF TakeCard, WorkerOk, PastClaim, TypeOK
    <2> QED BY <1>3, <2>1, WorkerOnly DEF TakeCard, PastClaim, TypeOK
  <1>4. ASSUME CryptoUnavailable(w) \/ ChargeTimeout(w) \/ NoTid(w) PROVE IInv'
    <2>1. /\ wpc[w] \in PastClaim /\ wpc' = [wpc EXCEPT ![w] = "failing"]
          /\ UNCHANGED <<rows, pgvars, jobs, winv, wtid>>
      BY <1>4 DEF CryptoUnavailable, ChargeTimeout, NoTid, PastClaim
    <2>2. WorkerOk(w)' BY <1>0, <2>1 DEF WorkerOk, PastClaim, TypeOK
    <2> QED BY <2>1, <2>2, WorkerOnly DEF PastClaim, TypeOK
  <1>5. CASE Claim(w)
    <2> DEFINE i == winv[w]
    <2>1. /\ i \in Invoices /\ status[i] = "open" /\ ~cancelled[i] /\ attempt[i] = "none"
          /\ status'[i] = "processing" /\ attempt'[i] = "pending"
          /\ \A k \in Invoices : k # i => status'[k] = status[k] /\ attempt'[k] = attempt[k]
          /\ wpc'[w] = "claimed" /\ \A v \in Workers : v # w => wpc'[v] = wpc[v]
          /\ UNCHANGED <<tid, cancelled, ledger, pgvars, jobs, winv, wtid>>
      BY <1>0, <1>5 DEF Claim, Claimable, TypeOK
    <2>2. tid[i] = None BY <2>1 DEF IInv, RowInv
    <2>3. Captured(i) = {}
      BY <2>1, <2>2, NoneAssumption DEF IInv, MoneyInv, CapturedIsTraceable, Captured
    <2>4. Uncharged(i)' BY <2>1, <2>2, <2>3 DEF Uncharged, Captured, Moved
    <2>5. i \notin charges BY <2>1 DEF IInv, ChargeInv, Uncharged
    <2>18. ASSUME NEW k \in Invoices, Uncharged(k) PROVE Uncharged(k)'
      BY <2>1, <2>18 DEF Uncharged
    <2>6. Forward BY <2>1, <2>2, <2>18 DEF Forward
    <2>7. PgInv' BY <2>1 DEF IInv, PgInv
    <2>8. RowInv' BY <2>1, <2>2, NoneAssumption DEF IInv, RowInv
    <2>9. ChargeInv' BY <2>1, <2>18 DEF IInv, ChargeInv, TypeOK
    <2>10. MoneyInv'
      BY <2>1, <2>3 DEF IInv, MoneyInv, OneCapture, CapturedIsTraceable, Captured
    <2>11. LedgerInv' BY <2>1 DEF IInv, LedgerInv, LedgerOk
    <2>12. ledger[i]["INVOICE_AUTOCHARGE_REVIEW"] = 0 BY <2>1 DEF IInv, LedgerInv, LedgerOk
    <2>13. wpc[w] = "locked" BY <1>5 DEF Claim
    <2>14. WorkerOk(w)' BY <1>0, <2>1, <2>4, <2>5, <2>12, <2>13 DEF WorkerOk, PastClaim
    <2>15. \A v \in Workers : v # w => Unmoved(v) BY <2>1 DEF Unmoved
    <2>16. \A v \in Workers : wpc[v] \in PastClaim => winv[v] # i
      BY <2>1 DEF IInv, WorkerInv, WorkerOk
    <2>17. OneClaim' BY <2>1, <2>16 DEF IInv, OneClaim
    <2> HIDE DEF i
    <2> QED BY <2>1, <2>6, <2>7, <2>8, <2>9, <2>10, <2>11, <2>14, <2>15, <2>17, Keep
  <1>6. CASE SendCharge(w)
    <2>1. /\ wpc[w] = "claimed" /\ wpc'[w] = "charging" /\ charges' = charges \cup {winv[w]}
          /\ \A v \in Workers : v # w => wpc'[v] = wpc[v]
          /\ UNCHANGED <<rows, pgState, pgOrder, approvals, jobs, winv, wtid>>
      BY <1>6 DEF SendCharge, TypeOK
    <2>2. winv[w] \in Invoices /\ Uncharged(winv[w]) BY <1>0, <2>1 DEF WorkerOk
    <2>3. Forward /\ PgInv' /\ RowInv' /\ MoneyInv' /\ LedgerInv'
      BY <2>1 DEF Forward, Uncharged, IInv, PgInv, RowInv, MoneyInv, OneCapture,
        CapturedIsTraceable, Captured, LedgerInv, LedgerOk
    <2>4. ChargeInv' BY <2>1, <2>2 DEF IInv, ChargeInv, Uncharged
    <2>5. WorkerOk(w)' BY <1>0, <2>1 DEF WorkerOk, PastClaim
    <2>6. \A v \in Workers : v # w => Unmoved(v)
      BY <2>1 DEF Unmoved, IInv, OneClaim, PastClaim
    <2>7. OneClaim' BY <2>1 DEF IInv, OneClaim, PastClaim
    <2> QED BY <2>1, <2>3, <2>4, <2>5, <2>6, <2>7, Keep
  <1>7. CASE BindCharge(w)
    <2> DEFINE i == winv[w]
               t == wtid[w]
    <2>1. /\ wpc[w] = "answered" /\ t # None /\ CanBind(i, t, "paid") /\ Bind(i, t)
          /\ wpc'[w] = "bound" /\ \A v \in Workers : v # w => wpc'[v] = wpc[v]
          /\ UNCHANGED <<status, cancelled, attempt, ledger, pgvars, jobs, winv, wtid>>
      BY <1>7 DEF BindCharge, Usable, TypeOK
    <2>2. i \in Invoices /\ t \in Tids /\ pgOrder[t] = i /\ pgState[t] \in Moved
      BY <1>0, <2>1 DEF WorkerOk, TypeOK
    <2>3. tid[i] \in {t, None} /\ (status[i] # "open" \/ tid[i] = t)
      BY <2>1 DEF CanBind
    <2>4. Forward /\ PgInv' /\ RowInv' /\ ChargeInv' /\ MoneyInv' /\ LedgerInv'
      BY <2>1, <2>2, <2>3, BindEffect
    <2>5. WorkerOk(w)' BY <1>0, <2>1, <2>2 DEF WorkerOk, PastClaim
    <2>6. \A v \in Workers : v # w => Unmoved(v) BY <2>1 DEF Unmoved
    <2>7. OneClaim' BY <2>1 DEF IInv, OneClaim, PastClaim
    <2> HIDE DEF i, t
    <2> QED BY <2>1, <2>4, <2>5, <2>6, <2>7, Keep
  <1>8. CASE SettleCharge(w)
    <2> DEFINE i == winv[w]
               t == wtid[w]
    <2>1. /\ wpc[w] = "bound" /\ Settle(i, t, "paid")
          /\ wpc'[w] = IF Confirms(i, t, "paid") THEN "settled" ELSE "failing"
          /\ \A v \in Workers : v # w => wpc'[v] = wpc[v]
          /\ UNCHANGED <<tid, attempt, pgvars, jobs, winv, wtid>>
      BY <1>8 DEF SettleCharge, TypeOK
    <2>2. i \in Invoices /\ t \in Tids /\ pgOrder[t] = i /\ pgState[t] \in Moved
      BY <1>0, <2>1 DEF WorkerOk, TypeOK
    <2>3. "paid" \in PgStates BY DEF PgStates
    <2>4. /\ Forward /\ PgInv' /\ RowInv' /\ ChargeInv' /\ MoneyInv' /\ LedgerInv'
          /\ \A k \in Invoices : ledger'[k]["INVOICE_AUTOCHARGE_REVIEW"]
                                   = ledger[k]["INVOICE_AUTOCHARGE_REVIEW"]
          /\ Confirms(i, t, "paid") => ledger'[i]["INVOICE_PAID"] = 1
      BY <2>1, <2>2, <2>3, SettleEffect
    <2>5. WorkerOk(w)' BY <1>0, <2>1, <2>2, <2>4 DEF WorkerOk, PastClaim
    <2>6. \A v \in Workers : v # w => Unmoved(v) BY <2>1, <2>4 DEF Unmoved, TypeOK, PastClaim
    <2>7. OneClaim' BY <2>1 DEF IInv, OneClaim, PastClaim
    <2> HIDE DEF i, t
    <2> QED BY <2>1, <2>4, <2>5, <2>6, <2>7, Keep
  <1>9. ASSUME NEW outcome \in {"paid", "review"}, FinishAttempt(winv[w], outcome),
               winv[w] \in Invoices, wpc[w] \in PastClaim,
               outcome = "paid" => ledger[winv[w]]["INVOICE_PAID"] = 1,
               UNCHANGED <<status, tid, cancelled, ledger, pgvars, jobs>>,
               \A v \in Workers : v # w => /\ wpc'[v] = wpc[v] /\ winv'[v] = winv[v]
                                           /\ wtid'[v] = wtid[v]
        PROVE  /\ Forward /\ PgInv' /\ RowInv' /\ ChargeInv' /\ MoneyInv' /\ LedgerInv'
               /\ \A v \in Workers : v # w => Unmoved(v)
               /\ attempt'[winv[w]] # "none"
    <2> DEFINE i == winv[w]
    <2>1. attempt[i] # "none" BY <1>0, <1>9 DEF WorkerOk
    <2>2. /\ attempt'[i] # "none" /\ (attempt'[i] = "paid" => attempt[i] = "paid" \/ outcome = "paid")
          /\ \A k \in Invoices : k # i => attempt'[k] = attempt[k]
      BY <1>9, <2>1 DEF FinishAttempt, TypeOK
    <2>8. ASSUME NEW k \in Invoices, Uncharged(k) PROVE Uncharged(k)'
      BY <1>9, <2>2, <2>8 DEF Uncharged
    <2>3. Forward BY <1>9, <2>1, <2>2, <2>8 DEF Forward
    <2>4. PgInv' /\ RowInv' BY <1>9, <2>1, <2>2 DEF IInv, PgInv, RowInv
    <2>5. ChargeInv' BY <1>9, <2>8 DEF IInv, ChargeInv, TypeOK
    <2>6. MoneyInv'
      BY <1>9, <2>1, <2>2 DEF IInv, MoneyInv, OneCapture, CapturedIsTraceable, Captured
    <2>7. LedgerInv' BY <1>9, <2>1, <2>2 DEF IInv, LedgerInv, LedgerOk
    <2> QED BY <1>9, <2>2, <2>3, <2>4, <2>5, <2>6, <2>7 DEF Unmoved
  <1>10. CASE FinishPaid(w)
    <2>1. /\ winv[w] \in Invoices /\ wpc[w] \in PastClaim /\ ledger[winv[w]]["INVOICE_PAID"] = 1
          /\ FinishAttempt(winv[w], "paid") /\ Done(w)
          /\ UNCHANGED <<status, tid, cancelled, ledger, pgvars, jobs>>
      BY <1>0, <1>10 DEF FinishPaid, WorkerOk, PastClaim
    <2>2. \A v \in Workers : v # w => wpc'[v] = wpc[v] /\ winv'[v] = winv[v] /\ wtid'[v] = wtid[v]
      BY <2>1 DEF Done, TypeOK
    <2>3. /\ Forward /\ PgInv' /\ RowInv' /\ ChargeInv' /\ MoneyInv' /\ LedgerInv'
          /\ \A v \in Workers : v # w => Unmoved(v)
      BY <1>9, <2>1, <2>2
    <2>4. WorkerOk(w)' BY <2>1 DEF Done, WorkerOk, PastClaim, TypeOK
    <2>5. OneClaim' BY <2>1, <2>2 DEF Done, IInv, OneClaim, PastClaim, TypeOK
    <2> QED BY <2>1, <2>3, <2>4, <2>5, Keep
  <1>11. CASE FinishReview(w)
    <2>1. /\ winv[w] \in Invoices /\ wpc[w] = "failing" /\ wpc'[w] = "holding"
          /\ FinishAttempt(winv[w], "review") /\ \A v \in Workers : v # w => wpc'[v] = wpc[v]
          /\ UNCHANGED <<status, tid, cancelled, ledger, pgvars, jobs, winv, wtid>>
      BY <1>0, <1>11 DEF FinishReview, TypeOK
    <2>2. /\ Forward /\ PgInv' /\ RowInv' /\ ChargeInv' /\ MoneyInv' /\ LedgerInv'
          /\ attempt'[winv[w]] # "none" /\ \A v \in Workers : v # w => Unmoved(v)
      BY <1>9, <2>1 DEF PastClaim
    <2>3. WorkerOk(w)' BY <1>0, <2>1, <2>2 DEF WorkerOk, PastClaim
    <2>4. OneClaim' BY <2>1 DEF IInv, OneClaim, PastClaim
    <2> QED BY <2>1, <2>2, <2>3, <2>4, Keep
  <1>12. CASE HoldInvoice(w)
    <2> DEFINE i == winv[w]
    <2>1. /\ i \in Invoices /\ wpc[w] = "holding" /\ Log(i, "INVOICE_AUTOCHARGE_REVIEW") /\ Done(w)
          /\ \A k \in Invoices : status'[k] = status[k]
               \/ (k = i /\ status[k] = "processing" /\ status'[k] = "review")
          /\ UNCHANGED <<tid, cancelled, attempt, pgvars, jobs>>
      BY <1>0, <1>12 DEF HoldInvoice, TypeOK
    <2>2. \A v \in Workers : v # w => wpc'[v] = wpc[v] /\ winv'[v] = winv[v] /\ wtid'[v] = wtid[v]
      BY <2>1 DEF Done, TypeOK
    <2>3. /\ "INVOICE_PAID" \in Events /\ "INVOICE_CANCEL_REPORTED" \in Events
          /\ "INVOICE_AUTOCHARGE_REVIEW" \in Events
      BY DEF Events
    <2>4. \A k \in Invoices : \A f \in Events :
            ledger'[k][f] = IF k = i /\ f = "INVOICE_AUTOCHARGE_REVIEW"
                              THEN ledger[k][f] + 1 ELSE ledger[k][f]
      BY <2>1, <2>3, LogEffect
    <2>5. attempt[i] # "none" /\ ledger[i]["INVOICE_AUTOCHARGE_REVIEW"] = 0
      BY <1>0, <2>1 DEF WorkerOk, PastClaim
    <2>6. Forward BY <2>1, <2>3, <2>4 DEF Forward, Uncharged
    <2>7. PgInv' /\ RowInv' /\ ChargeInv' /\ MoneyInv'
      BY <2>1 DEF IInv, PgInv, RowInv, ChargeInv, Uncharged, MoneyInv, OneCapture,
        CapturedIsTraceable, Captured
    <2>8. LedgerInv' BY <2>1, <2>3, <2>4, <2>5 DEF IInv, LedgerInv, LedgerOk
    <2>9. \A v \in Workers : v # w /\ wpc[v] \in PastClaim => winv[v] # i /\ winv[v] \in Invoices
      BY <2>1 DEF IInv, OneClaim, PastClaim, TypeOK
    <2>10. \A v \in Workers : v # w => Unmoved(v) BY <2>1, <2>2, <2>3, <2>4, <2>9 DEF Unmoved
    <2>11. WorkerOk(w)' BY <2>1 DEF Done, WorkerOk, PastClaim, TypeOK
    <2>12. OneClaim' BY <2>1, <2>2 DEF Done, IInv, OneClaim, PastClaim, TypeOK
    <2> HIDE DEF i
    <2> QED BY <2>1, <2>6, <2>7, <2>8, <2>10, <2>11, <2>12, Keep
  <1> QED
    BY <1>1, <1>2, <1>3, <1>4, <1>5, <1>6, <1>7, <1>8, <1>10, <1>11, <1>12 DEF WorkerNext

\* The steps of the PG.
LEMMA PgStep == ASSUME TypeOK, TypeOK', IInv, PgNext PROVE IInv'
  <1> USE DEF rows, pgvars, wvars
  <1>1. ASSUME NEW t \in Tids, PgCancel(t) PROVE IInv'
    <2>1. /\ UNCHANGED <<rows, pgOrder, approvals, charges, jobs, wvars>>
          /\ pgState[t] # "unused" /\ pgState'[t] # "unused"
          /\ pgState[t] \in Moved <=> pgState'[t] \in Moved
          /\ pgState[t] # "cancelled" /\ \A u \in Tids : u # t => pgState'[u] = pgState[u]
      BY <1>1 DEF PgCancel, Moved, TypeOK
    <2>2. Forward BY <2>1 DEF Forward, Uncharged
    <2>3. PgInv' /\ ChargeInv' BY <2>1 DEF IInv, PgInv, ChargeInv, Uncharged
    <2>4. /\ \A u \in Tids : pgState[u] \in Moved <=> pgState'[u] \in Moved
          /\ \A u \in Tids : pgState[u] = "cancelled" => pgState'[u] = "cancelled"
          /\ \A k \in Invoices : tid[k] # None => tid[k] \in Tids
      BY <2>1 DEF TypeOK
    <2>9. RowInv' BY <2>1, <2>4 DEF IInv, RowInv
    <2>10. LedgerInv' BY <2>1, <2>4 DEF IInv, LedgerInv, LedgerOk
    <2>5. \A k \in Invoices : Captured(k)' = Captured(k) BY <2>1 DEF Captured, Moved
    <2>6. MoneyInv' BY <2>1, <2>5 DEF IInv, MoneyInv, OneCapture, CapturedIsTraceable
    <2>7. OneClaim' BY <2>1 DEF IInv, OneClaim
    <2>8. \A w \in Workers : Unmoved(w) BY <2>1 DEF Unmoved
    <2> QED BY <2>1, <2>2, <2>3, <2>6, <2>7, <2>8, <2>9, <2>10, Keep
  <1>2. ASSUME NEW t \in Tids, NEW d \in {"paid", "failed"}, PgApprove(t, d) PROVE IInv'
    <2> DEFINE i == pgOrder[t]
    <2>1. /\ t \in approvals /\ pgState[t] = "ready" /\ pgState'[t] = d
          /\ \A u \in Tids : u # t => pgState'[u] = pgState[u]
          /\ approvals' \subseteq approvals /\ Answer(t, d)
          /\ UNCHANGED <<rows, pgOrder, charges, wvars>>
      BY <1>2 DEF PgApprove, TypeOK
    <2>2. i \in Invoices /\ tid[i] = t /\ attempt[i] = "none"
      BY <2>1 DEF IInv, ApprovalInv, ApprovalOk, TypeOK
    <2>3. ~cancelled[i] /\ status[i] # "paid"
      BY <2>1, <2>2 DEF IInv, RowInv, LedgerInv, LedgerOk, Moved
    <2>4. \A u \in Captured(i) : u = t
      BY <2>2 DEF IInv, MoneyInv, CapturedIsTraceable
    <2>5. Forward BY <2>1, <2>2 DEF Forward, Uncharged, Moved
    <2>6. PgInv' BY <2>1 DEF IInv, PgInv
    <2>7. RowInv' BY <2>1, <2>2, <2>3, NoneAssumption DEF IInv, RowInv, Moved, TypeOK
    <2>8. ChargeInv' BY <2>1, <2>2 DEF IInv, ChargeInv, Uncharged
    <2>9. MoneyInv'
      BY <2>1, <2>2, <2>4 DEF IInv, MoneyInv, OneCapture, CapturedIsTraceable, Captured
    <2>10. LedgerInv'
      BY <2>1, <2>2, <2>3, NoneAssumption DEF IInv, LedgerInv, LedgerOk, Moved, TypeOK
    <2>11. \A k \in jobs' : k \in jobs \/ JobOk(k)'
      <3> SUFFICES ASSUME NEW k \in jobs', k \notin jobs PROVE JobOk(k)'
        OBVIOUS
      <3>1. PICK j \in jobs : /\ j.step = "await" /\ j.tid = t
                              /\ k = [j EXCEPT !.step = "settle", !.data = d]
        BY <2>1 DEF Answer
      <3>2. JobOk(j) /\ j \in Job BY DEF IInv, JobInv, TypeOK
      <3> QED BY <2>1, <3>1, <3>2 DEF JobOk, Job, Moved
    <2>12. OneClaim' BY <2>1 DEF IInv, OneClaim
    <2>13. \A w \in Workers : Unmoved(w) BY <2>1 DEF Unmoved
    <2> HIDE DEF i
    <2> QED BY <2>1, <2>5, <2>6, <2>7, <2>8, <2>9, <2>10, <2>11, <2>12, <2>13, Keep
  <1>3. ASSUME NEW i \in Invoices, PgDecline(i) PROVE IInv'
    <2>1. /\ charges' = charges \ {i} /\ AnswerWorkers(i, None)
          /\ UNCHANGED <<rows, pgState, pgOrder, approvals, jobs, winv>>
      BY <1>3 DEF PgDecline
    <2>2. /\ Forward /\ PgInv' /\ RowInv' /\ ChargeInv' /\ MoneyInv' /\ LedgerInv'
      BY <2>1 DEF Forward, Uncharged, IInv, PgInv, RowInv, ChargeInv, MoneyInv, OneCapture,
        CapturedIsTraceable, Captured, LedgerInv, LedgerOk
    <2>3. ASSUME NEW w \in Workers PROVE Unmoved(w) \/ WorkerOk(w)'
      BY <2>1 DEF AnswerWorkers, Unmoved, IInv, WorkerInv, WorkerOk, PastClaim
    <2>4. OneClaim' BY <2>1 DEF AnswerWorkers, IInv, OneClaim, PastClaim
    <2> QED BY <2>1, <2>2, <2>3, <2>4, Keep
  <1>4. ASSUME NEW i \in Invoices, NEW t \in Tids, NEW a \in {t, None}, PgCharge(i, t, a)
        PROVE  IInv'
    <2>1. /\ i \in charges /\ charges' = charges \ {i} /\ AnswerWorkers(i, a)
          /\ pgState[t] = "unused" /\ pgState'[t] = "paid" /\ pgOrder[t] = None /\ pgOrder'[t] = i
          /\ \A u \in Tids : u # t => pgState'[u] = pgState[u] /\ pgOrder'[u] = pgOrder[u]
          /\ UNCHANGED <<rows, approvals, jobs, winv>>
      BY <1>4 DEF PgCharge, TypeOK, IInv, PgInv
    <2>2. attempt[i] # "none" /\ tid[i] = None /\ Captured(i) = {}
      BY <2>1 DEF IInv, ChargeInv, Uncharged, Captured, Moved
    <2>3. Forward BY <2>1 DEF Forward, Uncharged, Moved
    <2>4. PgInv' BY <2>1, NoneAssumption DEF IInv, PgInv
    <2>5. RowInv' BY <2>1, NoneAssumption DEF IInv, RowInv, Moved, TypeOK
    <2>6. ChargeInv' BY <2>1 DEF IInv, ChargeInv, Uncharged
    <2>7. MoneyInv'
      BY <2>1, <2>2 DEF IInv, MoneyInv, OneCapture, CapturedIsTraceable, Captured
    <2>8. LedgerInv' BY <2>1, NoneAssumption DEF IInv, LedgerInv, LedgerOk, Moved, TypeOK
    <2>9. ASSUME NEW w \in Workers PROVE Unmoved(w) \/ WorkerOk(w)'
      <3>1. CASE wpc[w] = "charging" /\ winv[w] = i
        BY <2>1, <3>1 DEF AnswerWorkers, IInv, WorkerInv, WorkerOk, PastClaim, Moved
      <3>2. CASE ~(wpc[w] = "charging" /\ winv[w] = i)
        BY <2>1, <3>2 DEF AnswerWorkers, Unmoved
      <3> QED BY <3>1, <3>2
    <2>10. OneClaim' BY <2>1 DEF AnswerWorkers, IInv, OneClaim, PastClaim
    <2> QED BY <2>1, <2>3, <2>4, <2>5, <2>6, <2>7, <2>8, <2>9, <2>10, Keep
  <1> QED BY <1>1, <1>2, <1>3, <1>4 DEF PgNext

LEMMA SafetyStep == ASSUME TypeOK, IInv, [Next]_vars PROVE IInv'
  <1>1. TypeOK' BY TypeStep
  <1>2. CASE UNCHANGED vars
    BY <1>2, JobsOnly DEF vars, IInv, JobInv, JobOk, rows, pgvars
  <1>3. CASE Next
    BY <1>1, <1>3, RequestStep, WorkerStep, PgStep DEF Next
  <1> QED BY <1>2, <1>3

LEMMA InitSafe == Init => TypeOK /\ IInv
  <1>1. Init => IInv
    BY NoneAssumption DEF Init, IInv, PgInv, RowInv, JobInv, ApprovalInv, ChargeInv, WorkerInv,
      WorkerOk, OneClaim, MoneyInv, OneCapture, CapturedIsTraceable, Captured, LedgerInv,
      LedgerOk, PastClaim, Moved, Events
  <1>2. Init => TypeOK
    BY DEF Init, TypeOK, Statuses, Outcomes, Events, PgStates, Steps
  <1> QED BY <1>1, <1>2

LEMMA Safety == Spec => [](TypeOK /\ IInv)
  <1>1. TypeOK /\ IInv /\ [Next]_vars => TypeOK' /\ IInv'
    BY TypeStep, SafetyStep
  <1> QED BY <1>1, InitSafe, PTL DEF Spec

-------------------------------------------------------------------------------
(* The properties *)

\* However returns, workers, retries and requests interleave, the money of an
\* invoice is captured at most once.
THEOREM CapturedOnce == Spec => []OneCapture
  <1>1. IInv => OneCapture BY DEF IInv, MoneyInv
  <1> QED BY <1>1, Safety, PTL

\* A paid invoice records a transaction of its own in which money moved.
THEOREM PaidMeansCaptured == Spec => []PaidIsCaptured
  <1>1. TypeOK /\ IInv => PaidIsCaptured
    <2> SUFFICES ASSUME TypeOK, IInv, NEW i \in Invoices, status[i] = "paid"
                 PROVE  tid[i] # None /\ tid[i] \in Captured(i)
      BY DEF PaidIsCaptured
    <2>1. tid[i] # None /\ pgState[tid[i]] \in Moved BY DEF IInv, LedgerInv, LedgerOk
    <2>2. pgOrder[tid[i]] = i BY <2>1 DEF IInv, RowInv
    <2> QED BY <2>1, <2>2 DEF TypeOK, Captured, Moved
  <1> QED BY <1>1, Safety, PTL

\* Captured money can always be found from the invoice's rows.
THEOREM CapturedMoneyIsTraceable == Spec => []CapturedIsTraceable
  <1>1. IInv => CapturedIsTraceable BY DEF IInv, MoneyInv
  <1> QED BY <1>1, Safety, PTL

\* No answer, however late, takes an invoice out of review after its cancellation.
THEOREM CancelledIsHeld == Spec => []CancelledStaysInReview
  <1>1. IInv => CancelledStaysInReview BY DEF IInv, RowInv, CancelledStaysInReview
  <1> QED BY <1>1, Safety, PTL

\* Each event of an invoice reaches the ledger at most once, payment and
\* cancellation exactly when they are recorded in the row.
THEOREM LedgerHasEachEventOnce == Spec => []LoggedOnce
  <1>1. IInv => LoggedOnce BY DEF IInv, LedgerInv, LedgerOk, LoggedOnce, Events
  <1> QED BY <1>1, Safety, PTL

\* An attempt ends as 'paid' only after its invoice was confirmed.
THEOREM PaidAttemptIsConfirmed == Spec => []PaidAttemptWasConfirmed
  <1>1. IInv => PaidAttemptWasConfirmed
    BY DEF IInv, LedgerInv, LedgerOk, PaidAttemptWasConfirmed
  <1> QED BY <1>1, Safety, PTL

-------------------------------------------------------------------------------
(* What a step does to the rows and the money, and the refinement *)

Quiet == UNCHANGED <<status, cancelled, pgState, pgOrder>>
Opens(i) ==
  /\ status[i] = "open" /\ status' = [status EXCEPT ![i] = "processing"]
  /\ UNCHANGED <<cancelled, pgState, pgOrder>>
Holds(i) ==
  /\ status[i] = "processing" /\ status' = [status EXCEPT ![i] = "review"]
  /\ UNCHANGED <<cancelled, pgState, pgOrder>>
Settles(i, t, d) ==
  /\ pgOrder[t] = i /\ (d = "paid" => pgState[t] \in Moved)
  /\ d = "cancelled" => pgState[t] = "cancelled"
  /\ Settle(i, t, d)
  /\ UNCHANGED <<pgState, pgOrder>>

\* A step of the PG that moves no money.
Idles ==
  /\ UNCHANGED <<status, cancelled>>
  /\ \A t \in Tids : \/ pgState'[t] = pgState[t] /\ pgOrder'[t] = pgOrder[t]
                     \/ pgState[t] \notin Moved /\ pgState'[t] \notin Moved
Captures(i, t) ==
  /\ UNCHANGED <<status, cancelled>>
  /\ status[i] # "open" /\ pgState'[t] = "paid" /\ pgOrder'[t] = i
  /\ Captured(i) = {} /\ pgState[t] \notin Moved
  /\ \A u \in Tids : u # t => pgState'[u] = pgState[u] /\ pgOrder'[u] = pgOrder[u]
Returns(i, t) ==
  /\ UNCHANGED <<status, cancelled, pgOrder>>
  /\ pgOrder[t] = i /\ pgState[t] = "paid"
  /\ pgState' = [pgState EXCEPT ![t] = "cancelled"]

RowStep ==
  \/ Quiet \/ Idles
  \/ \E i \in Invoices : Opens(i) \/ Holds(i)
  \/ \E i \in Invoices, t \in Tids : Captures(i, t) \/ Returns(i, t)
  \/ \E i \in Invoices, t \in Tids, d \in PgStates : Settles(i, t, d)

LEMMA RowSteps == ASSUME TypeOK, IInv, [Next]_vars PROVE RowStep
  <1> USE DEF rows, pgvars, wvars
  <1>1. CASE UNCHANGED vars BY <1>1 DEF vars, RowStep, Quiet
  <1>2. ASSUME NEW i \in Invoices, NEW t \in Tids,
               Checkout(i, t) \/ PaymentReturn(i, t) \/ Webhook(i, t)
        PROVE  RowStep
    <2>1. CASE Checkout(i, t) BY <2>1 DEF Checkout, RowStep, Idles, Moved, TypeOK
    <2>2. CASE PaymentReturn(i, t) BY <2>2 DEF PaymentReturn, RowStep, Opens
    <2>3. CASE Webhook(i, t) BY <2>3 DEF Webhook, RowStep, Quiet
    <2> QED BY <1>2, <2>1, <2>2, <2>3
  <1>3. ASSUME NEW i \in Invoices, Reconcile(i) \/ ReconcileTick(i) PROVE RowStep
    BY <1>3 DEF Reconcile, ReconcileTick, RowStep, Quiet
  <1>4. ASSUME NEW j \in jobs, JobNext(j) PROVE RowStep
    <2>1. CASE SettleJob(j)
      <3>1. JobOk(j) /\ j \in Job BY DEF IInv, JobInv, TypeOK
      <3>2. j.inv \in Invoices /\ j.tid \in Tids /\ j.data \in PgStates
        BY <2>1, <3>1, JobFields DEF SettleJob
      <3>3. Settles(j.inv, j.tid, j.data) BY <2>1, <3>1 DEF SettleJob, JobOk, Settles
      <3> QED BY <3>2, <3>3 DEF RowStep
    <2>2. CASE ~SettleJob(j)
      BY <1>4, <2>2
      DEF JobNext, Approve, Get, Find, BindJob, MarkAttempt, DropJob, RowStep, Quiet
    <2> QED BY <2>1, <2>2
  <1>5. ASSUME NEW w \in Workers, WorkerNext(w) PROVE RowStep
    <2>0. WorkerOk(w) /\ (wpc[w] # "idle" => winv[w] \in Invoices)
      BY DEF IInv, WorkerInv, TypeOK
    <2>1. CASE Claim(w)
      BY <2>0, <2>1 DEF Claim, Claimable, RowStep, Opens
    <2>2. CASE SettleCharge(w)
      <3>1. winv[w] \in Invoices /\ wtid[w] \in Tids /\ "paid" \in PgStates
        BY <2>0, <2>2 DEF SettleCharge, WorkerOk, TypeOK, PgStates
      <3>2. Settles(winv[w], wtid[w], "paid")
        BY <2>0, <2>2, <3>1, NoneAssumption DEF SettleCharge, WorkerOk, Settles
      <3> QED BY <3>1, <3>2 DEF RowStep
    <2>3. CASE HoldInvoice(w)
      <3>1. winv[w] \in Invoices BY <2>0, <2>3 DEF HoldInvoice
      <3>2. CASE status[winv[w]] = "processing"
        BY <2>3, <3>1, <3>2 DEF HoldInvoice, RowStep, Holds
      <3>3. CASE status[winv[w]] # "processing"
        <4>1. status' = status BY <2>3, <3>1, <3>3 DEF HoldInvoice, TypeOK
        <4> QED BY <2>3, <4>1 DEF HoldInvoice, RowStep, Quiet
      <3> QED BY <3>2, <3>3
    <2>4. CASE ~Claim(w) /\ ~SettleCharge(w) /\ ~HoldInvoice(w)
      BY <1>5, <2>4
      DEF WorkerNext, Scan, TakeCard, SkipCard, Yield, CryptoUnavailable, SendCharge,
          ChargeTimeout, BindCharge, NoTid, FinishPaid, FinishReview, WorkerCrash, RowStep, Quiet
    <2> QED BY <2>1, <2>2, <2>3, <2>4
  <1>6. CASE PgNext
    <2>1. ASSUME NEW t \in Tids, PgCancel(t) PROVE RowStep
      <3>1. pgOrder[t] \in Invoices BY <2>1 DEF PgCancel, IInv, PgInv, TypeOK
      <3> QED BY <2>1, <3>1 DEF PgCancel, RowStep, Returns
    <2>2. ASSUME NEW t \in Tids, PgApprove(t, "failed") PROVE RowStep
      BY <2>2 DEF PgApprove, RowStep, Idles, Moved, TypeOK
    <2>3. ASSUME NEW t \in Tids, PgApprove(t, "paid") PROVE RowStep
      <3> DEFINE i == pgOrder[t]
      <3>1. i \in Invoices /\ tid[i] = t BY <2>3 DEF PgApprove, IInv, ApprovalInv, ApprovalOk, TypeOK
      <3>2. status[i] # "open" BY <3>1, NoneAssumption DEF IInv, RowInv
      <3>3. pgState[t] = "ready" /\ \A u \in Captured(i) : u = t
        BY <2>3, <3>1, NoneAssumption DEF PgApprove, IInv, MoneyInv, CapturedIsTraceable
      <3>4. Captured(i) = {} BY <3>3 DEF Captured
      <3>5. Captures(i, t)
        BY <2>3, <3>1, <3>2, <3>3, <3>4 DEF PgApprove, Captures, Moved, TypeOK
      <3> QED BY <3>1, <3>5 DEF RowStep
    <2>4. ASSUME NEW i \in Invoices, PgDecline(i) PROVE RowStep
      BY <2>4 DEF PgDecline, RowStep, Quiet
    <2>5. ASSUME NEW i \in Invoices, NEW t \in Tids, NEW a \in {t, None}, PgCharge(i, t, a)
          PROVE  RowStep
      <3>1. attempt[i] # "none" /\ Captured(i) = {}
        BY <2>5 DEF PgCharge, IInv, ChargeInv, Uncharged, Captured, Moved
      <3>2. status[i] # "open" BY <3>1 DEF IInv, RowInv
      <3>3. Captures(i, t) BY <2>5, <3>1, <3>2 DEF PgCharge, Captures, Moved, TypeOK
      <3> QED BY <3>3 DEF RowStep
    <2> QED BY <1>6, <2>1, <2>2, <2>3, <2>4, <2>5 DEF PgNext
  <1> QED BY <1>1, <1>2, <1>3, <1>4, <1>5, <1>6 DEF Next

\* No stale or failed answer takes a payment back: an invoice leaves 'paid' in the
\* step that records a cancellation the PG has.
THEOREM PaidIsStable == Spec => PaidEndsByCancellation
  <1> DEFINE Stable == \A i \in Invoices : status[i] = "paid" /\ status'[i] # "paid" =>
                         cancelled'[i] /\ pgState[tid[i]] = "cancelled"
  <1>1. TypeOK /\ IInv /\ [Next]_vars => [Stable]_vars
    <2> SUFFICES ASSUME TypeOK, IInv, [Next]_vars, NEW k \in Invoices,
                        status[k] = "paid", status'[k] # "paid"
                 PROVE  cancelled'[k] /\ pgState[tid[k]] = "cancelled"
      OBVIOUS
    <2>1. PICK i \in Invoices, t \in Tids, d \in PgStates : Settles(i, t, d)
      BY RowSteps DEF RowStep, Quiet, Idles, Opens, Holds, Captures, Returns, TypeOK
    <2>2. ~SettlePaid(i, t, d) BY DEF SettlePaid, TypeOK
    <2>3. ~SettleUnverified(i, t, d) BY DEF SettleUnverified, TypeOK
    <2>4. ~SettleRefused(i, t, d) BY DEF SettleRefused
    <2>5. SettleCancelled(i, t, d) BY <2>1, <2>2, <2>3, <2>4 DEF Settles, Settle
    <2>6. k = i BY <2>5 DEF SettleCancelled, TypeOK
    <2> QED
      BY <2>1, <2>5, <2>6 DEF Settles, SettleCancelled, CancellationReported, TypeOK
  <1>2. Spec => [][Stable]_vars
    BY <1>1, Safety, PTL DEF Spec
  <1> QED BY <1>2 DEF PaidEndsByCancellation

phaseBar    == [i \in Invoices |-> Phase(status[i])]
moneyBar    == [i \in Invoices |-> Money(i)]

\* The steps of the rows and the PG are steps of InvoiceLifecycle, or stutter.
LEMMA LifecycleStep ==
  ASSUME TypeOK, TypeOK', IInv, [Next]_vars
  PROVE  Lifecycle!ANext \/ (phaseBar' = phaseBar /\ moneyBar' = moneyBar /\ cancelled' = cancelled)
  <1> USE DEF Statuses
  <1>0. ASSUME NEW i \in Invoices, NEW s \in Statuses, status' = [status EXCEPT ![i] = s]
        PROVE  phaseBar' = [phaseBar EXCEPT ![i] = Phase(s)]
    BY <1>0 DEF phaseBar, TypeOK
  <1>1. ASSUME UNCHANGED <<pgState, pgOrder>> PROVE moneyBar' = moneyBar
    BY <1>1 DEF moneyBar, Money, Captured
  <1>2. CASE Quiet
    BY <1>1, <1>2 DEF Quiet, phaseBar
  <1>3. CASE Idles
    <2>1. \A i \in Invoices : Captured(i)' = Captured(i)
      BY <1>3 DEF Idles, Captured, Moved
    <2>2. \A i \in Invoices : \A t \in Captured(i) : pgState'[t] = pgState[t]
      BY <1>3 DEF Idles, Captured, Moved
    <2>3. moneyBar' = moneyBar BY <2>1, <2>2 DEF moneyBar, Money
    <2> QED BY <1>3, <2>3 DEF Idles, phaseBar
  <1>4. ASSUME NEW i \in Invoices, Opens(i) PROVE Lifecycle!Begin(i)
    <2>1. phaseBar' = [phaseBar EXCEPT ![i] = "paying"] /\ moneyBar' = moneyBar
      BY <1>0, <1>1, <1>4 DEF Opens, Phase
    <2> QED BY <1>4, <2>1 DEF Opens, Lifecycle!Begin, phaseBar, moneyBar, Phase
  <1>5. ASSUME NEW i \in Invoices, Holds(i) PROVE Lifecycle!Hold(i)
    <2>1. phaseBar' = [phaseBar EXCEPT ![i] = "held"] /\ moneyBar' = moneyBar
      BY <1>0, <1>1, <1>5 DEF Holds, Phase
    <2> QED BY <1>5, <2>1 DEF Holds, Lifecycle!Hold, phaseBar, moneyBar, Phase
  <1>6. ASSUME NEW i \in Invoices, NEW t \in Tids, Captures(i, t) PROVE Lifecycle!Capture(i)
    <2>1. Money(i) = "none" /\ Money(i)' = "captured"
      BY <1>6 DEF Captures, Money, Captured
    <2>2. ASSUME NEW k \in Invoices, k # i PROVE Money(k)' = Money(k)
      <3>1. Captured(k)' = Captured(k) /\ t \notin Captured(k)
        BY <1>6, <2>2 DEF Captures, Captured, Moved
      <3> QED BY <1>6, <3>1 DEF Captures, Money, Captured
    <2>3. moneyBar' = [moneyBar EXCEPT ![i] = "captured"] BY <2>1, <2>2 DEF moneyBar
    <2>4. phaseBar' = phaseBar /\ phaseBar[i] # "due"
      BY <1>6 DEF Captures, phaseBar, Phase, TypeOK
    <2> QED BY <1>6, <2>1, <2>3, <2>4 DEF Captures, Lifecycle!Capture, phaseBar, moneyBar
  <1>7. ASSUME NEW i \in Invoices, NEW t \in Tids, Returns(i, t) PROVE Lifecycle!GiveBack(i)
    <2>1. \A k \in Invoices : Captured(k)' = Captured(k)
      BY <1>7 DEF Returns, Captured, TypeOK
    <2>2. t \in Captured(i) /\ \A u \in Captured(i) : u = t
      BY <1>7 DEF Returns, Captured, IInv, MoneyInv, OneCapture
    <2>3. Money(i) = "captured" /\ Money(i)' = "returned"
      BY <1>7, <2>1, <2>2 DEF Returns, Money, TypeOK
    <2>4. ASSUME NEW k \in Invoices, k # i PROVE Money(k)' = Money(k)
      <3>1. t \notin Captured(k) BY <1>7, <2>4 DEF Returns, Captured
      <3>2. \A u \in Captured(k) : pgState'[u] = pgState[u]
        BY <1>7, <3>1 DEF Returns, Captured, TypeOK
      <3> QED BY <2>1, <3>2 DEF Money
    <2>5. moneyBar' = [moneyBar EXCEPT ![i] = "returned"] BY <2>3, <2>4 DEF moneyBar
    <2>6. phaseBar' = phaseBar BY <1>7 DEF Returns, phaseBar
    <2> QED BY <1>7, <2>3, <2>5, <2>6 DEF Returns, Lifecycle!GiveBack, phaseBar, moneyBar
  <1>8. ASSUME NEW i \in Invoices, NEW t \in Tids, NEW d \in PgStates, Settles(i, t, d)
        PROVE  Lifecycle!ANext \/ (phaseBar' = phaseBar /\ moneyBar' = moneyBar /\ cancelled' = cancelled)
    <2>0. moneyBar' = moneyBar BY <1>1, <1>8 DEF Settles
    <2>1. CASE SettlePaid(i, t, d)
      <3>1. status' = [status EXCEPT ![i] = "paid"] /\ cancelled' = cancelled /\ ~cancelled[i]
            /\ tid[i] = t /\ pgState[t] \in Moved /\ pgOrder[t] = i
        BY <1>8, <2>1 DEF SettlePaid, Confirms, PaymentValid, Settles
      <3>2. CASE status[i] = "paid"
        <4>1. status' = status BY <3>1, <3>2 DEF TypeOK
        <4> QED BY <2>0, <3>1, <4>1 DEF phaseBar
      <3>3. CASE status[i] # "paid"
        <4>1. phaseBar' = [phaseBar EXCEPT ![i] = "settled"] BY <1>0, <3>1 DEF Phase
        <4>2. status[i] # "open" BY <3>1, NoneAssumption DEF IInv, RowInv
        <4>3. phaseBar[i] \in {"paying", "held"} BY <3>3, <4>2 DEF phaseBar, Phase, TypeOK
        <4>4. moneyBar[i] # "none" BY <3>1 DEF moneyBar, Money, Captured, Moved
        <4>5. Lifecycle!Confirm(i)
          BY <2>0, <3>1, <4>1, <4>3, <4>4 DEF Lifecycle!Confirm, phaseBar, moneyBar
        <4> QED BY <4>5 DEF Lifecycle!ANext
      <3> QED BY <3>2, <3>3
    <2>2. CASE SettleCancelled(i, t, d)
      <3>1. /\ status' = [status EXCEPT ![i] = "review"] /\ ~cancelled[i]
            /\ cancelled' = [cancelled EXCEPT ![i] = TRUE]
            /\ tid[i] = t /\ pgState[t] = "cancelled" /\ pgOrder[t] = i
        BY <1>8, <2>2 DEF SettleCancelled, CancellationReported, Settles
      <3>2. phaseBar' = [phaseBar EXCEPT ![i] = "held"] BY <1>0, <3>1 DEF Phase
      <3>3. status[i] # "open" BY <3>1, NoneAssumption DEF IInv, RowInv
      <3>4. phaseBar[i] # "due" BY <3>3 DEF phaseBar, Phase, TypeOK
      <3>5. t \in Captured(i) /\ \A u \in Captured(i) : u = t
        BY <3>1 DEF Captured, IInv, MoneyInv, OneCapture
      <3>6. moneyBar[i] = "returned" BY <3>1, <3>5 DEF moneyBar, Money
      <3>7. Lifecycle!Reverse(i)
        BY <2>0, <3>1, <3>2, <3>4, <3>6 DEF Lifecycle!Reverse, phaseBar, moneyBar
      <3> QED BY <3>7 DEF Lifecycle!ANext
    <2>3. CASE SettleUnverified(i, t, d)
      <3>1. cancelled' = cancelled /\ tid[i] = t BY <2>3 DEF SettleUnverified
      <3>2. status[i] # "open" BY <3>1, NoneAssumption DEF IInv, RowInv
      <3>3. CASE status[i] = "processing"
        <4>1. Holds(i) BY <1>8, <2>3, <3>3 DEF SettleUnverified, Holds, Settles
        <4> QED BY <1>5, <4>1 DEF Lifecycle!ANext
      <3>4. CASE status[i] # "processing"
        <4>1. status' = status BY <2>3, <3>2, <3>4 DEF SettleUnverified, TypeOK
        <4> QED BY <2>0, <3>1, <4>1 DEF phaseBar
      <3> QED BY <3>3, <3>4
    <2>4. CASE SettleRefused(i, t, d)
      BY <2>0, <2>4 DEF SettleRefused, phaseBar
    <2> QED BY <1>8, <2>1, <2>2, <2>3, <2>4 DEF Settles, Settle
  <1> QED
    BY <1>2, <1>3, <1>4, <1>5, <1>6, <1>7, <1>8, RowSteps DEF RowStep, Lifecycle!ANext

\* Settlement, with all its requests, workers and late answers, implements the
\* life of an invoice as InvoiceLifecycle states it.
THEOREM Refinement == Spec => ImplementsLifecycle
  <1>1. Init => Lifecycle!AInit
    BY NoneAssumption DEF Init, Lifecycle!AInit, Phase, Money, Captured
  <1>2. TypeOK /\ IInv /\ [Next]_vars => [Lifecycle!ANext]_(Lifecycle!avars)
    BY TypeStep, LifecycleStep DEF Lifecycle!avars, phaseBar, moneyBar
  <1> QED BY <1>1, <1>2, Safety, PTL DEF Spec, ImplementsLifecycle, Lifecycle!ASpec
-------------------------------------------------------------------------------
(***************************************************************************)
(* The composition of Settlement and BillingCard keeps what each promises, *)
(* and the promises of the two together, for any number of invoices,       *)
(* transactions, workers, owners' requests and keys.                       *)
(***************************************************************************)

(***************************************************************************)
(* What binds the two: a worker is at the same point in both modules, and  *)
(* each charge that is on its way to the PG in one is so in the other.     *)
(***************************************************************************)
StepsMatch ==
  \A w \in Workers : /\ cardPc[w] = "reserved" <=> wpc[w] \in {"locked", "claimed"}
                     /\ cardPc[w] = "charging" <=> wpc[w] = "charging"

ChargeRequests == {m \in cardRequests : m.type = "charge"}

RequestsMatch ==
  /\ \A m \in ChargeRequests : attempt[m.order] # "none" /\ m.order \in charges
  /\ \A m \in ChargeRequests : m.by # None => winv[m.by] = m.order
  /\ \A m, n \in ChargeRequests : m.order = n.order => m = n
  /\ \A w \in Workers : wpc[w] = "charging" =>
       \E m \in ChargeRequests : m.by = w /\ m.order = winv[w]

JInv == TypeOK /\ IInv /\ Card!IInv /\ StepsMatch /\ RequestsMatch

-------------------------------------------------------------------------------
(* The card alone *)

LEMMA CardAssumptions ==
  Owners \cap Workers = {} /\ None \notin Card!Procs \cup Keys \cup Invoices
BY ProcsAssumption, CardNoneAssumption DEF Card!Procs

LEMMA CardInit == Card!Init => Card!IInv
BY CardAssumptions, Card!InitInv

LEMMA CardStep == Card!IInv /\ [Card!Next]_cardvars => Card!IInv'
<1>1. UNCHANGED cardvars => UNCHANGED Card!cardvars
  BY DEF cardvars, Card!cardvars
<1>. QED  BY <1>1, CardAssumptions, Card!StepKeeps

LEMMA InitJ == BillingInit => JInv
<1>. SUFFICES ASSUME BillingInit PROVE JInv
  OBVIOUS
<1>1. TypeOK /\ IInv
  BY InitSafe DEF BillingInit
<1>2. Card!IInv
  BY CardInit DEF BillingInit
<1>3. StepsMatch /\ RequestsMatch
  BY DEF BillingInit, Init, Card!Init, Card!Procs, StepsMatch, RequestsMatch, ChargeRequests
<1>. QED  BY <1>1, <1>2, <1>3 DEF JInv

-------------------------------------------------------------------------------
(* A step of the composition is a step, or none, of each of the two *)

LEMMA RequestTypes ==
  ASSUME JInv
  PROVE  /\ cardPc \in [Owners \cup Workers -> {"idle"} \cup Card!Waiting \cup Card!Locked]
         /\ \A m \in ChargeRequests :
              /\ m \in cardRequests /\ m.type = "charge"
              /\ m.order \in Invoices /\ m.key \in Keys
              /\ m.by # None => m.by \in Workers /\ cardPc[m.by] = "charging" /\ wpc[m.by] = "charging"
         /\ \A m \in cardRequests : m.by = None \/ m.by \in Owners \cup Workers
<1>1. Card!TypeOK /\ Card!Roles /\ Card!RequestInv
  BY DEF JInv, Card!IInv
<1>2. cardPc \in [Owners \cup Workers -> {"idle"} \cup Card!Waiting \cup Card!Locked]
      /\ cardRequests \subseteq Card!Request
  BY <1>1 DEF Card!TypeOK, Card!Procs
<1>3. \A m \in cardRequests : m.by = None \/ m.by \in Owners \cup Workers
  BY <1>2 DEF Card!Request, Card!Procs
<1>4. ASSUME NEW m \in ChargeRequests
      PROVE  /\ m \in cardRequests /\ m.type = "charge" /\ m.order \in Invoices /\ m.key \in Keys
             /\ m.by # None => m.by \in Workers /\ cardPc[m.by] = "charging" /\ wpc[m.by] = "charging"
  <2>1. m \in cardRequests /\ m.type = "charge" /\ m.order \in Invoices /\ m.key \in Keys
    BY <1>2 DEF ChargeRequests, Card!Request
  <2>2. m.by # None => cardPc[m.by] = "charging"
    BY <1>1, <2>1 DEF Card!RequestInv, Card!WaitedFor
  <2>3. m.by # None => m.by \in Workers
    BY <1>1, <1>3, <2>1, <2>2 DEF Card!Roles, Card!OwnerSteps
  <2>. QED  BY <2>1, <2>2, <2>3 DEF JInv, StepsMatch
<1>. QED  BY <1>2, <1>3, <1>4

LEMMA SettlementSteps ==
  ASSUME JInv, BillingNext
  PROVE  [Next]_vars
<1>1. CASE WindowNext
  BY <1>1 DEF WindowNext, Next, PgNext
<1>2. CASE CardOnly
  BY <1>2 DEF CardOnly
<1>3. ASSUME NEW w \in Workers, RowNext(w) PROVE [Next]_vars
  BY <1>3 DEF RowNext, ScanRow, LockCard, ReadCard, NoCard, YieldRow, NoKey, Charge, GiveUp,
              RowWork, EndRow, Die, Next, WorkerNext
<1>4. ASSUME NEW m \in cardRequests, NEW t \in Tids, NEW a \in {t, None}, CaptureCharge(m, t, a)
      PROVE  Next
  <2>1. m \in ChargeRequests
    BY <1>4 DEF CaptureCharge, Card!PgCapture, ChargeRequests
  <2>. QED  BY <1>4, <2>1, RequestTypes DEF CaptureCharge, Next, PgNext
<1>5. ASSUME NEW m \in cardRequests, DeclineCharge(m)
      PROVE  Next
  <2>1. m \in ChargeRequests
    BY <1>5 DEF DeclineCharge, ChargeRequests
  <2>. QED  BY <1>5, <2>1, RequestTypes DEF DeclineCharge, Next, PgNext
<1>. QED  BY <1>1, <1>2, <1>3, <1>4, <1>5 DEF BillingNext

LEMMA CardSteps ==
  ASSUME JInv, BillingNext
  PROVE  [Card!Next]_cardvars
<1>1. CASE WindowNext
  BY <1>1 DEF WindowNext
<1>2. CASE CardOnly
  BY <1>2 DEF CardOnly, Card!Next, Card!Procs, Card!Work, Card!PgNext
<1>3. ASSUME NEW w \in Workers, RowNext(w) PROVE [Card!Next]_cardvars
  <2>1. CASE Charge(w)
    <3>1. winv[w] \in Invoices
      BY <2>1 DEF Charge, SendCharge, JInv, TypeOK
    <3>. QED  BY <2>1, <3>1 DEF Charge, Card!Next, Card!Procs, Card!Work, Card!WorkerNext
  <2>2. CASE ~Charge(w)
    BY <1>3, <2>2 DEF RowNext, ScanRow, LockCard, ReadCard, NoCard, YieldRow, NoKey, GiveUp,
         RowWork, EndRow, Die, Card!Next, Card!Procs, Card!Work, Card!WorkerNext
  <2>. QED  BY <2>1, <2>2
<1>4. ASSUME NEW m \in cardRequests, NEW t, NEW a, CaptureCharge(m, t, a) PROVE Card!Next
  BY <1>4 DEF CaptureCharge, Card!Next, Card!PgNext
<1>5. ASSUME NEW m \in cardRequests, DeclineCharge(m) PROVE Card!Next
  BY <1>5 DEF DeclineCharge, Card!Next, Card!PgNext
<1>. QED  BY <1>1, <1>2, <1>3, <1>4, <1>5 DEF BillingNext

-------------------------------------------------------------------------------
(* What binds the two is kept *)

\* Steps that neither send, answer nor give up a charge.
LEMMA KeepRequests ==
  ASSUME JInv, ChargeRequests' = ChargeRequests, charges' = charges,
         \A i \in Invoices : attempt[i] # "none" => attempt'[i] # "none",
         \A w \in Workers : /\ wpc'[w] = "charging" <=> wpc[w] = "charging"
                            /\ wpc[w] = "charging" => winv'[w] = winv[w]
  PROVE  RequestsMatch'
<1>. USE RequestTypes DEF JInv, RequestsMatch
<1>1. \A m \in ChargeRequests' : attempt'[m.order] # "none" /\ m.order \in charges'
  OBVIOUS
<1>2. \A m \in ChargeRequests' : m.by # None => winv'[m.by] = m.order
  OBVIOUS
<1>3. \A w \in Workers : wpc'[w] = "charging" =>
        \E m \in ChargeRequests' : m.by = w /\ m.order = winv'[w]
  OBVIOUS
<1>. QED  BY <1>1, <1>2, <1>3

LEMMA WindowMatch == ASSUME JInv, WindowNext PROVE StepsMatch' /\ RequestsMatch'
<1>1. UNCHANGED cardvars /\ UNCHANGED wvars /\ charges' = charges
      /\ \A i \in Invoices : attempt[i] # "none" => attempt'[i] # "none"
  BY DEF WindowNext, Checkout, PaymentReturn, Webhook, Reconcile, ReconcileTick, JobNext, Approve,
         Get, BindJob, SettleJob, MarkAttempt, DropJob, Find, PgCancel, PgApprove,
         rows, pgvars, JInv, TypeOK
<1>2. StepsMatch'
  BY <1>1 DEF JInv, StepsMatch, cardvars, wvars
<1>3. RequestsMatch'
  BY <1>1, KeepRequests DEF ChargeRequests, cardvars, wvars
<1>. QED  BY <1>2, <1>3

\* Whoever stops waiting, the charge requests stay, with the same orders.
LEMMA ForsakenCharges ==
  ASSUME JInv, NEW p \in Owners \cup Workers, cardRequests' = Card!Forsaken(p)
  PROVE  /\ \A m \in ChargeRequests : m.by # p => m \in ChargeRequests'
         /\ \A m \in ChargeRequests' :
              \/ m \in ChargeRequests /\ m.by # p
              \/ \E n \in ChargeRequests : n.by = p /\ m = [n EXCEPT !.by = None]
                                           /\ m.by = None /\ m.order = n.order
<1>1. Card!TypeOK
  BY DEF JInv, Card!IInv
<1>2. ASSUME NEW m \in cardRequests, m.by # p PROVE m \in cardRequests'
  BY <1>2 DEF Card!Forsaken
<1>3. ASSUME NEW m \in ChargeRequests'
      PROVE  \/ m \in ChargeRequests /\ m.by # p
             \/ \E n \in ChargeRequests : n.by = p /\ m = [n EXCEPT !.by = None]
                                          /\ m.by = None /\ m.order = n.order
  <2>1. m \in cardRequests' /\ m.type = "charge"
    BY DEF ChargeRequests
  <2>2. PICK n \in cardRequests : m = IF n.by = p THEN [n EXCEPT !.by = None] ELSE n
    BY <2>1 DEF Card!Forsaken
  <2>3. n \in Card!Request
    BY <1>1 DEF Card!TypeOK
  <2>4. CASE n.by = p
    <3>1. m = [n EXCEPT !.by = None]
      BY <2>2, <2>4
    <3>2. m.type = n.type /\ m.by = None /\ m.order = n.order
      BY <2>3, <3>1 DEF Card!Request
    <3>. QED  BY <2>1, <2>4, <3>1, <3>2 DEF ChargeRequests
  <2>5. CASE n.by # p
    BY <2>1, <2>2, <2>5 DEF ChargeRequests
  <2>. QED  BY <2>4, <2>5
<1>. QED  BY <1>2, <1>3 DEF ChargeRequests

\* What owners do, and the PG for them, touches no worker and no charge.
LEMMA OwnersMatch == ASSUME JInv, CardOnly PROVE StepsMatch' /\ RequestsMatch'
<1>1. Card!Roles /\ Card!RequestInv /\ Card!TypeOK
  BY DEF JInv, Card!IInv
<1>2. ASSUME NEW p \in Owners, cardRequests' = Card!Forsaken(p)
      PROVE  ChargeRequests' = ChargeRequests
  <2>1. \A m \in ChargeRequests : m.by # p
    BY RequestTypes, ProcsAssumption, CardNoneAssumption
  <2>2. \A m : m \in ChargeRequests' <=> m \in ChargeRequests
    BY <1>2, <2>1, ForsakenCharges
  <2>. QED  BY <2>2, Zenon
<1>. DEFINE Apart == ChargeRequests' = ChargeRequests /\ \A w \in Workers : cardPc'[w] = cardPc[w]
<1>3. ASSUME NEW p \in Owners, NEW w \in Workers
      PROVE  p # w
  BY ProcsAssumption
<1>4. ASSUME NEW p \in Owners, NEW op, Card!Ask(p, op) \/ Card!Enter(p)
      PROVE  Apart
  BY <1>3, <1>4, RequestTypes DEF Card!Ask, Card!Enter, ChargeRequests
<1>5. ASSUME NEW p \in Owners, Card!Timeout(p) \/ Card!Crash(p)
      PROVE  Apart
  BY <1>2, <1>3, <1>5, RequestTypes DEF Card!Timeout, Card!Crash, Card!Leave
<1>6. ASSUME NEW p \in Owners, Card!OwnerNext(p)
      PROVE  Apart
  <2>1. CASE Card!SendRegist(p) \/ Card!SendDelete(p)
    <3>1. PICK r : r.type # "charge" /\ cardRequests' = cardRequests \cup {r}
      BY <2>1 DEF Card!SendRegist, Card!SendDelete, Card!Send
    <3>2. \A w \in Workers : cardPc'[w] = cardPc[w]
      BY <1>3, <2>1, RequestTypes DEF Card!SendRegist, Card!SendDelete
    <3>. QED  BY <3>1, <3>2 DEF ChargeRequests
  <2>2. CASE ~ (Card!SendRegist(p) \/ Card!SendDelete(p))
    BY <1>3, <1>6, <2>2, RequestTypes
       DEF Card!OwnerNext, Card!RefuseRegistration, Card!SaveKey, Card!NothingToExpire,
           Card!Revoke, Card!CryptoUnavailable, Card!SaveExpired, Card!Leave, ChargeRequests
  <2>. QED  BY <2>1, <2>2
<1>7. ASSUME NEW m \in cardRequests, m.type # "charge",
             (\E k \in Keys : Card!PgRegist(m, k)) \/ Card!PgDelete(m) \/ Card!PgRefuse(m)
      PROVE  Apart
  <2>1. ChargeRequests' = ChargeRequests
    BY <1>7 DEF Card!PgRegist, Card!PgDelete, Card!PgRefuse, ChargeRequests
  <2>2. m.by # None => m.by \in Owners
    <3>1. m \in Card!Request
      BY <1>1 DEF Card!TypeOK
    <3>2. m.by # None => cardPc[m.by] \in {"registering", "deleting"}
      BY <1>1, <1>7, <3>1 DEF Card!RequestInv, Card!WaitedFor, Card!Request
    <3>. QED  BY <1>1, <3>2, RequestTypes DEF Card!Roles, Card!WorkerSteps
  <2>3. \A w \in Workers : cardPc'[w] = cardPc[w]
    BY <1>3, <1>7, <2>2, RequestTypes DEF Card!PgRegist, Card!PgDelete, Card!PgRefuse, Card!Leave
  <2>. QED  BY <2>1, <2>3
<1>8. Apart
  <2>1. CASE \E p \in Owners : \/ Card!Ask(p, "register") \/ Card!Ask(p, "expire")
                               \/ Card!Enter(p) \/ Card!OwnerNext(p) \/ Card!Timeout(p)
                               \/ Card!Crash(p)
    BY <1>4, <1>5, <1>6, <2>1
  <2>2. CASE \E m \in cardRequests :
               \/ \E k \in Keys : Card!PgRegist(m, k)
               \/ Card!PgDelete(m)
               \/ m.type # "charge" /\ Card!PgRefuse(m)
    <3>1. PICK m \in cardRequests :
               \/ \E k \in Keys : Card!PgRegist(m, k)
               \/ Card!PgDelete(m)
               \/ m.type # "charge" /\ Card!PgRefuse(m)
      BY <2>2
    <3>2. m.type # "charge"
      BY <3>1 DEF Card!PgRegist, Card!PgDelete
    <3>. QED  BY <1>7, <3>1, <3>2
  <2>. QED  BY <2>1, <2>2 DEF CardOnly
<1>. HIDE DEF Apart
<1>9. UNCHANGED vars
  BY DEF CardOnly
<1>10. StepsMatch'
  BY <1>8, <1>9 DEF Apart, JInv, StepsMatch, vars, wvars
<1>11. RequestsMatch'
  BY <1>8, <1>9, KeepRequests DEF Apart, vars, wvars, rows, pgvars
<1>. QED  BY <1>10, <1>11

\* A worker that does not send, get or give up an answer.
LEMMA QuietRowMatch ==
  ASSUME JInv, NEW w \in Workers,
         \/ \E i \in Invoices : ScanRow(w, i)
         \/ LockCard(w) \/ ReadCard(w) \/ NoCard(w) \/ YieldRow(w) \/ NoKey(w)
         \/ RowWork(w) \/ EndRow(w)
  PROVE  StepsMatch' /\ RequestsMatch'
<1>. DEFINE Same == /\ \A v \in Workers : v # w => /\ wpc'[v] = wpc[v] /\ winv'[v] = winv[v]
                                                  /\ cardPc'[v] = cardPc[v]
                    /\ cardRequests' = cardRequests /\ charges' = charges
                    /\ \A i \in Invoices : attempt[i] # "none" => attempt'[i] # "none"
            Moves(a, b, c, d) == wpc[w] \in a /\ wpc'[w] \in b /\ cardPc[w] \in c /\ cardPc'[w] \in d
<1>. USE RequestTypes
<1>. USE DEF JInv, TypeOK, rows, pgvars, wvars, Done
<1>1. CASE \E i \in Invoices : ScanRow(w, i)
  <2>. Same /\ Moves({"idle"}, {"scanned"}, {"idle"}, {"charge"})
    BY <1>1 DEF ScanRow, Scan, Card!Ask
  <2>1. StepsMatch'  BY DEF StepsMatch
  <2>2. RequestsMatch'  BY KeepRequests DEF ChargeRequests
  <2>. QED  BY <2>1, <2>2
<1>2. CASE LockCard(w)
  <2>. Same /\ cardPc[w] \in Card!Waiting /\ cardPc'[w] = Card!First(cardPc[w]) /\ wpc' = wpc /\ winv' = winv
    BY <1>2 DEF LockCard, Card!Enter, vars
  <2>. cardPc[w] \in {"register", "expire", "charge"} /\ cardPc'[w] \in {"checking", "revoking", "reading"}
    BY DEF Card!Waiting, Card!First
  <2>1. StepsMatch'  BY DEF StepsMatch
  <2>2. RequestsMatch'  BY KeepRequests DEF ChargeRequests
  <2>. QED  BY <2>1, <2>2
<1>3. CASE ReadCard(w)
  <2>. Same /\ Moves({"scanned"}, {"locked"}, {"reading"}, {"reserved"})
    BY <1>3 DEF ReadCard, TakeCard, Card!ReadCard
  <2>1. StepsMatch'  BY DEF StepsMatch
  <2>2. RequestsMatch'  BY KeepRequests DEF ChargeRequests
  <2>. QED  BY <2>1, <2>2
<1>4. CASE NoCard(w)
  <2>. Same /\ Moves({"scanned"}, {"idle"}, {"reading"}, {"idle"})
    BY <1>4 DEF NoCard, SkipCard, Card!SkipCard, Card!Leave
  <2>1. StepsMatch'  BY DEF StepsMatch
  <2>2. RequestsMatch'  BY KeepRequests DEF ChargeRequests
  <2>. QED  BY <2>1, <2>2
<1>5. CASE YieldRow(w)
  <2>. Same /\ Moves({"locked"}, {"idle"}, {"reserved"}, {"idle"})
    BY <1>5 DEF YieldRow, Yield, Card!Yield, Card!Leave
  <2>1. StepsMatch'  BY DEF StepsMatch
  <2>2. RequestsMatch'  BY KeepRequests DEF ChargeRequests
  <2>. QED  BY <2>1, <2>2
<1>6. CASE NoKey(w)
  <2>. Same /\ Moves({"claimed"}, {"failing"}, {"reserved"}, {"answered"})
    BY <1>6 DEF NoKey, CryptoUnavailable, Card!NotSent
  <2>1. StepsMatch'  BY DEF StepsMatch
  <2>2. RequestsMatch'  BY KeepRequests DEF ChargeRequests
  <2>. QED  BY <2>1, <2>2
<1>7. CASE RowWork(w)
  <2>. Same /\ cardPc' = cardPc
       /\ \/ wpc[w] = "locked" /\ wpc'[w] = "claimed"
          \/ wpc[w] \in {"answered", "bound", "failing"}
             /\ wpc'[w] \in {"bound", "failing", "settled", "holding"}
    BY <1>7 DEF RowWork, Claim, BindCharge, NoTid, SettleCharge, FinishReview, FinishAttempt, cardvars
  <2>1. StepsMatch'  BY DEF StepsMatch
  <2>2. RequestsMatch'  BY KeepRequests DEF ChargeRequests
  <2>. QED  BY <2>1, <2>2
<1>8. CASE EndRow(w)
  <2>. Same /\ Moves({"settled", "holding"}, {"idle"}, {"answered"}, {"idle"})
    BY <1>8 DEF EndRow, FinishPaid, HoldInvoice, FinishAttempt, Card!Finish, Card!Leave
  <2>1. StepsMatch'  BY DEF StepsMatch
  <2>2. RequestsMatch'  BY KeepRequests DEF ChargeRequests
  <2>. QED  BY <2>1, <2>2
<1>. QED  BY <1>1, <1>2, <1>3, <1>4, <1>5, <1>6, <1>7, <1>8

LEMMA SendMatch ==
  ASSUME JInv, NEW w \in Workers, Charge(w)
  PROVE  StepsMatch' /\ RequestsMatch'
<1>. DEFINE i == winv[w]
            r == [type |-> "charge", by |-> w, key |-> cardHeld[w], order |-> i]
<1>1. /\ wpc[w] = "claimed" /\ charges' = charges \cup {i} /\ wpc' = [wpc EXCEPT ![w] = "charging"]
      /\ cardPc[w] = "reserved" /\ cardPc' = [cardPc EXCEPT ![w] = "charging"]
      /\ cardRequests' = cardRequests \cup {r}
      /\ attempt' = attempt /\ winv' = winv
  BY DEF Charge, SendCharge, Card!SendCharge, Card!Send, rows
<1>2. ChargeRequests' = ChargeRequests \cup {r} /\ r.by = w /\ r.order = i
  BY <1>1 DEF ChargeRequests
<1>3. i \in Invoices /\ attempt[i] # "none" /\ i \notin charges
  BY <1>1 DEF JInv, IInv, WorkerInv, WorkerOk, TypeOK, PastClaim
<1>4. StepsMatch'
  BY <1>1, RequestTypes DEF JInv, StepsMatch, TypeOK
<1>. HIDE DEF r, i
<1>5. \A m \in ChargeRequests : m.order # i
  BY <1>3 DEF JInv, RequestsMatch
<1>6. \A m \in ChargeRequests' : attempt'[m.order] # "none" /\ m.order \in charges'
  BY <1>1, <1>2, <1>3 DEF JInv, RequestsMatch
<1>7. \A m \in ChargeRequests' : m.by # None => winv'[m.by] = m.order
  BY <1>1, <1>2 DEF JInv, RequestsMatch, i
<1>8. \A m, n \in ChargeRequests' : m.order = n.order => m = n
  BY <1>2, <1>5 DEF JInv, RequestsMatch
<1>9. \A v \in Workers : wpc'[v] = "charging" =>
        \E m \in ChargeRequests' : m.by = v /\ m.order = winv'[v]
  BY <1>1, <1>2 DEF JInv, RequestsMatch, TypeOK, i
<1>. QED  BY <1>4, <1>6, <1>7, <1>8, <1>9 DEF RequestsMatch

\* A worker that dies or gives up leaves its charge on its way.
LEMMA StopMatch ==
  ASSUME JInv, NEW w \in Workers, GiveUp(w) \/ Die(w)
  PROVE  StepsMatch' /\ RequestsMatch'
<1>1. /\ cardRequests' = Card!Forsaken(w) /\ charges' = charges /\ attempt' = attempt
      /\ wpc'[w] \in {"idle", "failing"} /\ cardPc'[w] \in {"idle", "answered"}
      /\ \A v \in Workers : v # w =>
           wpc'[v] = wpc[v] /\ winv'[v] = winv[v] /\ cardPc'[v] = cardPc[v]
  BY RequestTypes DEF GiveUp, ChargeTimeout, Die, WorkerCrash, Done, Card!Timeout, Card!Crash, Card!Leave,
     rows, pgvars, JInv, TypeOK
<1>2. StepsMatch'
  BY <1>1 DEF JInv, StepsMatch
<1>3. /\ \A m \in ChargeRequests : m.by # w => m \in ChargeRequests'
      /\ \A m \in ChargeRequests' :
           \/ m \in ChargeRequests /\ m.by # w
           \/ \E n \in ChargeRequests : n.by = w /\ m = [n EXCEPT !.by = None]
                                        /\ m.by = None /\ m.order = n.order
  BY <1>1, ForsakenCharges
<1>4. \A m \in ChargeRequests' : attempt'[m.order] # "none" /\ m.order \in charges'
  BY <1>1, <1>3 DEF JInv, RequestsMatch
<1>5. \A m \in ChargeRequests' : m.by # None => winv'[m.by] = m.order
  BY <1>1, <1>3, RequestTypes DEF JInv, RequestsMatch
<1>6. \A m, n \in ChargeRequests' : m.order = n.order => m = n
  BY <1>3 DEF JInv, RequestsMatch
<1>7. \A v \in Workers : wpc'[v] = "charging" =>
        \E m \in ChargeRequests' : m.by = v /\ m.order = winv'[v]
  BY <1>1, <1>3 DEF JInv, RequestsMatch
<1>. QED  BY <1>2, <1>4, <1>5, <1>6, <1>7 DEF RequestsMatch

\* The PG captures or declines a charge: in both modules the same worker, if any, is told.
LEMMA AnswerMatch ==
  ASSUME JInv, NEW m \in cardRequests,
         (\E t \in Tids : \E a \in {t, None} : CaptureCharge(m, t, a)) \/ DeclineCharge(m)
  PROVE  StepsMatch' /\ RequestsMatch'
<1>1. m \in ChargeRequests
  BY DEF CaptureCharge, DeclineCharge, Card!PgCapture, ChargeRequests
<1>2. /\ cardRequests' = cardRequests \ {m} /\ charges' = charges \ {m.order}
      /\ attempt' = attempt /\ winv' = winv
      /\ wpc' = [w \in Workers |-> IF wpc[w] = "charging" /\ winv[w] = m.order
                                     THEN "answered" ELSE wpc[w]]
      /\ cardPc' = IF m.by = None THEN cardPc ELSE [cardPc EXCEPT ![m.by] = "answered"]
  BY <1>1 DEF CaptureCharge, DeclineCharge, Card!PgCapture, Card!PgRefuse, PgCharge, PgDecline,
     AnswerWorkers, rows, ChargeRequests
<1>3. ChargeRequests' = ChargeRequests \ {m}
  BY <1>2 DEF ChargeRequests
<1>4. \A n \in ChargeRequests' : n \in ChargeRequests /\ n.order # m.order
  BY <1>1, <1>3 DEF JInv, RequestsMatch
<1>5. ASSUME NEW w \in Workers
      PROVE  wpc[w] = "charging" /\ winv[w] = m.order <=> m.by = w
  <2>1. CASE m.by = w
    BY <1>1, <2>1, RequestTypes, CardNoneAssumption DEF JInv, RequestsMatch
  <2>2. CASE wpc[w] = "charging" /\ winv[w] = m.order
    BY <1>1, <2>2 DEF JInv, RequestsMatch
  <2>. QED  BY <2>1, <2>2
<1>6. StepsMatch'
  BY <1>2, <1>5, RequestTypes, CardNoneAssumption DEF JInv, StepsMatch
<1>7. \A n \in ChargeRequests' : attempt'[n.order] # "none" /\ n.order \in charges'
  BY <1>2, <1>4 DEF JInv, RequestsMatch
<1>8. \A n \in ChargeRequests' : n.by # None => winv'[n.by] = n.order
  BY <1>2, <1>4 DEF JInv, RequestsMatch
<1>9. \A n, o \in ChargeRequests' : n.order = o.order => n = o
  BY <1>4 DEF JInv, RequestsMatch
<1>10. \A w \in Workers : wpc'[w] = "charging" =>
         \E n \in ChargeRequests' : n.by = w /\ n.order = winv'[w]
  BY <1>2, <1>3, <1>5 DEF JInv, RequestsMatch
<1>. QED  BY <1>6, <1>7, <1>8, <1>9, <1>10 DEF RequestsMatch

LEMMA JStep == JInv /\ [BillingNext]_<<vars, cardvars>> => JInv'
<1>. SUFFICES ASSUME JInv, [BillingNext]_<<vars, cardvars>> PROVE JInv'
  OBVIOUS
<1>1. [Next]_vars /\ [Card!Next]_cardvars
  BY SettlementSteps, CardSteps
<1>2. TypeOK' /\ IInv' /\ Card!IInv'
  BY <1>1, TypeStep, SafetyStep, CardStep DEF JInv
<1>3. CASE UNCHANGED <<vars, cardvars>>
  <2>1. StepsMatch'
    BY <1>3 DEF JInv, StepsMatch, vars, wvars, cardvars
  <2>2. RequestsMatch'
    BY <1>3, KeepRequests DEF ChargeRequests, vars, wvars, rows, pgvars, cardvars
  <2>. QED  BY <1>2, <2>1, <2>2 DEF JInv
<1>4. CASE BillingNext
  <2>1. ASSUME NEW w \in Workers, RowNext(w) PROVE StepsMatch' /\ RequestsMatch'
    BY <2>1, QuietRowMatch, SendMatch, StopMatch DEF RowNext
  <2>2. StepsMatch' /\ RequestsMatch'
    BY <1>4, <2>1, WindowMatch, OwnersMatch, AnswerMatch DEF BillingNext
  <2>. QED  BY <1>2, <2>2 DEF JInv
<1>. QED  BY <1>3, <1>4

-------------------------------------------------------------------------------
(* The theorems *)

\* The composition is a behaviour of Settlement and one of BillingCard, so all that is
\* proved of either holds of an invoice settled with its brand's card.
THEOREM ComponentsAreKept == BillingSpec => KeepsComponents
<1>1. BillingInit => Init /\ Card!Init
  BY DEF BillingInit
<1>2. JInv /\ [BillingNext]_<<vars, cardvars>> => [Next]_vars /\ [Card!Next]_cardvars
  <2>. SUFFICES ASSUME JInv, [BillingNext]_<<vars, cardvars>>
                PROVE  [Next]_vars /\ [Card!Next]_cardvars
    OBVIOUS
  <2>. QED  BY SettlementSteps, CardSteps
<1>3. [Card!Next]_cardvars => [Card!Next]_(Card!cardvars)
  BY DEF cardvars, Card!cardvars
<1>. QED  BY <1>1, <1>2, <1>3, InitJ, JStep, PTL DEF BillingSpec, KeepsComponents, Spec, Card!Spec

\* From the claim of an invoice to the answer of its charge the brand's consent stands,
\* although the brand may ask for revocation at any of these steps.
THEOREM ClaimsHaveConsent == BillingSpec => []ClaimsNeedConsent
<1>1. ASSUME JInv, NEW w \in Workers, wpc[w] \in {"locked", "claimed", "charging"}
      PROVE  cardState = "active"
  <2>1. cardPc[w] \in {"reserved", "charging"}
    BY <1>1 DEF JInv, StepsMatch
  <2>. QED  BY <1>1, <2>1 DEF JInv, Card!IInv, Card!StepInv, Card!StepOk, Card!Procs
<1>2. JInv => ClaimsNeedConsent
  BY <1>1 DEF ClaimsNeedConsent
<1>. QED  BY <1>2, InitJ, JStep, PTL DEF BillingSpec

\* A charge on its way, even one whose worker died, is recorded by an attempt.
THEOREM ChargesLeaveARecord == BillingSpec => []ChargesAreOnRecord
<1>1. JInv => ChargesAreOnRecord
  BY DEF JInv, RequestsMatch, ChargeRequests, ChargesAreOnRecord
<1>. QED  BY <1>1, InitJ, JStep, PTL DEF BillingSpec

\* No charge sent before a revocation captures money after it is complete.
THEOREM RevocationEndsCharging == BillingSpec => NoCaptureAfterRevocation
<1>. DEFINE Guarded == \A i \in Invoices, t \in Tids :
       pgState[t] = "unused" /\ pgState'[t] = "paid" /\ pgOrder'[t] = i
         => cardState \in {"active", "expire_pending"}
<1>1. ASSUME JInv, BillingNext, NEW t \in Tids, pgState[t] = "unused", pgState'[t] = "paid"
      PROVE  cardState \in {"active", "expire_pending"}
  <2>. USE <1>1
  <2>1. CASE WindowNext
    BY <2>1 DEF WindowNext, Checkout, PaymentReturn, Webhook, Reconcile, ReconcileTick, JobNext,
       Approve, Get, BindJob, SettleJob, MarkAttempt, DropJob, Find, PgCancel, PgApprove,
       rows, pgvars, JInv, TypeOK
  <2>2. CASE CardOnly
    BY <2>2 DEF CardOnly, vars, pgvars
  <2>3. ASSUME NEW w \in Workers, RowNext(w) PROVE FALSE
    <3>1. pgState' = pgState
      BY <2>3 DEF RowNext, ScanRow, Scan, LockCard, ReadCard, TakeCard, NoCard, SkipCard, YieldRow,
         Yield, NoKey, CryptoUnavailable, Charge, SendCharge, GiveUp, ChargeTimeout, RowWork, Claim,
         BindCharge, NoTid, SettleCharge, FinishReview, EndRow, FinishPaid, HoldInvoice, Die,
         WorkerCrash, vars, rows, pgvars
    <3>. QED  BY <3>1
  <2>4. ASSUME NEW m \in cardRequests, DeclineCharge(m) PROVE FALSE
    BY <2>4 DEF DeclineCharge, PgDecline
  <2>5. ASSUME NEW m \in cardRequests, NEW s \in Tids, NEW a \in {s, None}, CaptureCharge(m, s, a)
        PROVE  cardState \in {"active", "expire_pending"}
    <3>1. m \in ChargeRequests /\ pgKey[m.key] = "live"
      BY <2>5 DEF CaptureCharge, Card!PgCapture, ChargeRequests
    <3>2. cardKey = m.key /\ m.key \in Keys
      BY <3>1, RequestTypes DEF JInv, Card!IInv, Card!KeyInv, Card!LateChargeNeedsTheCard, ChargeRequests
    <3>3. cardKey # None
      BY <3>2, CardNoneAssumption
    <3>. QED  BY <3>3 DEF JInv, Card!IInv, Card!TypeOK, Card!States
  <2>. QED  BY <2>1, <2>2, <2>3, <2>4, <2>5 DEF BillingNext
<1>2. JInv /\ [BillingNext]_<<vars, cardvars>> => [Guarded]_<<vars, cardvars>>
  BY <1>1
<1>. QED  BY <1>2, InitJ, JStep, PTL DEF BillingSpec, NoCaptureAfterRevocation
===============================================================================
