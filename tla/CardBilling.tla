------------------------------ MODULE CardBilling ------------------------------
(***************************************************************************)
(* The settlement of one brand's invoices together with its card: the      *)
(* workers of autocharge_tick are the processes of both modules.  A worker *)
(* waits for the card lock when it has scanned an invoice, and holds it    *)
(* until the attempt and the invoice are brought up to date; the PG        *)
(* captures a card charge only with a live key.                            *)
(***************************************************************************)
EXTENDS Settlement, TLC

CONSTANTS Owners, Keys

ASSUME ProcsAssumption == Owners \cap Workers = {}
ASSUME CardNoneAssumption == None \notin Owners \cup Workers \cup Keys \cup Invoices

VARIABLES cardState, cardKey, cardLock, cardPc, cardHeld, pgKey, cardRequests

Card == INSTANCE BillingCard WITH
  Orders <- Invoices, state <- cardState, key <- cardKey, lock <- cardLock,
  pc <- cardPc, held <- cardHeld, requests <- cardRequests

cardvars == <<cardState, cardKey, cardLock, cardPc, cardHeld, pgKey, cardRequests>>

BillingInit == Init /\ Card!Init

-------------------------------------------------------------------------------
(* A row of the scan, from the card lock to its release *)

ScanRow(w, i) == Scan(w, i) /\ Card!Ask(w, "charge")
LockCard(w)   == Card!Enter(w) /\ UNCHANGED vars

\* Mutant: the worker charges the key of the scan, whatever became of the card.
ReadCard_FromScan(w) ==
  /\ TakeCard(w) /\ cardPc[w] = "reading" /\ cardKey # None
  /\ cardHeld' = [cardHeld EXCEPT ![w] = cardKey]
  /\ cardPc' = [cardPc EXCEPT ![w] = "reserved"]
  /\ UNCHANGED <<cardState, cardKey, cardLock, pgKey, cardRequests>>

ReadCard(w)   == TakeCard(w) /\ Card!ReadCard(w)
NoCard(w)     == SkipCard(w) /\ Card!SkipCard(w)
YieldRow(w)   == Yield(w) /\ Card!Yield(w)
NoKey(w)      == CryptoUnavailable(w) /\ Card!NotSent(w)
Charge(w)     == SendCharge(w) /\ Card!SendCharge(w, winv[w])
GiveUp(w)     == ChargeTimeout(w) /\ Card!Timeout(w)
EndRow(w)     == (FinishPaid(w) \/ HoldInvoice(w)) /\ Card!Finish(w)
Die(w)        == WorkerCrash(w) /\ Card!Crash(w)

\* The database work on the claimed row, with the card lock held.
RowWork(w) ==
  /\ Claim(w) \/ BindCharge(w) \/ NoTid(w) \/ SettleCharge(w) \/ FinishReview(w)
  /\ UNCHANGED cardvars

RowNext(w) ==
  \/ \E i \in Invoices : ScanRow(w, i)
  \/ LockCard(w) \/ ReadCard(w) \/ NoCard(w) \/ YieldRow(w) \/ NoKey(w)
  \/ Charge(w) \/ GiveUp(w) \/ RowWork(w) \/ EndRow(w) \/ Die(w)

-------------------------------------------------------------------------------
(* The PG answers a card charge; the owner registers and revokes *)

CaptureCharge(m, t, a) ==
  /\ Card!PgCapture(m)
  /\ PgCharge(m.order, t, a)

DeclineCharge(m) ==
  /\ m.type = "charge" /\ Card!PgRefuse(m)
  /\ PgDecline(m.order)

CardOnly ==
  /\ \/ \E p \in Owners : \/ Card!Ask(p, "register") \/ Card!Ask(p, "expire")
                          \/ Card!Enter(p) \/ Card!OwnerNext(p) \/ Card!Timeout(p)
                          \/ Card!Crash(p)
     \/ \E m \in cardRequests :
          \/ \E k \in Keys : Card!PgRegist(m, k)
          \/ Card!PgDelete(m)
          \/ m.type # "charge" /\ Card!PgRefuse(m)
  /\ UNCHANGED vars

\* Everything in Settlement that knows nothing of the card.
WindowNext ==
  /\ \/ \E i \in Invoices, t \in Tids : Checkout(i, t) \/ PaymentReturn(i, t) \/ Webhook(i, t)
     \/ \E i \in Invoices : Reconcile(i) \/ ReconcileTick(i)
     \/ \E j \in jobs : JobNext(j)
     \/ \E t \in Tids : PgCancel(t) \/ \E d \in {"paid", "failed"} : PgApprove(t, d)
  /\ UNCHANGED cardvars

BillingNext ==
  \/ \E w \in Workers : RowNext(w)
  \/ \E m \in cardRequests : \/ \E t \in Tids : \E a \in {t, None} : CaptureCharge(m, t, a)
                             \/ DeclineCharge(m)
  \/ CardOnly
  \/ WindowNext

BillingSpec == BillingInit /\ [][BillingNext]_<<vars, cardvars>>

-------------------------------------------------------------------------------
(* Properties *)

\* A worker that has claimed an invoice and not yet sent its charge, or waits for
\* the answer, acts under the brand's consent: nothing is claimed for a card that is
\* being revoked.
ClaimsNeedConsent ==
  \A w \in Workers : wpc[w] \in {"locked", "claimed", "charging"} => cardState = "active"

\* docs/BILLING_AUTOCHARGE.md:83: once a revocation is complete, the brand's invoices
\* are paid in the payment window only; no charge sent before captures money later.
NoCaptureAfterRevocation ==
  [][\A i \in Invoices, t \in Tids :
       pgState[t] = "unused" /\ pgState'[t] = "paid" /\ pgOrder'[t] = i
         => cardState \in {"active", "expire_pending"}]_<<vars, cardvars>>

\* Each charge that the PG may still capture is on behalf of an attempt that is
\* recorded, so a lost answer is found again by reconcile.
ChargesAreOnRecord ==
  \A m \in cardRequests : m.type = "charge" => attempt[m.order] # "none" /\ m.order \in charges

\* Every behaviour of the composition is one of each component: what Settlement and
\* BillingCard promise on their own holds when they run together.
KeepsComponents == Spec /\ Card!Spec

\* For TLC: nothing tells one key from another.
Symmetry == Permutations(Keys)

===============================================================================
