------------------------------ MODULE BillingPage ------------------------------
(* The billing page of the console: a summary, then the invoices and the card, all  *)
(* under one counter of refreshes; two operations on the card that hold a busy flag *)
(* until they are answered, and a checkout with a flag of its own.  A refresh, also *)
(* the one that follows a change of the brand, moves the counter on and frees the   *)
(* card's flag at once.                                                             *)
EXTENDS Naturals

CONSTANTS
  Brands,
  Ids,         \* bound: requests in flight at a time
  MaxVersion,  \* bound: refreshes
  None

VARIABLES
  brand,        \* BRAND()
  version,      \* billingVersion
  invoices,     \* the brand whose invoices are shown
  cardInfo,     \* billingCardInfo: the brand and the state of its card
  cardBusy,     \* billingCardBusy
  checkoutBusy,
  wire,         \* the requests in flight
  card,         \* the cards the server has
  missed        \* history: the page may show an old card (StaleOnlyWhenMissed says when)

pvars == <<brand, version, invoices, cardInfo, cardBusy, checkoutBusy, wire, card, missed>>

CardStates == {"none", "active", "expire_pending"}
CardOps == {"register", "expire"}
Kinds == {"summary", "invoices", "card", "checkout"} \cup CardOps
Request == [kind : Kinds, brand : Brands, version : 0..MaxVersion,
            reply : {"open", "done", "failed"} \cup CardStates]

TypeOK ==
  /\ brand \in Brands \cup {None} /\ version \in 0..MaxVersion
  /\ invoices \in Brands \cup {None}
  /\ cardInfo \in [brand : Brands, state : CardStates] \cup {None}
  /\ cardBusy \in BOOLEAN /\ checkoutBusy \in BOOLEAN /\ missed \in BOOLEAN
  /\ wire \in [Ids -> Request \cup {None}]
  /\ card \in [Brands -> CardStates]

Flying == {i \in Ids : wire[i] # None}
Sent(kind, v) == [kind |-> kind, brand |-> brand, version |-> v, reply |-> "open"]
Send(i, kind) == wire[i] = None /\ wire' = [wire EXCEPT ![i] = Sent(kind, version)]
Land(i) == wire' = [wire EXCEPT ![i] = None]

-------------------------------------------------------------------------------
(* The page *)

\* Without a brand nothing is emptied and no answer is made unwanted.
LoadBilling(b, i) ==
  IF b = None
    THEN UNCHANGED <<version, invoices, cardInfo, cardBusy, wire>>
    ELSE /\ version < MaxVersion /\ version' = version + 1
         /\ invoices' = None /\ cardInfo' = None /\ cardBusy' = FALSE
         /\ wire[i] = None
         /\ wire' = [wire EXCEPT ![i] = [Sent("summary", version + 1) EXCEPT !.brand = b]]

\* Whose answer a refresh gives up.
GivesUp == \E i \in Flying : wire[i].kind \in CardOps

ChangeBrand(b, i) ==
  /\ b # brand /\ brand' = b
  /\ LoadBilling(b, i)
  /\ missed' = GivesUp
  /\ UNCHANGED <<checkoutBusy, card>>

Refresh(i) ==
  /\ brand # None
  /\ LoadBilling(brand, i)
  /\ missed' = (missed \/ GivesUp)
  /\ UNCHANGED <<brand, checkoutBusy, card>>

\* The form is shown while there is no card or it is expired, the other button otherwise.
Offered(kind) ==
  /\ brand # None /\ cardInfo # None /\ ~cardBusy
  /\ kind = "register" <=> cardInfo.state = "none"

CardOp(kind, i) ==
  /\ Offered(kind)
  /\ Send(i, kind) /\ cardBusy' = TRUE
  /\ UNCHANGED <<brand, version, invoices, cardInfo, checkoutBusy, card, missed>>

PaySignupInvoice(i) ==
  /\ brand # None /\ invoices = brand /\ ~checkoutBusy
  /\ Send(i, "checkout") /\ checkoutBusy' = TRUE
  /\ UNCHANGED <<brand, version, invoices, cardInfo, cardBusy, card, missed>>

-------------------------------------------------------------------------------
(* The server *)

Reply(i, a) == wire' = [wire EXCEPT ![i].reply = a]

ServeRead(i) ==
  /\ wire[i].kind \notin CardOps
  /\ Reply(i, IF wire[i].kind = "card" THEN card[wire[i].brand] ELSE "done")
  /\ UNCHANGED card

ServeRegister(i) ==
  /\ wire[i].kind = "register" /\ card[wire[i].brand] = "none"
  /\ card' = [card EXCEPT ![wire[i].brand] = "active"]
  /\ Reply(i, "done")

ServeExpire(i, left) ==
  /\ wire[i].kind = "expire" /\ card[wire[i].brand] # "none"
  /\ card' = [card EXCEPT ![wire[i].brand] = left]
  /\ Reply(i, "done")

Serve(i) ==
  /\ i \in Flying /\ wire[i].reply = "open"
  /\ \/ ServeRead(i) \/ ServeRegister(i)
     \/ \E left \in {"none", "expire_pending"} : ServeExpire(i, left)
     \/ Reply(i, "failed") /\ UNCHANGED card
  /\ UNCHANGED <<brand, version, invoices, cardInfo, cardBusy, checkoutBusy, missed>>

\* The answer is lost after the server acted.
LoseAnswer(i) ==
  /\ i \in Flying /\ wire[i].reply \notin {"open", "failed"}
  /\ Reply(i, "failed")
  /\ missed' = (missed \/ wire[i].kind \in CardOps)
  /\ UNCHANGED <<brand, version, invoices, cardInfo, cardBusy, checkoutBusy, card>>

-------------------------------------------------------------------------------
(* The answers *)

Current(i) == wire[i].version = version
Answered(i, kind) == i \in Flying /\ wire[i].kind = kind /\ wire[i].reply # "open"

\* The invoices and the card are asked for the brand of this moment, not of the summary.
OnSummary(i, j) ==
  /\ Answered(i, "summary")
  /\ IF Current(i) /\ brand # None /\ wire[i].reply = "done"
       THEN /\ wire[j] = None
            /\ wire' = [wire EXCEPT ![i] = Sent("invoices", version), ![j] = Sent("card", version)]
       ELSE Land(i)
  /\ UNCHANGED <<brand, version, invoices, cardInfo, cardBusy, checkoutBusy, card, missed>>

OnInvoices(i) ==
  /\ Answered(i, "invoices") /\ Land(i)
  /\ invoices' = IF Current(i) /\ wire[i].reply = "done" THEN wire[i].brand ELSE invoices
  /\ UNCHANGED <<brand, version, cardInfo, cardBusy, checkoutBusy, card, missed>>

OnCard(i) ==
  /\ Answered(i, "card") /\ Land(i)
  /\ cardInfo' = IF ~Current(i) THEN cardInfo
                 ELSE IF wire[i].reply = "failed" THEN None
                 ELSE IF wire[i].brand # brand THEN cardInfo
                 ELSE [brand |-> brand, state |-> wire[i].reply]
  /\ UNCHANGED <<brand, version, invoices, cardBusy, checkoutBusy, card, missed>>

\* A success reads the card again; a failure says so and reads nothing.  The flag is freed
\* at once, while the card on the page is still the old one.
OnCardOp(kind, i) ==
  /\ Answered(i, kind)
  /\ cardBusy' = (cardBusy /\ ~Current(i))
  /\ IF Current(i) /\ wire[i].brand = brand /\ wire[i].reply = "done"
       THEN /\ wire' = [wire EXCEPT ![i] = Sent("card", version)]
            /\ missed' = (missed \/ \E j \in Flying : wire[j].kind = "card" /\ Current(j))
       ELSE Land(i) /\ UNCHANGED missed
  /\ UNCHANGED <<brand, version, invoices, cardInfo, checkoutBusy, card>>

\* The payment window is opened only for the brand that is still there; the flag is freed
\* at once in every case.
OnCheckout(i) ==
  /\ Answered(i, "checkout") /\ Land(i)
  /\ checkoutBusy' = FALSE
  /\ UNCHANGED <<brand, version, invoices, cardInfo, cardBusy, card, missed>>

-------------------------------------------------------------------------------
PInit ==
  /\ brand = None /\ version = 0 /\ invoices = None /\ cardInfo = None
  /\ cardBusy = FALSE /\ checkoutBusy = FALSE /\ missed = FALSE
  /\ wire = [i \in Ids |-> None]
  /\ card = [b \in Brands |-> "none"]

PNext ==
  \E i \in Ids :
    \/ \E b \in Brands \cup {None} : ChangeBrand(b, i)
    \/ Refresh(i) \/ PaySignupInvoice(i)
    \/ \E kind \in CardOps : CardOp(kind, i) \/ OnCardOp(kind, i)
    \/ Serve(i) \/ LoseAnswer(i)
    \/ \E j \in Ids : OnSummary(i, j)
    \/ OnInvoices(i) \/ OnCard(i) \/ OnCheckout(i)

PSpec == PInit /\ [][PNext]_pvars

-------------------------------------------------------------------------------
(* Properties *)

\* Cards and invoices are of the brand that is shown, through every change of the brand
\* and every answer on its way.
BillingOfTheBrand ==
  brand # None => /\ cardInfo # None => cardInfo.brand = brand
                  /\ invoices # None => invoices = brand

\* A button is blocked only while the answer that frees it is still to come.
BusyOnlyWhileAsked ==
  /\ cardBusy => \E i \in Flying : wire[i].kind \in CardOps /\ Current(i)
  /\ checkoutBusy => \E i \in Flying : wire[i].kind = "checkout"

\* One operation on the card at a time, as far as this version of the page knows.
OneCardOp ==
  \A i, j \in Flying : wire[i].kind \in CardOps /\ wire[j].kind \in CardOps
                       /\ Current(i) /\ Current(j) => i = j

\* When nothing is on its way, the card on the page is the card the server has, unless an
\* answer was lost (the page then says that nothing was stored), a refresh or a change of
\* the brand gave an operation up, or the next operation was sent while the card was still
\* being read for the one before: the counter does not order the two readings.
StaleOnlyWhenMissed ==
  Flying = {} /\ brand # None /\ cardInfo # None /\ ~missed => cardInfo.state = card[brand]

\* What makes the properties inductive: nothing is asked for a later version of the page,
\* what is asked for this one is of its brand, an operation asked for this one is what the
\* button waits for, and who asks for the card is told its state.
AskedInv ==
  /\ \A i \in Flying : wire[i].version <= version
  /\ brand # None => \A i \in Flying : Current(i) => wire[i].brand = brand
  /\ \A i \in Flying : wire[i].kind \in CardOps /\ Current(i) => cardBusy
  /\ \A i \in Flying : wire[i].kind = "card" => wire[i].reply # "done"

\* What makes StaleOnlyWhenMissed inductive: unless the page missed one, every operation is
\* asked for this version; and what it shows, or is about to be told, of the card is right, or
\* an operation was done whose answer, or the reading after it, is on its way.
Done == \E i \in Flying : wire[i].kind \in CardOps /\ wire[i].reply = "done"
Reading(i) == wire[i].kind = "card" /\ Current(i)
LateInv == brand # None /\ ~missed =>
  /\ \A i \in Flying : wire[i].kind \in CardOps => Current(i)
  /\ \A i \in Flying : Reading(i) /\ wire[i].reply \in CardStates =>
       wire[i].reply = card[brand] \/ Done
  /\ cardInfo # None => cardInfo.state = card[brand] \/ Done \/ \E i \in Flying : Reading(i)
===============================================================================
