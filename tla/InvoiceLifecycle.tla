--------------------------- MODULE InvoiceLifecycle ---------------------------
(***************************************************************************)
(* What settlement promises for an invoice, without rows, requests,        *)
(* workers or transaction ids: its money moves once, it is settled only    *)
(* for money that moved, and once money is known to be returned it is held *)
(* for a person and never settled again.                                   *)
(***************************************************************************)
CONSTANT Invoices

VARIABLES
  phase,     \* "due", "paying", "held" for a person, "settled"
  money,     \* "none", "captured", "returned"
  reversed   \* the return of the money is known here

avars == <<phase, money, reversed>>

AInit ==
  /\ phase = [i \in Invoices |-> "due"]
  /\ money = [i \in Invoices |-> "none"]
  /\ reversed = [i \in Invoices |-> FALSE]

Begin(i) ==
  /\ phase[i] = "due"
  /\ phase' = [phase EXCEPT ![i] = "paying"]
  /\ UNCHANGED <<money, reversed>>

Capture(i) ==
  /\ phase[i] # "due" /\ money[i] = "none"
  /\ money' = [money EXCEPT ![i] = "captured"]
  /\ UNCHANGED <<phase, reversed>>

GiveBack(i) ==
  /\ money[i] = "captured"
  /\ money' = [money EXCEPT ![i] = "returned"]
  /\ UNCHANGED <<phase, reversed>>

Confirm(i) ==
  /\ phase[i] \in {"paying", "held"} /\ money[i] # "none" /\ ~reversed[i]
  /\ phase' = [phase EXCEPT ![i] = "settled"]
  /\ UNCHANGED <<money, reversed>>

Hold(i) ==
  /\ phase[i] = "paying"
  /\ phase' = [phase EXCEPT ![i] = "held"]
  /\ UNCHANGED <<money, reversed>>

Reverse(i) ==
  /\ phase[i] # "due" /\ money[i] = "returned" /\ ~reversed[i]
  /\ phase' = [phase EXCEPT ![i] = "held"]
  /\ reversed' = [reversed EXCEPT ![i] = TRUE]
  /\ UNCHANGED money

ANext ==
  \E i \in Invoices :
    Begin(i) \/ Capture(i) \/ GiveBack(i) \/ Confirm(i) \/ Hold(i) \/ Reverse(i)

ASpec == AInit /\ [][ANext]_avars
===============================================================================
