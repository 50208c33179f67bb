------------------------------- MODULE GateEngine -------------------------------
(* The gate engine of services/core (gates.py): a request to do something outside waits   *)
(* for a member who may approve its kind, and is carried out by that approval only.  The  *)
(* roles of a member change, executors are registered, and an executor may fail.          *)
EXTENDS Naturals, Sequences

CONSTANTS
  Requests,
  Members,
  MaxEntries,  \* bound: entries of the ledger
  None

VARIABLES
  role,      \* of each member, None: not of the brand; "approver" is one for the kind asked
  executor,  \* one is registered for the kind
  request,   \* state, decided_by, executed
  ledger,    \* entries: type, gate and actor
  failed     \* history: requests whose executor failed

gvars == <<role, executor, request, ledger, failed>>

Roles == {"approver", "other_approver", "operator"}
States == {"PENDING", "HELD", "APPROVED", "REJECTED"}
Decisions == {"GATE_APPROVED", "GATE_HELD", "GATE_REJECTED"}
Types == Decisions \cup {"GATE_REQUESTED", "GATE_EXECUTED"}

TypeOK ==
  /\ role \in [Members -> Roles \cup {None}] /\ executor \in BOOLEAN
  /\ request \in [Requests -> [state : States, by : Members \cup {None}, executed : BOOLEAN]
                              \cup {None}]
  /\ ledger \in Seq([type : Types, gate : Requests, actor : Members \cup {None}])
  /\ failed \subseteq Requests

Entry(type, g, m) == [type |-> type, gate |-> g, actor |-> m]
Room(n) == Len(ledger) + n <= MaxEntries

-------------------------------------------------------------------------------
RegisterMember(m, r) ==
  /\ role[m] # r /\ role' = [role EXCEPT ![m] = r]
  /\ UNCHANGED <<executor, request, ledger, failed>>

RegisterExecutor ==
  /\ ~executor /\ executor' = TRUE
  /\ UNCHANGED <<role, request, ledger, failed>>

Request(g) ==
  /\ request[g] = None /\ Room(1)
  /\ request' = [request EXCEPT ![g] = [state |-> "PENDING", by |-> None, executed |-> FALSE]]
  /\ ledger' = Append(ledger, Entry("GATE_REQUESTED", g, None))
  /\ UNCHANGED <<role, executor, failed>>

Decidable(g) == request[g] # None /\ request[g].state \in {"PENDING", "HELD"}

\* approve: the decision is written before the executor runs, and stays when it fails: the
\* request is approved then, cannot be decided again, and is never carried out.
Approve(g, m, works) ==
  /\ Decidable(g) /\ role[m] = "approver" /\ executor /\ Room(2)
  /\ request' = [request EXCEPT ![g] = [state |-> "APPROVED", by |-> m, executed |-> works]]
  /\ LET told == Append(ledger, Entry("GATE_APPROVED", g, m))
     IN  ledger' = IF works THEN Append(told, Entry("GATE_EXECUTED", g, None)) ELSE told
  /\ failed' = IF works THEN failed ELSE failed \cup {g}
  /\ UNCHANGED <<role, executor>>

\* hold: any member of the brand.
Hold(g, m) ==
  /\ Decidable(g) /\ role[m] # None /\ Room(1)
  /\ request' = [request EXCEPT ![g].state = "HELD"]
  /\ ledger' = Append(ledger, Entry("GATE_HELD", g, m))
  /\ UNCHANGED <<role, executor, failed>>

Reject(g, m) ==
  /\ Decidable(g) /\ role[m] = "approver" /\ Room(1)
  /\ request' = [request EXCEPT ![g] = [@ EXCEPT !.state = "REJECTED", !.by = m]]
  /\ ledger' = Append(ledger, Entry("GATE_REJECTED", g, m))
  /\ UNCHANGED <<role, executor, failed>>

GInit ==
  /\ role = [m \in Members |-> None] /\ executor = FALSE
  /\ request = [g \in Requests |-> None] /\ ledger = <<>> /\ failed = {}

GNext ==
  \/ \E m \in Members, r \in Roles : RegisterMember(m, r)
  \/ RegisterExecutor
  \/ \E g \in Requests :
       \/ Request(g)
       \/ \E m \in Members : Hold(g, m) \/ Reject(g, m) \/ (\E works \in BOOLEAN : Approve(g, m, works))

-------------------------------------------------------------------------------
\* The entries of a gate, the first and the last of them, and the state that a last one tells.
Of(g) == {i \in DOMAIN ledger : ledger[i].gate = g}
First(g, i) == \A j \in Of(g) : i <= j
Last(g, i) == \A j \in Of(g) : j <= i
Told(type) ==
  IF type \in {"GATE_APPROVED", "GATE_EXECUTED"} THEN "APPROVED"
  ELSE IF type = "GATE_REJECTED" THEN "REJECTED"
  ELSE IF type = "GATE_HELD" THEN "HELD" ELSE "PENDING"

TellsGate(g) ==
  /\ Of(g) # {} <=> request[g] # None
  /\ \A i \in Of(g) :
       /\ ledger[i].type = "GATE_REQUESTED" <=> First(g, i)
       /\ ledger[i].type = "GATE_REJECTED" => Last(g, i)
       /\ ledger[i].type = "GATE_APPROVED" =>
            Last(g, i) \/ (i + 1 \in Of(g) /\ ledger[i + 1].type = "GATE_EXECUTED")
       /\ ledger[i].type = "GATE_EXECUTED" =>
            Last(g, i) /\ i - 1 \in Of(g) /\ ledger[i - 1].type = "GATE_APPROVED"
       /\ Last(g, i) => /\ request[g].state = Told(ledger[i].type)
                        /\ request[g].executed <=> ledger[i].type = "GATE_EXECUTED"

\* The ledger tells the whole life of a gate (gates.py:7): it was requested, perhaps held,
\* and decided once at most, and what was carried out is told right after its approval.  Its
\* last decision is the gate's state.
LedgerTellsGates == \A g \in Requests : TellsGate(g)

\* What is approved was carried out (gates.py:30), but for an executor that failed.
ApprovedIsExecuted ==
  \A g \in Requests : request[g] # None /\ request[g].state = "APPROVED" =>
    request[g].executed \/ g \in failed

\* What makes them inductive: what was carried out is approved.
WaitingInv == \A g \in Requests : request[g] # None /\ request[g].executed => request[g].state = "APPROVED"
===============================================================================
