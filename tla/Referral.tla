-------------------------------- MODULE Referral --------------------------------
(* Rewards for members who invite others (harvest/referral.py), and the payment of them  *)
(* once a week, or whenever poll_gates asks, after a person approved it                  *)
(* (harvest/runner.py).  A person is an owner of codes, an invitee, or both.  A code is   *)
(* suspended when too many accounts come from one device, and its owner may get another.  *)
EXTENDS Naturals, FiniteSets

CONSTANTS
  People,
  Codes,        \* bound: codes that are issued
  Devices,
  DeviceLimit,  \* DEVICE_LIMIT
  None

VARIABLES
  owner,      \* _codes: the owner of each code that was issued
  suspended,  \* _codes: the codes that are suspended
  claims,     \* _claims: of each invitee
  accounts,   \* _device_accounts
  paid,       \* _paid
  gate,       \* _payout_gate: its state and its proposals
  reviewed,   \* history: whose first submission passed while the code was in use
  money       \* history: how often each invitee was paid for

fvars == <<owner, suspended, claims, accounts, paid, gate, reviewed, money>>

Claim == [code : Codes, device : Devices, status : {"claimed", "completed"}]

TypeOK ==
  /\ owner \in [Codes -> People \cup {None}]
  /\ suspended \subseteq {c \in Codes : owner[c] # None}
  /\ claims \in [People -> Claim \cup {None}]
  /\ accounts \in [Devices -> SUBSET People]
  /\ paid \subseteq People /\ reviewed \subseteq People
  /\ gate = None \/ gate \in [state : {"PENDING", "APPROVED", "HELD", "REJECTED"},
                              proposals : SUBSET People]
  /\ money \in [People -> Nat]

\* A code in use is given again; a suspended one is not, and makes room for another.
IssueCode(p, c) ==
  /\ owner[c] = None
  /\ \A d \in Codes : owner[d] = p => d \in suspended
  /\ owner' = [owner EXCEPT ![c] = p]
  /\ UNCHANGED <<suspended, claims, accounts, paid, gate, reviewed, money>>

\* claim; of an unknown, a suspended or one's own code, and of a second code, nothing
\* remains.  The account that goes over the limit is counted, and not taken.
Claims(p, c, d) ==
  /\ owner[c] \notin {None, p} /\ c \notin suspended /\ claims[p] = None
  /\ accounts' = [accounts EXCEPT ![d] = @ \cup {p}]
  /\ IF Cardinality(accounts'[d]) >= DeviceLimit
       THEN suspended' = suspended \cup {c} /\ UNCHANGED claims
       ELSE /\ claims' = [claims EXCEPT ![p] = [code |-> c, device |-> d, status |-> "claimed"]]
            /\ UNCHANGED suspended
  /\ UNCHANGED <<owner, paid, gate, reviewed, money>>

Claimed(p, status) == claims[p] # None /\ claims[p].status = status

RecordFirstSubmission(p) ==
  /\ Claimed(p, "claimed") /\ claims[p].code \notin suspended
  /\ claims' = [claims EXCEPT ![p].status = "completed"]
  /\ reviewed' = reviewed \cup {p}
  /\ UNCHANGED <<owner, suspended, accounts, paid, gate, money>>

-------------------------------------------------------------------------------
(* payout_tick *)

PayoutBatch ==
  LET due == {p \in People : Claimed(p, "completed") /\ p \notin paid}
  IN /\ gate = None /\ due # {}
     /\ gate' = [state |-> "PENDING", proposals |-> due]
     /\ UNCHANGED <<owner, suspended, claims, accounts, paid, reviewed, money>>

\* A person decides; also after holding it, until the runner looks.
Decide(state) ==
  /\ gate # None /\ gate.state \in {"PENDING", "HELD"} /\ gate.state # state
  /\ gate' = [gate EXCEPT !.state = state]
  /\ UNCHANGED <<owner, suspended, claims, accounts, paid, reviewed, money>>

MarkPaid ==
  /\ gate # None /\ gate.state = "APPROVED"
  /\ paid' = paid \cup gate.proposals
  /\ money' = [p \in People |-> IF p \in gate.proposals THEN money[p] + 1 ELSE money[p]]
  /\ gate' = None
  /\ UNCHANGED <<owner, suspended, claims, accounts, reviewed>>

DropPayout ==
  /\ gate # None /\ gate.state \in {"HELD", "REJECTED"} /\ gate' = None
  /\ UNCHANGED <<owner, suspended, claims, accounts, paid, reviewed, money>>

-------------------------------------------------------------------------------
FInit ==
  /\ owner = [c \in Codes |-> None] /\ suspended = {}
  /\ claims = [p \in People |-> None] /\ accounts = [d \in Devices |-> {}]
  /\ paid = {} /\ gate = None /\ reviewed = {} /\ money = [p \in People |-> 0]

FNext ==
  \/ \E p \in People :
       \/ RecordFirstSubmission(p)
       \/ \E c \in Codes : IssueCode(p, c) \/ \E d \in Devices : Claims(p, c, d)
  \/ PayoutBatch \/ MarkPaid \/ DropPayout
  \/ \E state \in {"APPROVED", "HELD", "REJECTED"} : Decide(state)

FSpec == FInit /\ [][FNext]_fvars

-------------------------------------------------------------------------------
(* Properties *)

\* An invitee is paid for once, whatever weeks pass and batches are held, and only after a
\* first submission passed while the code that was used was not suspended.
PaidOnce == \A p \in People : money[p] <= 1 /\ (money[p] > 0 => p \in reviewed)

\* Fewer invitees than the limit count for one device, with all its codes together; what
\* was claimed from it before stays, also with the code that was suspended for it.
From(d) == {p \in People : claims[p] # None /\ claims[p].device = d}
DeviceIsLimited == \A d \in Devices : Cardinality(From(d)) < DeviceLimit

\* The first code that an invitee used is the one that is rewarded, and nobody is rewarded
\* for an own one.
FirstContactCounts ==
  \A p \in People : claims[p] # None =>
    /\ claims'[p] # None /\ claims'[p].code = claims[p].code
    /\ owner'[claims[p].code] # p

\* Who is paid for, or proposed, has completed; and a device knows who claimed from it.
PaidInv ==
  /\ \A p \in People : money[p] = IF p \in paid THEN 1 ELSE 0
  /\ \A p \in paid : Claimed(p, "completed")
  /\ gate # None => \A p \in gate.proposals : Claimed(p, "completed") /\ p \notin paid
  /\ \A p \in People : Claimed(p, "completed") => p \in reviewed

ClaimsInv ==
  /\ \A p \in People : claims[p] # None => owner[claims[p].code] \notin {None, p}
  /\ \A d \in Devices : From(d) \subseteq accounts[d]
===============================================================================
