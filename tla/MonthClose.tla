------------------------------ MODULE MonthClose ------------------------------
(***************************************************************************)
(* The monthly close of one brand (close_months in routes_payments.py): an *)
(* API request for the invoice list and the runner's billing tick turn the *)
(* verified sign-ups of completed months into invoices.  Sign-ups arrive   *)
(* without any lock, and late: verified_at is the time their transaction   *)
(* began.  Sign-ups whose price is under audit stay out until a person     *)
(* resolves them; what an earlier close left out becomes a supplement of   *)
(* its month.  Issued invoices are never touched again.                    *)
(***************************************************************************)
EXTENDS Naturals, FiniteSetsExt, FiniteSetTheorems, WellFoundedInduction, TLAPS

CONSTANTS
  Usages,    \* signup_usage rows: one for each creator of the brand
  Flagged,   \* those migration 024 put under audit
  Closers,   \* transactions that may run close_months
  Ids,       \* invoice ids, as drawn by uuid4
  Prices,    \* unit prices a person may enter
  Policy,    \* signup_billing_policy.unit_price
  MaxMonth,  \* bound: the last month
  None       \* SQL NULL

ASSUME UsageAssumption == IsFiniteSet(Usages) /\ Flagged \subseteq Usages
ASSUME PriceAssumption == Prices \subseteq Nat /\ Policy \in Prices \ {0}
ASSUME MonthAssumption == MaxMonth \in Nat
ASSUME NoneAssumption  == None \notin Ids \cup Closers

VARIABLES
  now,        \* the month of the Asia/Seoul calendar
  usage,      \* a row is absent, in an open transaction, or committed
  month,      \* verified_at, as a month
  price,      \* unit_price
  bill,       \* invoice_id
  audit,      \* signup_usage_audit: no row, open, resolved
  invoices,   \* signup_invoices
  lock,       \* holder of the advisory lock 'billing:' || brand
  pc, cutoff, rows, staged,  \* close_months: step, cutoff, rows not yet
                             \* invoiced, invoices not yet committed
  failed      \* a close was aborted by UNIQUE(brand, period, seq)

usages == <<usage, month, price, bill, audit>>
closes == <<lock, pc, cutoff, rows, staged>>
vars   == <<now, usages, invoices, closes, failed>>

Months == 0..MaxMonth
Row == [usage : Usages, price : Nat, month : Months]
Invoice == [id : Ids, period : Months, seq : Nat, quantity : Nat, amount : Nat]

TypeOK ==
  /\ now \in Months
  /\ usage \in [Usages -> {"absent", "recording", "recorded"}]
  /\ month \in [Usages -> Months]
  /\ price \in [Usages -> Prices \ {0}]
  /\ bill \in [Usages -> Ids \cup {None}]
  /\ audit \in [Usages -> {"none", "open", "resolved"}]
  /\ invoices \subseteq Invoice
  /\ lock \in Closers \cup {None}
  /\ pc \in [Closers -> {"idle", "locked", "issuing"}]
  /\ cutoff \in [Closers -> Months]
  /\ rows \in [Closers -> SUBSET Row]
  /\ staged \in [Closers -> SUBSET [invoice : Invoice, usages : SUBSET Usages]]
  /\ failed \in BOOLEAN

Init ==
  /\ now = 0
  /\ usage = [u \in Usages |-> IF u \in Flagged THEN "recorded" ELSE "absent"]
  /\ month = [u \in Usages |-> 0]
  /\ price = [u \in Usages |-> Policy]
  /\ bill = [u \in Usages |-> None]
  /\ audit = [u \in Usages |-> IF u \in Flagged THEN "open" ELSE "none"]
  /\ invoices = {}
  /\ lock = None
  /\ pc = [c \in Closers |-> "idle"]
  /\ cutoff = [c \in Closers |-> 0]
  /\ rows = [c \in Closers |-> {}]
  /\ staged = [c \in Closers |-> {}]
  /\ failed = FALSE

-------------------------------------------------------------------------------
(* Time and sign-ups *)

NextMonth ==
  /\ now < MaxMonth
  /\ now' = now + 1
  /\ UNCHANGED <<usages, invoices, closes, failed>>

\* The trigger of a join or a verification: verified_at is now(), the start of
\* the transaction, which commits any time later.
RecordUsage(u) ==
  /\ usage[u] = "absent"
  /\ usage' = [usage EXCEPT ![u] = "recording"]
  /\ month' = [month EXCEPT ![u] = now]
  /\ UNCHANGED <<now, price, bill, audit, invoices, closes, failed>>

CommitUsage(u) ==
  /\ usage[u] = "recording"
  /\ usage' = [usage EXCEPT ![u] = "recorded"]
  /\ UNCHANGED <<now, month, price, bill, audit, invoices, closes, failed>>

\* usage_audit_resolve, under the billing lock.  A price of 0 passes validation
\* and is aborted by the table's CHECK (unit_price > 0).
Resolve(u, p) ==
  /\ lock = None
  /\ audit[u] = "open" /\ bill[u] = None
  /\ p > 0
  /\ price' = [price EXCEPT ![u] = p]
  /\ audit' = [audit EXCEPT ![u] = "resolved"]
  /\ UNCHANGED <<now, usage, month, bill, invoices, closes, failed>>

-------------------------------------------------------------------------------
(* close_months *)

\* billing_lock, then the first day of the current month.
Begin(c) ==
  /\ pc[c] = "idle" /\ lock = None
  /\ lock' = c
  /\ pc' = [pc EXCEPT ![c] = "locked"]
  /\ cutoff' = [cutoff EXCEPT ![c] = now]
  /\ UNCHANGED <<now, usages, invoices, rows, staged, failed>>

\* Mutant: the audit is not consulted.
Billable_Audited(u, cut) == usage[u] = "recorded" /\ bill[u] = None /\ month[u] < cut

\* Mutant: the current month is closed too.
Billable_ThisMonth(u, cut) ==
  /\ usage[u] = "recorded" /\ bill[u] = None
  /\ month[u] <= cut /\ audit[u] # "open"

\* Mutant: only the last month is looked at.
Billable_LastMonth(u, cut) ==
  /\ usage[u] = "recorded" /\ bill[u] = None
  /\ month[u] + 1 = cut /\ audit[u] # "open"

Billable(u, cut) ==
  /\ usage[u] = "recorded" /\ bill[u] = None
  /\ month[u] < cut /\ audit[u] # "open"

\* _collect_billable locks the rows; the rest works on this snapshot.
Collect(c) ==
  /\ pc[c] = "locked"
  /\ rows' = [rows EXCEPT ![c] =
       {[usage |-> u, price |-> price[u], month |-> month[u]] :
          u \in {v \in Usages : Billable(v, cutoff[c])}}]
  /\ pc' = [pc EXCEPT ![c] = "issuing"]
  /\ UNCHANGED <<now, usages, invoices, lock, cutoff, staged, failed>>

\* The invoices c can see: committed ones and its own.
Seen(c) == invoices \cup {s.invoice : s \in staged[c]}

\* Mutant: the numbers of all months are one sequence.
NextSeq_AnyMonth(c, p) ==
  IF Seen(c) = {} THEN 0 ELSE Max({i.seq : i \in Seen(c)}) + 1

NextSeq(c, p) ==
  LET seqs == {i.seq : i \in {j \in Seen(c) : j.period = p}}
  IN  IF seqs = {} THEN 0 ELSE Max(seqs) + 1

Amount(rs) == SumFunctionOnSet([r \in rs |-> r.price], rs)

\* Mutant: the usage to link is selected again, by the condition of the scan.
Linked_Reselected(c, rs) ==
  LET p == CHOOSE q \in {r.month : r \in rs} : TRUE
  IN  {u \in Usages : month[u] = p /\ Billable(u, cutoff[c])}

\* Exactly the rows that were added up.
Linked(c, rs) == {r.usage : r \in rs}

\* The earliest month that is left: one invoice, linked to exactly its rows.
Issue(c) ==
  /\ pc[c] = "issuing" /\ rows[c] # {}
  /\ \E id \in Ids :
       LET period == Min({r.month : r \in rows[c]})
           these == {r \in rows[c] : r.month = period}
       IN  /\ \A i \in Seen(c) : i.id # id
           /\ staged' = [staged EXCEPT ![c] = @ \cup
                {[invoice |-> [id |-> id, period |-> period, seq |-> NextSeq(c, period),
                               quantity |-> Cardinality(these), amount |-> Amount(these)],
                  usages |-> Linked(c, these)]}]
           /\ rows' = [rows EXCEPT ![c] = @ \ these]
  /\ UNCHANGED <<now, usages, invoices, lock, pc, cutoff, failed>>

\* The transaction of c ends, and the lock with it.
End(c) ==
  /\ lock' = IF lock = c THEN None ELSE lock
  /\ pc' = [pc EXCEPT ![c] = "idle"]
  /\ cutoff' = [cutoff EXCEPT ![c] = 0]
  /\ rows' = [rows EXCEPT ![c] = {}]
  /\ staged' = [staged EXCEPT ![c] = {}]

Unique(c) ==
  \A s \in staged[c] : \A i \in invoices :
    i.period = s.invoice.period => i.seq # s.invoice.seq

\* Mutant: a later close of the month replaces the invoice the month has.
Commit_Replaces(c) ==
  /\ pc[c] = "issuing" /\ rows[c] = {}
  /\ failed' = (failed \/ ~Unique(c))
  /\ invoices' = {s.invoice : s \in staged[c]} \cup
       {i \in invoices : \A s \in staged[c] : i.period # s.invoice.period}
  /\ bill' = [u \in Usages |->
       IF \E s \in staged[c] : u \in s.usages
         THEN (CHOOSE s \in staged[c] : u \in s.usages).invoice.id ELSE bill[u]]
  /\ End(c)
  /\ UNCHANGED <<now, usage, month, price, audit>>

Commit(c) ==
  /\ pc[c] = "issuing" /\ rows[c] = {}
  /\ failed' = (failed \/ ~Unique(c))
  /\ IF Unique(c)
       THEN /\ invoices' = Seen(c)
            /\ bill' = [u \in Usages |->
                 IF \E s \in staged[c] : u \in s.usages
                   THEN (CHOOSE s \in staged[c] : u \in s.usages).invoice.id ELSE bill[u]]
       ELSE UNCHANGED <<invoices, bill>>
  /\ End(c)
  /\ UNCHANGED <<now, usage, month, price, audit>>

\* The process dies, or ledger_append loses a race, at any point: nothing is left.
Abort(c) ==
  /\ pc[c] # "idle"
  /\ End(c)
  /\ UNCHANGED <<now, usages, invoices, failed>>

-------------------------------------------------------------------------------
CloseNext(c) == Begin(c) \/ Collect(c) \/ Issue(c) \/ Commit(c) \/ Abort(c)

Next ==
  \/ NextMonth
  \/ \E u \in Usages : RecordUsage(u) \/ CommitUsage(u) \/ \E p \in Prices : Resolve(u, p)
  \/ \E c \in Closers : CloseNext(c)

Spec == Init /\ [][Next]_vars

\* The billing tick closes every six hours, though it may fail this time; closes do
\* not fail at the same statement every time.
IssueMonth(c, p) ==
  /\ p \in {r.month : r \in rows[c]} /\ \A r \in rows[c] : r.month >= p
  /\ Issue(c)

Fairness ==
  /\ SF_vars(\E c \in Closers : Begin(c))
  /\ SF_vars(\E c \in Closers : Collect(c))
  /\ \A p \in 0..(MaxMonth - 1) : SF_vars(\E c \in Closers : IssueMonth(c, p))
  /\ SF_vars(\E c \in Closers : Commit(c))

FairSpec == Spec /\ Fairness

-------------------------------------------------------------------------------
(* Properties *)

UsagesOf(i) == {u \in Usages : bill[u] = i.id}

\* The amount and the quantity of an invoice are those of the usage linked to it,
\* although sign-ups are committed and prices resolved while it is being issued.
AmountMatches ==
  \A i \in invoices :
    /\ i.quantity = Cardinality(UsagesOf(i))
    /\ i.amount = SumFunctionOnSet(price, UsagesOf(i))

\* Usage whose price is under audit is not billed.
HeldUsageIsNotBilled == \A u \in Usages : audit[u] = "open" => bill[u] = None

\* An invoice bills one month, and the month is over.
MonthIsOver ==
  \A i \in invoices : i.period < now /\ \A u \in UsagesOf(i) : month[u] = i.period

\* The invoices of a month are numbered 0, 1, 2...: one invoice and its supplements; and
\* no close is ever lost to the unique key of these numbers.
SupplementsAreNumbered ==
  /\ \A i \in invoices :
       LET same == {j \in invoices : j.period = i.period}
       IN  {j.seq : j \in same} = 0..(Cardinality(same) - 1)
  /\ ~failed

\* An issued invoice is final: it stays as it is, and the usage it bills stays on it.
InvoicesAreFinal ==
  [][/\ invoices \subseteq invoices'
     /\ \A u \in Usages : bill[u] # None => bill'[u] = bill[u] /\ price'[u] = price[u]]_vars

\* Whatever was committed late, held for audit or lost with a crashed close is billed
\* in the end.
EveryUsageIsBilled ==
  \A u \in Usages :
    (usage[u] = "recorded" /\ month[u] < now /\ audit[u] # "open") ~> bill[u] # None

-------------------------------------------------------------------------------
(***************************************************************************)
(* Proofs about MonthClose, for any sign-ups, closers, ids, prices and     *)
(* number of months.                                                       *)
(***************************************************************************)

(***************************************************************************)
(* The inductive invariant.  Only the holder of the lock is closing, so    *)
(* the rows it read stay billable while it works (the writers of their     *)
(* columns are a close and Resolve, which waits for the lock); what it has *)
(* staged agrees with the committed invoices as if it were committed.      *)
(***************************************************************************)
PType ==
  /\ now \in Nat
  /\ usage \in [Usages -> {"absent", "recording", "recorded"}]
  /\ month \in [Usages -> Nat]
  /\ price \in [Usages -> Nat]
  /\ bill \in [Usages -> Ids \cup {None}]
  /\ audit \in [Usages -> {"none", "open", "resolved"}]
  /\ lock \in Closers \cup {None}
  /\ pc \in [Closers -> {"idle", "locked", "issuing"}]
  /\ cutoff \in [Closers -> Nat]
  /\ rows \in [Closers -> SUBSET [usage : Usages, price : Nat, month : Nat]]
  /\ staged = [c \in Closers |-> staged[c]]

\* The lock covers a close from its first statement to its last.
LockInv ==
  \A c \in Closers :
    /\ pc[c] # "idle" => lock = c
    /\ pc[c] # "issuing" => rows[c] = {} /\ staged[c] = {}
    /\ cutoff[c] <= now

Ready(u, m, c) ==
  /\ usage[u] = "recorded" /\ bill[u] = None /\ audit[u] # "open"
  /\ month[u] = m /\ m < cutoff[c]

RowsInv == \A c \in Closers : \A r \in rows[c] : Ready(r.usage, r.month, c)

StagedInv ==
  \A c \in Closers : \A s \in staged[c] :
    /\ s.usages \subseteq Usages /\ \A u \in s.usages : Ready(u, s.invoice.period, c)
    /\ s.invoice.period \in Nat /\ s.invoice.period < cutoff[c]
    /\ s.invoice.id \in Ids
    /\ \A i \in invoices : i.id # s.invoice.id

BilledInv ==
  /\ \A u \in Usages : bill[u] # None =>
       /\ usage[u] = "recorded" /\ audit[u] # "open"
       /\ \E i \in invoices : i.id = bill[u] /\ i.period = month[u]
  /\ \A i \in invoices : i.id \in Ids /\ i.period \in Nat /\ i.period < now

Of(S, p) == {j \in S : j.period = p}

\* The ids tell the invoices of S apart, and so do the numbers within a month, which
\* have no gap.
Numbered(S) ==
  /\ IsFiniteSet(S)
  /\ \A i, j \in S : i.id = j.id => i = j
  /\ \A i, j \in S : i.period = j.period /\ i.seq = j.seq => i = j
  /\ \A p \in Nat : {i.seq : i \in Of(S, p)} = 0..(Cardinality(Of(S, p)) - 1)

NumberInv == Numbered(invoices) /\ (\A c \in Closers : Numbered(Seen(c))) /\ ~failed

IInv == PType /\ LockInv /\ RowsInv /\ StagedInv /\ BilledInv /\ NumberInv

-------------------------------------------------------------------------------
(* The numbers of the invoices *)

LEMMA EmptyIsNumbered == Numbered({})
<1>1. ASSUME NEW p PROVE Of({}, p) = {} /\ Cardinality(Of({}, p)) = 0
  BY FS_EmptySet DEF Of
<1>. QED  BY <1>1, FS_EmptySet DEF Numbered

\* The number that NextSeq draws is the count of the month's invoices.
LEMMA NextIsCount ==
  ASSUME NEW c \in Closers, NEW p \in Nat, Numbered(Seen(c))
  PROVE  NextSeq(c, p) = Cardinality(Of(Seen(c), p)) /\ NextSeq(c, p) \in Nat
<1>. DEFINE n == Cardinality(Of(Seen(c), p))
            seqs == {i.seq : i \in Of(Seen(c), p)}
<1>1. n \in Nat
  BY FS_Subset, FS_CardinalityType DEF Numbered, Of
<1>2. seqs = 0..(n - 1)
  BY DEF Numbered
<1>3. NextSeq(c, p) = IF seqs = {} THEN 0 ELSE Max(seqs) + 1
  BY DEF NextSeq, Of
<1>. HIDE DEF seqs, n
<1>4. CASE n = 0
  BY <1>1, <1>2, <1>3, <1>4 DEF n
<1>5. CASE n > 0
  <2>1. n - 1 \in seqs /\ \A y \in seqs : n - 1 >= y /\ y \in Nat
    BY <1>1, <1>2, <1>5
  <2>2. Max(seqs) \in seqs /\ \A y \in seqs : Max(seqs) >= y
    BY <2>1 DEF Max
  <2>3. Max(seqs) = n - 1
    BY <1>1, <2>1, <2>2
  <2>. QED  BY <1>1, <1>3, <2>1, <2>3 DEF n
<1>. QED  BY <1>1, <1>4, <1>5

LEMMA NumberOneMore ==
  ASSUME NEW S, Numbered(S), NEW v, v.period \in Nat,
         v.seq = Cardinality(Of(S, v.period)), \A i \in S : i.id # v.id
  PROVE  Numbered(S \cup {v})
<1>. DEFINE p == v.period
<1>1. /\ IsFiniteSet(Of(S, p)) /\ v \notin Of(S, p) /\ v.seq \in Nat
  BY FS_Subset, FS_CardinalityType DEF Numbered, Of
<1>2. {i.seq : i \in Of(S, p)} = 0..(v.seq - 1)
  BY DEF Numbered
<1>3. Of(S \cup {v}, p) = Of(S, p) \cup {v}
  BY DEF Of
<1>4. Cardinality(Of(S \cup {v}, p)) = v.seq + 1
  BY <1>1, <1>3, FS_AddElement
<1>5. ASSUME NEW i \in S, i.period = p
      PROVE  i.seq # v.seq
  <2>1. i.seq \in {k.seq : k \in Of(S, p)}
    BY <1>5 DEF Of
  <2>2. i.seq \in 0..(v.seq - 1)
    BY <1>2, <2>1
  <2>. QED  BY <1>1, <2>2
<1>6. {i.seq : i \in Of(S \cup {v}, p)} = {i.seq : i \in Of(S, p)} \cup {v.seq}
  BY <1>3
<1>7. {i.seq : i \in Of(S \cup {v}, p)} = 0..(Cardinality(Of(S \cup {v}, p)) - 1)
  <2>1. ASSUME NEW n \in Nat PROVE 0..((n + 1) - 1) = (0..(n - 1)) \cup {n}
    <3>1. \A x : x \in 0..((n + 1) - 1) <=> x \in 0..(n - 1) \/ x = n
      OBVIOUS
    <3>. QED  BY <3>1, Zenon
  <2>2. 0..((v.seq + 1) - 1) = (0..(v.seq - 1)) \cup {v.seq}
    BY <1>1, <2>1
  <2>. QED  BY <1>2, <1>4, <1>6, <2>2
<1>8. ASSUME NEW q \in Nat, q # p
      PROVE  Of(S \cup {v}, q) = Of(S, q)
  BY <1>8 DEF Of
<1>9. \A q \in Nat : {i.seq : i \in Of(S \cup {v}, q)} = 0..(Cardinality(Of(S \cup {v}, q)) - 1)
  BY <1>7, <1>8 DEF Numbered
<1>10. \A i, j \in S \cup {v} : i.id = j.id => i = j
  BY DEF Numbered
<1>11. \A i, j \in S \cup {v} : i.period = j.period /\ i.seq = j.seq => i = j
  BY <1>5 DEF Numbered
<1>. QED  BY <1>9, <1>10, <1>11, FS_AddElement DEF Numbered

\* A non-empty set of months has an earliest one.
LEMMA EarliestMonth ==
  ASSUME NEW S \in SUBSET Nat, S # {}
  PROVE  Min(S) \in S /\ \A y \in S : Min(S) <= y
<1>. DEFINE R == {ss \in Nat \X Nat : ss[1] < ss[2]}
<1>1. IsWellFoundedOn(R, Nat)
  BY NatLessThanWellFounded, Zenon DEF OpToRel
<1>2. PICK x \in S : \A y \in S : ~ (<<y, x>> \in R)
  BY <1>1, WFMin, Zenon
<1>3. ASSUME NEW y \in S PROVE x <= y
  <2>1. x \in Nat /\ y \in Nat /\ <<y, x>> \in Nat \X Nat
    OBVIOUS
  <2>2. <<y, x>>[1] = y /\ <<y, x>>[2] = x
    OBVIOUS
  <2>3. ~ (y < x)
    BY <1>2, <2>1, <2>2, Zenon
  <2>. QED  BY <2>1, <2>3
<1>. QED  BY <1>3 DEF Min

-------------------------------------------------------------------------------
(* Steps outside a close *)

LEMMA InitIInv == Init => IInv
<1>. SUFFICES ASSUME Init PROVE IInv
  OBVIOUS
<1>. USE DEF Init
<1>1. PType
  BY UsageAssumption, PriceAssumption, FS_EmptySet DEF PType
<1>2. \A c \in Closers : Seen(c) = {}
  BY DEF Seen
<1>3. NumberInv
  BY <1>2, EmptyIsNumbered DEF NumberInv
<1>4. LockInv /\ RowsInv /\ StagedInv /\ BilledInv
  BY DEF LockInv, RowsInv, StagedInv, BilledInv
<1>. QED  BY <1>1, <1>3, <1>4 DEF IInv

\* What a close sees does not change unless it or a commit writes.
LEMMA SameNumbers ==
  ASSUME NumberInv, invoices' = invoices, staged' = staged, failed' = failed
  PROVE  NumberInv'
<1>1. ASSUME NEW c \in Closers PROVE Seen(c)' = Seen(c)
  BY DEF Seen
<1>. QED  BY <1>1 DEF NumberInv, Numbered, Of

LEMMA MonthStep ==
  ASSUME IInv, NextMonth
  PROVE  IInv'
<1>. USE DEF IInv, NextMonth, usages, closes
<1>1. PType'
  BY DEF PType
<1>2. LockInv'
  BY DEF LockInv, PType
<1>3. RowsInv' /\ StagedInv'
  BY DEF RowsInv, StagedInv, Ready
<1>4. BilledInv'
  BY DEF BilledInv, PType
<1>5. NumberInv'
  BY SameNumbers
<1>. QED  BY <1>1, <1>2, <1>3, <1>4, <1>5

LEMMA UsageStep ==
  ASSUME IInv, NEW u \in Usages, RecordUsage(u) \/ CommitUsage(u)
  PROVE  IInv'
<1>. USE DEF IInv, RecordUsage, CommitUsage, closes
<1>1. PType'
  BY DEF PType
<1>2. LockInv'
  BY DEF LockInv
<1>3. ASSUME NEW v \in Usages, usage[v] = "recorded"
      PROVE  usage'[v] = "recorded" /\ month'[v] = month[v]
  BY <1>3 DEF PType
<1>4. ASSUME NEW v \in Usages, NEW m, NEW c \in Closers, Ready(v, m, c)
      PROVE  Ready(v, m, c)'
  BY <1>3, <1>4 DEF Ready
<1>5. RowsInv'
  BY <1>4 DEF RowsInv, PType
<1>6. StagedInv'
  BY <1>4 DEF StagedInv
<1>7. BilledInv'
  BY <1>3 DEF BilledInv
<1>8. NumberInv'
  BY SameNumbers
<1>. QED  BY <1>1, <1>2, <1>5, <1>6, <1>7, <1>8

LEMMA ResolveStep ==
  ASSUME IInv, NEW u \in Usages, NEW p \in Prices, Resolve(u, p)
  PROVE  IInv'
<1>. USE DEF IInv, Resolve, closes
<1>1. PType'
  BY PriceAssumption DEF PType
<1>2. LockInv'
  BY DEF LockInv
<1>3. ASSUME NEW v \in Usages, audit[v] # "open" PROVE audit'[v] # "open"
  BY <1>3 DEF PType
<1>4. ASSUME NEW v \in Usages, NEW m, NEW c \in Closers, Ready(v, m, c)
      PROVE  Ready(v, m, c)'
  BY <1>3, <1>4 DEF Ready
<1>5. RowsInv'
  BY <1>4 DEF RowsInv, PType
<1>6. StagedInv'
  BY <1>4 DEF StagedInv
<1>7. BilledInv'
  BY <1>3 DEF BilledInv
<1>8. NumberInv'
  BY SameNumbers
<1>. QED  BY <1>1, <1>2, <1>5, <1>6, <1>7, <1>8

-------------------------------------------------------------------------------
(* Steps of a close *)

LEMMA BeginStep ==
  ASSUME IInv, NEW c \in Closers, Begin(c)
  PROVE  IInv'
<1>. USE DEF IInv, Begin, usages
<1>1. PType'
  BY DEF PType
<1>2. LockInv'
  BY NoneAssumption DEF LockInv, PType
<1>3. \A d \in Closers : rows[d] = {} /\ staged[d] = {}
  BY NoneAssumption DEF LockInv, PType
<1>4. RowsInv' /\ StagedInv'
  BY <1>3 DEF RowsInv, StagedInv
<1>5. BilledInv'
  BY DEF BilledInv
<1>6. NumberInv'
  BY SameNumbers
<1>. QED  BY <1>1, <1>2, <1>4, <1>5, <1>6

LEMMA CollectStep ==
  ASSUME IInv, NEW c \in Closers, Collect(c)
  PROVE  IInv'
<1>. USE DEF IInv, Collect, usages
<1>1. PType'
  BY DEF PType
<1>2. LockInv'
  BY DEF LockInv, PType
<1>3. ASSUME NEW r \in rows'[c] PROVE Ready(r.usage, r.month, c)'
  BY <1>3 DEF Billable, Ready, PType
<1>4. RowsInv'
  BY <1>3 DEF RowsInv, Ready, PType
<1>5. StagedInv'
  BY DEF StagedInv, Ready
<1>6. BilledInv'
  BY DEF BilledInv
<1>7. NumberInv'
  BY SameNumbers
<1>. QED  BY <1>1, <1>2, <1>4, <1>5, <1>6, <1>7

LEMMA IssueStep ==
  ASSUME IInv, NEW c \in Closers, Issue(c)
  PROVE  IInv'
<1>. DEFINE months == {r.month : r \in rows[c]}
            period == Min(months)
            these == {r \in rows[c] : r.month = period}
<1>1. PICK id \in Ids :
        /\ \A i \in Seen(c) : i.id # id
        /\ staged' = [staged EXCEPT ![c] = @ \cup
             {[invoice |-> [id |-> id, period |-> period, seq |-> NextSeq(c, period),
                            quantity |-> Cardinality(these), amount |-> Amount(these)],
               usages |-> Linked(c, these)]}]
        /\ rows' = [rows EXCEPT ![c] = @ \ these]
  BY DEF Issue
<1>. DEFINE v == [id |-> id, period |-> period, seq |-> NextSeq(c, period),
                  quantity |-> Cardinality(these), amount |-> Amount(these)]
            s == [invoice |-> v, usages |-> Linked(c, these)]
<1>2. /\ pc[c] = "issuing" /\ rows[c] # {}
      /\ UNCHANGED <<now, usage, month, price, bill, audit, invoices, lock, pc, cutoff, failed>>
  BY DEF Issue, usages
<1>3. months \subseteq Nat /\ months # {}
  BY <1>2 DEF IInv, PType
<1>4. period \in months /\ period \in Nat
  BY <1>3, EarliestMonth
<1>5. period < cutoff[c]
  BY <1>4 DEF IInv, RowsInv, Ready
<1>6. s.invoice = v /\ s.usages = {r.usage : r \in these} /\ v.id = id /\ v.period = period
      /\ v.seq = NextSeq(c, period)
  BY DEF Linked
<1>7. /\ staged'[c] = staged[c] \cup {s}
      /\ \A d \in Closers : d # c => staged'[d] = staged[d]
      /\ staged' = [d \in Closers |-> staged'[d]]
  BY <1>1 DEF IInv, PType
<1>8. /\ rows'[c] = rows[c] \ these
      /\ \A d \in Closers : d # c => rows'[d] = rows[d]
  BY <1>1 DEF IInv, PType
<1>9. Seen(c)' = Seen(c) \cup {v} /\ \A d \in Closers : d # c => Seen(d)' = Seen(d)
  BY <1>2, <1>6, <1>7 DEF Seen
<1>10. ASSUME NEW u \in s.usages PROVE u \in Usages /\ Ready(u, period, c)
  <2>1. PICK r \in rows[c] : r.month = period /\ u = r.usage
    BY <1>6, <1>10
  <2>. QED  BY <2>1 DEF IInv, PType, RowsInv
<1>12. Numbered(Seen(c) \cup {v})
  BY <1>1, <1>4, <1>6, NextIsCount, NumberOneMore DEF IInv, NumberInv
<1>13. PType'
  <2>1. rows' \in [Closers -> SUBSET [usage : Usages, price : Nat, month : Nat]]
    BY <1>1 DEF IInv, PType
  <2>. QED  BY <1>2, <1>7, <2>1 DEF IInv, PType
<1>. HIDE DEF s, v, these, period, months
<1>14. LockInv'
  BY <1>2, <1>7, <1>8 DEF IInv, LockInv
<1>15. RowsInv'
  BY <1>2, <1>8 DEF IInv, RowsInv, Ready
<1>16. ASSUME NEW t \in staged'[c]
       PROVE  /\ t.usages \subseteq Usages /\ \A u \in t.usages : Ready(u, t.invoice.period, c)
              /\ t.invoice.period \in Nat /\ t.invoice.period < cutoff[c]
              /\ t.invoice.id \in Ids
              /\ \A i \in invoices : i.id # t.invoice.id
  <2>1. CASE t \in staged[c]
    BY <2>1 DEF IInv, StagedInv
  <2>2. CASE t = s
    BY <1>1, <1>4, <1>5, <1>6, <1>10, <2>2 DEF Seen
  <2>. QED  BY <1>7, <2>1, <2>2
<1>17. StagedInv'
  BY <1>2, <1>7, <1>16 DEF IInv, StagedInv, Ready
<1>18. BilledInv'
  BY <1>2 DEF IInv, BilledInv
<1>19. NumberInv'
  <2>1. ASSUME NEW d \in Closers PROVE Numbered(Seen(d))'
    <3>1. CASE d = c
      BY <1>9, <1>12, <3>1 DEF Numbered, Of
    <3>2. CASE d # c
      <4>1. Numbered(Seen(d)) /\ Seen(d)' = Seen(d)
        BY <1>9, <3>2 DEF IInv, NumberInv
      <4>. QED  BY <4>1 DEF Numbered, Of
    <3>. QED  BY <3>1, <3>2
  <2>. QED  BY <1>2, <2>1 DEF IInv, NumberInv, Numbered, Of
<1>. QED  BY <1>13, <1>14, <1>15, <1>17, <1>18, <1>19 DEF IInv

\* When the transaction ends nobody closes.
LEMMA EndFrees ==
  ASSUME IInv, NEW c \in Closers, pc[c] # "idle", End(c)
  PROVE  /\ lock' = None
         /\ pc' = [d \in Closers |-> "idle"]
         /\ \A d \in Closers : rows'[d] = {} /\ staged'[d] = {} /\ cutoff'[d] <= now
         /\ cutoff' \in [Closers -> Nat]
         /\ rows' \in [Closers -> SUBSET [usage : Usages, price : Nat, month : Nat]]
         /\ staged' = [d \in Closers |-> staged'[d]]
<1>. USE DEF IInv, End
<1>1. lock = c /\ \A d \in Closers : d # c => pc[d] = "idle"
  BY DEF LockInv
<1>2. \A d \in Closers : pc'[d] = "idle" /\ pc' = [e \in Closers |-> pc'[e]]
  BY <1>1 DEF PType
<1>3. \A d \in Closers : rows'[d] = {} /\ staged'[d] = {} /\ cutoff'[d] <= now
  BY <1>1 DEF PType, LockInv
<1>. QED  BY <1>1, <1>2, <1>3 DEF PType

LEMMA AbortStep ==
  ASSUME IInv, NEW c \in Closers, Abort(c)
  PROVE  IInv'
<1>. USE DEF Abort, usages
<1>1. PType' /\ LockInv'
  BY EndFrees DEF IInv, PType, LockInv
<1>2. RowsInv' /\ StagedInv'
  BY EndFrees DEF RowsInv, StagedInv
<1>3. BilledInv'
  BY DEF IInv, BilledInv
<1>4. \A d \in Closers : Seen(d)' = invoices
  BY EndFrees DEF Seen
<1>5. NumberInv'
  BY <1>4 DEF IInv, NumberInv, Numbered, Of
<1>. QED  BY <1>1, <1>2, <1>3, <1>5 DEF IInv

\* No close is lost to the unique key: its numbers follow the committed ones.
LEMMA StagedIsUnique ==
  ASSUME IInv, NEW c \in Closers
  PROVE  Unique(c)
<1>. SUFFICES ASSUME NEW s \in staged[c], NEW i \in invoices,
                     i.period = s.invoice.period, i.seq = s.invoice.seq
              PROVE  FALSE
  BY DEF Unique
<1>1. i \in Seen(c) /\ s.invoice \in Seen(c)
  BY DEF Seen
<1>2. i = s.invoice
  BY <1>1 DEF IInv, NumberInv, Numbered
<1>. QED  BY <1>2 DEF IInv, StagedInv

\* What a commit does to one row of signup_usage.
LEMMA CommitBills ==
  ASSUME IInv, NEW c \in Closers, Commit(c), NEW u \in Usages
  PROVE  /\ bill[u] # None => bill'[u] = bill[u]
         /\ bill'[u] # bill[u] =>
              \E s \in staged[c] : bill'[u] = s.invoice.id /\ Ready(u, s.invoice.period, c)
         /\ bill'[u] \in Ids \cup {None}
<1>1. bill'[u] = IF \E s \in staged[c] : u \in s.usages
                   THEN (CHOOSE s \in staged[c] : u \in s.usages).invoice.id ELSE bill[u]
  BY StagedIsUnique DEF Commit
<1>2. CASE \E s \in staged[c] : u \in s.usages
  <2>1. PICK t \in staged[c] : u \in t.usages /\ bill'[u] = t.invoice.id
    BY <1>1, <1>2
  <2>2. Ready(u, t.invoice.period, c) /\ t.invoice.id \in Ids
    BY <2>1 DEF IInv, StagedInv
  <2>. QED  BY <2>1, <2>2 DEF Ready
<1>3. CASE ~ \E s \in staged[c] : u \in s.usages
  BY <1>1, <1>3 DEF IInv, PType
<1>. QED  BY <1>2, <1>3

LEMMA CommitStep ==
  ASSUME IInv, NEW c \in Closers, Commit(c)
  PROVE  IInv'
<1>1. /\ invoices' = Seen(c) /\ failed' = FALSE /\ bill' = [u \in Usages |-> bill'[u]]
      /\ UNCHANGED <<now, usage, month, price, audit>>
  BY StagedIsUnique DEF Commit, IInv, NumberInv
<1>2. pc[c] # "idle" /\ End(c)
  BY DEF Commit
<1>3. PType' /\ LockInv'
  BY <1>1, <1>2, EndFrees, CommitBills DEF IInv, PType, LockInv
<1>4. RowsInv' /\ StagedInv'
  BY <1>2, EndFrees DEF RowsInv, StagedInv
<1>5. ASSUME NEW u \in Usages, bill'[u] # None
      PROVE  /\ usage[u] = "recorded" /\ audit[u] # "open"
             /\ \E i \in invoices' : i.id = bill'[u] /\ i.period = month[u]
  <2>1. CASE bill'[u] = bill[u]
    BY <1>1, <1>5, <2>1 DEF IInv, BilledInv, Seen
  <2>2. CASE bill'[u] # bill[u]
    <3>1. PICK s \in staged[c] : bill'[u] = s.invoice.id /\ Ready(u, s.invoice.period, c)
      BY <2>2, CommitBills
    <3>2. s.invoice \in invoices'
      BY <1>1 DEF Seen
    <3>. QED  BY <3>1, <3>2 DEF Ready
  <2>. QED  BY <2>1, <2>2
<1>6. ASSUME NEW i \in invoices'
      PROVE  i.id \in Ids /\ i.period \in Nat /\ i.period < now
  <2>1. CASE i \in invoices
    BY <2>1 DEF IInv, BilledInv
  <2>2. CASE i \notin invoices
    <3>1. PICK s \in staged[c] : i = s.invoice
      BY <1>1, <2>2 DEF Seen
    <3>2. s.invoice.period < cutoff[c] /\ cutoff[c] <= now /\ cutoff[c] \in Nat /\ now \in Nat
          /\ s.invoice.period \in Nat /\ s.invoice.id \in Ids
      BY DEF IInv, StagedInv, LockInv, PType
    <3>. QED  BY <3>1, <3>2
  <2>. QED  BY <2>1, <2>2
<1>7. BilledInv'
  BY <1>1, <1>5, <1>6 DEF BilledInv
<1>8. ASSUME NEW d \in Closers PROVE Seen(d)' = Seen(c)
  BY <1>1, <1>2, EndFrees DEF Seen
<1>9. Numbered(Seen(c))
  BY DEF IInv, NumberInv
<1>10. NumberInv'
  BY <1>1, <1>8, <1>9 DEF NumberInv, Numbered, Of
<1>. QED  BY <1>3, <1>4, <1>7, <1>10 DEF IInv

LEMMA Invariance == IInv /\ [Next]_vars => IInv'
<1>. SUFFICES ASSUME IInv, [Next]_vars PROVE IInv'
  OBVIOUS
<1>1. CASE NextMonth
  BY <1>1, MonthStep
<1>2. CASE \E u \in Usages : RecordUsage(u) \/ CommitUsage(u)
  BY <1>2, UsageStep
<1>3. CASE \E u \in Usages, p \in Prices : Resolve(u, p)
  BY <1>3, ResolveStep
<1>4. CASE \E c \in Closers : CloseNext(c)
  BY <1>4, BeginStep, CollectStep, IssueStep, CommitStep, AbortStep DEF CloseNext
<1>5. CASE UNCHANGED vars
  <2>. USE <1>5 DEF vars, usages, closes, IInv
  <2>1. PType' /\ LockInv'
    BY DEF PType, LockInv
  <2>2. RowsInv' /\ StagedInv' /\ BilledInv'
    BY DEF RowsInv, StagedInv, BilledInv, Ready
  <2>3. NumberInv'
    BY SameNumbers
  <2>. QED  BY <2>1, <2>2, <2>3
<1>. QED  BY <1>1, <1>2, <1>3, <1>4, <1>5 DEF Next

-------------------------------------------------------------------------------
(* Sums *)

\* g adds f up over every part of S, in whatever order.
Adds(g, f, S) ==
  /\ g \in [SUBSET S -> Nat] /\ g[{}] = 0
  /\ \A T \in SUBSET S : \A x \in T : g[T] = f[x] + g[T \ {x}]

\* A finite part of S is smaller by one without one of its elements.
LEMMA PartShrinks ==
  ASSUME NEW S, IsFiniteSet(S), NEW T \in SUBSET S, NEW x \in T
  PROVE  /\ IsFiniteSet(T) /\ Cardinality(T) \in Nat
         /\ IsFiniteSet(T \ {x}) /\ Cardinality(T \ {x}) \in Nat
         /\ Cardinality(T) = Cardinality(T \ {x}) + 1
<1>1. IsFiniteSet(T) /\ Cardinality(T) \in Nat
  BY FS_Subset, FS_CardinalityType
<1>2. IsFiniteSet(T \ {x}) /\ Cardinality(T \ {x}) \in Nat
  BY <1>1, FS_RemoveElement, FS_CardinalityType
<1>3. Cardinality(T) = Cardinality(T \ {x}) + 1
  <2>1. x \notin T \ {x} /\ (T \ {x}) \cup {x} = T
    OBVIOUS
  <2>. QED  BY <1>2, <2>1, FS_AddElement
<1>. QED  BY <1>1, <1>2, <1>3

\* By the smallest part that had no such g.
LEMMA AddsExists ==
  ASSUME NEW S, IsFiniteSet(S), NEW f \in [S -> Nat]
  PROVE  \E g : Adds(g, f, S)
<1>. DEFINE Has(T) == \E g : Adds(g, f, T)
            bad == {Cardinality(T) : T \in {U \in SUBSET S : ~ Has(U)}}
<1>. SUFFICES ASSUME ~ Has(S) PROVE FALSE
  OBVIOUS
<1>1. bad \subseteq Nat /\ bad # {}
  BY FS_Subset, FS_CardinalityType
<1>2. PICK T \in SUBSET S : ~ Has(T) /\ Cardinality(T) = Min(bad)
  BY <1>1, EarliestMonth
<1>3. \A U \in SUBSET S : ~ Has(U) => Cardinality(T) <= Cardinality(U)
  BY <1>1, <1>2, EarliestMonth
<1>4. CASE T = {}
  <2>1. SUBSET T = {{}}
    BY <1>4
  <2>2. Adds([U \in SUBSET T |-> 0], f, T)
    BY <2>1 DEF Adds
  <2>. QED  BY <1>2, <2>2
<1>5. CASE T # {}
  <2>1. PICK a \in T : TRUE
    BY <1>5
  <2>2. Has(T \ {a})
    <3>1. ~ (Cardinality(T) <= Cardinality(T \ {a}))
      <4>1. Cardinality(T) \in Nat /\ Cardinality(T \ {a}) \in Nat
            /\ Cardinality(T) = Cardinality(T \ {a}) + 1
        BY PartShrinks
      <4>. QED  BY <4>1
    <3>. QED  BY <3>1, <1>3
  <2>3. PICK g : Adds(g, f, T \ {a})
    BY <2>2
  <2>. DEFINE h == [U \in SUBSET T |-> IF a \in U THEN f[a] + g[U \ {a}] ELSE g[U]]
  <2>4. h \in [SUBSET T -> Nat]
    <3>1. ASSUME NEW U \in SUBSET T PROVE h[U] \in Nat
      <4>1. U \ {a} \in SUBSET (T \ {a}) /\ (a \notin U => U \in SUBSET (T \ {a})) /\ f[a] \in Nat
        BY <2>1
      <4>. QED  BY <4>1, <2>3 DEF Adds
    <3>. QED  BY <3>1
  <2>5. h[{}] = 0
    BY <2>3 DEF Adds
  <2>6. ASSUME NEW U \in SUBSET T, NEW x \in U PROVE h[U] = f[x] + h[U \ {x}]
    <3>. U \ {x} \in SUBSET T /\ U \ {a} \in SUBSET (T \ {a}) /\ f[x] \in Nat /\ f[a] \in Nat
      BY <2>1
    <3>1. CASE x = a
      BY <3>1
    <3>2. CASE x # a /\ a \in U
      <4>1. h[U] = f[a] + g[U \ {a}] /\ h[U \ {x}] = f[a] + g[(U \ {x}) \ {a}]
        BY <3>2
      <4>2. x \in U \ {a} /\ (U \ {x}) \ {a} = (U \ {a}) \ {x} /\ (U \ {a}) \ {x} \in SUBSET (T \ {a})
        BY <3>2
      <4>3. g[U \ {a}] = f[x] + g[(U \ {a}) \ {x}] /\ g[(U \ {a}) \ {x}] \in Nat
        BY <4>2, <2>3 DEF Adds
      <4>4. h[U \ {x}] = f[a] + g[(U \ {a}) \ {x}]
        BY <4>1, <4>2
      <4>5. h[U] = f[a] + (f[x] + g[(U \ {a}) \ {x}])
        BY <4>1, <4>3
      <4>. HIDE DEF h
      <4>. QED  BY <4>3, <4>4, <4>5
    <3>3. CASE x # a /\ a \notin U
      <4>1. U \in SUBSET (T \ {a})
        BY <3>3
      <4>2. g[U] = f[x] + g[U \ {x}]
        BY <4>1, <2>3 DEF Adds
      <4>. QED  BY <4>2, <3>3
    <3>. QED  BY <3>1, <3>2, <3>3
  <2>7. Adds(h, f, T)
    BY <2>4, <2>5, <2>6 DEF Adds
  <2>. QED  BY <1>2, <2>7
<1>. QED  BY <1>4, <1>5

\* The library's sum.
LEMMA SumIsAdds ==
  ASSUME NEW S, IsFiniteSet(S), NEW f, NEW g, Adds(g, f, S)
  PROVE  SumFunctionOnSet(f, S) = g[S]
<1>. DEFINE Fold(it) == [s \in SUBSET S |-> IF s = {} THEN 0
                          ELSE f[CHOOSE x \in s : TRUE] + it[s \ {CHOOSE x \in s : TRUE}]]
            iter == CHOOSE it : it = Fold(it)
<1>1. SumFunctionOnSet(f, S) = iter[S]
  BY Zenon DEF SumFunctionOnSet, FoldFunctionOnSet, MapThenFoldSet
<1>2. g = Fold(g)
  <2>1. ASSUME NEW s \in SUBSET S, s # {}
        PROVE  g[s] = f[CHOOSE x \in s : TRUE] + g[s \ {CHOOSE x \in s : TRUE}]
    <3>1. (CHOOSE x \in s : TRUE) \in s
      BY <2>1
    <3>. QED  BY <3>1 DEF Adds
  <2>. QED  BY <2>1 DEF Adds
<1>3. iter = Fold(iter)
  BY <1>2
<1>. DEFINE bad == {Cardinality(T) : T \in {U \in SUBSET S : iter[U] # g[U]}}
<1>. HIDE DEF iter
<1>. SUFFICES ASSUME iter[S] # g[S] PROVE FALSE
  BY <1>1
<1>4. bad \subseteq Nat /\ bad # {}
  BY FS_Subset, FS_CardinalityType
<1>5. PICK T \in SUBSET S : iter[T] # g[T] /\ Cardinality(T) = Min(bad)
  BY <1>4, EarliestMonth
<1>6. \A U \in SUBSET S : iter[U] # g[U] => Cardinality(T) <= Cardinality(U)
  BY <1>4, <1>5, EarliestMonth
<1>7. CASE T = {}
  BY <1>2, <1>3, <1>5, <1>7
<1>8. CASE T # {}
  <2>1. PICK x \in T : x = CHOOSE y \in T : TRUE
    BY <1>8
  <2>2. iter[T] = f[x] + iter[T \ {x}] /\ g[T] = f[x] + g[T \ {x}]
    BY <1>2, <1>3, <1>8, <2>1
  <2>3. /\ Cardinality(T) \in Nat /\ Cardinality(T \ {x}) \in Nat
        /\ Cardinality(T) = Cardinality(T \ {x}) + 1
    BY PartShrinks
  <2>4. iter[T \ {x}] = g[T \ {x}]
    <3>1. ~ (Cardinality(T) <= Cardinality(T \ {x}))
      BY <2>3
    <3>. QED  BY <3>1, <1>6
  <2>. QED  BY <1>5, <2>2, <2>4
<1>. QED  BY <1>7, <1>8

\* A sum depends on the values of what it adds up only.
LEMMA SumAgrees ==
  ASSUME NEW S, IsFiniteSet(S), NEW f, NEW h, \A x \in S : f[x] \in Nat /\ h[x] = f[x]
  PROVE  SumFunctionOnSet(h, S) = SumFunctionOnSet(f, S)
<1>1. PICK g : Adds(g, [x \in S |-> f[x]], S)
  BY AddsExists
<1>2. Adds(g, f, S) /\ Adds(g, h, S)
  BY <1>1 DEF Adds
<1>. QED  BY <1>2, SumIsAdds

\* Rows, one for each of some usages, are as many as the usages and add up to the same.
LEMMA SumByUsage ==
  ASSUME NEW R, IsFiniteSet(R), NEW f \in [R -> Nat], NEW U, NEW h \in [U -> Nat],
         \A r \in R : r.usage \in U /\ f[r] = h[r.usage],
         \A q, r \in R : q.usage = r.usage => q = r
  PROVE  /\ IsFiniteSet({r.usage : r \in R})
         /\ Cardinality({r.usage : r \in R}) = Cardinality(R)
         /\ SumFunctionOnSet(f, R) = SumFunctionOnSet(h, {r.usage : r \in R})
         /\ SumFunctionOnSet(f, R) \in Nat
<1>. DEFINE By(s) == {r.usage : r \in s}
<1>1. IsFiniteSet(By(R)) /\ Cardinality(By(R)) = Cardinality(R)
  <2>. DEFINE b == [r \in R |-> r.usage]
  <2>1. b \in [R -> By(R)] /\ \A q, r \in R : b[q] = b[r] => q = r
    OBVIOUS
  <2>2. \A u \in By(R) : \E r \in R : b[r] = u
    OBVIOUS
  <2>3. b \in Bijection(R, By(R))
    BY <2>1, <2>2 DEF Bijection, Injection, Surjection, IsInjective
  <2>4. ExistsBijection(R, By(R))
    BY <2>3 DEF ExistsBijection
  <2>. QED  BY <2>4, FS_Bijection
<1>2. PICK g : Adds(g, [u \in By(R) |-> h[u]], By(R))
  BY <1>1, AddsExists
<1>3. Adds(g, h, By(R))
  BY <1>2 DEF Adds
<1>. DEFINE k == [s \in SUBSET R |-> g[By(s)]]
<1>4. Adds(k, f, R)
  <2>1. k \in [SUBSET R -> Nat] /\ k[{}] = 0
    <3>1. \A s \in SUBSET R : By(s) \in SUBSET By(R)
      OBVIOUS
    <3>2. By({}) = {}
      OBVIOUS
    <3>. QED  BY <3>1, <3>2, <1>3 DEF Adds
  <2>2. ASSUME NEW s \in SUBSET R, NEW r \in s PROVE k[s] = f[r] + k[s \ {r}]
    <3>1. r.usage \in By(s) /\ By(s) \in SUBSET By(R) /\ s \ {r} \in SUBSET R
      OBVIOUS
    <3>2. By(s \ {r}) = By(s) \ {r.usage}
      OBVIOUS
    <3>3. g[By(s)] = h[r.usage] + g[By(s) \ {r.usage}]
      BY <3>1, <1>3 DEF Adds
    <3>4. k[s] = g[By(s)] /\ k[s \ {r}] = g[By(s) \ {r.usage}] /\ f[r] = h[r.usage]
      BY <3>1, <3>2
    <3>. QED  BY <3>3, <3>4
  <2>. HIDE DEF k
  <2>. QED  BY <2>1, <2>2 DEF Adds
<1>5. SumFunctionOnSet(f, R) = k[R]
  BY <1>4, SumIsAdds
<1>6. SumFunctionOnSet(h, By(R)) = g[By(R)]
  BY <1>1, <1>3, SumIsAdds
<1>7. k[R] = g[By(R)] /\ k[R] \in Nat
  BY <1>4 DEF Adds
<1>. QED  BY <1>1, <1>5, <1>6, <1>7

-------------------------------------------------------------------------------
(* Amounts: a second invariant, on top of the first. *)

\* What a close read still is what the table says, and none of it is staged.
RowsFit ==
  \A c \in Closers :
    /\ IsFiniteSet(rows[c])
    /\ \A r \in rows[c] : r.price = price[r.usage]
    /\ \A q, r \in rows[c] : q.usage = r.usage => q = r
    /\ \A r \in rows[c] : \A s \in staged[c] : r.usage \notin s.usages

StagedFit ==
  \A c \in Closers :
    /\ \A s \in staged[c] : s.invoice.quantity = Cardinality(s.usages)
                            /\ s.invoice.amount = SumFunctionOnSet(price, s.usages)
    /\ \A s, t \in staged[c] : s.invoice.id = t.invoice.id => s = t
    /\ \A s, t \in staged[c] : \A u \in s.usages : u \in t.usages => s = t

AmountInv == RowsFit /\ StagedFit /\ AmountMatches

LEMMA InitAmounts == Init => AmountInv
<1>. SUFFICES ASSUME Init PROVE AmountInv
  OBVIOUS
<1>1. \A c \in Closers : rows[c] = {} /\ staged[c] = {} /\ IsFiniteSet(rows[c])
  BY FS_EmptySet DEF Init
<1>2. invoices = {}
  BY DEF Init
<1>. QED  BY <1>1, <1>2 DEF AmountInv, RowsFit, StagedFit, AmountMatches

\* Nothing is written but the price of usage that is under audit.
LEMMA OthersKeepAmounts ==
  ASSUME IInv, AmountInv, invoices' = invoices, bill' = bill, staged' = staged,
         \A c \in Closers : rows'[c] = rows[c],
         \A u \in Usages : price'[u] = price[u] \/ audit[u] = "open"
  PROVE  AmountInv'
<1>1. RowsFit'
  BY DEF IInv, PType, RowsInv, Ready, AmountInv, RowsFit
<1>2. ASSUME NEW c \in Closers, NEW s \in staged[c]
      PROVE  s.invoice.amount = SumFunctionOnSet(price', s.usages)
  <2>1. s.usages \subseteq Usages /\ IsFiniteSet(s.usages)
    BY UsageAssumption, FS_Subset DEF IInv, StagedInv
  <2>2. \A u \in s.usages : price[u] \in Nat /\ price'[u] = price[u]
    BY <2>1 DEF IInv, PType, StagedInv, Ready
  <2>. QED  BY <2>1, <2>2, SumAgrees DEF AmountInv, StagedFit
<1>3. StagedFit'
  BY <1>2 DEF AmountInv, StagedFit
<1>4. ASSUME NEW i \in invoices
      PROVE  UsagesOf(i)' = UsagesOf(i) /\ i.amount = SumFunctionOnSet(price', UsagesOf(i))
  <2>1. UsagesOf(i)' = UsagesOf(i) /\ UsagesOf(i) \subseteq Usages /\ IsFiniteSet(UsagesOf(i))
    BY UsageAssumption, FS_Subset DEF UsagesOf
  <2>2. \A u \in UsagesOf(i) : price[u] \in Nat /\ price'[u] = price[u]
    BY NoneAssumption DEF UsagesOf, IInv, PType, BilledInv
  <2>. QED  BY <2>1, <2>2, SumAgrees DEF AmountInv, AmountMatches
<1>5. AmountMatches'
  BY <1>4 DEF AmountInv, AmountMatches
<1>. QED  BY <1>1, <1>3, <1>5 DEF AmountInv

LEMMA CollectAmounts ==
  ASSUME IInv, AmountInv, NEW c \in Closers, Collect(c)
  PROVE  AmountInv'
<1>. DEFINE due == {v \in Usages : Billable(v, cutoff[c])}
            row == [u \in due |-> [usage |-> u, price |-> price[u], month |-> month[u]]]
<1>1. /\ rows'[c] = {row[u] : u \in due}
      /\ \A d \in Closers : d # c => rows'[d] = rows[d]
      /\ UNCHANGED <<invoices, bill, price, staged>> /\ staged[c] = {}
  BY DEF Collect, usages, IInv, PType, LockInv
<1>2. IsFiniteSet(rows'[c])
  <2>1. IsFiniteSet(due)
    BY UsageAssumption, FS_Subset
  <2>2. row \in Surjection(due, {row[u] : u \in due})
    BY DEF Surjection
  <2>. QED  BY <1>1, <2>1, <2>2, FS_Surjection
<1>3. /\ \A r \in rows'[c] : r.price = price[r.usage]
      /\ \A q, r \in rows'[c] : q.usage = r.usage => q = r
  BY <1>1
<1>4. RowsFit'
  BY <1>1, <1>2, <1>3 DEF AmountInv, RowsFit
<1>5. StagedFit' /\ AmountMatches'
  BY <1>1 DEF AmountInv, StagedFit, AmountMatches, UsagesOf
<1>. QED  BY <1>4, <1>5 DEF AmountInv

LEMMA IssueAmounts ==
  ASSUME IInv, AmountInv, NEW c \in Closers, Issue(c)
  PROVE  AmountInv'
<1>. DEFINE period == Min({r.month : r \in rows[c]})
            these == {r \in rows[c] : r.month = period}
<1>1. PICK id \in Ids :
        /\ \A i \in Seen(c) : i.id # id
        /\ staged' = [staged EXCEPT ![c] = @ \cup
             {[invoice |-> [id |-> id, period |-> period, seq |-> NextSeq(c, period),
                            quantity |-> Cardinality(these), amount |-> Amount(these)],
               usages |-> Linked(c, these)]}]
        /\ rows' = [rows EXCEPT ![c] = @ \ these]
  BY DEF Issue
<1>. DEFINE new == [invoice |-> [id |-> id, period |-> period, seq |-> NextSeq(c, period),
                                 quantity |-> Cardinality(these), amount |-> Amount(these)],
                    usages |-> Linked(c, these)]
<1>2. /\ staged'[c] = staged[c] \cup {new} /\ rows'[c] = rows[c] \ these
      /\ \A d \in Closers : d # c => staged'[d] = staged[d] /\ rows'[d] = rows[d]
      /\ UNCHANGED <<invoices, bill, price>>
  BY <1>1 DEF Issue, usages, IInv, PType
<1>3. /\ new.invoice.id = id /\ new.invoice.quantity = Cardinality(these)
      /\ new.invoice.amount = Amount(these) /\ new.usages = {r.usage : r \in these}
  BY DEF Linked
<1>4. these \subseteq rows[c]
  OBVIOUS
<1>. HIDE DEF new, these, period
<1>5. IsFiniteSet(these) /\ IsFiniteSet(rows'[c])
  BY <1>2, <1>4, FS_Subset DEF AmountInv, RowsFit
<1>6. /\ new.invoice.quantity = Cardinality(new.usages)
      /\ new.invoice.amount = SumFunctionOnSet(price, new.usages)
  <2>. DEFINE f == [r \in these |-> r.price]
  <2>1. \A r \in these : r.usage \in Usages /\ f[r] = price[r.usage]
    BY <1>4 DEF AmountInv, RowsFit, IInv, PType
  <2>2. f \in [these -> Nat] /\ price \in [Usages -> Nat]
    BY <2>1 DEF IInv, PType
  <2>3. \A q, r \in these : q.usage = r.usage => q = r
    BY <1>4 DEF AmountInv, RowsFit
  <2>4. Amount(these) = SumFunctionOnSet(f, these)
    BY DEF Amount
  <2>. HIDE DEF f
  <2>5. \A r \in these : r.usage \in Usages /\ f[r] = price[r.usage]
    BY <2>1
  <2>6. /\ Cardinality({r.usage : r \in these}) = Cardinality(these)
        /\ SumFunctionOnSet(f, these) = SumFunctionOnSet(price, {r.usage : r \in these})
    BY <1>5, <2>2, <2>3, <2>5, SumByUsage
  <2>. QED  BY <1>3, <2>4, <2>6
<1>7. ASSUME NEW r \in rows'[c] PROVE r \in rows[c] /\ r.usage \notin new.usages
  BY <1>2, <1>3, <1>4 DEF AmountInv, RowsFit
<1>8. ASSUME NEW s \in staged[c]
      PROVE  s.invoice.id # id /\ \A u \in s.usages : u \notin new.usages
  BY <1>1, <1>3, <1>4 DEF AmountInv, RowsFit, Seen
<1>9. RowsFit'
  BY <1>2, <1>5, <1>7 DEF AmountInv, RowsFit
<1>10. StagedFit'
  <2>1. \A s \in staged'[c] : s = new \/ s \in staged[c]
    BY <1>2
  <2>2. \A s \in staged'[c] : /\ s.invoice.quantity = Cardinality(s.usages)
                              /\ s.invoice.amount = SumFunctionOnSet(price, s.usages)
    BY <1>6, <2>1 DEF AmountInv, StagedFit
  <2>3. /\ \A s, t \in staged'[c] : s.invoice.id = t.invoice.id => s = t
        /\ \A s, t \in staged'[c] : \A u \in s.usages : u \in t.usages => s = t
    BY <1>3, <1>8, <2>1 DEF AmountInv, StagedFit
  <2>. QED  BY <1>2, <2>2, <2>3 DEF AmountInv, StagedFit
<1>11. AmountMatches'
  BY <1>2 DEF AmountInv, AmountMatches, UsagesOf
<1>. QED  BY <1>9, <1>10, <1>11 DEF AmountInv

LEMMA EndAmounts ==
  ASSUME IInv, NEW c \in Closers, pc[c] # "idle", End(c)
  PROVE  RowsFit' /\ StagedFit'
<1>1. \A d \in Closers : rows'[d] = {} /\ staged'[d] = {}
  BY EndFrees
<1>. QED  BY <1>1, FS_EmptySet DEF RowsFit, StagedFit

\* Each row is linked to the invoice that was staged with it, and no other row is.
LEMMA CommitLinks ==
  ASSUME IInv, AmountInv, NEW c \in Closers, Commit(c), NEW u \in Usages
  PROVE  /\ \A s \in staged[c] : u \in s.usages <=> bill'[u] = s.invoice.id
         /\ \A i \in invoices : bill[u] = i.id <=> bill'[u] = i.id
<1>1. bill'[u] = IF \E s \in staged[c] : u \in s.usages
                   THEN (CHOOSE s \in staged[c] : u \in s.usages).invoice.id ELSE bill[u]
  BY StagedIsUnique DEF Commit
<1>2. \A s \in staged[c] : bill[u] # s.invoice.id /\ \A i \in invoices : i.id # s.invoice.id
  BY NoneAssumption DEF IInv, StagedInv, BilledInv
<1>3. CASE \E s \in staged[c] : u \in s.usages
  <2>1. PICK t \in staged[c] : u \in t.usages /\ bill'[u] = t.invoice.id
    BY <1>1, <1>3
  <2>2. bill[u] = None
    BY <2>1 DEF IInv, StagedInv, Ready
  <2>3. \A i \in invoices : i.id # None
    BY NoneAssumption DEF IInv, BilledInv
  <2>. QED  BY <1>2, <2>1, <2>2, <2>3 DEF AmountInv, StagedFit
<1>4. CASE ~ \E s \in staged[c] : u \in s.usages
  BY <1>1, <1>2, <1>4
<1>. QED  BY <1>3, <1>4

LEMMA CommitAmounts ==
  ASSUME IInv, AmountInv, NEW c \in Closers, Commit(c)
  PROVE  AmountInv'
<1>1. /\ invoices' = Seen(c) /\ price' = price /\ pc[c] # "idle" /\ End(c)
  BY StagedIsUnique DEF Commit
<1>2. RowsFit' /\ StagedFit'
  BY <1>1, EndAmounts
<1>3. ASSUME NEW i \in invoices'
      PROVE  /\ i.quantity = Cardinality(UsagesOf(i)')
             /\ i.amount = SumFunctionOnSet(price, UsagesOf(i)')
  <2>1. CASE i \in invoices
    <3>1. UsagesOf(i)' = UsagesOf(i)
      BY <2>1, CommitLinks DEF UsagesOf
    <3>. QED  BY <2>1, <3>1 DEF AmountInv, AmountMatches
  <2>2. CASE i \notin invoices
    <3>1. PICK s \in staged[c] : i = s.invoice
      BY <1>1, <2>2 DEF Seen
    <3>2. s.usages \subseteq Usages
      BY DEF IInv, StagedInv
    <3>3. UsagesOf(i)' = s.usages
      BY <3>1, <3>2, CommitLinks DEF UsagesOf
    <3>. QED  BY <3>1, <3>3 DEF AmountInv, StagedFit
  <2>. QED  BY <2>1, <2>2
<1>4. AmountMatches'
  BY <1>1, <1>3 DEF AmountMatches
<1>. QED  BY <1>2, <1>4 DEF AmountInv

LEMMA AmountStep == IInv /\ AmountInv /\ [Next]_vars => AmountInv'
<1>. SUFFICES ASSUME IInv, AmountInv, [Next]_vars PROVE AmountInv'
  OBVIOUS
<1>1. CASE NextMonth
  BY <1>1, OthersKeepAmounts DEF NextMonth, usages, closes
<1>2. ASSUME NEW u \in Usages, RecordUsage(u) \/ CommitUsage(u) PROVE AmountInv'
  BY <1>2, OthersKeepAmounts DEF RecordUsage, CommitUsage, closes
<1>3. ASSUME NEW u \in Usages, NEW p \in Prices, Resolve(u, p) PROVE AmountInv'
  BY <1>3, OthersKeepAmounts DEF Resolve, closes, IInv, PType
<1>4. ASSUME NEW c \in Closers, Begin(c) PROVE AmountInv'
  BY <1>4, OthersKeepAmounts DEF Begin, usages
<1>5. ASSUME NEW c \in Closers, Abort(c) PROVE AmountInv'
  <2>1. UNCHANGED <<invoices, bill, price>> /\ RowsFit' /\ StagedFit'
    BY <1>5, EndAmounts DEF Abort, usages
  <2>. QED  BY <2>1 DEF AmountInv, AmountMatches, UsagesOf
<1>6. CASE UNCHANGED vars
  BY <1>6, OthersKeepAmounts DEF vars, usages, closes
<1>. QED  BY <1>1, <1>2, <1>3, <1>4, <1>5, <1>6, CollectAmounts, IssueAmounts, CommitAmounts
          DEF Next, CloseNext

-------------------------------------------------------------------------------
(* The theorems *)

\* Columns, locks and what a close has in hand keep their types, whoever commits or dies.
THEOREM Typing == Spec => []PType
BY InitIInv, Invariance, PTL DEF Spec, IInv

\* Usage under audit stays off every invoice, although the close reads the audit once
\* and links the rows later: the lock keeps Resolve out, and no row goes back to audit.
THEOREM HeldUsageStaysOut == Spec => []HeldUsageIsNotBilled
<1>1. IInv => HeldUsageIsNotBilled
  BY DEF IInv, BilledInv, HeldUsageIsNotBilled
<1>. QED  BY <1>1, InitIInv, Invariance, PTL DEF Spec

\* Only a month that is over is billed, and each usage on an invoice of its own month,
\* although sign-ups of that month commit during and after the close.
THEOREM ClosedMonthsAreOver == Spec => []MonthIsOver
<1>1. ASSUME IInv, NEW i \in invoices, NEW u \in UsagesOf(i)
      PROVE  month[u] = i.period
  <2>1. u \in Usages /\ bill[u] = i.id /\ i.id \in Ids
    BY <1>1 DEF UsagesOf, IInv, BilledInv
  <2>2. PICK j \in invoices : j.id = bill[u] /\ j.period = month[u]
    BY <1>1, <2>1, NoneAssumption DEF IInv, BilledInv
  <2>3. i = j
    BY <1>1, <2>1, <2>2 DEF IInv, NumberInv, Numbered
  <2>. QED  BY <2>2, <2>3
<1>2. IInv => MonthIsOver
  BY <1>1 DEF MonthIsOver, IInv, BilledInv
<1>. QED  BY <1>2, InitIInv, Invariance, PTL DEF Spec

\* The invoice of a month and its supplements are numbered without gap or duplicate, and
\* the unique key of (brand, period, seq) refuses no close.
THEOREM NumbersHaveNoGap == Spec => []SupplementsAreNumbered
<1>1. IInv => SupplementsAreNumbered
  BY DEF IInv, NumberInv, Numbered, BilledInv, SupplementsAreNumbered, Of
<1>. QED  BY <1>1, InitIInv, Invariance, PTL DEF Spec

\* What is issued is final: a supplement is a new invoice, and neither a later close nor
\* the resolution of an audit touches a billed row.
THEOREM IssuedIsFinal == Spec => InvoicesAreFinal
<1>. DEFINE Kept == /\ invoices \subseteq invoices'
                    /\ \A u \in Usages : bill[u] # None => bill'[u] = bill[u] /\ price'[u] = price[u]
<1>1. ASSUME IInv, Next PROVE Kept
  <2>. USE <1>1
  <2>1. CASE NextMonth
    BY <2>1 DEF NextMonth, usages
  <2>2. CASE \E u \in Usages : RecordUsage(u) \/ CommitUsage(u)
    BY <2>2 DEF RecordUsage, CommitUsage
  <2>3. ASSUME NEW u \in Usages, NEW p \in Prices, Resolve(u, p) PROVE Kept
    BY <2>3 DEF Resolve, IInv, PType
  <2>4. ASSUME NEW c \in Closers, Begin(c) \/ Collect(c) \/ Issue(c) \/ Abort(c) PROVE Kept
    BY <2>4 DEF Begin, Collect, Issue, Abort, usages
  <2>5. ASSUME NEW c \in Closers, Commit(c) PROVE Kept
    <3>1. invoices \subseteq invoices' /\ price' = price
      BY <2>5, StagedIsUnique DEF Commit, Seen
    <3>. QED  BY <2>5, <3>1, CommitBills
  <2>. QED  BY <2>1, <2>2, <2>3, <2>4, <2>5 DEF Next, CloseNext
<1>2. IInv /\ [Next]_vars => [Kept]_vars
  BY <1>1
<1>. QED  BY <1>2, InitIInv, Invariance, PTL DEF Spec, InvoicesAreFinal

\* The amount and the quantity of an invoice are the sum and the count of the usage that
\* is linked to it in the end, for any number of sign-ups: the rows that were added up
\* are the rows that are linked, their prices cannot change under the lock, nor after it.
THEOREM AmountsAddUp == Spec => []AmountMatches
<1>1. AmountInv => AmountMatches
  BY DEF AmountInv
<1>. QED  BY <1>1, InitIInv, InitAmounts, Invariance, AmountStep, PTL DEF Spec
===============================================================================
