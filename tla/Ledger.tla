-------------------------------- MODULE Ledger --------------------------------
(***************************************************************************)
(* The append-only ledger with its hash chain (db.ledger_append) under     *)
(* concurrent transactions.  An append reads the last row FOR UPDATE and   *)
(* inserts the next number: transactions run READ COMMITTED, so one that   *)
(* had to wait for the lock still holds the row it read before, and is     *)
(* rolled back by the primary key.  A transaction may append several       *)
(* times, between other work; its rows and its locks last until it ends.   *)
(***************************************************************************)
EXTENDS Naturals, Sequences, FiniteSetsExt

CONSTANTS
  Txs,        \* database connections
  Events,     \* what is appended: type, subject and payload
  MaxEntries  \* bound: the highest sequence number

ASSUME MaxEntriesAssumption == MaxEntries \in Nat

VARIABLES
  entries,   \* the committed rows
  own,       \* the uncommitted rows of each transaction
  step,      \* where each transaction is
  seen,      \* the last sequence number it read
  rowLocks   \* the rows it holds FOR UPDATE

lvars == <<entries, own, step, seen, rowLocks>>

\* prev stands for prev_hash: the hash of a row determines all events before it.
Entry == [seq : Nat, event : Events, prev : Seq(Events)]
Hash(e) == Append(e.prev, e.event)
GENESIS == << >>

TypeOK ==
  /\ entries \subseteq Entry
  /\ own \in [Txs -> SUBSET Entry]
  /\ step \in [Txs -> {"idle", "active", "locking", "inserting"}]
  /\ seen \in [Txs -> 0..MaxEntries]
  /\ rowLocks \in [Txs -> SUBSET (1..MaxEntries)]

LInit ==
  /\ entries = {}
  /\ own = [x \in Txs |-> {}]
  /\ step = [x \in Txs |-> "idle"]
  /\ seen = [x \in Txs |-> 0]
  /\ rowLocks = [x \in Txs |-> {}]

-------------------------------------------------------------------------------
Begin(x) ==
  /\ step[x] = "idle"
  /\ step' = [step EXCEPT ![x] = "active"]
  /\ UNCHANGED <<entries, own, seen, rowLocks>>

\* What a statement of x sees.
Visible(x) == entries \cup own[x]
Last(x) == Max({0} \cup {e.seq : e \in Visible(x)})

\* SELECT ... ORDER BY seq DESC LIMIT 1: the snapshot.  An empty table has no row
\* to lock.
ReadLast(x) ==
  /\ step[x] = "active" /\ Last(x) < MaxEntries
  /\ seen' = [seen EXCEPT ![x] = Last(x)]
  /\ step' = [step EXCEPT ![x] = IF Last(x) = 0 THEN "inserting" ELSE "locking"]
  /\ UNCHANGED <<entries, own, rowLocks>>

\* FOR UPDATE: granted when no other transaction holds that row.
LockLast(x) ==
  /\ step[x] = "locking"
  /\ \A y \in Txs \ {x} : seen[x] \notin rowLocks[y]
  /\ rowLocks' = [rowLocks EXCEPT ![x] = @ \cup {seen[x]}]
  /\ step' = [step EXCEPT ![x] = "inserting"]
  /\ UNCHANGED <<entries, own, seen>>

\* Mutant: the number of the previous row instead of its hash.
PrevHash_Seq(x) == IF seen[x] = 0 THEN GENESIS ELSE <<seen[x]>>

PrevHash(x) ==
  IF seen[x] = 0 THEN GENESIS
  ELSE Hash(CHOOSE e \in Visible(x) : e.seq = seen[x])

\* The primary key: an uncommitted row of another transaction makes x wait, a
\* committed one refuses the insert.
Taken(x)   == \E e \in Visible(x) : e.seq = seen[x] + 1
Pending(x) == \E y \in Txs \ {x} : \E e \in own[y] : e.seq = seen[x] + 1

\* Mutant: a number that is taken is skipped.
Insert_NextNumber(x, event) ==
  /\ step[x] = "inserting" /\ ~Pending(x)
  /\ own' = [own EXCEPT ![x] = @ \cup
       {[seq |-> IF Taken(x) THEN Last(x) + 1 ELSE seen[x] + 1,
         event |-> event, prev |-> PrevHash(x)]}]
  /\ step' = [step EXCEPT ![x] = "active"]
  /\ UNCHANGED <<entries, seen, rowLocks>>

Insert(x, event) ==
  /\ step[x] = "inserting" /\ ~Pending(x) /\ ~Taken(x)
  /\ own' = [own EXCEPT ![x] = @ \cup
       {[seq |-> seen[x] + 1, event |-> event, prev |-> PrevHash(x)]}]
  /\ step' = [step EXCEPT ![x] = "active"]
  /\ UNCHANGED <<entries, seen, rowLocks>>

End(x) ==
  /\ own' = [own EXCEPT ![x] = {}]
  /\ rowLocks' = [rowLocks EXCEPT ![x] = {}]
  /\ step' = [step EXCEPT ![x] = "idle"]
  /\ seen' = [seen EXCEPT ![x] = 0]

\* Mutant: the exception is swallowed, and the transaction keeps its lock.
Refuse_KeepsLock(x) ==
  /\ step[x] = "inserting" /\ ~Pending(x) /\ Taken(x)
  /\ UNCHANGED lvars

\* The insert violates the key: the exception rolls the whole transaction back.
Refuse(x) ==
  /\ step[x] = "inserting" /\ ~Pending(x) /\ Taken(x)
  /\ End(x)
  /\ UNCHANGED entries

Commit(x) ==
  /\ step[x] = "active"
  /\ entries' = Visible(x)
  /\ End(x)

\* Anything else in the transaction fails, or the process dies.
Abort(x) ==
  /\ step[x] # "idle"
  /\ End(x)
  /\ UNCHANGED entries

AppendNext(x) ==
  ReadLast(x) \/ LockLast(x) \/ Refuse(x) \/ \E v \in Events : Insert(x, v)

LNext == \E x \in Txs : Begin(x) \/ AppendNext(x) \/ Commit(x) \/ Abort(x)

LSpec == LInit /\ [][LNext]_lvars

\* The database lets those who wait for a row in turn, and transactions end.
LFairness ==
  \A x \in Txs : /\ WF_lvars(Commit(x)) /\ WF_lvars(Refuse(x)) /\ SF_lvars(LockLast(x))
                 /\ SF_lvars(\E v \in Events : Insert(x, v))

FairLSpec == LSpec /\ LFairness

-------------------------------------------------------------------------------
(* Properties *)

\* ledger_verify, at any moment: the rows are numbered without a gap and each carries
\* the hash of the one before, however transactions overlap, fail and are rolled back.
Verified ==
  /\ {e.seq : e \in entries} = 1..Cardinality(entries)
  /\ \A e \in entries :
       e.prev = IF e.seq = 1 THEN GENESIS
                ELSE Hash(CHOOSE d \in entries : d.seq = e.seq - 1)

\* Every transaction ends: the locks of the appends never close a circle, and those
\* that wait are let in or refused.
TransactionsEnd == \A x \in Txs : step[x] # "idle" ~> step[x] = "idle"
===============================================================================
