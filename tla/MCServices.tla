------------------------------ MODULE MCServices ------------------------------
(* Three services that keep their state in the database and share none of it: the  *)
(* ledger, the translation of a message and the synchronisation of an inbox.  A      *)
(* behaviour follows one of them, chosen at the start; the others rest in their      *)
(* initial states, where none of their fair actions is enabled.  No symmetry:        *)
(* liveness is checked.                                                              *)
EXTENDS Ledger, FiniteSetTheorems, WellFoundedInduction, TLAPS, TLC

CONSTANTS
  Locales, Runners, MaxAttempts, MaxRetries,
  MaxTime, PageSize, MaxFaults

ASSUME AttemptsAssumption == MaxAttempts \in Nat \ {0} /\ MaxRetries \in Nat
ASSUME PagesAssumption == MaxTime \in Nat /\ PageSize \in Nat \ {0} /\ MaxFaults \in Nat

VARIABLES
  part,
  state, attempts, texts, poster, work, retries,
  open, clock, inbox, known, cursor, sync, reply, written, thread, crossed, faults

T == INSTANCE Translation
Q == INSTANCE InboxSync

tvars == <<state, attempts, texts, poster, work, retries>>
qvars == <<open, clock, inbox, known, cursor, sync, reply, written, thread, crossed, faults>>
vars == <<part, lvars, tvars, qvars>>

Init == part \in {"ledger", "translation", "inbox"} /\ LInit /\ T!TInit /\ Q!QInit

Next ==
  \/ part = "ledger"      /\ LNext /\ UNCHANGED <<part, tvars, qvars>>
  \/ part = "translation" /\ T!TNext /\ UNCHANGED <<part, lvars, qvars>>
  \/ part = "inbox"       /\ Q!QNext /\ UNCHANGED <<part, lvars, tvars>>

Spec == Init /\ [][Next]_vars /\ LFairness /\ T!TFairness /\ Q!QFairness

\* The values of every variable, in all three services.
ServicesTyped == TypeOK /\ T!TypeOK /\ Q!TypeOK

\* A translation that is done is whole and stays so, whatever retries and runners still
\* bring; only a poster's own answer, which was on its way, turns it back.
TranslationIsKept == []T!DoneIsTranslated /\ T!TurnedBackOnlyByPoster

\* A thread tells its newest mail, by whatever page or call it came.
ThreadTellsNewest == Q!ThreadTellsNewest

\* What waits is settled: transactions that append end, a message is translated or given up,
\* and every mail of the inbox is brought in as long as somebody looks.
EverythingSettles == TransactionsEnd /\ T!TranslationSettles /\ Q!EveryMailIsStored

-------------------------------------------------------------------------------
(* Proofs, for any number of transactions, rows, languages, runners, attempts, mails   *)
(* and faults, and any size of a page.                                                *)

(* The ledger.  The rows a transaction sees are one chain at every moment, its own *)
(* uncommitted rows included: this is inductive, as only one transaction at a time *)
(* has such rows, and a number that follows a row it sees is free only behind the  *)
(* last one.                                                                       *)

\* What ledger_verify finds right in a table with these rows.
Numbered(S) ==
  /\ IsFiniteSet(S) /\ S \subseteq Entry
  /\ {e.seq : e \in S} = 1..Cardinality(S)
  /\ \A d, e \in S : d.seq = e.seq => d = e

Before(S, n) == CHOOSE d \in S : d.seq = n

Linked(S) == \A e \in S : e.prev = IF e.seq = 1 THEN GENESIS ELSE Hash(Before(S, e.seq - 1))

ChainInv ==
  /\ Numbered(entries) /\ Linked(entries)
  /\ \A x \in Txs : Numbered(Visible(x)) /\ Linked(Visible(x))

\* Two transactions with uncommitted rows would have the same number in both.
OneWriter == \A x, y \in Txs : own[x] # {} /\ own[y] # {} => x = y

\* The row that was read is still there.
SeenInv ==
  \A x \in Txs : step[x] \in {"locking", "inserting"} /\ seen[x] # 0 =>
    \E e \in Visible(x) : e.seq = seen[x]

LockingInv == \A x \in Txs : step[x] = "locking" => seen[x] # 0

\* Uncommitted rows come behind the committed ones.
OwnInv == \A x \in Txs : \A e \in own[x] : e.seq > Cardinality(entries)

IInv == TypeOK /\ ChainInv /\ OneWriter /\ OwnInv /\ SeenInv /\ LockingInv

-------------------------------------------------------------------------------
(* Chains *)

LEMMA EmptyChain == Numbered({}) /\ Linked({})
<1>1. IsFiniteSet({}) /\ Cardinality({}) = 0
  BY FS_EmptySet
<1>2. 1..0 = {}
  OBVIOUS
<1> QED
  BY <1>1, <1>2 DEF Numbered, Linked

\* The last number is the number of the rows.
LEMMA LastIsCount ==
  ASSUME NEW S, Numbered(S)
  PROVE  Max({0} \cup {e.seq : e \in S}) = Cardinality(S)
<1>1. Cardinality(S) \in Nat
  BY FS_CardinalityType DEF Numbered
<1>2. {0} \cup {e.seq : e \in S} = 0..Cardinality(S)
  BY <1>1 DEF Numbered
<1>3. Cardinality(S) \in 0..Cardinality(S) /\ \A y \in 0..Cardinality(S) : Cardinality(S) >= y
  BY <1>1
<1>4. PICK m \in 0..Cardinality(S) : m = Max(0..Cardinality(S)) /\ \A y \in 0..Cardinality(S) : m >= y
  BY <1>3 DEF Max
<1>5. m = Cardinality(S)
  BY <1>1, <1>3, <1>4
<1> QED
  BY <1>2, <1>4, <1>5

\* A row behind the last one, with the hash of the last, makes a chain one longer.
LEMMA Extend ==
  ASSUME NEW S, Numbered(S), Linked(S), NEW r \in Entry,
         r.seq = Cardinality(S) + 1,
         r.prev = IF r.seq = 1 THEN GENESIS ELSE Hash(Before(S, r.seq - 1))
  PROVE  Numbered(S \cup {r}) /\ Linked(S \cup {r})
<1> DEFINE more == S \cup {r}
              n == Cardinality(S)
<1>1. n \in Nat
  BY FS_CardinalityType DEF Numbered
<1>2. \A e \in S : e.seq \in 1..n
  BY DEF Numbered
<1>3. r \notin S
  BY <1>1, <1>2
<1>4. IsFiniteSet(more) /\ Cardinality(more) = n + 1
  BY <1>3, FS_AddElement DEF Numbered
<1>5. {e.seq : e \in more} = 1..(n + 1)
  <2>1. {e.seq : e \in more} = {e.seq : e \in S} \cup {r.seq}
    OBVIOUS
  <2>2. (1..n) \cup {n + 1} = 1..(n + 1)
    BY <1>1
  <2> QED
    BY <2>1, <2>2 DEF Numbered
<1>6. \A d, e \in more : d.seq = e.seq => d = e
  BY <1>1, <1>2 DEF Numbered
<1>7. Numbered(more)
  BY <1>4, <1>5, <1>6 DEF Numbered
<1>8. \A k \in 1..n : Before(more, k) = Before(S, k)
  <2> SUFFICES ASSUME NEW k \in 1..n PROVE Before(more, k) = Before(S, k)
    OBVIOUS
  <2>1. PICK d \in S : d.seq = k
    BY DEF Numbered
  <2>2. \A e \in S : e.seq = k => e = d
    BY <2>1 DEF Numbered
  <2>3. \A e \in more : e.seq = k => e = d
    BY <2>1, <1>6
  <2>4. Before(S, k) = d
    BY <2>1, <2>2 DEF Before
  <2>5. Before(more, k) = d
    BY <2>1, <2>3 DEF Before
  <2> QED
    BY <2>4, <2>5
<1>9. \A e \in S : e.seq # 1 => e.seq - 1 \in 1..n
  BY <1>1, <1>2
<1>10. r.seq # 1 => r.seq - 1 \in 1..n
  BY <1>1
<1>11. ASSUME NEW e \in more
       PROVE  e.prev = IF e.seq = 1 THEN GENESIS ELSE Hash(Before(more, e.seq - 1))
  <2>1. CASE e \in S
    BY <2>1, <1>8, <1>9 DEF Linked
  <2>2. CASE e = r
    BY <2>2, <1>8, <1>10
  <2> QED
    BY <2>1, <2>2
<1> QED
  BY <1>7, <1>11 DEF Linked
-------------------------------------------------------------------------------
(* Every step keeps the invariant. *)

LEMMA InitInv == LInit => IInv
<1> SUFFICES ASSUME LInit PROVE IInv
  OBVIOUS
<1>1. TypeOK
  BY MaxEntriesAssumption DEF LInit, TypeOK
<1>2. \A x \in Txs : Visible(x) = {}
  BY DEF LInit, Visible
<1>3. ChainInv
  BY <1>2, EmptyChain DEF ChainInv, LInit
<1>4. OneWriter /\ OwnInv
  BY DEF OneWriter, OwnInv, LInit
<1>5. SeenInv /\ LockingInv
  BY DEF SeenInv, LockingInv, LInit
<1> QED
  BY <1>1, <1>3, <1>4, <1>5 DEF IInv

\* A step that leaves the rows alone leaves the chains alone.
LEMMA SameRows ==
  ASSUME UNCHANGED <<entries, own>>, ChainInv, OneWriter, OwnInv
  PROVE  ChainInv' /\ OneWriter' /\ OwnInv' /\ \A x \in Txs : Visible(x)' = Visible(x)
<1>1. \A x \in Txs : Visible(x)' = Visible(x)
  BY DEF Visible
<1>2. ChainInv'
  <2>1. Numbered(entries') /\ Linked(entries')
    BY DEF ChainInv
  <2>2. ASSUME NEW x \in Txs PROVE Numbered(Visible(x)') /\ Linked(Visible(x)')
    BY <1>1 DEF ChainInv
  <2> QED
    BY <2>1, <2>2 DEF ChainInv, Numbered, Linked, Before
<1>3. OneWriter' /\ OwnInv'
  BY DEF OneWriter, OwnInv
<1> QED
  BY <1>1, <1>2, <1>3

\* The last row a transaction sees is numbered by how many it sees.
LEMMA LastSeen ==
  ASSUME IInv, NEW x \in Txs
  PROVE  /\ Last(x) = Cardinality(Visible(x)) /\ Last(x) \in Nat
         /\ {e.seq : e \in Visible(x)} = 1..Last(x)
<1>1. Numbered(Visible(x))
  BY DEF IInv, ChainInv
<1>2. Last(x) = Cardinality(Visible(x))
  BY <1>1, LastIsCount DEF Last
<1>3. Cardinality(Visible(x)) \in Nat
  BY <1>1, FS_CardinalityType DEF Numbered
<1> QED
  BY <1>1, <1>2, <1>3 DEF Numbered

LEMMA BeginKeeps ==
  ASSUME IInv, NEW x \in Txs, Begin(x)
  PROVE  IInv'
<1>1. TypeOK'
  BY DEF IInv, TypeOK, Begin
<1>2. ChainInv' /\ OneWriter' /\ OwnInv' /\ \A y \in Txs : Visible(y)' = Visible(y)
  BY SameRows DEF IInv, Begin
<1>3. SeenInv'
  BY <1>2 DEF IInv, TypeOK, SeenInv, Begin
<1>4. LockingInv'
  BY DEF IInv, TypeOK, LockingInv, Begin
<1> QED
  BY <1>1, <1>2, <1>3, <1>4 DEF IInv

LEMMA ReadLastKeeps ==
  ASSUME IInv, NEW x \in Txs, ReadLast(x)
  PROVE  IInv'
<1>1. Last(x) \in Nat /\ {e.seq : e \in Visible(x)} = 1..Last(x)
  BY LastSeen
<1>2. TypeOK'
  <2>1. Last(x) \in 0..MaxEntries
    BY <1>1, MaxEntriesAssumption DEF ReadLast
  <2> QED
    BY <2>1 DEF IInv, TypeOK, ReadLast
<1>3. ChainInv' /\ OneWriter' /\ OwnInv' /\ \A y \in Txs : Visible(y)' = Visible(y)
  BY SameRows DEF IInv, ReadLast
<1>4. SeenInv'
  <2> SUFFICES ASSUME NEW y \in Txs, step'[y] \in {"locking", "inserting"}, seen'[y] # 0
               PROVE  \E e \in Visible(y) : e.seq = seen'[y]
    BY <1>3 DEF SeenInv
  <2>1. CASE y = x
    <3>1. seen'[x] = Last(x)
      BY DEF ReadLast, IInv, TypeOK
    <3>2. Last(x) \in 1..Last(x)
      BY <2>1, <3>1, <1>1
    <3>3. Last(x) \in {e.seq : e \in Visible(x)}
      BY <3>2, <1>1
    <3> QED
      BY <3>1, <3>3, <2>1
  <2>2. CASE y # x
    BY <2>2 DEF IInv, TypeOK, SeenInv, ReadLast
  <2> QED
    BY <2>1, <2>2
<1>5. LockingInv'
  BY <1>1 DEF IInv, TypeOK, LockingInv, ReadLast
<1> QED
  BY <1>2, <1>3, <1>4, <1>5 DEF IInv

LEMMA LockLastKeeps ==
  ASSUME IInv, NEW x \in Txs, LockLast(x)
  PROVE  IInv'
<1>1. TypeOK'
  <2>1. seen[x] \in 1..MaxEntries
    BY MaxEntriesAssumption DEF IInv, TypeOK, LockingInv, LockLast
  <2> QED
    BY <2>1 DEF IInv, TypeOK, LockLast
<1>2. ChainInv' /\ OneWriter' /\ OwnInv' /\ \A y \in Txs : Visible(y)' = Visible(y)
  BY SameRows DEF IInv, LockLast
<1>3. SeenInv'
  BY <1>2 DEF IInv, TypeOK, SeenInv, LockLast
<1>4. LockingInv'
  BY DEF IInv, TypeOK, LockingInv, LockLast
<1> QED
  BY <1>1, <1>2, <1>3, <1>4 DEF IInv

LEMMA InsertKeeps ==
  ASSUME IInv, NEW x \in Txs, NEW v \in Events, Insert(x, v)
  PROVE  IInv'
<1> DEFINE r == [seq |-> seen[x] + 1, event |-> v, prev |-> PrevHash(x)]
           n == Cardinality(Visible(x))
<1>1. Numbered(Visible(x)) /\ Linked(Visible(x)) /\ Numbered(entries)
  BY DEF IInv, ChainInv
<1>2. n \in Nat /\ {e.seq : e \in Visible(x)} = 1..n
  BY LastSeen
\* A number behind a row it sees is free only behind the last.
<1>3. seen[x] = n
  <2>1. seen[x] \in Nat
    BY MaxEntriesAssumption DEF IInv, TypeOK
  <2>2. seen[x] # 0 => seen[x] \in {e.seq : e \in Visible(x)}
    BY DEF IInv, SeenInv, Insert
  <2>3. seen[x] + 1 \notin {e.seq : e \in Visible(x)}
    BY DEF Insert, Taken
  <2>4. seen[x] # 0 => seen[x] \in 1..n
    BY <1>2, <2>2
  <2>5. seen[x] + 1 \notin 1..n
    BY <1>2, <2>3
  <2> QED
    BY <1>2, <2>1, <2>4, <2>5
<1>4. PrevHash(x) = IF r.seq = 1 THEN GENESIS ELSE Hash(Before(Visible(x), r.seq - 1))
  <2>1. (r.seq = 1 <=> seen[x] = 0) /\ r.seq - 1 = seen[x]
    BY <1>2, <1>3
  <2>2. Before(Visible(x), r.seq - 1) = Before(Visible(x), seen[x])
    BY <2>1
  <2>3. PrevHash(x) = IF seen[x] = 0 THEN GENESIS ELSE Hash(Before(Visible(x), seen[x]))
    BY DEF PrevHash, Before
  <2> QED
    BY <2>1, <2>2, <2>3
<1>5. r \in Entry
  <2>1. PrevHash(x) \in Seq(Events)
    <3>1. CASE seen[x] = 0
      BY <3>1 DEF PrevHash, GENESIS
    <3>2. CASE seen[x] # 0
      <4>1. PICK e \in Visible(x) : e.seq = seen[x]
        BY <3>2 DEF IInv, SeenInv, Insert
      <4>2. (CHOOSE d \in Visible(x) : d.seq = seen[x]) \in Visible(x)
        BY <4>1
      <4>3. \A d \in Visible(x) : d.prev \in Seq(Events) /\ d.event \in Events
        BY <1>1 DEF Numbered, Entry
      <4> QED
        BY <3>2, <4>2, <4>3 DEF PrevHash, Hash
    <3> QED
      BY <3>1, <3>2
  <2> QED
    BY <2>1, <1>2, <1>3 DEF Entry
<1>6. Numbered(Visible(x) \cup {r}) /\ Linked(Visible(x) \cup {r})
  BY <1>1, <1>3, <1>4, <1>5, Extend
<1>7. own' = [own EXCEPT ![x] = @ \cup {r}] /\ entries' = entries
  BY DEF Insert
<1>8. /\ own'[x] = own[x] \cup {r}
      /\ \A y \in Txs \ {x} : own'[y] = own[y]
  BY <1>7 DEF IInv, TypeOK
<1>9. Visible(x)' = Visible(x) \cup {r} /\ \A y \in Txs \ {x} : Visible(y)' = Visible(y)
  BY <1>7, <1>8 DEF Visible
<1>10. TypeOK'
  BY <1>5, <1>7 DEF IInv, TypeOK, Insert
<1>11. ChainInv'
  <2>1. Numbered(entries)' /\ Linked(entries)'
    BY <1>7 DEF IInv, ChainInv, Numbered, Linked, Before
  <2>2. ASSUME NEW y \in Txs PROVE Numbered(Visible(y)') /\ Linked(Visible(y)')
    <3>1. CASE y = x
      BY <3>1, <1>6, <1>9
    <3>2. CASE y # x
      BY <3>2, <1>9 DEF IInv, ChainInv
    <3> QED
      BY <3>1, <3>2
  <2> QED
    BY <2>1, <2>2 DEF ChainInv, Numbered, Linked, Before
<1>12. Cardinality(entries) \in Nat /\ Cardinality(entries) <= n
  BY <1>1, FS_Subset, FS_CardinalityType DEF Numbered, Visible
\* Another writer would have this very number, and x would wait for it.
<1>13. \A y \in Txs \ {x} : own[y] = {}
  <2> SUFFICES ASSUME NEW y \in Txs \ {x}, own[y] # {} PROVE FALSE
    OBVIOUS
  <2>1. own[x] = {} /\ Visible(x) = entries
    BY DEF IInv, OneWriter, Visible
  <2>2. PICK d \in own[y] : d.seq > n
    BY <2>1 DEF IInv, OwnInv
  <2>3. Numbered(Visible(y))
    BY DEF IInv, ChainInv
  <2>4. Cardinality(Visible(y)) \in Nat
    BY <2>3, FS_CardinalityType DEF Numbered
  <2>5. d.seq \in 1..Cardinality(Visible(y))
    BY <2>2, <2>3 DEF Numbered, Visible
  <2>6. n + 1 \in 1..Cardinality(Visible(y))
    BY <1>2, <2>2, <2>4, <2>5
  <2>7. PICK e \in Visible(y) : e.seq = n + 1
    BY <2>3, <2>6 DEF Numbered
  <2>8. e \notin entries
    <3>1. n + 1 \notin 1..n
      BY <1>2
    <3> QED
      BY <1>2, <2>1, <2>7, <3>1
  <2>9. e \in own[y]
    BY <2>7, <2>8 DEF Visible
  <2> QED
    BY <2>7, <2>9, <1>3 DEF Insert, Pending
<1>14. OneWriter'
  BY <1>8, <1>13 DEF OneWriter
<1>15. OwnInv'
  <2>1. r.seq > Cardinality(entries)
    BY <1>2, <1>3, <1>12
  <2> QED
    BY <2>1, <1>7, <1>8 DEF IInv, OwnInv
<1>16. SeenInv'
  <2> SUFFICES ASSUME NEW y \in Txs, step'[y] \in {"locking", "inserting"}, seen'[y] # 0
               PROVE  \E e \in Visible(y)' : e.seq = seen'[y]
    BY DEF SeenInv
  <2>1. y # x /\ step'[y] = step[y] /\ seen' = seen
    BY DEF IInv, TypeOK, Insert
  <2> QED
    BY <2>1, <1>9 DEF IInv, SeenInv
<1>17. LockingInv'
  BY DEF IInv, TypeOK, LockingInv, Insert
<1> QED
  BY <1>10, <1>11, <1>14, <1>15, <1>16, <1>17 DEF IInv

\* A rollback: the rows of x are gone, those of the others stay.
LEMMA RollbackKeeps ==
  ASSUME IInv, NEW x \in Txs, End(x), UNCHANGED entries
  PROVE  IInv'
<1>1. own'[x] = {} /\ \A y \in Txs \ {x} : own'[y] = own[y]
  BY DEF IInv, TypeOK, End
<1>2. Visible(x)' = entries /\ \A y \in Txs \ {x} : Visible(y)' = Visible(y)
  BY <1>1 DEF Visible
<1>3. TypeOK'
  BY MaxEntriesAssumption DEF IInv, TypeOK, End
<1>4. ChainInv'
  <2>1. ASSUME NEW y \in Txs PROVE Numbered(Visible(y)') /\ Linked(Visible(y)')
    BY <1>2 DEF IInv, ChainInv
  <2> QED
    BY <2>1 DEF IInv, ChainInv, Numbered, Linked, Before
<1>5. OneWriter' /\ OwnInv'
  BY <1>1 DEF IInv, OneWriter, OwnInv
<1>6. SeenInv'
  BY <1>2 DEF IInv, TypeOK, SeenInv, End
<1>7. LockingInv'
  BY DEF IInv, TypeOK, LockingInv, End
<1> QED
  BY <1>3, <1>4, <1>5, <1>6, <1>7 DEF IInv

LEMMA CommitKeeps ==
  ASSUME IInv, NEW x \in Txs, Commit(x)
  PROVE  IInv'
<1>1. own'[x] = {} /\ \A y \in Txs \ {x} : own'[y] = own[y]
  BY DEF IInv, TypeOK, Commit, End
<1>2. CASE own[x] = {}
  <2>1. entries' = entries
    BY <1>2 DEF Commit, Visible
  <2> QED
    BY <2>1, RollbackKeeps DEF Commit
<1>3. CASE own[x] # {}
  <2>1. \A y \in Txs : own'[y] = {}
    BY <1>1, <1>3 DEF IInv, OneWriter
  <2>2. \A y \in Txs : Visible(y)' = Visible(x)
    BY <2>1 DEF Visible, Commit
  <2>3. TypeOK'
    BY MaxEntriesAssumption DEF IInv, TypeOK, Commit, End, Visible
  <2>4. ChainInv'
    <3>1. Numbered(entries') /\ Linked(entries')
      BY DEF IInv, ChainInv, Commit
    <3>2. ASSUME NEW y \in Txs PROVE Numbered(Visible(y)') /\ Linked(Visible(y)')
      BY <2>2 DEF IInv, ChainInv
    <3> QED
      BY <3>1, <3>2 DEF ChainInv, Numbered, Linked, Before
  <2>5. OneWriter' /\ OwnInv'
    BY <2>1 DEF OneWriter, OwnInv
  <2>6. SeenInv'
    <3> SUFFICES ASSUME NEW y \in Txs, step'[y] \in {"locking", "inserting"}, seen'[y] # 0
                 PROVE  \E e \in Visible(y)' : e.seq = seen'[y]
      BY DEF SeenInv
    <3>1. y # x /\ step'[y] = step[y] /\ seen'[y] = seen[y]
      BY DEF IInv, TypeOK, Commit, End
    <3>2. Visible(y) \subseteq Visible(x)
      BY <3>1, <1>3 DEF IInv, OneWriter, Visible
    <3> QED
      BY <3>1, <3>2, <2>2 DEF IInv, SeenInv
  <2>7. LockingInv'
    BY DEF IInv, TypeOK, LockingInv, Commit, End
  <2> QED
    BY <2>3, <2>4, <2>5, <2>6, <2>7 DEF IInv
<1> QED
  BY <1>2, <1>3

LEMMA StepKeeps == IInv /\ [LNext]_lvars => IInv'
<1> SUFFICES ASSUME IInv, [LNext]_lvars PROVE IInv'
  OBVIOUS
<1>1. CASE UNCHANGED lvars
  <2>1. ChainInv' /\ OneWriter' /\ OwnInv' /\ \A y \in Txs : Visible(y)' = Visible(y)
    BY <1>1, SameRows DEF IInv, lvars
  <2>2. TypeOK' /\ LockingInv' /\ SeenInv'
    BY <1>1, <2>1 DEF IInv, TypeOK, LockingInv, SeenInv, lvars
  <2> QED
    BY <2>1, <2>2 DEF IInv
<1>2. ASSUME NEW x \in Txs, Begin(x) PROVE IInv'
  BY <1>2, BeginKeeps
<1>3. ASSUME NEW x \in Txs, ReadLast(x) PROVE IInv'
  BY <1>3, ReadLastKeeps
<1>4. ASSUME NEW x \in Txs, LockLast(x) PROVE IInv'
  BY <1>4, LockLastKeeps
<1>5. ASSUME NEW x \in Txs, NEW v \in Events, Insert(x, v) PROVE IInv'
  BY <1>5, InsertKeeps
<1>6. ASSUME NEW x \in Txs, Refuse(x) \/ Abort(x) PROVE IInv'
  BY <1>6, RollbackKeeps DEF Refuse, Abort
<1>7. ASSUME NEW x \in Txs, Commit(x) PROVE IInv'
  BY <1>7, CommitKeeps
<1> QED
  BY <1>1, <1>2, <1>3, <1>4, <1>5, <1>6, <1>7 DEF LNext, AppendNext

-------------------------------------------------------------------------------
(* The theorems about the ledger. *)

\* Rows, locks and what transactions read keep their types.
THEOREM Typing == LSpec => []TypeOK
  BY InitInv, StepKeeps, PTL DEF LSpec, IInv

\* The committed rows are one unbroken chain at every moment, for any number of
\* connections: nothing that ledger_verify could complain of comes from the appends.
THEOREM RowsAreOneChain == LSpec => []Verified
<1>1. IInv => Verified
  BY DEF IInv, ChainInv, Numbered, Linked, Before, Verified
<1> QED
  BY <1>1, InitInv, StepKeeps, PTL DEF LSpec

\* Two transactions never have uncommitted rows at the same time, although the code takes
\* no lock on an empty table: the primary key makes the second wait, or refuses it.
THEOREM AppendsTakeTurns == LSpec => []OneWriter
  BY InitInv, StepKeeps, PTL DEF LSpec, IInv

-------------------------------------------------------------------------------
(* The translation of a message.  Who holds the row knows its state. *)

HolderInv ==
  \A r \in Runners :
    /\ work[r] = "run" => state = "pending"
    /\ work[r] = "retry" => state = "failed"
    /\ \A q \in Runners : work[r] # "none" /\ work[q] # "none" => q = r

AttemptsInv == state \in {"none", "pending"} => attempts <= MaxAttempts

TranslationInv == T!TypeOK /\ HolderInv /\ AttemptsInv /\ T!DoneIsTranslated

LEMMA TranslationBegins == T!TInit => TranslationInv
BY AttemptsAssumption
   DEF T!TInit, T!TypeOK, T!Texts, T!Nothing, T!DoneIsTranslated, TranslationInv, HolderInv, AttemptsInv

\* What is merged is text of the languages, and a whole answer makes the message whole.
LEMMA MergeKeeps ==
  ASSUME NEW old \in T!Texts, NEW new \in T!Results \cup {T!Nothing}
  PROVE  /\ T!Merge(old, new) \in T!Texts
         /\ T!Complete(new) => T!Complete(T!Merge(old, new))
<1>1. new \in T!Texts
  BY DEF T!Results, T!Nothing, T!Texts
<1>. QED  BY <1>1 DEF T!Merge, T!Texts, T!Complete

LEMMA TranslationKeeps == TranslationInv /\ [T!TNext]_tvars => TranslationInv'
<1>. SUFFICES ASSUME TranslationInv, [T!TNext]_tvars PROVE TranslationInv'
  OBVIOUS
<1>. USE AttemptsAssumption DEF TranslationInv
<1>1. CASE T!Post \/ T!PosterDies
  <2>1. T!TypeOK'
    BY <1>1 DEF T!Post, T!PosterDies, T!TypeOK
  <2>2. HolderInv' /\ AttemptsInv'
    BY <1>1 DEF T!Post, T!PosterDies, T!TypeOK, HolderInv, AttemptsInv
  <2>3. T!DoneIsTranslated'
    BY <1>1 DEF T!Post, T!PosterDies, T!DoneIsTranslated, T!Complete
  <2>. QED  BY <2>1, <2>2, <2>3
<1>2. ASSUME NEW tr \in T!Results, T!PosterStores(tr) PROVE TranslationInv'
  <2>1. texts' \in T!Texts /\ (T!Complete(tr) => T!Complete(texts)')
    BY <1>2, MergeKeeps DEF T!PosterStores, T!TypeOK, T!Complete
  <2>2. \A r \in Runners : work[r] = "none"
    BY <1>2 DEF T!PosterStores, T!Locked
  <2>. QED  BY <1>2, <2>1, <2>2 DEF T!PosterStores, T!TypeOK, HolderInv, AttemptsInv, T!DoneIsTranslated
<1>3. ASSUME NEW r \in Runners, T!RunnerTakes(r) \/ T!RetryTakes(r) \/ T!Dies(r) PROVE TranslationInv'
  <2>1. T!TypeOK'
    BY <1>3 DEF T!RunnerTakes, T!RetryTakes, T!Dies, T!TypeOK
  <2>2. HolderInv'
    BY <1>3 DEF T!RunnerTakes, T!RetryTakes, T!Dies, T!Locked, T!TypeOK, HolderInv
  <2>3. AttemptsInv' /\ T!DoneIsTranslated'
    BY <1>3 DEF T!RunnerTakes, T!RetryTakes, T!Dies, AttemptsInv, T!DoneIsTranslated, T!Complete
  <2>. QED  BY <2>1, <2>2, <2>3
\* A runner or a retry gives the row back.
<1>4. ASSUME NEW r \in Runners, NEW tr \in T!Results \cup {T!Nothing}, T!Store(r, tr),
             work[r] # "none", UNCHANGED <<poster, retries>>,
             attempts' \in 0..MaxAttempts + 1,
             \/ state' = "pending" /\ attempts' <= MaxAttempts
             \/ state' = "failed"
             \/ state' = "done" /\ T!Complete(T!Merge(texts, tr))
      PROVE  TranslationInv'
  <2>1. texts' = T!Merge(texts, tr) /\ texts' \in T!Texts
    BY <1>4, MergeKeeps DEF T!Store, T!TypeOK
  <2>2. work' \in [Runners -> {"none", "run", "retry"}] /\ \A q \in Runners : work'[q] = "none"
    BY <1>4 DEF T!Store, T!TypeOK, HolderInv
  <2>3. T!TypeOK' /\ HolderInv' /\ AttemptsInv'
    BY <1>4, <2>1, <2>2 DEF T!TypeOK, HolderInv, AttemptsInv
  <2>4. T!DoneIsTranslated'
    BY <1>4, <2>1 DEF T!DoneIsTranslated, T!Complete
  <2>. QED  BY <2>3, <2>4
<1>5. attempts \in Nat /\ (\A r \in Runners : work[r] = "run" => attempts <= MaxAttempts)
  BY DEF T!TypeOK, HolderInv, AttemptsInv
<1>6. ASSUME NEW r \in Runners, T!Ends(r) PROVE TranslationInv'
  <2>1. CASE T!RunnerFails(r)
    BY <2>1, <1>4, <1>5 DEF T!RunnerFails, T!Terminal
  <2>2. CASE T!RetryFails(r)
    BY <2>2, <1>4 DEF T!RetryFails
  <2>3. ASSUME NEW tr \in T!Results, T!RunnerStores(r, tr) PROVE TranslationInv'
    BY <2>3, <1>4, <1>5 DEF T!RunnerStores, T!Terminal
  <2>4. ASSUME NEW tr \in T!Results, T!RetryStores(r, tr) PROVE TranslationInv'
    BY <2>4, <1>4 DEF T!RetryStores
  <2>. QED  BY <1>6, <2>1, <2>2, <2>3, <2>4 DEF T!Ends
<1>7. CASE UNCHANGED tvars
  BY <1>7 DEF tvars, T!TypeOK, HolderInv, AttemptsInv, T!DoneIsTranslated, T!Complete
<1>. QED  BY <1>1, <1>2, <1>3, <1>6, <1>7 DEF T!TNext

\* A message that is done is held by nobody, so only its poster can write it.
LEMMA OnlyPosterTurnsBack ==
  ASSUME TranslationInv, [T!TNext]_tvars, state = "done", state' # "done"
  PROVE  poster = "translating" /\ poster' = "gone"
<1>1. \A r \in Runners : work[r] = "none"
  BY DEF TranslationInv, HolderInv, T!TypeOK
<1>2. \A r \in Runners : ~ (T!RunnerTakes(r) \/ T!RetryTakes(r) \/ T!Ends(r) \/ T!Dies(r))
  BY <1>1 DEF T!RunnerTakes, T!RetryTakes, T!Dies, T!Ends, T!RunnerFails, T!RetryFails, T!RunnerStores,
     T!RetryStores
<1>3. state' = state \/ \E tr \in T!Results : T!PosterStores(tr)
  BY <1>2 DEF T!TNext, T!Post, T!PosterDies, tvars
<1>. QED  BY <1>3 DEF T!PosterStores

-------------------------------------------------------------------------------
(* The synchronisation of an inbox.  Mails, replies and answers have times of their *)
(* own; a reply that nothing crossed is the last of them.                           *)

Stored == known \cup written.out \cup written.in

DatedInv ==
  /\ \A t \in inbox \cup Stored : t <= clock
  /\ reply <= clock

ReplyInv ==
  /\ \A t \in inbox \cup known : t \notin written.out /\ t # reply
  /\ ~crossed /\ reply # 0 => \A t \in inbox \cup Stored : t < reply

QuietInv == Stored = {} => thread.at = 0

InboxInv == Q!TypeOK /\ DatedInv /\ ReplyInv /\ QuietInv /\ Q!ThreadTellsNewest

\* A set of numbers has a least one.
LEMMA Least ==
  ASSUME NEW S \in SUBSET Nat, S # {}
  PROVE  \E x \in S : \A y \in S : x <= y
<1>. DEFINE R == {ss \in Nat \X Nat : ss[1] < ss[2]}
<1>1. IsWellFoundedOn(R, Nat)
  BY NatLessThanWellFounded, Zenon DEF OpToRel
<1>2. PICK x \in S : \A y \in S : ~ (<<y, x>> \in R)
  BY <1>1, WFMin, Zenon
<1>3. ASSUME NEW y \in S PROVE x <= y
  <2>1. x \in Nat /\ y \in Nat /\ <<y, x>> \in Nat \X Nat
    OBVIOUS
  <2>2. <<y, x>>[1] = y /\ <<y, x>>[2] = x
    OBVIOUS
  <2>3. ~ (y < x)
    BY <1>2, <2>1, <2>2, Zenon
  <2>. QED  BY <2>1, <2>3
<1>. QED  BY <1>3

\* Max and Min of times are what they say.
LEMMA MaxOfTimes ==
  ASSUME NEW S \in SUBSET Q!Times, S # {}
  PROVE  Q!Max(S) \in S /\ \A y \in S : Q!Max(S) >= y
<1>. DEFINE back == {MaxTime - t : t \in S}
<1>0. \A t \in S : t \in Nat /\ t <= MaxTime /\ MaxTime - t \in Nat
  BY PagesAssumption DEF Q!Times
<1>1. back \in SUBSET Nat /\ back # {}
  BY <1>0
<1>2. PICK b \in back : \A y \in back : b <= y
  BY <1>1, Least
<1>3. PICK x \in S : b = MaxTime - x
  OBVIOUS
<1>4. ASSUME NEW y \in S PROVE x >= y
  <2>1. MaxTime - y \in back
    OBVIOUS
  <2>2. MaxTime - x <= MaxTime - y
    BY <1>2, <1>3, <2>1
  <2>. QED  BY <1>0, <2>2, PagesAssumption
<1>5. \A y \in S : x >= y
  BY <1>4
<1>. QED  BY <1>5 DEF Q!Max

LEMMA MinOfTimes ==
  ASSUME NEW S \in SUBSET Q!Times, S # {}
  PROVE  Q!Min(S) \in S
<1>1. S \in SUBSET Nat
  BY DEF Q!Times
<1>. QED  BY <1>1, Least DEF Q!Min

\* The module counts as this one does.
LEMMA SameCardinality == \A S : Q!Cardinality(S) = Cardinality(S)
BY DEF Q!Cardinality, Cardinality

\* A page is of the inbox, and its cursor stands at a mail of it.
LEMMA PageIsOfInbox ==
  ASSUME Q!TypeOK, NEW below \in Nat
  PROVE  Q!Page(below) \in SUBSET Q!Times /\ Q!NextPage(below) \in 0..MaxTime
<1>. DEFINE older == {m \in inbox : m < below}
<1>1. Q!Page(below) \in SUBSET Q!Times
  BY DEF Q!Page, Q!TypeOK
<1>2. ASSUME NEW m \in inbox, m < below PROVE Q!Page(below) # {}
  <2>1. older \in SUBSET Q!Times /\ older # {}
    BY <1>2 DEF Q!TypeOK
  <2>2. PICK x \in older : \A y \in older : x >= y
    BY <2>1, MaxOfTimes
  <2>3. {y \in older : y > x} = {}
    BY <2>1, <2>2 DEF Q!Times
  <2>4. Cardinality({y \in older : y > x}) < PageSize
    BY <2>3, FS_EmptySet, PagesAssumption
  <2>5. x \in Q!Page(below)
    BY <2>4, SameCardinality DEF Q!Page
  <2>. QED  BY <2>5
<1>3. Q!NextPage(below) = 0 \/ (Q!Page(below) # {} /\ Q!NextPage(below) = Q!Min(Q!Page(below)))
  BY <1>2 DEF Q!NextPage
<1>. QED  BY <1>1, <1>3, MinOfTimes, PagesAssumption DEF Q!Times

LEMMA InboxBegins == Q!QInit => InboxInv
<1>. SUFFICES ASSUME Q!QInit PROVE InboxInv
  OBVIOUS
<1>1. Q!TypeOK
  <2>1. 0 \in 0..MaxTime /\ 0 \in 0..MaxFaults
    BY PagesAssumption
  <2>2. /\ sync = [step |-> "idle", found |-> {}, next |-> 0]
        /\ written = [out |-> {}, in |-> {}]
        /\ thread = [at |-> 0, direction |-> "none"]
    BY DEF Q!QInit, Q!Idle
  <2>3. sync \in [step : {"idle", "newest", "listed"}, found : SUBSET Q!Times, next : 0..MaxTime]
    BY <2>1, <2>2
  <2>4. written \in [out : SUBSET Q!Times, in : SUBSET Q!Times]
    BY <2>2
  <2>5. thread \in [at : 0..MaxTime, direction : {"none", "in", "out"}]
    BY <2>1, <2>2
  <2>. QED  BY <2>1, <2>3, <2>4, <2>5 DEF Q!QInit, Q!TypeOK
<1>2. Stored = {} /\ known = {} /\ inbox = {} /\ thread.direction = "none"
  BY DEF Q!QInit, Stored
<1>. QED  BY <1>1, <1>2 DEF Q!QInit, InboxInv, DatedInv, ReplyInv, QuietInv, Q!ThreadTellsNewest, Stored

\* The thread after something newer than all that is stored.
LEMMA NewestIsTold ==
  ASSUME NEW S \in SUBSET Q!Times, NEW t \in S, \A y \in S : y <= t
  PROVE  Q!Max(S) = t
<1>1. Q!Max(S) \in S /\ Q!Max(S) >= t /\ Q!Max(S) <= t
  BY MaxOfTimes
<1>2. \A y \in S : y \in Nat
  BY PagesAssumption DEF Q!Times
<1>. QED  BY <1>1, <1>2

LEMMA InboxTyped ==
  ASSUME InboxInv, [Q!QNext]_qvars
  PROVE  Q!TypeOK'
<1>. USE PagesAssumption DEF InboxInv, Q!TypeOK, Q!Times
<1>0. ASSUME Q!Tick PROVE clock' \in Q!Times /\ clock' \in 0..MaxTime
  BY <1>0 DEF Q!Tick
<1>1. CASE Q!Open \/ Q!Arrive \/ Q!ReplyBegins
  BY <1>0, <1>1 DEF Q!Open, Q!Arrive, Q!ReplyBegins
<1>9. CASE Q!Webhook
  BY <1>0, <1>9 DEF Q!Webhook
<1>10. CASE Q!ReplySent
  BY <1>10 DEF Q!ReplySent
<1>2. ASSUME NEW m \in Q!Times, Q!Leave(m) PROVE Q!TypeOK'
  BY <1>2 DEF Q!Leave
<1>3. CASE Q!SyncBegins
  BY <1>3, PageIsOfInbox DEF Q!SyncBegins
<1>4. CASE Q!ListOlder
  BY <1>4, PageIsOfInbox DEF Q!ListOlder
<1>5. CASE Q!CursorExpired
  BY <1>5 DEF Q!CursorExpired
<1>6. CASE Q!SyncFails
  BY <1>6 DEF Q!SyncFails, Q!Idle
<1>7. CASE Q!SyncCommits
  <2>. DEFINE new == (sync.found \cap inbox) \ known
  <2>1. new \subseteq Q!Times /\ (new # {} => Q!Max(new) \in Q!Times)
    BY MaxOfTimes
  <2>2. thread' = thread \/ (new # {} /\ thread' = [at |-> Q!Max(new), direction |-> "in"])
    BY <1>7 DEF Q!SyncCommits
  <2>3. thread' \in [at : 0..MaxTime, direction : {"none", "in", "out"}]
    BY <2>1, <2>2
  <2>. HIDE DEF new
  <2>4. known' \subseteq Q!Times /\ sync' = Q!Idle /\ cursor' \in 0..MaxTime
    BY <1>7 DEF Q!SyncCommits
  <2>. QED  BY <1>7, <2>3, <2>4 DEF Q!SyncCommits, Q!Idle
<1>8. CASE UNCHANGED qvars
  BY <1>8 DEF qvars
<1>. QED  BY <1>1, <1>2, <1>3, <1>4, <1>5, <1>6, <1>7, <1>8, <1>9, <1>10 DEF Q!QNext

LEMMA InboxKeeps == InboxInv /\ [Q!QNext]_qvars => InboxInv'
<1>. SUFFICES ASSUME InboxInv, [Q!QNext]_qvars PROVE InboxInv'
  OBVIOUS
<1>1. Q!TypeOK /\ Q!TypeOK'
  BY InboxTyped DEF InboxInv
<1>0. \A t \in Q!Times : t \in Nat /\ t > 0
  BY PagesAssumption DEF Q!Times
<1>2. /\ clock \in Nat /\ reply \in Nat /\ \A t \in Q!Times : t \in Nat /\ t > 0
      /\ inbox \in SUBSET Q!Times /\ known \in SUBSET Q!Times
      /\ written.out \in SUBSET Q!Times /\ written.in \in SUBSET Q!Times
      /\ Stored \in SUBSET Q!Times
  BY <1>0, <1>1, PagesAssumption DEF Q!TypeOK, Stored
\* Neither the thread nor what it tells of changes.
<1>3. ASSUME UNCHANGED <<known, written, thread>>, crossed => crossed'
      PROVE  Q!ThreadTellsNewest' /\ QuietInv'
  BY <1>3 DEF InboxInv, Q!ThreadTellsNewest, QuietInv, Stored
\* ... and no mail comes.
<1>4. ASSUME UNCHANGED <<known, written, thread, reply, crossed>>, inbox' \subseteq inbox, clock' = clock
      PROVE  InboxInv'
  <2>1. DatedInv' /\ ReplyInv'
    BY <1>4 DEF InboxInv, DatedInv, ReplyInv, Stored
  <2>. QED  BY <1>1, <1>3, <1>4, <2>1 DEF InboxInv
<1>5. CASE Q!Open \/ Q!SyncBegins \/ Q!ListOlder \/ Q!CursorExpired \/ Q!SyncFails \/ UNCHANGED qvars
  BY <1>4, <1>5 DEF Q!Open, Q!SyncBegins, Q!ListOlder, Q!CursorExpired, Q!SyncFails, qvars
<1>6. ASSUME NEW m \in Q!Times, Q!Leave(m) PROVE InboxInv'
  BY <1>4, <1>6 DEF Q!Leave
<1>7. CASE Q!Arrive
  <2>1. clock' = clock + 1 /\ inbox' = inbox \cup {clock'} /\ crossed' = (crossed \/ reply # 0)
        /\ UNCHANGED <<known, written, thread, reply>>
    BY <1>7 DEF Q!Arrive, Q!Tick
  <2>2. DatedInv'
    BY <1>2, <2>1 DEF InboxInv, DatedInv, Stored
  <2>3. clock' \notin written.out /\ clock' # reply
    BY <1>2, <2>1 DEF InboxInv, DatedInv, Stored
  <2>4. ReplyInv'
    BY <1>2, <2>1, <2>3 DEF InboxInv, ReplyInv, Stored
  <2>. QED  BY <1>1, <1>3, <2>1, <2>2, <2>4 DEF InboxInv
<1>8. CASE Q!ReplyBegins
  <2>1. clock' = clock + 1 /\ reply' = clock' /\ UNCHANGED <<inbox, known, written, thread, crossed>>
    BY <1>8 DEF Q!ReplyBegins, Q!Tick
  <2>2. DatedInv'
    BY <1>2, <2>1 DEF InboxInv, DatedInv, Stored
  <2>3. ReplyInv'
    BY <1>2, <2>1 DEF InboxInv, DatedInv, ReplyInv, Stored
  <2>. QED  BY <1>1, <1>3, <2>1, <2>2, <2>3 DEF InboxInv
<1>9. CASE Q!Webhook
  <2>1. /\ clock' = clock + 1 /\ written'.in = written.in \cup {clock'} /\ written'.out = written.out
        /\ thread' = [at |-> clock', direction |-> "in"] /\ crossed' = (crossed \/ reply # 0)
        /\ UNCHANGED <<inbox, known, reply>>
    BY <1>1, <1>9 DEF Q!Webhook, Q!Tick, Q!TypeOK
  <2>2. DatedInv'
    BY <1>2, <2>1 DEF InboxInv, DatedInv, Stored
  <2>3. ReplyInv'
    BY <1>2, <2>1 DEF InboxInv, DatedInv, ReplyInv, Stored
  <2>4. Stored' = Stored \cup {clock'} /\ Stored' \in SUBSET Q!Times
    BY <1>1, <2>1 DEF Stored, Q!TypeOK
  <2>5. Q!Max(Stored') = clock' /\ clock' \notin written'.out /\ Stored' # {}
    <3>1. clock' \notin written.out
      BY <1>2, <2>1 DEF InboxInv, DatedInv, Stored
    <3>2. \A y \in Stored' : y <= clock'
      BY <1>2, <2>1, <2>4 DEF InboxInv, DatedInv
    <3>. QED  BY <2>1, <2>4, <3>1, <3>2, NewestIsTold
  <2>6. Q!ThreadTellsNewest' /\ QuietInv'
    BY <2>1, <2>5 DEF Q!ThreadTellsNewest, QuietInv, Stored
  <2>. QED  BY <1>1, <2>2, <2>3, <2>6 DEF InboxInv
<1>10. CASE Q!ReplySent
  <2>1. /\ reply # 0 /\ reply' = 0
        /\ written'.out = written.out \cup {reply} /\ written'.in = written.in
        /\ thread' = [at |-> reply, direction |-> "out"]
        /\ UNCHANGED <<clock, inbox, known, crossed>>
    BY <1>1, <1>10 DEF Q!ReplySent, Q!TypeOK
  <2>2. DatedInv'
    BY <1>2, <2>1 DEF InboxInv, DatedInv, Stored
  <2>3. ReplyInv'
    BY <1>2, <2>1 DEF InboxInv, DatedInv, ReplyInv, Stored
  <2>4. Stored' = Stored \cup {reply} /\ Stored' \in SUBSET Q!Times
    BY <1>1, <2>1 DEF Stored, Q!TypeOK
  <2>5. ASSUME ~crossed PROVE Q!Max(Stored') = reply
    <3>1. \A y \in Stored' : y <= reply
      BY <1>2, <2>1, <2>4, <2>5 DEF InboxInv, ReplyInv
    <3>. QED  BY <2>4, <3>1, NewestIsTold
  <2>6. Q!ThreadTellsNewest' /\ QuietInv'
    BY <2>1, <2>4, <2>5 DEF Q!ThreadTellsNewest, QuietInv, Stored
  <2>. QED  BY <1>1, <2>2, <2>3, <2>6 DEF InboxInv
<1>11. CASE Q!SyncCommits
  <2>. DEFINE new == (sync.found \cap inbox) \ known
  <2>1. /\ known' = known \cup new /\ UNCHANGED <<clock, inbox, reply, written, crossed>>
        /\ thread' = IF new # {} /\ Q!Newer(Q!Max(new))
                       THEN [at |-> Q!Max(new), direction |-> "in"] ELSE thread
    BY <1>11 DEF Q!SyncCommits
  <2>2. new \subseteq inbox /\ new \in SUBSET Q!Times
    BY <1>2
  <2>. HIDE DEF new
  <2>3. Stored' = Stored \cup new /\ Stored' \in SUBSET Q!Times
    BY <1>2, <2>1, <2>2 DEF Stored
  <2>4. DatedInv' /\ ReplyInv'
    BY <2>1, <2>2, <2>3 DEF InboxInv, DatedInv, ReplyInv
  <2>5. CASE new = {}
    <3>1. UNCHANGED <<known, written, thread, crossed>>
      BY <2>1, <2>5
    <3>. QED  BY <1>1, <1>3, <2>4, <3>1 DEF InboxInv
  <2>6. CASE new # {} /\ ~crossed
    <3>1. PICK n \in new : n = Q!Max(new) /\ \A y \in new : y <= n
      BY <2>2, <2>6, <1>2, MaxOfTimes
    <3>2. n \in Nat /\ n > 0 /\ n \notin written.out /\ n \in Stored' /\ Stored' # {}
      BY <1>2, <2>2, <2>3, <3>1 DEF InboxInv, ReplyInv
    <3>6. Stored' # {} /\ UNCHANGED <<written, crossed>>
      BY <2>1, <3>2
    <3>3. ASSUME Stored = {} PROVE Q!ThreadTellsNewest'
      <4>1. Q!Max(Stored') = n
        BY <2>3, <3>1, <3>2, <3>3, NewestIsTold
      <4>2. thread' = [at |-> n, direction |-> "in"]
        <5>1. thread.at = 0
          BY <3>3 DEF InboxInv, QuietInv
        <5>. QED  BY <2>1, <2>6, <3>1, <3>2, <5>1 DEF Q!Newer
      <4>. QED  BY <3>6, <3>2, <4>1, <4>2 DEF Q!ThreadTellsNewest, Stored
    <3>4. ASSUME Stored # {} PROVE Q!ThreadTellsNewest'
      <4>1. PICK old \in Stored : old = Q!Max(Stored) /\ \A y \in Stored : y <= old
        BY <1>2, <3>4, MaxOfTimes
      <4>2. thread.at = old /\ thread.direction = IF old \in written.out THEN "out" ELSE "in"
        BY <2>6, <3>4, <4>1 DEF InboxInv, Q!ThreadTellsNewest, Stored
      <4>3. CASE n >= old
        <5>1. \A y \in Stored' : y <= n
          BY <1>2, <2>3, <3>1, <3>2, <4>1, <4>3
        <5>2. Q!Max(Stored') = n
          BY <2>3, <3>2, <5>1, NewestIsTold
        <5>3. thread' = [at |-> n, direction |-> "in"]
          BY <2>1, <2>6, <3>1, <4>2, <4>3 DEF Q!Newer
        <5>. QED  BY <3>6, <3>2, <5>2, <5>3 DEF Q!ThreadTellsNewest, Stored
      <4>4. CASE ~ (n >= old)
        <5>1. \A y \in Stored' : y <= old
          BY <1>2, <2>3, <3>1, <3>2, <4>1, <4>4
        <5>2. Q!Max(Stored') = old
          BY <2>3, <4>1, <5>1, NewestIsTold
        <5>3. thread' = thread
          BY <2>1, <3>1, <4>2, <4>4 DEF Q!Newer
        <5>4. thread = [at |-> old, direction |-> IF old \in written.out THEN "out" ELSE "in"]
          BY <2>6, <3>4, <4>1 DEF InboxInv, Q!ThreadTellsNewest, Stored
        <5>. QED  BY <3>6, <3>2, <5>2, <5>3, <5>4 DEF Q!ThreadTellsNewest, Stored
      <4>. QED  BY <4>3, <4>4
    <3>5. Q!ThreadTellsNewest'
      BY <3>3, <3>4
    <3>. QED  BY <1>1, <2>4, <3>2, <3>5 DEF InboxInv, QuietInv
  <2>7. CASE crossed
    BY <1>1, <2>1, <2>3, <2>4, <2>5, <2>7 DEF InboxInv, QuietInv, Q!ThreadTellsNewest
  <2>. QED  BY <2>5, <2>6, <2>7
<1>. QED  BY <1>5, <1>6, <1>7, <1>8, <1>9, <1>10, <1>11 DEF Q!QNext

-------------------------------------------------------------------------------
(* The three services: a behaviour follows one of them. *)

LEMMA ServicesKeep ==
  ASSUME IInv, TranslationInv, InboxInv, [Next]_vars
  PROVE  [LNext]_lvars /\ [T!TNext]_tvars /\ [Q!QNext]_qvars
BY DEF Next, vars

\* Every row, lock, message, mail, cursor and page keeps its type.
THEOREM ServicesAreTyped == Spec => []ServicesTyped
<1>1. Init => IInv /\ TranslationInv /\ InboxInv
  BY InitInv, TranslationBegins, InboxBegins DEF Init
<1>2. IInv /\ TranslationInv /\ InboxInv /\ [Next]_vars => IInv' /\ TranslationInv' /\ InboxInv'
  BY ServicesKeep, StepKeeps, TranslationKeeps, InboxKeeps
<1>3. IInv /\ TranslationInv /\ InboxInv => ServicesTyped
  BY DEF IInv, TranslationInv, InboxInv, ServicesTyped
<1>. QED  BY <1>1, <1>2, <1>3, PTL DEF Spec

\* A done message is whole in every language, with any number of languages and runners and
\* whatever order they and the poster write in; what is done stays so until the late answer
\* of the poster, and nobody else, turns it back.
THEOREM TranslationsAreKept == Spec => TranslationIsKept
<1>1. Init => TranslationInv
  BY TranslationBegins DEF Init
<1>2. [Next]_vars => [T!TNext]_tvars
  BY DEF Next, vars
<1>3. TranslationInv /\ [T!TNext]_tvars
        => [state = "done" /\ state' # "done" => poster = "translating" /\ poster' = "gone"]_tvars
  BY OnlyPosterTurnsBack
<1>4. TranslationInv => T!DoneIsTranslated
  BY DEF TranslationInv
<1>. QED  BY <1>1, <1>2, <1>3, <1>4, TranslationKeeps, PTL
          DEF Spec, TranslationIsKept, T!TurnedBackOnlyByPoster, tvars, T!tvars

\* The thread tells the newest of what is stored, whatever the size of a page and however
\* often a synchronisation fails, expires or brings in older mail late, unless something
\* crossed a reply.
THEOREM ThreadsTellTheNewest == Spec => []ThreadTellsNewest
<1>1. Init => InboxInv
  BY InboxBegins DEF Init
<1>2. [Next]_vars => [Q!QNext]_qvars
  BY DEF Next, vars
<1>3. InboxInv => ThreadTellsNewest
  BY DEF InboxInv, ThreadTellsNewest
<1>. QED  BY <1>1, <1>2, <1>3, InboxKeeps, PTL DEF Spec
===============================================================================
