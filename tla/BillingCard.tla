------------------------------ MODULE BillingCard ------------------------------
(***************************************************************************)
(* The registered card of one brand: registration, revocation and the use  *)
(* of the card by autocharge_tick.  The row of brand_billing_keys holds    *)
(* the PG's billing key; the key itself lives at the PG.  All operations   *)
(* serialize on an advisory lock (_card_operation) that the database gives *)
(* back when the process dies.  PG requests go out while the lock is held; *)
(* one that timed out may still be processed later.                        *)
(***************************************************************************)
EXTENDS Naturals, TLAPS

CONSTANTS
  Owners,    \* requests of the brand's owner in progress
  Workers,   \* processes that run autocharge_tick
  Orders,    \* what a worker charges for: invoices
  Keys,      \* billing keys the PG may issue
  None       \* no key, no process, no order

Procs == Owners \cup Workers

ASSUME ProcsAssumption == Owners \cap Workers = {}
ASSUME NoneAssumption == None \notin Procs \cup Keys \cup Orders

VARIABLES
  state,     \* brand_billing_keys.state, "none" when there is no row
  key,       \* the key in bid_enc, None when it is empty
  lock,      \* holder of the advisory lock 'billing-card:' || brand
  pc, held,  \* each process: its step, the key it works with
  pgKey,     \* the keys at the PG
  requests   \* PG requests on their way; by is None when nobody waits any more

cardvars == <<state, key, lock, pc, held, pgKey, requests>>

States  == {"none", "active", "expire_pending", "expired"}
Waiting == {"register", "expire", "charge"}
Locked  == {"checking", "registering", "issued", "revoking", "revoked", "deleting",
            "deleted", "reading", "reserved", "charging", "answered"}
Request ==
  [type : {"regist"}, by : Procs \cup {None}, key : {None}, order : {None}]
  \cup [type : {"delete"}, by : Procs \cup {None}, key : Keys, order : {None}]
  \cup [type : {"charge"}, by : Procs \cup {None}, key : Keys, order : Orders]

TypeOK ==
  /\ state \in States
  /\ key \in Keys \cup {None}
  /\ state \in {"none", "expired"} <=> key = None
  /\ lock \in Procs \cup {None}
  /\ pc \in [Procs -> {"idle"} \cup Waiting \cup Locked]
  /\ held \in [Procs -> Keys \cup {None}]
  /\ pgKey \in [Keys -> {"unused", "live", "deleted"}]
  /\ requests \subseteq Request

Init ==
  /\ state = "none" /\ key = None /\ lock = None
  /\ pc = [p \in Procs |-> "idle"]
  /\ held = [p \in Procs |-> None]
  /\ pgKey = [k \in Keys |-> "unused"]
  /\ requests = {}

-------------------------------------------------------------------------------
(* The lock *)

Ask(p, op) ==
  /\ pc[p] = "idle"
  /\ pc' = [pc EXCEPT ![p] = op]
  /\ UNCHANGED <<state, key, lock, held, pgKey, requests>>

First(op) == CASE op = "register" -> "checking" [] op = "expire" -> "revoking"
               [] op = "charge" -> "reading"

\* Mutant: no advisory lock.
Enter_NoLock(p) ==
  /\ pc[p] \in Waiting
  /\ lock' = p
  /\ pc' = [pc EXCEPT ![p] = First(@)]
  /\ UNCHANGED <<state, key, held, pgKey, requests>>

Enter(p) ==
  /\ pc[p] \in Waiting /\ lock = None
  /\ lock' = p
  /\ pc' = [pc EXCEPT ![p] = First(@)]
  /\ UNCHANGED <<state, key, held, pgKey, requests>>

\* The operation ends and its lock transaction with it.
Leave(p) ==
  /\ lock' = IF lock = p THEN None ELSE lock
  /\ pc' = [pc EXCEPT ![p] = "idle"]
  /\ held' = [held EXCEPT ![p] = None]

\* Nobody waits for the requests of p any more.
Forsaken(p) == {IF m.by = p THEN [m EXCEPT !.by = None] ELSE m : m \in requests}

\* Mutant: the lock outlives its process.
Crash_KeepsLock(p) ==
  /\ pc[p] # "idle"
  /\ pc' = [pc EXCEPT ![p] = "idle"]
  /\ held' = [held EXCEPT ![p] = None]
  /\ requests' = Forsaken(p)
  /\ UNCHANGED <<state, key, lock, pgKey>>

\* The process dies, or an exception or an aborted transaction ends its operation.
Crash(p) ==
  /\ pc[p] # "idle"
  /\ Leave(p)
  /\ requests' = Forsaken(p)
  /\ UNCHANGED <<state, key, pgKey>>

Send(p, type, k, o) ==
  requests' = requests \cup {[type |-> type, by |-> p, key |-> k, order |-> o]}

\* Mutant: an unanswered deletion counts as done.
Timeout_CountsAsDeleted(p) ==
  /\ pc[p] \in {"registering", "deleting", "charging"}
  /\ requests' = Forsaken(p)
  /\ CASE pc[p] = "charging" -> /\ pc' = [pc EXCEPT ![p] = "answered"]
                                /\ UNCHANGED <<lock, held>>
       [] pc[p] = "deleting" -> /\ pc' = [pc EXCEPT ![p] = "deleted"]
                                /\ UNCHANGED <<lock, held>>
       [] OTHER -> Leave(p)
  /\ UNCHANGED <<state, key, pgKey>>

\* PaymentUnavailable.  Registration and revocation end here; a worker goes on to
\* mark its attempt and invoice.
Timeout(p) ==
  /\ pc[p] \in {"registering", "deleting", "charging"}
  /\ requests' = Forsaken(p)
  /\ IF pc[p] = "charging"
       THEN pc' = [pc EXCEPT ![p] = "answered"] /\ UNCHANGED <<lock, held>>
       ELSE Leave(p)
  /\ UNCHANGED <<state, key, pgKey>>

-------------------------------------------------------------------------------
(* _register_card_locked *)

RefuseRegistration(p) ==
  /\ pc[p] = "checking" /\ state \notin {"none", "expired"}
  /\ Leave(p)
  /\ UNCHANGED <<state, key, pgKey, requests>>

\* Mutant: only an active card stands in the way of a new one.
SendRegist_OverPending(p) ==
  /\ pc[p] = "checking" /\ state # "active"
  /\ Send(p, "regist", None, None)
  /\ pc' = [pc EXCEPT ![p] = "registering"]
  /\ UNCHANGED <<state, key, lock, held, pgKey>>

SendRegist(p) ==
  /\ pc[p] = "checking" /\ state \in {"none", "expired"}
  /\ Send(p, "regist", None, None)
  /\ pc' = [pc EXCEPT ![p] = "registering"]
  /\ UNCHANGED <<state, key, lock, held, pgKey>>

SaveKey(p) ==
  /\ pc[p] = "issued"
  /\ state' = "active" /\ key' = held[p]
  /\ Leave(p)
  /\ UNCHANGED <<pgKey, requests>>

-------------------------------------------------------------------------------
(* _expire_card_locked *)

NothingToExpire(p) ==
  /\ pc[p] = "revoking" /\ state \in {"none", "expired"}
  /\ Leave(p)
  /\ UNCHANGED <<state, key, pgKey, requests>>

\* expire_pending is committed before the PG is asked.
Revoke(p) ==
  /\ pc[p] = "revoking" /\ state \in {"active", "expire_pending"}
  /\ state' = "expire_pending"
  /\ held' = [held EXCEPT ![p] = key]
  /\ pc' = [pc EXCEPT ![p] = "revoked"]
  /\ UNCHANGED <<key, lock, pgKey, requests>>

\* dec_bid fails; the card stays expire_pending.
CryptoUnavailable(p) ==
  /\ pc[p] = "revoked"
  /\ Leave(p)
  /\ UNCHANGED <<state, key, pgKey, requests>>

SendDelete(p) ==
  /\ pc[p] = "revoked"
  /\ Send(p, "delete", held[p], None)
  /\ pc' = [pc EXCEPT ![p] = "deleting"]
  /\ UNCHANGED <<state, key, lock, held, pgKey>>

SaveExpired(p) ==
  /\ pc[p] = "deleted"
  /\ state' = "expired" /\ key' = None
  /\ Leave(p)
  /\ UNCHANGED <<pgKey, requests>>

-------------------------------------------------------------------------------
(* autocharge_tick, as far as the card goes *)

\* The card is read again under the lock.
SkipCard(w) ==
  /\ pc[w] = "reading" /\ state # "active"
  /\ Leave(w)
  /\ UNCHANGED <<state, key, pgKey, requests>>

ReadCard(w) ==
  /\ pc[w] = "reading" /\ state = "active"
  /\ held' = [held EXCEPT ![w] = key]
  /\ pc' = [pc EXCEPT ![w] = "reserved"]
  /\ UNCHANGED <<state, key, lock, pgKey, requests>>

\* The invoice is no longer to be charged.
Yield(w) ==
  /\ pc[w] = "reserved"
  /\ Leave(w)
  /\ UNCHANGED <<state, key, pgKey, requests>>

\* dec_bid fails after the claim.
NotSent(w) ==
  /\ pc[w] = "reserved"
  /\ pc' = [pc EXCEPT ![w] = "answered"]
  /\ UNCHANGED <<state, key, lock, held, pgKey, requests>>

SendCharge(w, o) ==
  /\ pc[w] = "reserved"
  /\ Send(w, "charge", held[w], o)
  /\ pc' = [pc EXCEPT ![w] = "charging"]
  /\ UNCHANGED <<state, key, lock, held, pgKey>>

\* The attempt and the invoice are brought up to date, the lock is released.
Finish(w) ==
  /\ pc[w] = "answered"
  /\ Leave(w)
  /\ UNCHANGED <<state, key, pgKey, requests>>

-------------------------------------------------------------------------------
(* The PG (external) *)

PgRegist(m, k) ==
  /\ m \in requests /\ m.type = "regist" /\ pgKey[k] = "unused"
  /\ pgKey' = [pgKey EXCEPT ![k] = "live"]
  /\ requests' = requests \ {m}
  /\ IF m.by = None THEN UNCHANGED <<pc, held>>
       ELSE pc' = [pc EXCEPT ![m.by] = "issued"] /\ held' = [held EXCEPT ![m.by] = k]
  /\ UNCHANGED <<state, key, lock>>

PgDelete(m) ==
  /\ m \in requests /\ m.type = "delete"
  /\ pgKey' = [pgKey EXCEPT ![m.key] = "deleted"]
  /\ requests' = requests \ {m}
  /\ pc' = IF m.by = None THEN pc ELSE [pc EXCEPT ![m.by] = "deleted"]
  /\ UNCHANGED <<state, key, lock, held>>

\* A charge needs a live key.
PgCapture(m) ==
  /\ m \in requests /\ m.type = "charge" /\ pgKey[m.key] = "live"
  /\ requests' = requests \ {m}
  /\ pc' = IF m.by = None THEN pc ELSE [pc EXCEPT ![m.by] = "answered"]
  /\ UNCHANGED <<state, key, lock, held, pgKey>>

\* Any request may be refused: registration and revocation end, a worker goes on.
PgRefuse(m) ==
  /\ m \in requests
  /\ requests' = requests \ {m}
  /\ CASE m.by = None -> UNCHANGED <<lock, pc, held>>
       [] m.by # None /\ m.type = "charge" ->
            pc' = [pc EXCEPT ![m.by] = "answered"] /\ UNCHANGED <<lock, held>>
       [] OTHER -> Leave(m.by)
  /\ UNCHANGED <<state, key, pgKey>>

-------------------------------------------------------------------------------
OwnerNext(p) ==
  \/ RefuseRegistration(p) \/ SendRegist(p) \/ SaveKey(p)
  \/ NothingToExpire(p) \/ Revoke(p) \/ CryptoUnavailable(p) \/ SendDelete(p) \/ SaveExpired(p)

WorkerNext(w) ==
  \/ SkipCard(w) \/ ReadCard(w) \/ Yield(w) \/ NotSent(w) \/ Finish(w)
  \/ \E o \in Orders : SendCharge(w, o)

PgNext ==
  \E m \in requests : \/ \E k \in Keys : PgRegist(m, k)
                      \/ PgDelete(m) \/ PgCapture(m) \/ PgRefuse(m)

\* What p does once it has the lock; a lost answer ends in a timeout.
Work(p) == (p \in Owners /\ OwnerNext(p)) \/ (p \in Workers /\ WorkerNext(p)) \/ Timeout(p)

Next ==
  \/ \E p \in Owners : Ask(p, "register") \/ Ask(p, "expire")
  \/ \E w \in Workers : Ask(w, "charge")
  \/ \E p \in Procs : Enter(p) \/ Work(p) \/ Crash(p)
  \/ PgNext

Spec == Init /\ [][Next]_cardvars

\* The database grants the lock to those who wait in their order; every operation
\* goes on, if only by the 20 seconds' timeout of its PG request.
Fairness == \A p \in Procs : SF_cardvars(Enter(p)) /\ WF_cardvars(Work(p))

FairSpec == Spec /\ Fairness

-------------------------------------------------------------------------------
(* Properties *)

\* Between reading the card and the end of its charge a worker works with the
\* brand's active card, though the brand may ask for revocation at any time: a
\* card read earlier is never charged after the revocation was committed.
ChargesUseTheActiveCard ==
  \A w \in Workers : pc[w] \in {"reserved", "charging"} => state = "active" /\ held[w] = key

\* A stored key is dropped, by revocation or by a new registration, only when the PG
\* has deleted it: no key that was ever in use stays chargeable unknown to the row.
DroppedKeyIsDeleted == [][key # None /\ key' # key => pgKey[key] = "deleted"]_cardvars

\* A charge that was given up and is still on its way cannot be captured any more
\* once the revocation is complete, nor after another card was registered.
LateChargeNeedsTheCard ==
  \A m \in requests : m.type = "charge" /\ pgKey[m.key] = "live" => m.key = key

\* An owner's request is served: it gets the lock whatever dies or hangs inside it.
OwnerIsServed == \A p \in Owners : pc[p] # "idle" ~> pc[p] = "idle"

\* docs/BILLING_AUTOCHARGE.md:84 says that concurrent registration issues one
\* billing key only.
OneKeyIssued == \A j, k \in Keys : pgKey[j] = "live" /\ pgKey[k] = "live" => j = k
-------------------------------------------------------------------------------
(***************************************************************************)
(* Proofs, for any number of owners' requests, workers, invoices and       *)
(* billing keys: the advisory lock lets one operation at a time change the *)
(* row, and what is on its way at the PG outlives operations but not its   *)
(* key.                                                                    *)
(***************************************************************************)

(* The inductive invariant, one part per place the state lives in. *)

OwnerSteps  == {"idle", "register", "expire", "checking", "registering", "issued",
                "revoking", "revoked", "deleting", "deleted"}
WorkerSteps == {"idle", "charge", "reading", "reserved", "charging", "answered"}

Roles ==
  /\ \A p \in Owners : pc[p] \in OwnerSteps
  /\ \A w \in Workers : pc[w] \in WorkerSteps

LockInv == \A p \in Procs : pc[p] \in Locked => lock = p

\* What an operation knows of the row while it holds the lock.
StepOk(p) ==
  /\ pc[p] \in {"registering", "issued"} => state \in {"none", "expired"}
  /\ pc[p] = "issued" => held[p] \in Keys /\ pgKey[held[p]] # "unused"
  /\ pc[p] \in {"revoked", "deleting", "deleted"} => state = "expire_pending" /\ held[p] = key
  /\ pc[p] = "deleted" => pgKey[key] = "deleted"
  /\ pc[p] \in {"reserved", "charging"} => state = "active" /\ held[p] = key

StepInv == \A p \in Procs : StepOk(p)

\* A request somebody waits for is the one its process sent last.
WaitedFor(m) ==
  /\ m.type = "regist" => pc[m.by] = "registering"
  /\ m.type = "delete" => pc[m.by] = "deleting" /\ held[m.by] = m.key
  /\ m.type = "charge" => pc[m.by] = "charging" /\ held[m.by] = m.key

RequestInv ==
  /\ \A m \in requests : m.by # None => WaitedFor(m)
  /\ \A m, n \in requests : m.by # None /\ m.by = n.by => m = n

\* No key is used before the PG has issued it, and a charge that is on its way for a live
\* key is one for the key in the row.
KeyInv ==
  /\ key # None => pgKey[key] # "unused"
  /\ \A m \in requests : m.type # "regist" => pgKey[m.key] # "unused"
  /\ LateChargeNeedsTheCard

IInv == TypeOK /\ Roles /\ LockInv /\ StepInv /\ RequestInv /\ KeyInv

-------------------------------------------------------------------------------
LEMMA InitInv == Init => IInv
  BY ProcsAssumption, NoneAssumption
     DEF Init, IInv, TypeOK, Roles, LockInv, StepInv, StepOk, RequestInv, KeyInv,
         LateChargeNeedsTheCard, States, Procs, Waiting, Locked, Request, OwnerSteps, WorkerSteps

\* What is left of the requests when p stops waiting: those of the others, and its own with
\* nobody waiting.
LEMMA ForsakenRequests ==
  ASSUME NEW p \in Procs, requests \subseteq Request
  PROVE  /\ Forsaken(p) \subseteq Request
         /\ \A m \in Forsaken(p) : \/ m \in requests /\ m.by # p
                                   \/ /\ m.by = None
                                      /\ \E n \in requests : n.by = p /\ n.type = m.type /\ n.key = m.key
  <1>1. ASSUME NEW n \in requests, n.by = p
        PROVE  LET m == [n EXCEPT !.by = None]
               IN  m \in Request /\ m.by = None /\ m.type = n.type /\ m.key = n.key
    BY <1>1 DEF Request
  <1>2. ASSUME NEW m \in Forsaken(p)
        PROVE  \/ m \in requests /\ m.by # p
               \/ \E n \in requests : n.by = p /\ m = [n EXCEPT !.by = None]
    BY <1>2 DEF Forsaken
  <1> QED
    BY <1>1, <1>2

\* An operation that ends with its waiting given up, or with nothing sent, changes nothing
\* but its own step: Crash, and what a lost or a negative answer does to an owner.
LEMMA StopKeeps ==
  ASSUME IInv, NEW p \in Procs, Leave(p), UNCHANGED <<state, key, pgKey>>,
         requests' \subseteq Request,
         \A m \in requests' : \/ m \in requests /\ m.by # p
                              \/ /\ m.by = None
                                 /\ \E n \in requests : n.type = m.type /\ n.key = m.key
  PROVE  IInv'
  <1> USE NoneAssumption DEF IInv, Leave
  <1>1. TypeOK'
    BY DEF TypeOK, Procs
  <1>2. Roles' /\ LockInv'
    BY DEF TypeOK, Roles, OwnerSteps, WorkerSteps, LockInv, Locked, Procs
  <1>3. StepInv'
    BY DEF TypeOK, StepInv, StepOk
  <1>4. RequestInv'
    BY DEF TypeOK, RequestInv, WaitedFor, Request
  <1>5. KeyInv'
    BY DEF TypeOK, KeyInv, LateChargeNeedsTheCard
  <1> QED
    BY <1>1, <1>2, <1>3, <1>4, <1>5

\* An operation that ends without having sent anything.
LEMMA EndKeeps ==
  ASSUME IInv, NEW p \in Procs, Leave(p), UNCHANGED <<state, key, pgKey, requests>>,
         pc[p] \notin {"registering", "deleting", "charging"}
  PROVE  IInv'
  <1>1. \A m \in requests : m.by # p
    BY NoneAssumption DEF IInv, TypeOK, RequestInv, WaitedFor, Request
  <1> QED
    BY <1>1, StopKeeps DEF IInv, TypeOK

\* The step of one process goes on inside its operation, with the row as it was.
LEMMA GoesOn ==
  ASSUME IInv, NEW p \in Procs, NEW step,
         step \in (IF p \in Owners THEN OwnerSteps ELSE WorkerSteps) \ {"registering", "deleting", "charging", "issued", "deleted"},
         pc[p] \notin {"registering", "deleting", "charging"},
         step \in Locked => lock' = p,
         lock' \in {lock, p}, lock' # lock => lock = None,
         pc' = [pc EXCEPT ![p] = step],
         held' \in [Procs -> Keys \cup {None}],
         \A q \in Procs : q # p => held'[q] = held[q],
         step = "reserved" => state = "active" /\ held'[p] = key,
         step = "revoked" => state = "expire_pending" /\ held'[p] = key,
         UNCHANGED <<state, key, pgKey, requests>>
  PROVE  IInv'
  <1> USE NoneAssumption, ProcsAssumption DEF IInv
  <1>1. TypeOK'
    BY DEF TypeOK, Procs, OwnerSteps, WorkerSteps, Waiting, Locked
  <1>2. Roles' /\ LockInv'
    BY DEF TypeOK, Roles, OwnerSteps, WorkerSteps, LockInv, Locked, Procs
  <1>3. StepInv'
    BY DEF TypeOK, StepInv, StepOk, OwnerSteps, WorkerSteps
  <1>4. RequestInv'
    BY DEF TypeOK, RequestInv, WaitedFor, Request
  <1>5. KeyInv'
    BY DEF TypeOK, KeyInv, LateChargeNeedsTheCard
  <1> QED
    BY <1>1, <1>2, <1>3, <1>4, <1>5

\* A request goes out for the operation that holds the lock.
LEMMA SendKeeps ==
  ASSUME IInv, NEW p \in Procs, NEW m \in Request, NEW step,
         m.by = p, requests' = requests \cup {m},
         pc[p] \in Locked \ {"registering", "deleting", "charging"},
         pc' = [pc EXCEPT ![p] = step],
         \/ /\ m.type = "regist" /\ step = "registering" /\ p \in Owners
            /\ state \in {"none", "expired"}
         \/ /\ m.type = "delete" /\ step = "deleting" /\ p \in Owners
            /\ m.key = held[p] /\ held[p] = key /\ state = "expire_pending"
         \/ /\ m.type = "charge" /\ step = "charging" /\ p \in Workers
            /\ m.key = held[p] /\ held[p] = key /\ state = "active",
         UNCHANGED <<state, key, lock, held, pgKey>>
  PROVE  IInv'
  <1> USE NoneAssumption, ProcsAssumption DEF IInv
  <1>1. TypeOK'
    BY DEF TypeOK, Locked
  <1>2. Roles' /\ LockInv'
    BY DEF TypeOK, Roles, OwnerSteps, WorkerSteps, LockInv, Locked, Procs
  <1>3. StepInv'
    BY DEF TypeOK, StepInv, StepOk
  <1>4. \A n \in requests : n.by # p
    BY DEF TypeOK, RequestInv, WaitedFor, Request
  <1>5. RequestInv'
    BY <1>4 DEF TypeOK, RequestInv, WaitedFor
  <1>6. KeyInv'
    BY DEF TypeOK, KeyInv, LateChargeNeedsTheCard
  <1> QED
    BY <1>1, <1>2, <1>3, <1>5, <1>6

\* The worker's charge is answered or given up: it goes on, the others' requests stay.
LEMMA ChargeEnds ==
  ASSUME IInv, NEW p \in Procs, pc[p] = "charging",
         pc' = [pc EXCEPT ![p] = "answered"],
         UNCHANGED <<state, key, lock, held, pgKey>>,
         requests' \subseteq Request,
         \A m \in requests' : \/ m \in requests /\ m.by # p
                              \/ /\ m.by = None
                                 /\ \E n \in requests : n.type = m.type /\ n.key = m.key
  PROVE  IInv'
  <1> USE NoneAssumption, ProcsAssumption DEF IInv
  <1>1. TypeOK'
    BY DEF TypeOK, Locked
  <1>2. Roles' /\ LockInv'
    BY DEF TypeOK, Roles, OwnerSteps, WorkerSteps, LockInv, Locked, Procs
  <1>3. StepInv'
    BY DEF TypeOK, StepInv, StepOk
  <1>4. RequestInv'
    BY DEF TypeOK, RequestInv, WaitedFor, Request
  <1>5. KeyInv'
    BY DEF TypeOK, KeyInv, LateChargeNeedsTheCard
  <1> QED
    BY <1>1, <1>2, <1>3, <1>4, <1>5

-------------------------------------------------------------------------------
(* The steps that write the row, and the answers of the PG. *)

\* The lock: no other operation is past its start.
LEMMA Alone ==
  ASSUME IInv, NEW p \in Procs, pc[p] \in Locked, NEW q \in Procs, q # p
  PROVE  pc[q] \notin Locked
  BY DEF IInv, LockInv

LEMMA SaveKeyKeeps == ASSUME IInv, NEW p \in Owners, SaveKey(p) PROVE IInv'
  <1> USE NoneAssumption, ProcsAssumption DEF IInv, SaveKey, Leave
  <1>0. /\ p \in Procs /\ held[p] \in Keys /\ pgKey[held[p]] # "unused"
        /\ state \in {"none", "expired"} /\ key = None
        /\ \A q \in Procs : q # p => pc[q] \notin Locked
    BY Alone DEF Procs, StepInv, StepOk, Locked, TypeOK
  <1>1. TypeOK'
    BY <1>0 DEF TypeOK, States
  <1>2. Roles' /\ LockInv'
    BY <1>0 DEF TypeOK, Roles, OwnerSteps, WorkerSteps, LockInv, Procs, Locked
  <1>3. StepInv'
    BY <1>0 DEF TypeOK, StepInv, StepOk, Locked
  <1>4. RequestInv'
    BY <1>0 DEF TypeOK, RequestInv, WaitedFor, Request, Locked
  <1>5. KeyInv'
    <2>1. \A m \in requests : m.type # "charge" \/ pgKey[m.key] # "live"
      BY <1>0 DEF KeyInv, LateChargeNeedsTheCard, TypeOK, Request
    <2> QED
      BY <1>0, <2>1 DEF TypeOK, KeyInv, LateChargeNeedsTheCard
  <1> QED
    BY <1>1, <1>2, <1>3, <1>4, <1>5

LEMMA RevokeKeeps == ASSUME IInv, NEW p \in Owners, Revoke(p) PROVE IInv'
  <1> USE NoneAssumption, ProcsAssumption DEF IInv, Revoke
  <1>0. /\ p \in Procs /\ key \in Keys
        /\ \A q \in Procs : q # p => pc[q] \notin Locked
    BY Alone DEF Procs, Locked, TypeOK
  <1>1. TypeOK'
    BY <1>0 DEF TypeOK, States, Locked
  <1>2. Roles' /\ LockInv'
    BY <1>0 DEF TypeOK, Roles, OwnerSteps, WorkerSteps, LockInv, Procs, Locked
  <1>3. StepInv'
    BY <1>0 DEF TypeOK, StepInv, StepOk, Locked
  <1>4. RequestInv'
    BY <1>0 DEF TypeOK, RequestInv, WaitedFor, Request, Locked
  <1>5. KeyInv'
    BY DEF TypeOK, KeyInv, LateChargeNeedsTheCard
  <1> QED
    BY <1>1, <1>2, <1>3, <1>4, <1>5

\* The row's key is gone at the PG before the row forgets it.
LEMMA SaveExpiredKeeps == ASSUME IInv, NEW p \in Owners, SaveExpired(p) PROVE IInv'
  <1> USE NoneAssumption, ProcsAssumption DEF IInv, SaveExpired, Leave
  <1>0. /\ p \in Procs /\ pgKey[key] = "deleted" /\ key \in Keys
        /\ \A q \in Procs : q # p => pc[q] \notin Locked
    BY Alone DEF Procs, StepInv, StepOk, Locked, TypeOK
  <1>1. TypeOK'
    BY <1>0 DEF TypeOK, States
  <1>2. Roles' /\ LockInv'
    BY <1>0 DEF TypeOK, Roles, OwnerSteps, WorkerSteps, LockInv, Procs, Locked
  <1>3. StepInv'
    BY <1>0 DEF TypeOK, StepInv, StepOk, Locked
  <1>4. RequestInv'
    BY <1>0 DEF TypeOK, RequestInv, WaitedFor, Request, Locked
  <1>5. KeyInv'
    BY <1>0 DEF TypeOK, KeyInv, LateChargeNeedsTheCard
  <1> QED
    BY <1>1, <1>2, <1>3, <1>4, <1>5

LEMMA PgRegistKeeps ==
  ASSUME IInv, NEW m \in requests, NEW k \in Keys, PgRegist(m, k) PROVE IInv'
  <1> USE NoneAssumption, ProcsAssumption DEF IInv, PgRegist
  <1>0. /\ m \in Request
        /\ m.by # None => m.by \in Procs /\ pc[m.by] = "registering"
        /\ key # k /\ \A n \in requests : n.key # k
    BY DEF TypeOK, RequestInv, WaitedFor, Request, KeyInv
  <1>1. TypeOK'
    BY <1>0 DEF TypeOK, Locked
  <1>2. Roles' /\ LockInv'
    BY <1>0 DEF TypeOK, Roles, OwnerSteps, WorkerSteps, LockInv, Procs, Locked
  <1>3. StepInv'
    BY <1>0 DEF TypeOK, StepInv, StepOk
  <1>4. RequestInv'
    BY <1>0 DEF TypeOK, RequestInv, WaitedFor, Request
  <1>5. KeyInv'
    BY <1>0 DEF TypeOK, KeyInv, LateChargeNeedsTheCard, Request
  <1> QED
    BY <1>1, <1>2, <1>3, <1>4, <1>5

LEMMA PgDeleteKeeps == ASSUME IInv, NEW m \in requests, PgDelete(m) PROVE IInv'
  <1> USE NoneAssumption, ProcsAssumption DEF IInv, PgDelete
  <1>0. /\ m \in Request
        /\ m.by # None => m.by \in Procs /\ pc[m.by] = "deleting" /\ held[m.by] = m.key
    BY DEF TypeOK, RequestInv, WaitedFor, Request
  <1>1. TypeOK'
    BY <1>0 DEF TypeOK, Locked, Request
  <1>2. Roles' /\ LockInv'
    BY <1>0 DEF TypeOK, Roles, OwnerSteps, WorkerSteps, LockInv, Procs, Locked
  <1>3. StepInv'
    BY <1>0 DEF TypeOK, StepInv, StepOk, Request
  <1>4. RequestInv'
    BY <1>0 DEF TypeOK, RequestInv, WaitedFor, Request
  <1>5. KeyInv'
    BY <1>0 DEF TypeOK, KeyInv, LateChargeNeedsTheCard, Request
  <1> QED
    BY <1>1, <1>2, <1>3, <1>4, <1>5

\* A request nobody waits for is answered or refused.
LEMMA DropKeeps ==
  ASSUME IInv, NEW m \in requests, requests' = requests \ {m},
         UNCHANGED <<state, key, lock, pc, held, pgKey>>
  PROVE  IInv'
  <1> USE DEF IInv
  <1>1. TypeOK' /\ Roles' /\ LockInv' /\ StepInv'
    BY DEF TypeOK, Roles, LockInv, StepInv, StepOk
  <1>2. RequestInv' /\ KeyInv'
    BY DEF RequestInv, WaitedFor, KeyInv, LateChargeNeedsTheCard
  <1> QED
    BY <1>1, <1>2

LEMMA PgCaptureKeeps == ASSUME IInv, NEW m \in requests, PgCapture(m) PROVE IInv'
  <1>1. CASE m.by = None
    BY <1>1, DropKeeps DEF PgCapture
  <1>2. CASE m.by # None
    <2>1. m.by \in Procs /\ pc[m.by] = "charging"
      BY <1>2 DEF PgCapture, IInv, TypeOK, RequestInv, WaitedFor, Request
    <2>2. \A n \in requests' : n \in requests /\ n.by # m.by
      BY <1>2 DEF PgCapture, IInv, RequestInv
    <2>3. requests' \subseteq Request
      BY <2>2 DEF IInv, TypeOK
    <2> QED
      BY <1>2, <2>1, <2>2, <2>3, ChargeEnds DEF PgCapture
  <1> QED
    BY <1>1, <1>2

LEMMA PgRefuseKeeps == ASSUME IInv, NEW m \in requests, PgRefuse(m) PROVE IInv'
  <1>1. CASE m.by = None
    BY <1>1, DropKeeps DEF PgRefuse
  <1>2. CASE m.by # None
    <2>1. m.by \in Procs /\ (m.type = "charge" => pc[m.by] = "charging")
      BY <1>2 DEF IInv, TypeOK, RequestInv, WaitedFor, Request
    <2>2. \A n \in requests' : n \in requests /\ n.by # m.by
      BY <1>2 DEF PgRefuse, IInv, RequestInv
    <2>3. requests' \subseteq Request
      BY <2>2 DEF IInv, TypeOK
    <2>4. CASE m.type = "charge"
      BY <1>2, <2>1, <2>2, <2>3, <2>4, ChargeEnds DEF PgRefuse
    <2>5. CASE m.type # "charge"
      <3>1. Leave(m.by) /\ UNCHANGED <<state, key, pgKey>>
        BY <1>2, <2>5 DEF PgRefuse
      <3> QED
        BY <2>1, <2>2, <2>3, <3>1, StopKeeps
    <2> QED
      BY <2>4, <2>5
  <1> QED
    BY <1>1, <1>2

-------------------------------------------------------------------------------
(* Every step keeps the invariant. *)

LEMMA ForsakenKept ==
  ASSUME IInv, NEW p \in Procs, requests' = Forsaken(p)
  PROVE  /\ requests' \subseteq Request
         /\ \A m \in requests' : \/ m \in requests /\ m.by # p
                                 \/ /\ m.by = None
                                    /\ \E n \in requests : n.type = m.type /\ n.key = m.key
  BY ForsakenRequests DEF IInv, TypeOK

LEMMA CrashKeeps == ASSUME IInv, NEW p \in Procs, Crash(p) PROVE IInv'
  BY ForsakenKept, StopKeeps DEF Crash

LEMMA TimeoutKeeps == ASSUME IInv, NEW p \in Procs, Timeout(p) PROVE IInv'
  <1>1. CASE pc[p] = "charging"
    BY <1>1, ForsakenKept, ChargeEnds DEF Timeout
  <1>2. CASE pc[p] # "charging"
    BY <1>2, ForsakenKept, StopKeeps DEF Timeout
  <1> QED
    BY <1>1, <1>2

LEMMA AskKeeps ==
  ASSUME IInv, NEW p \in Procs, NEW op, Ask(p, op),
         op \in IF p \in Owners THEN {"register", "expire"} ELSE {"charge"}
  PROVE  IInv'
  BY GoesOn DEF Ask, OwnerSteps, WorkerSteps, Locked, IInv, TypeOK

LEMMA EnterKeeps == ASSUME IInv, NEW p \in Procs, Enter(p) PROVE IInv'
  <1>1. pc[p] \in IF p \in Owners THEN {"register", "expire"} ELSE {"charge"}
    BY ProcsAssumption DEF Enter, Waiting, IInv, Roles, OwnerSteps, WorkerSteps, Procs
  <1>2. First(pc[p]) \in IF p \in Owners THEN {"checking", "revoking"} ELSE {"reading"}
    BY <1>1 DEF First
  <1>3. pc' = [pc EXCEPT ![p] = First(pc[p])]
    BY DEF Enter
  <1> QED
    BY <1>1, <1>2, <1>3, GoesOn DEF Enter, OwnerSteps, WorkerSteps, IInv, TypeOK, Waiting

LEMMA OwnerKeeps == ASSUME IInv, NEW p \in Owners, OwnerNext(p) PROVE IInv'
  <1>0. p \in Procs
    BY DEF Procs
  <1>1. CASE RefuseRegistration(p)
    BY <1>0, <1>1, EndKeeps DEF RefuseRegistration
  <1>2. CASE SendRegist(p)
    <2> DEFINE m == [type |-> "regist", by |-> p, key |-> None, order |-> None]
    <2>1. m \in Request
      BY <1>0 DEF Request
    <2> QED
      BY <1>0, <1>2, <2>1, SendKeeps DEF SendRegist, Send, Locked
  <1>3. CASE SaveKey(p)
    BY <1>3, SaveKeyKeeps
  <1>4. CASE NothingToExpire(p)
    BY <1>0, <1>4, EndKeeps DEF NothingToExpire
  <1>5. CASE Revoke(p)
    BY <1>5, RevokeKeeps
  <1>6. CASE CryptoUnavailable(p)
    BY <1>0, <1>6, EndKeeps DEF CryptoUnavailable
  <1>7. CASE SendDelete(p)
    <2> DEFINE m == [type |-> "delete", by |-> p, key |-> held[p], order |-> None]
    <2>1. held[p] = key /\ state = "expire_pending" /\ key \in Keys
      BY <1>0, <1>7 DEF SendDelete, IInv, StepInv, StepOk, TypeOK
    <2>2. m \in Request
      BY <1>0, <2>1 DEF Request
    <2> QED
      BY <1>0, <1>7, <2>1, <2>2, SendKeeps DEF SendDelete, Send, Locked
  <1>8. CASE SaveExpired(p)
    BY <1>8, SaveExpiredKeeps
  <1> QED
    BY <1>1, <1>2, <1>3, <1>4, <1>5, <1>6, <1>7, <1>8 DEF OwnerNext

LEMMA WorkerKeeps == ASSUME IInv, NEW w \in Workers, WorkerNext(w) PROVE IInv'
  <1>0. w \in Procs /\ w \notin Owners
    BY ProcsAssumption DEF Procs
  <1>1. CASE SkipCard(w)
    BY <1>0, <1>1, EndKeeps DEF SkipCard
  <1>2. CASE ReadCard(w)
    <2>1. lock = w /\ lock' = w
      BY <1>0, <1>2 DEF ReadCard, IInv, LockInv, Locked
    <2>2. held' \in [Procs -> Keys \cup {None}] /\ held'[w] = key
          /\ \A q \in Procs : q # w => held'[q] = held[q]
      BY <1>0, <1>2 DEF ReadCard, IInv, TypeOK
    <2> QED
      BY <1>0, <1>2, <2>1, <2>2, GoesOn DEF ReadCard, WorkerSteps
  <1>3. CASE Yield(w)
    BY <1>0, <1>3, EndKeeps DEF Yield
  <1>4. CASE NotSent(w)
    <2>1. lock = w /\ lock' = w
      BY <1>0, <1>4 DEF NotSent, IInv, LockInv, Locked
    <2> QED
      BY <1>0, <1>4, <2>1, GoesOn DEF NotSent, WorkerSteps, IInv, TypeOK
  <1>5. CASE Finish(w)
    BY <1>0, <1>5, EndKeeps DEF Finish
  <1>6. ASSUME NEW o \in Orders, SendCharge(w, o) PROVE IInv'
    <2> DEFINE m == [type |-> "charge", by |-> w, key |-> held[w], order |-> o]
    <2>1. held[w] = key /\ state = "active" /\ key \in Keys
      BY <1>0, <1>6 DEF SendCharge, IInv, StepInv, StepOk, TypeOK
    <2>2. m \in Request
      BY <1>0, <2>1 DEF Request
    <2> QED
      BY <1>0, <1>6, <2>1, <2>2, SendKeeps DEF SendCharge, Send, Locked
  <1> QED
    BY <1>1, <1>2, <1>3, <1>4, <1>5, <1>6 DEF WorkerNext

LEMMA StepKeeps == IInv /\ [Next]_cardvars => IInv'
  <1> SUFFICES ASSUME IInv, [Next]_cardvars PROVE IInv'
    OBVIOUS
  <1>1. CASE UNCHANGED cardvars
    BY <1>1 DEF cardvars, IInv, TypeOK, Roles, LockInv, StepInv, StepOk, RequestInv, WaitedFor,
                KeyInv, LateChargeNeedsTheCard
  <1>2. ASSUME NEW p \in Owners, Ask(p, "register") \/ Ask(p, "expire") PROVE IInv'
    BY <1>2, AskKeeps DEF Procs
  <1>3. ASSUME NEW w \in Workers, Ask(w, "charge") PROVE IInv'
    BY <1>3, AskKeeps, ProcsAssumption DEF Procs
  <1>4. ASSUME NEW p \in Procs, Enter(p) \/ Work(p) \/ Crash(p) PROVE IInv'
    BY <1>4, EnterKeeps, OwnerKeeps, WorkerKeeps, TimeoutKeeps, CrashKeeps DEF Work
  <1>5. CASE PgNext
    BY <1>5, PgRegistKeeps, PgDeleteKeeps, PgCaptureKeeps, PgRefuseKeeps DEF PgNext
  <1> QED
    BY <1>1, <1>2, <1>3, <1>4, <1>5 DEF Next

-------------------------------------------------------------------------------
(* The theorems. *)

\* The row, the lock, the operations and the PG's keys and requests keep their types; the
\* row holds a key exactly when it is active or on its way to being revoked.
THEOREM Typing == Spec => []TypeOK
  BY InitInv, StepKeeps, PTL DEF Spec, IInv

\* Whatever the owner asks for meanwhile, autocharge_tick charges the card that is active
\* from the moment it read it until its charge is over.
THEOREM WorkersChargeTheActiveCard == Spec => []ChargesUseTheActiveCard
  <1>1. IInv => ChargesUseTheActiveCard
    BY DEF IInv, StepInv, StepOk, ChargesUseTheActiveCard, Procs
  <1> QED
    BY <1>1, InitInv, StepKeeps, PTL DEF Spec

\* A charge that timed out and is still on its way finds its key deleted once the
\* revocation is complete.
THEOREM LateChargesFindTheCard == Spec => []LateChargeNeedsTheCard
  BY InitInv, StepKeeps, PTL DEF Spec, IInv, KeyInv

\* No key is dropped from the row before the PG has deleted it.
THEOREM KeysAreDeletedFirst == Spec => DroppedKeyIsDeleted
  <1>1. IInv /\ [Next]_cardvars => [key # None /\ key' # key => pgKey[key] = "deleted"]_cardvars
    <2> SUFFICES ASSUME IInv, Next, key # None, key' # key PROVE pgKey[key] = "deleted"
      OBVIOUS
    <2>1. PICK p \in Owners : SaveKey(p) \/ SaveExpired(p)
      BY DEF Next, Ask, Enter, Work, OwnerNext, RefuseRegistration, SendRegist, NothingToExpire,
             Revoke, CryptoUnavailable, SendDelete, WorkerNext, SkipCard, ReadCard, Yield, NotSent,
             Finish, SendCharge, Timeout, Crash, PgNext, PgRegist, PgDelete, PgCapture, PgRefuse
    <2>2. StepOk(p) /\ TypeOK
      BY DEF IInv, StepInv, Procs
    <2> QED
      BY <2>1, <2>2 DEF StepOk, SaveKey, SaveExpired, TypeOK
  <1> QED
    BY <1>1, InitInv, StepKeeps, PTL DEF Spec, DroppedKeyIsDeleted
===============================================================================
