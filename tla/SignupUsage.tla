------------------------------ MODULE SignupUsage ------------------------------
(***************************************************************************)
(* From a creator's login to the usage a brand pays for: join_brand and    *)
(* verify_creator (routes_identity.py) with the trigger of migration 010,  *)
(* as READ COMMITTED transactions that see what is committed, wait for     *)
(* each other's rows and append to the ledger before they commit.          *)
(***************************************************************************)
EXTENDS Naturals, Sequences, FiniteSets

CONSTANTS
  Txs,       \* database connections
  Users,     \* accounts of persons
  Creators,  \* creator ids, as drawn by uuid4
  Brands,
  Demos,     \* the demo brands among them
  None,      \* SQL NULL
  MaxEntries \* bound: the length of the ledger

VARIABLES
  account,   \* users.creator_id
  owner,     \* creators: the user a row was made for, None when there is no row
  verified,  \* creators.verified
  members,   \* memberships
  charged,   \* signup_usage
  job,       \* what each transaction does
  at,        \* where it is
  draft,     \* what it has written and not committed
  raced,     \* history: memberships whose join and verification overlapped
  entries, own, step, seen, rowLocks

lvars  == <<entries, own, step, seen, rowLocks>>
tables == <<account, owner, verified, members, charged>>
vars   == <<tables, job, at, draft, raced, lvars>>

Events ==
  [type : {"profile", "verified"}, creator : Creators, brand : {None}]
  \cup [type : {"joined"}, creator : Creators, brand : Brands]

L == INSTANCE Ledger

Idle == [type |-> "none", user |-> None, creator |-> None, brand |-> None]
Job ==
  {Idle} \cup
  [type : {"join"}, user : Users, creator : Creators \cup {None}, brand : Brands]
  \cup [type : {"verify"}, user : {None}, creator : Creators, brand : {None}]

Empty == [accounts |-> {}, verified |-> {}, members |-> {}, charged |-> {}]

Draft == [accounts : SUBSET (Users \X Creators), verified : SUBSET Creators,
          members : SUBSET (Creators \X Brands), charged : SUBSET (Creators \X Brands)]

Steps == {"idle", "find", "profile", "log_profile", "join", "update", "trigger", "log", "done"}

TablesTyped ==
  /\ account \in [Users -> Creators \cup {None}]
  /\ owner \in [Creators -> Users \cup {None}]
  /\ verified \subseteq Creators
  /\ members \subseteq Creators \X Brands
  /\ charged \subseteq Creators \X Brands
  /\ job \in [Txs -> Job]
  /\ at \in [Txs -> Steps]
  /\ draft \in [Txs -> Draft]
  /\ raced \subseteq Creators \X Brands

TypeOK == TablesTyped /\ L!TypeOK

Init ==
  /\ account = [u \in Users |-> None]
  /\ owner = [c \in Creators |-> None]
  /\ verified = {} /\ members = {} /\ charged = {} /\ raced = {}
  /\ job = [x \in Txs |-> Idle]
  /\ at = [x \in Txs |-> "idle"]
  /\ draft = [x \in Txs |-> Empty]
  /\ L!LInit

Others(x) == Txs \ {x}
Goto(x, s) == at' = [at EXCEPT ![x] = s]

-------------------------------------------------------------------------------
(* join_brand *)

Join(x, u, b) ==
  /\ L!Begin(x)
  /\ job' = [job EXCEPT ![x] = [type |-> "join", user |-> u, creator |-> None, brand |-> b]]
  /\ Goto(x, "find")
  /\ UNCHANGED <<tables, draft, raced>>

\* Ids that no committed or open row has.
Fresh == {c \in Creators : owner[c] = None /\ \A y \in Txs : job[y].creator # c}

\* _ensure_creator_row reads the account, and inserts a creator if it has none.
FindCreator(x) ==
  /\ at[x] = "find"
  /\ LET u == job[x].user IN
       \/ /\ account[u] # None
          /\ job' = [job EXCEPT ![x].creator = account[u]]
          /\ Goto(x, "join")
       \/ /\ account[u] = None
          /\ \E c \in Fresh : job' = [job EXCEPT ![x].creator = c]
          /\ Goto(x, "profile")
  /\ UNCHANGED <<tables, draft, raced, lvars>>

\* UPDATE users waits for another transaction's update of the same account, and
\* then overwrites it.
SaveCreator(x) ==
  /\ at[x] = "profile"
  /\ \A y \in Others(x) : \A a \in draft[y].accounts : a[1] # job[x].user
  /\ draft' = [draft EXCEPT ![x].accounts = {<<job[x].user, job[x].creator>>}]
  /\ Goto(x, "log_profile")
  /\ UNCHANGED <<tables, job, raced, lvars>>

Membership(x) == <<job[x].creator, job[x].brand>>

\* Mutant: a repeated join is logged like the first.
InsertMember_LogsAlways(x) ==
  /\ at[x] = "join"
  /\ \A y \in Others(x) : Membership(x) \notin draft[y].members
  /\ draft' = [draft EXCEPT ![x].members = {Membership(x)}]
  /\ Goto(x, "trigger")
  /\ UNCHANGED <<tables, job, raced, lvars>>

\* INSERT ... ON CONFLICT DO NOTHING: waits for an uncommitted twin; a membership
\* that exists is neither charged nor logged again.
InsertMember(x) ==
  /\ at[x] = "join"
  /\ \A y \in Others(x) : Membership(x) \notin draft[y].members
  /\ IF Membership(x) \in members
       THEN Goto(x, "done") /\ UNCHANGED draft
       ELSE /\ draft' = [draft EXCEPT ![x].members = {Membership(x)}]
            /\ Goto(x, "trigger")
  /\ UNCHANGED <<tables, job, raced, lvars>>

-------------------------------------------------------------------------------
(* verify_creator *)

Verify(x, c) ==
  /\ L!Begin(x)
  /\ owner[c] # None
  /\ job' = [job EXCEPT ![x] = [type |-> "verify", user |-> None, creator |-> c, brand |-> None]]
  /\ Goto(x, "update")
  /\ UNCHANGED <<tables, draft, raced>>

\* The row lock of the creator; the trigger fires when it was not verified before.
UpdateCreator(x) ==
  /\ at[x] = "update"
  /\ \A y \in Others(x) : job[x].creator \notin draft[y].verified
  /\ IF job[x].creator \in verified
       THEN Goto(x, "log") /\ UNCHANGED draft
       ELSE /\ draft' = [draft EXCEPT ![x].verified = {job[x].creator}]
            /\ Goto(x, "trigger")
  /\ UNCHANGED <<tables, job, raced, lvars>>

-------------------------------------------------------------------------------
(* record_verified_signup_usage: what it sees is committed, or its own *)

Chargeable(x) ==
  {m \in members \cup draft[x].members :
     /\ m[1] = job[x].creator
     /\ m[1] \in verified \cup draft[x].verified
     /\ m[2] \notin Demos}

\* What x would have to see and cannot: an open join of the creator it verifies, or
\* the open verification of the creator it joins.
Unseen(x) ==
  {m \in UNION {draft[y].members : y \in Others(x)} : m[1] \in draft[x].verified}
  \cup {m \in draft[x].members : \E y \in Others(x) : m[1] \in draft[y].verified}

Trigger(x) ==
  /\ at[x] = "trigger"
  /\ \A y \in Others(x) : draft[y].charged \cap Chargeable(x) = {}
  /\ draft' = [draft EXCEPT ![x].charged = Chargeable(x) \ charged]
  /\ raced' = raced \cup Unseen(x)
  /\ Goto(x, "log")
  /\ UNCHANGED <<tables, job, lvars>>

-------------------------------------------------------------------------------
(* The ledger, and the end of the transaction *)

\* Mutant: a join is logged under another type.
Event_Untyped(x) ==
  [type |-> job[x].type, creator |-> job[x].creator, brand |-> job[x].brand]

Event(x) ==
  IF at[x] = "log_profile"
    THEN [type |-> "profile", creator |-> job[x].creator, brand |-> None]
  ELSE [type |-> IF job[x].type = "join" THEN "joined" ELSE "verified",
        creator |-> job[x].creator, brand |-> job[x].brand]

Read(x) ==
  /\ at[x] \in {"log_profile", "log"}
  /\ L!ReadLast(x) \/ L!LockLast(x)
  /\ UNCHANGED <<tables, job, at, draft, raced>>

Write(x) ==
  /\ at[x] \in {"log_profile", "log"}
  /\ L!Insert(x, Event(x))
  /\ Goto(x, IF at[x] = "log_profile" THEN "join" ELSE "done")
  /\ UNCHANGED <<tables, job, draft, raced>>

Finish(x) ==
  /\ job' = [job EXCEPT ![x] = Idle]
  /\ draft' = [draft EXCEPT ![x] = Empty]
  /\ Goto(x, "idle")

\* The ledger's key refuses the append, or anything else fails: nothing is left.
RollBack(x) ==
  /\ L!Refuse(x) \/ L!Abort(x)
  /\ Finish(x)
  /\ UNCHANGED <<tables, raced>>

Commit(x) ==
  /\ at[x] = "done"
  /\ L!Commit(x)
  /\ account' = [u \in Users |->
       IF <<u, job[x].creator>> \in draft[x].accounts THEN job[x].creator ELSE account[u]]
  /\ owner' = [c \in Creators |->
       IF \E u \in Users : <<u, c>> \in draft[x].accounts THEN job[x].user ELSE owner[c]]
  /\ verified' = verified \cup draft[x].verified
  /\ members' = members \cup draft[x].members
  /\ charged' = charged \cup draft[x].charged
  /\ Finish(x)
  /\ UNCHANGED raced

-------------------------------------------------------------------------------
Next ==
  \E x \in Txs :
    \/ \E u \in Users, b \in Brands : Join(x, u, b)
    \/ \E c \in Creators : Verify(x, c)
    \/ FindCreator(x) \/ SaveCreator(x) \/ InsertMember(x)
    \/ UpdateCreator(x) \/ Trigger(x)
    \/ Read(x) \/ Write(x) \/ RollBack(x) \/ Commit(x)

Spec == Init /\ [][Next]_vars

-------------------------------------------------------------------------------
(* Properties *)

\* Only verified members of real brands are charged, although the trigger decides on
\* a snapshot while joins and verifications are open.
ChargedAreVerifiedMembers ==
  \A m \in charged : m \in members /\ m[1] \in verified /\ m[2] \notin Demos

\* The entries that tell a membership.
Told(es, m) == {e \in es : e.event = [type |-> "joined", creator |-> m[1], brand |-> m[2]]}

\* The ledger tells each membership once: a join and its entry are committed together,
\* a repeated join adds neither, a refused append takes its join with it.
LedgerTellsMembers ==
  \A m \in Creators \X Brands :
    Cardinality(Told(entries, m)) = IF m \in members THEN 1 ELSE 0

\* A verified membership of a real brand that is not charged comes from a join and a
\* verification that did not see each other, and from nothing else.
MissedOnlyInRace ==
  \A m \in members :
    m[1] \in verified /\ m[2] \notin Demos => m \in charged \/ m \in raced

\* What a transaction has written fits what it does and where it is, and one that has not
\* begun has written nothing.
JobFits(x) ==
  /\ step[x] = "idle" => at[x] = "idle"
  /\ at[x] = "idle" => own[x] = {}
  /\ at[x] \in {"find", "profile", "log_profile", "join"} => job[x].type = "join"
  /\ at[x] = "update" => job[x].type = "verify"
  /\ at[x] \notin {"idle", "find"} => job[x].creator \in Creators
  /\ at[x] \in {"idle", "find", "profile"} => draft[x].accounts = {}
  /\ draft[x].accounts # {} => job[x].type = "join"
  /\ at[x] \notin {"trigger", "log", "done"} =>
       draft[x].members = {} /\ draft[x].verified = {} /\ draft[x].charged = {}
  /\ at[x] = "trigger" => draft[x].charged = {}
  /\ at[x] \in {"trigger", "log"} /\ job[x].type = "join" => draft[x].members = {Membership(x)}
  /\ \A c \in draft[x].verified : job[x].type = "verify" /\ c = job[x].creator
  /\ \A m \in draft[x].members : job[x].type = "join" /\ m = Membership(x)

JobsInv == \A x \in Txs : JobFits(x)

\* A membership is written by one transaction, if it is not committed, and that transaction
\* has told it when it is done; a committed one is told once.
CommittedTold(m) ==
  IF m \in members THEN \E e \in entries : Told(entries, m) = {e} ELSE Told(entries, m) = {}
WrittenOnce(m) ==
  \A x \in Txs : m \in draft[x].members =>
    m \notin members /\ \A y \in Others(x) : m \notin draft[y].members
WriterTold(m, x) ==
  IF m \in draft[x].members /\ at[x] = "done"
    THEN \E e \in own[x] : Told(own[x], m) = {e}
    ELSE Told(own[x], m) = {}

EntriesInv ==
  \A m \in Creators \X Brands :
    CommittedTold(m) /\ WrittenOnce(m) /\ \A x \in Txs : WriterTold(m, x)

\* What the trigger charges is a verified member when its transaction commits.
ChargesInv ==
  \A x \in Txs : \A m \in draft[x].charged :
    /\ m \in members \cup draft[x].members
    /\ m[1] \in verified \cup draft[x].verified
    /\ m[2] \notin Demos

\* After its trigger a transaction charges all it makes a verified member of a real brand,
\* but for what it cannot see; and what two transactions make so together has been noted.
Triggered(x) == at[x] \in {"log", "done"}
TriggeredInv ==
  \A x \in Txs : Triggered(x) =>
    /\ \A m \in draft[x].members : m[1] \in verified /\ m[2] \notin Demos =>
         m \in charged \cup draft[x].charged \cup raced
    /\ \A m \in members : m[1] \in draft[x].verified /\ m[2] \notin Demos =>
         m \in charged \cup draft[x].charged \cup raced
    /\ \A y \in Others(x) : Triggered(y) =>
         \A m \in draft[x].members : m[1] \in draft[y].verified => m \in raced

\* join_brand's answer says that a member is charged once the verification is complete
\* (routes_identity.py:132).
VerifiedMembersAreCharged ==
  \A m \in members : m[1] \in verified /\ m[2] \notin Demos => m \in charged

\* docs/LAUNCH_ROADMAP.md:83 says that a brand does not pay again for a repeated
\* sign-up: no person is charged to a brand under two creator ids.
PersonIsChargedOnce ==
  \A m, n \in charged : m[2] = n[2] /\ owner[m[1]] = owner[n[1]] => m = n
===============================================================================
