------------------------------ MODULE SessionEpoch ------------------------------
(* The epoch of an account's sessions: a reset of the password raises it in the    *)
(* database, and every request compares the epoch its token was issued with to the *)
(* one its process remembers.  A process remembers an epoch for Ttl, counted from  *)
(* before it asked the database; a reset drops what its own process remembers, and *)
(* then goes on to commit.                                                         *)
EXTENDS Naturals

CONSTANTS
  Processes,   \* API processes: each has its own cache
  Requests,    \* bound: requests at a time
  Ttl,
  MaxEpoch,    \* bound: resets
  MaxTime,     \* bound: the clock
  None

VARIABLES
  now,
  since,     \* when each epoch was committed; the highest is the account's
  resetting, \* the process whose reset is not committed yet
  cache,     \* _epoch_cache of each process: an epoch and its time
  request    \* each request: its process, when it began, its token's epoch, what it found

evars == <<now, since, resetting, cache, request>>

Epochs == 0..MaxEpoch
Epoch == CHOOSE e \in Epochs : since[e] # None /\ \A d \in Epochs : since[d] # None => d <= e

Entry == [epoch : Epochs, at : 0..MaxTime]
Request == [process : Processes, began : 0..MaxTime, token : Epochs,
            found : Epochs \cup {None}, done : BOOLEAN]

TypeOK ==
  /\ now \in 0..MaxTime
  /\ since \in [Epochs -> (0..MaxTime) \cup {None}]
  /\ resetting \in Processes \cup {None}
  /\ cache \in [Processes -> Entry \cup {None}]
  /\ request \in [Requests -> Request \cup {None}]

-------------------------------------------------------------------------------
Tick ==
  /\ now < MaxTime /\ now' = now + 1
  /\ UNCHANGED <<since, resetting, cache, request>>

\* reset_confirm: the row is raised, the cache of this process forgets, and the ledger is
\* written before the transaction ends.  The row keeps a second reset waiting.
Reset(p) ==
  /\ resetting = None /\ Epoch < MaxEpoch
  /\ resetting' = p
  /\ cache' = [cache EXCEPT ![p] = None]
  /\ UNCHANGED <<now, since, request>>

CommitReset ==
  /\ resetting # None
  /\ since' = [since EXCEPT ![Epoch + 1] = now]
  /\ resetting' = None
  /\ UNCHANGED <<now, cache, request>>

AbortReset ==
  /\ resetting # None /\ resetting' = None
  /\ UNCHANGED <<now, since, cache, request>>

-------------------------------------------------------------------------------
Fresh(p) == cache[p] # None /\ now < cache[p].at + Ttl

Begun(p, token) ==
  [process |-> p, began |-> now, token |-> token, done |-> Fresh(p),
   found |-> IF Fresh(p) THEN cache[p].epoch ELSE None]

\* A request with a token that was issued under an epoch that exists.
Begin(r, p, token) ==
  /\ request[r] = None /\ since[token] # None
  /\ request' = [request EXCEPT ![r] = Begun(p, token)]
  /\ UNCHANGED <<now, since, resetting, cache>>

Asking(r, answered) ==
  request[r] # None /\ ~request[r].done /\ (request[r].found # None) = answered

\* The query sees what is committed.
Query(r) ==
  /\ Asking(r, FALSE)
  /\ request' = [request EXCEPT ![r].found = Epoch]
  /\ UNCHANGED <<now, since, resetting, cache>>

\* The entry is dated when the request began, and overwrites a newer one.
Remember(r) ==
  /\ Asking(r, TRUE)
  /\ cache' = [cache EXCEPT ![request[r].process] =
                 [epoch |-> request[r].found, at |-> request[r].began]]
  /\ request' = [request EXCEPT ![r].done = TRUE]
  /\ UNCHANGED <<now, since, resetting>>

\* The answer is sent: a token of another epoch than the found one is refused.
Answer(r) ==
  /\ request[r] # None /\ request[r].done
  /\ request' = [request EXCEPT ![r] = None]
  /\ UNCHANGED <<now, since, resetting, cache>>

\* A process is restarted: it remembers nothing, its requests and its reset are lost.
Restart(p) ==
  /\ cache' = [cache EXCEPT ![p] = None]
  /\ request' = [r \in Requests |-> IF request[r] # None /\ request[r].process = p
                                    THEN None ELSE request[r]]
  /\ resetting' = IF resetting = p THEN None ELSE resetting
  /\ UNCHANGED <<now, since>>

-------------------------------------------------------------------------------
EInit ==
  /\ now = 0
  /\ since = [e \in Epochs |-> IF e = 0 THEN 0 ELSE None]
  /\ resetting = None
  /\ cache = [p \in Processes |-> None]
  /\ request = [r \in Requests |-> None]

ENext ==
  \/ Tick \/ CommitReset \/ AbortReset
  \/ \E p \in Processes : Reset(p) \/ Restart(p)
  \/ \E r \in Requests :
       \/ \E p \in Processes, e \in Epochs : Begin(r, p, e)
       \/ Query(r) \/ Remember(r) \/ Answer(r)

ESpec == EInit /\ [][ENext]_evars

-------------------------------------------------------------------------------
(* Properties *)

Judged == {r \in Requests : request[r] # None /\ request[r].done}
Accepted(r) == request[r].token = request[r].found

\* No request that begins Ttl after a reset is let in with a session from before it, in
\* whatever process, however long a query took and whatever was remembered meanwhile.
RevokedWithinTtl ==
  \A r \in Judged, e \in Epochs :
    Accepted(r) /\ since[e] # None /\ request[r].token < e => request[r].began < since[e] + Ttl

\* A session from after the reset is refused no longer than that either: the login page
\* that sends the owner on may meet a process that still remembers the epoch before.
NewSessionWithinTtl ==
  \A r \in Judged :
    ~Accepted(r) /\ request[r].found < request[r].token => request[r].began < since[request[r].token] + Ttl

\* The epochs that exist are the first ones, and a reset that goes on has one to raise to.
EpochInv ==
  \E e \in Epochs :
    /\ \A d \in Epochs : since[d] # None <=> d <= e
    /\ resetting # None => e < MaxEpoch

\* No later epoch existed before that time.
HeldAt(epoch, time) ==
  \A e \in Epochs : epoch < e /\ since[e] # None => time <= since[e]

\* What is remembered was the account's when the entry is dated; what a query found, when
\* the request began; and what a request took from the cache, less than Ttl before.
HeldInv ==
  /\ \A e \in Epochs : since[e] # None => since[e] <= now
  /\ \A p \in Processes : cache[p] # None =>
       cache[p].at <= now /\ HeldAt(cache[p].epoch, cache[p].at)
  /\ \A r \in Requests : request[r] # None =>
       /\ since[request[r].token] # None
       /\ request[r].began <= now
       /\ request[r].done => request[r].found # None
       /\ request[r].found # None /\ ~request[r].done => HeldAt(request[r].found, request[r].began)
       /\ request[r].found # None =>
            \A e \in Epochs : request[r].found < e /\ since[e] # None =>
              request[r].began < since[e] + Ttl
===============================================================================
