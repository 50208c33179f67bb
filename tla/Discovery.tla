-------------------------------- MODULE Discovery --------------------------------
(* The collector (services/harvest): workers that find accounts by hashtag, or from an     *)
(* account that was stored, the queue between them and the worker that fetches an account   *)
(* from the first vendor that has it, and the one that enriches what was stored.  They run   *)
(* one after the other, as jobs of one process, and share a daily budget and a detector of   *)
(* convergence; queues, detector and budget are in memory, the pool is in the database.      *)
EXTENDS Naturals, Sequences, FiniteSets

CONSTANTS
  Handles,
  Vendors,     \* 1..n, in the order in which they are asked
  Limit,       \* the daily budget
  Window,      \* window_size
  PerNew,      \* the rate is low below one new account in so many (new_rate_threshold)
  Streak,      \* streak_batches
  FanoutCap,   \* expand_fanout_cap
  MaxPosts,    \* bound: accounts looked at in a call, at most Window
  None

VARIABLES
  pool,       \* creator_pool: each account, and whether it was refreshed within 7 days
  enriched,   \* the accounts of the pool with an enrichment
  emitted,    \* _emitted of each discovering worker
  used,       \* DailyBudget.used
  window,     \* ConvergenceDetector: _window
  streak,     \* _streak, Streak once it has converged
  queues,     \* q.fetch, q.enrich, q.expand, and what was given up in q.dead_letter
  call,       \* run_seed or expand that is running: posts left, accounts emitted
  disabled,   \* vendors without quota
  few,      \* history: whether the last batch, and those before it, found few new ones
  missed      \* history: accounts that are deleted, or whose message an error lost

dvars == <<pool, enriched, emitted, used, window, streak, queues, call, disabled, few, missed>>

Workers == {"hashtag", "graph"}
Batch == 1..Streak

Queues == [fetch : Seq(Handles), enrich : SUBSET Handles, expand : SUBSET Handles,
           dead : SUBSET Handles]
Call == [by : Workers, left : 0..MaxPosts, count : 0..FanoutCap, new : 0..MaxPosts]

TypeOK ==
  /\ pool \in [Handles -> {"absent", "fresh", "stale"}]
  /\ enriched \subseteq {h \in Handles : pool[h] # "absent"}
  /\ emitted \in [Workers -> SUBSET Handles]
  /\ used \in 0..Limit /\ streak \in 0..Streak
  /\ window \in Seq(BOOLEAN) /\ Len(window) <= Window
  /\ queues \in Queues
  /\ call = None \/ call \in Call
  /\ disabled \subseteq Vendors
  /\ few \in [Batch -> BOOLEAN] /\ missed \subseteq Handles

Exists(h) == pool[h] # "absent"
Converged == streak = Streak
Observe(new) ==
  window' = IF Len(window) < Window THEN Append(window, new) ELSE Append(Tail(window), new)
News == {i \in DOMAIN window : window[i]}
Low == Cardinality(News) * PerNew < Len(window)

-------------------------------------------------------------------------------
(* workers.py *)

\* run_seed for the tags of a category, and expand for an account of q.expand.
RunSeed ==
  /\ call = None /\ ~Converged
  /\ call' = [by |-> "hashtag", left |-> MaxPosts, count |-> 0, new |-> 0]
  /\ UNCHANGED <<pool, enriched, emitted, used, window, streak, queues, disabled, few, missed>>

Expand(h) ==
  /\ call = None /\ h \in queues.expand
  /\ queues' = [queues EXCEPT !.expand = @ \ {h}]
  /\ call' = IF Converged THEN None
             ELSE [by |-> "graph", left |-> MaxPosts, count |-> 0, new |-> 0]
  /\ UNCHANGED <<pool, enriched, emitted, used, window, streak, disabled, few, missed>>

\* _consider: what this worker emitted before is passed over; what is new costs a unit of
\* the budget, and without one is left for a day on which it is found again.
Consider(h) ==
  /\ call # None /\ call.left > 0 /\ (call.by = "graph" => call.count < FanoutCap)
  /\ h \notin emitted[call.by] /\ Observe(~Exists(h))
  /\ IF Exists(h) \/ used = Limit
       THEN /\ call' = [call EXCEPT !.left = @ - 1, !.new = IF Exists(h) THEN @ ELSE @ + 1]
            /\ UNCHANGED <<used, emitted, queues>>
       ELSE /\ call' = [call EXCEPT !.left = @ - 1, !.new = @ + 1,
                                    !.count = IF call.by = "graph" THEN @ + 1 ELSE @]
            /\ used' = used + 1
            /\ emitted' = [emitted EXCEPT ![call.by] = @ \cup {h}]
            /\ queues' = [queues EXCEPT !.fetch = Append(@, h)]
  /\ UNCHANGED <<pool, enriched, streak, disabled, few, missed>>

\* The end of run_seed: end_batch.
EndSeed ==
  /\ call # None /\ call.by = "hashtag" /\ call' = None
  /\ streak' = IF Converged THEN streak ELSE IF Low THEN streak + 1 ELSE 0
  /\ few' = [i \in Batch |-> IF i = 1 THEN call.new * PerNew < Window ELSE few[i - 1]]
  /\ UNCHANGED <<pool, enriched, emitted, used, window, queues, disabled, missed>>

\* expand ends; or the source fails in the middle, and the batch is no batch.
EndCall ==
  /\ call # None /\ call' = None
  /\ UNCHANGED <<pool, enriched, emitted, used, window, streak, queues, disabled, few, missed>>

Rollover ==
  /\ used > 0 /\ used' = 0
  /\ UNCHANGED <<pool, enriched, emitted, window, streak, queues, call, disabled, few, missed>>

-------------------------------------------------------------------------------
(* pipeline.py, fetch.py *)

Enabled == Vendors \ disabled
Popped == [queues EXCEPT !.fetch = Tail(@)]
Fetch(h) == call = None /\ queues.fetch # <<>> /\ h = Head(queues.fetch)

SkipFresh(h) ==
  /\ Fetch(h) /\ pool[h] = "fresh" /\ queues' = Popped
  /\ UNCHANGED <<pool, enriched, emitted, used, window, streak, call, disabled, few, missed>>

\* fetch_profile: the vendors in turn; those before the one that answers, v, are limited,
\* have no quota left, and are not asked again, or fail.
Asked(v, quota) ==
  /\ quota \subseteq {u \in Enabled : u < v} /\ disabled' = disabled \cup quota

\* upsert, and messages for what comes next.
FetchOk(h, v, videos) ==
  /\ Fetch(h) /\ pool[h] # "fresh"
  /\ v \in Enabled /\ \E quota \in SUBSET Vendors : Asked(v, quota)
  /\ pool' = [pool EXCEPT ![h] = "fresh"]
  /\ queues' = [Popped EXCEPT !.enrich = @ \cup {h}, !.expand = IF videos THEN @ \cup {h} ELSE @]
  /\ UNCHANGED <<enriched, emitted, used, window, streak, call, few, missed>>

\* The account is gone, which no table is told; or the connection fails, which is no
\* VendorError: the error passes the router, and the message is lost.
FetchLost(h, v) ==
  /\ Fetch(h) /\ pool[h] # "fresh"
  /\ v \in Enabled /\ \E quota \in SUBSET Vendors : Asked(v, quota)
  /\ queues' = Popped /\ missed' = missed \cup {h}
  /\ UNCHANGED <<pool, enriched, emitted, used, window, streak, call, few>>

FetchFails(h) ==
  /\ Fetch(h) /\ pool[h] # "fresh"
  /\ \E quota \in SUBSET Enabled : disabled' = disabled \cup quota
  /\ queues' = [Popped EXCEPT !.dead = @ \cup {h}]
  /\ UNCHANGED <<pool, enriched, emitted, used, window, streak, call, few, missed>>

Reactivate(v) ==
  /\ v \in disabled /\ disabled' = disabled \ {v}
  /\ UNCHANGED <<pool, enriched, emitted, used, window, streak, queues, call, few, missed>>

\* EnrichWorker.handle; a service that verifies addresses may fail, and its error is not
\* caught.
Enrich(h, ok) ==
  /\ call = None /\ h \in queues.enrich
  /\ queues' = [queues EXCEPT !.enrich = @ \ {h}]
  /\ pool' = IF ok THEN [pool EXCEPT ![h] = "fresh"] ELSE pool
  /\ enriched' = IF ok THEN enriched \cup {h} ELSE enriched
  /\ missed' = IF ok THEN missed ELSE missed \cup {h}
  /\ UNCHANGED <<emitted, used, window, streak, call, disabled, few>>

Age(h) ==
  /\ pool[h] = "fresh" /\ pool' = [pool EXCEPT ![h] = "stale"]
  /\ UNCHANGED <<enriched, emitted, used, window, streak, queues, call, disabled, few, missed>>

\* The process is started again.
Restart ==
  /\ emitted' = [w \in Workers |-> {}] /\ used' = 0 /\ window' = <<>> /\ streak' = 0
  /\ queues' = [fetch |-> <<>>, enrich |-> {}, expand |-> {}, dead |-> {}]
  /\ call' = None /\ disabled' = {} /\ few' = [i \in Batch |-> FALSE]
  /\ missed' = missed \cup emitted["hashtag"] \cup emitted["graph"] \cup queues.enrich
  /\ UNCHANGED <<pool, enriched>>

-------------------------------------------------------------------------------
DInit ==
  /\ pool \in [Handles -> {"absent", "stale"}] /\ enriched = {h \in Handles : Exists(h)}
  /\ emitted = [w \in Workers |-> {}] /\ used = 0 /\ window = <<>> /\ streak = 0
  /\ queues = [fetch |-> <<>>, enrich |-> {}, expand |-> {}, dead |-> {}]
  /\ call = None /\ disabled = {} /\ few = [i \in Batch |-> FALSE] /\ missed = {}

DNext ==
  \/ RunSeed \/ EndSeed \/ EndCall \/ Rollover \/ Restart
  \/ \E h \in Handles :
       \/ Expand(h) \/ Consider(h) \/ SkipFresh(h) \/ FetchFails(h) \/ Age(h)
       \/ \E ok \in BOOLEAN : Enrich(h, ok)
       \/ \E v \in Vendors : FetchLost(h, v) \/ \E videos \in BOOLEAN : FetchOk(h, v, videos)
  \/ \E v \in Vendors : Reactivate(v)

DSpec == DInit /\ [][DNext]_dvars

-------------------------------------------------------------------------------
(* Properties *)

Waits(h) == {i \in DOMAIN queues.fetch : queues.fetch[i] = h}
Finders(h) == {w \in Workers : h \in emitted[w]}

\* Every account that was found is on its way, stored, given up in the dead letters, or
\* was missed: because it is deleted, or an error or a restart lost its message.
FindsAreAccounted ==
  \A w \in Workers : \A h \in emitted[w] \ missed :
    Exists(h) \/ h \in queues.dead \/ Waits(h) # {}

\* Every account of the pool is enriched, or about to be, unless its message was lost.
PoolIsEnriched == \A h \in Handles \ missed : Exists(h) => h \in enriched \cup queues.enrich

\* The search ends only when each of the last batches found few new accounts, whatever the
\* expansions between them found, and however often the search was begun anew.
ConvergedFoundLittle == Converged => \A i \in Batch : few[i]

\* The budget of a day is not spent twice on one account by one worker: what waits to be
\* fetched was emitted once by each.
EmittedOnce == \A h \in Handles : Cardinality(Waits(h)) <= Cardinality(Finders(h))

\* A call counts no more new accounts than the window still shows of it, and the batches
\* of a streak found few.
Looked == MaxPosts - call.left

CallInv ==
  call # None =>
    /\ call.by = "hashtag" => ~Converged
    /\ call.new <= Looked /\ Looked <= Len(window)
    /\ \E s \in SUBSET News :
         Cardinality(s) = call.new /\ \A i \in s : i > Len(window) - Looked

FewInv == \A i \in 1..streak : few[i]
===============================================================================
