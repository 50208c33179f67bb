------------------------------ MODULE Translation ------------------------------
(* The translation of one message of a community: the poster's own attempt, which   *)
(* holds no lock while it waits for the model and is stored whatever the row says   *)
(* by then; the runners, which take the row FOR UPDATE SKIP LOCKED; and the retry   *)
(* of a failed message, which holds the row through its attempt.  Messages share    *)
(* nothing, so the module follows one.                                              *)
EXTENDS Naturals

CONSTANTS
  Locales,      \* the languages the message is to be translated to
  Runners,      \* runner processes and retrying requests
  MaxAttempts,  \* MAX_TRANSLATION_ATTEMPTS
  MaxRetries    \* bound: manual retries

VARIABLES
  state,      \* translation_state of the committed row, "none" before it is stored
  attempts,   \* translation_attempts
  texts,      \* each locale: nothing yet, the tag that stands for one, a translation
  poster,     \* where the request that posts the message is
  work,       \* what each runner does with the row it holds
  retries

tvars == <<state, attempts, texts, poster, work, retries>>

Texts == [Locales -> {"missing", "tag", "text"}]

\* What ai.translate gives: a translation of some locales, or the tag in all of them; an
\* error gives nothing.
Results == [Locales -> {"missing", "text"}] \cup {[l \in Locales |-> "tag"]}
Nothing == [l \in Locales |-> "missing"]

TypeOK ==
  /\ state \in {"none", "pending", "done", "failed"}
  /\ attempts \in 0..MaxAttempts + 1 /\ retries \in 0..MaxRetries
  /\ texts \in Texts
  /\ poster \in {"idle", "translating", "gone"}
  /\ work \in [Runners -> {"none", "run", "retry"}]

Merge(old, new) == [l \in Locales |-> IF new[l] = "missing" THEN old[l] ELSE new[l]]

\* translation_complete: every locale, and no tag.
Complete(tr) == \A l \in Locales : tr[l] = "text"

Locked == \E r \in Runners : work[r] # "none"

-------------------------------------------------------------------------------
\* The original is committed before anything is translated.
Post ==
  /\ poster = "idle" /\ state = "none"
  /\ state' = "pending" /\ poster' = "translating"
  /\ UNCHANGED <<attempts, texts, work, retries>>

\* The answer of the model is merged into the row, and its own state overwrites the row's;
\* the update waits for whoever holds the row.
PosterStores(tr) ==
  /\ poster = "translating" /\ ~Locked
  /\ texts' = Merge(texts, tr)
  /\ state' = IF Complete(tr) THEN "done" ELSE "pending"
  /\ attempts' = 1 /\ poster' = "gone"
  /\ UNCHANGED <<work, retries>>

PosterDies ==
  /\ poster = "translating" /\ poster' = "gone"
  /\ UNCHANGED <<state, attempts, texts, work, retries>>

-------------------------------------------------------------------------------
RunnerTakes(r) ==
  /\ work[r] = "none" /\ state = "pending" /\ ~Locked
  /\ work' = [work EXCEPT ![r] = "run"]
  /\ UNCHANGED <<state, attempts, texts, poster, retries>>

Terminal == attempts + 1 >= MaxAttempts

Store(r, tr) == work' = [work EXCEPT ![r] = "none"] /\ texts' = Merge(texts, tr)

\* What was translated before is kept.
RunnerStores(r, tr) ==
  /\ work[r] = "run" /\ Store(r, tr)
  /\ state' = IF Complete(Merge(texts, tr)) THEN "done"
              ELSE IF Terminal THEN "failed" ELSE "pending"
  /\ attempts' = attempts + 1
  /\ UNCHANGED <<poster, retries>>

\* An error of the model counts as an attempt too.
RunnerFails(r) ==
  /\ work[r] = "run" /\ Store(r, Nothing)
  /\ state' = IF Terminal THEN "failed" ELSE "pending"
  /\ attempts' = attempts + 1
  /\ UNCHANGED <<poster, retries>>

\* Mutant: any message may be retried.
RetryTakes_Any(r) ==
  /\ work[r] = "none" /\ state # "none" /\ ~Locked
  /\ retries < MaxRetries /\ retries' = retries + 1
  /\ work' = [work EXCEPT ![r] = "retry"]
  /\ UNCHANGED <<state, attempts, texts, poster>>

\* retry_failed_translation: failed becomes pending inside the transaction that holds the
\* row; others see the outcome only.
RetryTakes(r) ==
  /\ work[r] = "none" /\ state = "failed" /\ ~Locked
  /\ retries < MaxRetries /\ retries' = retries + 1
  /\ work' = [work EXCEPT ![r] = "retry"]
  /\ UNCHANGED <<state, attempts, texts, poster>>

RetryStores(r, tr) ==
  /\ work[r] = "retry" /\ Store(r, tr)
  /\ state' = IF Complete(Merge(texts, tr)) THEN "done" ELSE "pending"
  /\ attempts' = 1
  /\ UNCHANGED <<poster, retries>>

RetryFails(r) ==
  /\ work[r] = "retry" /\ Store(r, Nothing)
  /\ state' = "pending" /\ attempts' = 1
  /\ UNCHANGED <<poster, retries>>

\* The process dies: the transaction rolls back and frees the row.
Dies(r) ==
  /\ work[r] # "none" /\ work' = [work EXCEPT ![r] = "none"]
  /\ UNCHANGED <<state, attempts, texts, poster, retries>>

-------------------------------------------------------------------------------
TInit ==
  /\ state = "none" /\ attempts = 0 /\ texts = Nothing
  /\ poster = "idle" /\ work = [r \in Runners |-> "none"] /\ retries = 0

Ends(r) ==
  RunnerFails(r) \/ RetryFails(r) \/ \E tr \in Results : RunnerStores(r, tr) \/ RetryStores(r, tr)

TNext ==
  \/ Post \/ PosterDies \/ \E tr \in Results : PosterStores(tr)
  \/ \E r \in Runners : RunnerTakes(r) \/ RetryTakes(r) \/ Ends(r) \/ Dies(r)

TSpec == TInit /\ [][TNext]_tvars

\* A tick of some runner comes round again and again, and its calls end; a process may die,
\* but not every time.  The request of the poster ends.
TFairness ==
  /\ WF_tvars(\E r \in Runners : RunnerTakes(r)) /\ SF_tvars(\E r \in Runners : Ends(r))
  /\ WF_tvars(PosterDies \/ \E tr \in Results : PosterStores(tr))

FairTSpec == TSpec /\ TFairness

-------------------------------------------------------------------------------
(* Properties *)

\* A message that counts as translated has a text in every language, no tag, whoever of the
\* poster, the runners and a retry wrote last and in whatever order.
DoneIsTranslated == state = "done" => Complete(texts)

\* ... and it stays so, but for the poster's late answer: one without a full translation
\* turns a message back that a runner, or a retry, had finished.
TurnedBackOnlyByPoster ==
  [][state = "done" /\ state' # "done" => poster = "translating" /\ poster' = "gone"]_tvars

\* No message waits for ever: in the end it is translated or given up, and the poster's
\* late answer costs it at most one round of attempts more.
TranslationSettles == state = "pending" ~> state \in {"done", "failed"}
===============================================================================
