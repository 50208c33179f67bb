----------------------------- MODULE CandidateMatch -----------------------------
(* The recommendation of candidates for a product (routes_products.py): which of the     *)
(* pool are offered, and what an AI says of their fit, from a cache where it was asked    *)
(* before.  Calls of one brand wait for each other; the profile of the product and the    *)
(* rows of the pool change meanwhile, a call is cut off, and a day ends.                  *)
EXTENDS Naturals, FiniteSets

CONSTANTS
  Calls,       \* calls in flight at once
  Candidates,
  PerCall,     \* AI_MATCH_MAX_CANDIDATES
  DailyCap,    \* AI_MATCH_DAILY_CAP
  MaxDay,      \* bound: days
  MaxVersion,  \* bound: versions of the profile and of a row
  None

VARIABLES
  day,
  profile,   \* the latest version of the product's profile
  row,       \* what the pool has of each candidate, by version
  out,       \* candidates that opted out of this brand's mail, or are excluded
  scores,    \* candidate_ai_scores: of which version of the row, by profile and candidate
  usage,     \* candidate_ai_usage: the sum of the rows made on a day or later
  lock,      \* the call that holds the brand's lock
  call,
  asks,      \* history: evaluations asked for, by the day their call began
  cut,       \* history: a call was cut off while it asked
  known,     \* history: what was evaluated
  twice,     \* history: something was evaluated again
  older      \* history: a score was written over by one of an older row

mvars == <<day, profile, row, out, scores, usage, lock, call, asks, cut, known, twice, older>>

Days == 1..MaxDay
Versions == 1..MaxVersion

\* rows: the version of each candidate that was read, 0 where none was; batch: those the
\* AI is asked about; shown: the version each score tells of, 0 where there is none.
Call == [step : {"read", "asking", "done"}, day : Days, profile : Versions,
         rows : [Candidates -> Versions \cup {0}], batch : SUBSET Candidates,
         shown : [Candidates -> Versions \cup {0}]]

TypeOK ==
  /\ day \in Days /\ profile \in Versions /\ row \in [Candidates -> Versions]
  /\ out \subseteq Candidates
  /\ scores \in [Versions -> [Candidates -> Versions \cup {0}]]
  /\ usage \in [Days -> Nat] /\ asks \in [Days -> Nat]
  /\ lock \in Calls \cup {None}
  /\ call \in [Calls -> Call \cup {None}]
  /\ known \subseteq Versions \X Candidates \X Versions
  /\ cut \in BOOLEAN /\ twice \in BOOLEAN /\ older \in BOOLEAN

At(i, step) == call[i] # None /\ call[i].step = step
Least(m, n) == IF m < n THEN m ELSE n

-------------------------------------------------------------------------------
(* A call *)

\* product_candidates reads the profile, and the rows of those who may be written to.
Read(i) ==
  /\ call[i] = None \/ At(i, "done")
  /\ call' = [call EXCEPT ![i] =
       [step |-> "read", day |-> day, profile |-> profile, batch |-> {},
        rows |-> [c \in Candidates |-> IF c \in out THEN 0 ELSE row[c]],
        shown |-> [c \in Candidates |-> 0]]]
  /\ UNCHANGED <<day, profile, row, out, scores, usage, lock, asks, cut, known, twice, older>>

\* A score counts when it was made from the very row the call read.
Cached(i) ==
  {c \in Candidates : call[i].rows[c] # 0 /\ scores[call[i].profile][c] = call[i].rows[c]}

\* created_at is when a transaction began; of later days, those that overtook it count.
UsedToday(i) == usage[call[i].day]

\* As many as one call, and the day, leaves room for.
Room(i) == IF UsedToday(i) >= DailyCap THEN 0 ELSE Least(PerCall, DailyCap - UsedToday(i))

\* Those that were not evaluated, and how many of them are asked about.
Fresh(i) == {c \in Candidates \ Cached(i) : call[i].rows[c] # 0}
Size(i) == Least(Room(i), Cardinality(Fresh(i)))

\* What the cache tells of the others.
FromCache(i) == [c \in Candidates |-> IF c \in Cached(i) THEN scores[call[i].profile][c] ELSE 0]
Looked(i, step, b) == [call[i] EXCEPT !.step = step, !.batch = b, !.shown = FromCache(i)]

\* _ai_annotate takes the lock, and reads the cache and the usage of the day.  Those that
\* were not evaluated are asked about, in any order, as far as there is room.
TakeLock(i) ==
  /\ At(i, "read") /\ lock = None
  /\ \/ /\ Size(i) = 0
        /\ call' = [call EXCEPT ![i] = Looked(i, "done", {})]
        /\ UNCHANGED <<lock, asks>>
     \/ /\ Size(i) # 0
        /\ \E b \in SUBSET Fresh(i) :
             /\ Cardinality(b) = Size(i)
             /\ call' = [call EXCEPT ![i] = Looked(i, "asking", b)]
        /\ lock' = i
        /\ asks' = [asks EXCEPT ![call[i].day] = @ + Size(i)]
  /\ UNCHANGED <<day, profile, row, out, scores, usage, cut, known, twice, older>>

\* The AI fails, or tells of some of those it was asked about: each is stored with the row
\* that was read.  The usage, which was inserted before, is committed in any case.
Answer(i, told) ==
  /\ At(i, "asking") /\ told \subseteq call[i].batch
  /\ LET v == call[i].profile
         new == {<<v, c, call[i].rows[c]>> : c \in told}
     IN  /\ scores' = [scores EXCEPT ![v] = [c \in Candidates |->
                         IF c \in told THEN call[i].rows[c] ELSE scores[v][c]]]
         /\ older' = (older \/ \E c \in told : scores[v][c] > call[i].rows[c])
         /\ twice' = (twice \/ known \cap new # {})
         /\ known' = known \cup new
  /\ call' = [call EXCEPT ![i] = [@ EXCEPT !.step = "done", !.shown =
       [c \in Candidates |-> IF c \in told THEN call[i].rows[c] ELSE call[i].shown[c]]]]
  /\ usage' = [d \in Days |->
       IF d <= call[i].day THEN usage[d] + Cardinality(call[i].batch) ELSE usage[d]]
  /\ lock' = None
  /\ UNCHANGED <<day, profile, row, out, asks, cut>>

\* The process ends, once (a bound): nothing of the call is committed, its usage neither.
CutOff(i) ==
  /\ At(i, "asking") /\ ~cut
  /\ call' = [call EXCEPT ![i] = None]
  /\ lock' = None /\ cut' = TRUE
  /\ UNCHANGED <<day, profile, row, out, scores, usage, asks, known, twice, older>>

-------------------------------------------------------------------------------
(* What happens meanwhile *)

\* save_product_profile
SaveProfile ==
  /\ profile < MaxVersion /\ profile' = profile + 1
  /\ UNCHANGED <<day, row, out, scores, usage, lock, call, asks, cut, known, twice, older>>

\* An import or the harvest writes the row of a candidate.
WriteRow(c) ==
  /\ row[c] < MaxVersion /\ row' = [row EXCEPT ![c] = @ + 1]
  /\ UNCHANGED <<day, profile, out, scores, usage, lock, call, asks, cut, known, twice, older>>

OptOut(c) ==
  /\ c \notin out /\ out' = out \cup {c}
  /\ UNCHANGED <<day, profile, row, scores, usage, lock, call, asks, cut, known, twice, older>>

Midnight ==
  /\ day < MaxDay /\ day' = day + 1
  /\ UNCHANGED <<profile, row, out, scores, usage, lock, call, asks, cut, known, twice, older>>

MInit ==
  /\ day = 1 /\ profile = 1 /\ row = [c \in Candidates |-> 1] /\ out = {}
  /\ scores = [v \in Versions |-> [c \in Candidates |-> 0]]
  /\ usage = [d \in Days |-> 0] /\ asks = usage
  /\ lock = None /\ call = [i \in Calls |-> None]
  /\ cut = FALSE /\ known = {} /\ twice = FALSE /\ older = FALSE

MNext ==
  \/ \E i \in Calls :
       \/ Read(i) \/ TakeLock(i) \/ CutOff(i)
       \/ \E told \in SUBSET Candidates : Answer(i, told)
  \/ \E c \in Candidates : WriteRow(c) \/ OptOut(c)
  \/ SaveProfile \/ Midnight

-------------------------------------------------------------------------------
\* The evaluations that were counted for a day.
Counted(d) == IF d + 1 \in Days THEN usage[d] - usage[d + 1] ELSE usage[d]

\* No more evaluations than the cap are asked for on behalf of a day, however the calls of
\* a brand overlap (routes_products.py:333); those of a call that was cut off are not known.
CapPerDay == \A d \in Days : Counted(d) <= DailyCap /\ (asks[d] <= DailyCap \/ cut)

\* The fit that is shown was judged from the row the call read (routes_products.py:371).
ShownFitsTheRow ==
  \A i \in Calls : At(i, "done") =>
    \A c \in Candidates : call[i].shown[c] \in {0, call[i].rows[c]}

\* What was evaluated once is not paid for again, unless a call that had read an older row
\* wrote over the score of a newer one.
EvaluatedOnce == twice => older

\* One call asks at a time, with the lock, for what the cache did not have when it took the
\* lock and has not since, and for what the day has room for.
AskingInv ==
  /\ \A i \in Calls : At(i, "asking") =>
       /\ lock = i
       /\ \A c \in call[i].batch : call[i].rows[c] \notin {0, scores[call[i].profile][c]}
       /\ usage[call[i].day] + Cardinality(call[i].batch) <= DailyCap

\* What is asked for on behalf of a day is counted for it, or is being asked.
AsksInv ==
  /\ \A d \in Days : d + 1 \in Days => usage[d + 1] <= usage[d]
  /\ \A d \in Days : ~cut => asks[d] = Counted(d) +
       (IF lock # None /\ call[lock].day = d THEN Cardinality(call[lock].batch) ELSE 0)
  /\ lock # None => At(lock, "asking")

\* What was evaluated is in the cache, or was written over.
KnownInv == ~older => \A k \in known : scores[k[1]][k[2]] >= k[3]

\* What a call shows so far was read as it is.
ShownInv ==
  \A i \in Calls : call[i] # None =>
    \A c \in Candidates : call[i].shown[c] \in {0, call[i].rows[c]}
===============================================================================
