------------------------------- MODULE TableParts ------------------------------
(* The tables and the engines among the parts of MCSurfaces, each with its inductive    *)
(* invariant: who decides, what is charged, mailed and paid, and which session is good, *)
(* for any number of accounts, brands, creators, tokens and requests, and any limits.   *)
(* What a table keeps is true only together with what the calls under way have read of  *)
(* it.  The invariant of each part adds that, and its steps keep it.                    *)
EXTENDS Surfaces, Naturals, Sequences, FiniteSetTheorems, WellFoundedInduction, TLAPS

-------------------------------------------------------------------------------
(* The collaborations of a campaign *)
C == INSTANCE Collab WITH
  Creators <- Names, Selections <- Ids, Capacity <- Bound.places, Offers <- Bound.offers,
  status <- v1, terms <- v2, select <- v3, reviewed <- v4

\* A row of campaign_terms.
TermsRow == [state : C!TermStates, proposed : Bound.offers, agreed : Bound.offers \cup {None},
             link : BOOLEAN, spark : BOOLEAN]

\* There are finitely many applicants, and a campaign has a number of places.
ASSUME CampaignAssumption ==
  /\ IsFiniteSet(Names) /\ Bound.places \in Nat
  /\ None \notin Bound.offers \cup TermsRow

\* FOR UPDATE lets one selection at a time have the campaign.
OneSelection == \A s, x \in Ids : v3[s] # None /\ v3[x] # None => s = x

\* What was counted is still true when the terms are inserted.
CountHolds ==
  \A s \in Ids : v3[s] # None /\ v3[s].step = "counted" /\ Bound.places > 0 =>
    Cardinality(C!Taken) < Bound.places

CollabInv == C!TypeOK /\ OneSelection /\ CountHolds /\ C!CapacityKept /\ C!WorkIsAgreed /\ C!ApplicationFollowsTerms

\* The size of a set is the same in this module and in Collab.
LEMMA SameSize == \A T : C!Cardinality(T) = Cardinality(T)
BY DEF C!Cardinality, Cardinality

\* There are finitely many places taken, before and after a step.
LEMMA TakenIsFinite ==
         /\ IsFiniteSet(C!Taken) /\ Cardinality(C!Taken) \in Nat
         /\ IsFiniteSet(C!Taken') /\ Cardinality(C!Taken') \in Nat
<1>1. C!Taken \subseteq Names /\ C!Taken' \subseteq Names
  BY DEF C!Taken
<1>2. IsFiniteSet(Names)
  BY CampaignAssumption
<1>. QED  BY <1>1, <1>2, FS_Subset, FS_CardinalityType

\* A step that gives no place away takes none more.
LEMMA RoomStays ==
  ASSUME C!Taken' \subseteq C!Taken
  PROVE  Cardinality(C!Taken') <= Cardinality(C!Taken)
<1>1. IsFiniteSet(C!Taken)
  BY TakenIsFinite
<1>. QED  BY <1>1, FS_Subset

\* One creator more takes one place more, at most.
LEMMA OnePlaceMore ==
  ASSUME NEW c, C!Taken' \subseteq C!Taken \cup {c}
  PROVE  Cardinality(C!Taken') <= Cardinality(C!Taken) + 1
<1>1. IsFiniteSet(C!Taken) /\ Cardinality(C!Taken) \in Nat /\ Cardinality(C!Taken') \in Nat
  BY TakenIsFinite
<1>2. /\ IsFiniteSet(C!Taken \cup {c})
      /\ \/ Cardinality(C!Taken \cup {c}) = Cardinality(C!Taken)
         \/ Cardinality(C!Taken \cup {c}) = Cardinality(C!Taken) + 1
  BY <1>1, FS_AddElement
<1>3. Cardinality(C!Taken') <= Cardinality(C!Taken \cup {c})
  BY <1>2, FS_Subset
<1>. QED  BY <1>1, <1>2, <1>3

\* A step on terms that are there leaves one row of them, another one at most, and no
\* place is given by it.
LEMMA TermsChange ==
  ASSUME CollabInv, NEW c \in Names, NEW r \in TermsRow,
         v2[c] # None, v2[c].state # "declined",
         v2' = [v2 EXCEPT ![c] = r], v3' = v3,
         v1' \in [Names -> C!Statuses], v4' = v4,
         \A x \in Names \ {c} : v1'[x] = v1[x],
         ~v4[c] => v1'[c] = C!Told[r.state],
         r.state \notin {"selected", "declined"} => r.agreed = r.proposed,
         r.link \/ r.spark => r.agreed # None
  PROVE  CollabInv'
<1>1. r # None
  BY CampaignAssumption
<1>2. C!TypeOK' /\ OneSelection'
  BY DEF CollabInv, C!TypeOK, OneSelection, TermsRow
<1>3. C!Taken' \subseteq C!Taken
  BY DEF CollabInv, C!TypeOK, C!Taken
<1>4. CountHolds' /\ C!CapacityKept'
  BY <1>3, SameSize, RoomStays, TakenIsFinite, CampaignAssumption DEF CollabInv, CountHolds, C!CapacityKept
<1>5. C!WorkIsAgreed'
  BY <1>1 DEF CollabInv, C!TypeOK, C!WorkIsAgreed
<1>6. C!ApplicationFollowsTerms'
  BY <1>1 DEF CollabInv, C!TypeOK, C!ApplicationFollowsTerms
<1>. QED  BY <1>2, <1>4, <1>5, <1>6 DEF CollabInv

\* Every step of the campaign keeps the invariant.
LEMMA CollabKeeps == CollabInv /\ [C!CNext]_(C!cvars) => CollabInv'
<1>. SUFFICES ASSUME CollabInv, [C!CNext]_(C!cvars) PROVE CollabInv'
  OBVIOUS
<1>1. ASSUME NEW c \in Names, C!Decline(c)
      PROVE  CollabInv'
  <2>. DEFINE r == [v2[c] EXCEPT !.state = "declined"]
  <2>1. v2[c] \in TermsRow /\ v2[c] # None /\ v2[c].state # "declined"
    BY <1>1 DEF CollabInv, C!TypeOK, TermsRow, C!Decline, C!In
  <2>2. r \in TermsRow
    BY <2>1 DEF TermsRow, C!TermStates
  <2>3. v2' = [v2 EXCEPT ![c] = r]
    BY <1>1 DEF C!Decline, C!Move
  <2>4. /\ r.state \notin {"selected", "declined"} => r.agreed = r.proposed
        /\ r.link \/ r.spark => r.agreed # None
    BY <1>1, <2>1, CampaignAssumption DEF CollabInv, C!WorkIsAgreed, C!Decline, C!In, TermsRow
  <2>5. /\ v1' \in [Names -> C!Statuses]
        /\ \A x \in Names \ {c} : v1'[x] = v1[x]
        /\ ~v4[c] => v1'[c] = C!Told[r.state]
    BY <1>1, <2>1 DEF CollabInv, C!TypeOK, C!ApplicationFollowsTerms, C!Decline, C!In, C!Statuses, C!Told, C!TermStates, TermsRow
  <2>. QED  BY <1>1, <2>1, <2>2, <2>3, <2>4, <2>5, TermsChange DEF C!Decline
<1>2. ASSUME NEW c \in Names, C!Agree(c)
      PROVE  CollabInv'
  <2>. DEFINE r == [v2[c] EXCEPT !.state = "terms_agreed", !.agreed = v2[c].proposed]
  <2>1. v2[c] \in TermsRow /\ v2[c] # None /\ v2[c].state # "declined"
    BY <1>2 DEF CollabInv, C!TypeOK, TermsRow, C!Agree, C!In
  <2>2. r \in TermsRow
    BY <2>1 DEF TermsRow, C!TermStates
  <2>3. v2' = [v2 EXCEPT ![c] = r]
    BY <1>2 DEF C!Agree
  <2>4. /\ r.state \notin {"selected", "declined"} => r.agreed = r.proposed
        /\ r.link \/ r.spark => r.agreed # None
    BY <1>2, <2>1, CampaignAssumption DEF CollabInv, C!WorkIsAgreed, C!Agree, C!In, TermsRow
  <2>5. /\ v1' \in [Names -> C!Statuses]
        /\ \A x \in Names \ {c} : v1'[x] = v1[x]
        /\ ~v4[c] => v1'[c] = C!Told[r.state]
    BY <1>2, <2>1 DEF CollabInv, C!TypeOK, C!ApplicationFollowsTerms, C!Agree, C!In, C!Statuses, C!Told, C!TermStates, TermsRow
  <2>. QED  BY <1>2, <2>1, <2>2, <2>3, <2>4, <2>5, TermsChange DEF C!Agree
<1>3. ASSUME NEW c \in Names, C!SampleShipped(c)
      PROVE  CollabInv'
  <2>. DEFINE r == [v2[c] EXCEPT !.state = "sample_shipped"]
  <2>1. v2[c] \in TermsRow /\ v2[c] # None /\ v2[c].state # "declined"
    BY <1>3 DEF CollabInv, C!TypeOK, TermsRow, C!SampleShipped, C!In
  <2>2. r \in TermsRow
    BY <2>1 DEF TermsRow, C!TermStates
  <2>3. v2' = [v2 EXCEPT ![c] = r]
    BY <1>3 DEF C!SampleShipped, C!Move
  <2>4. /\ r.state \notin {"selected", "declined"} => r.agreed = r.proposed
        /\ r.link \/ r.spark => r.agreed # None
    BY <1>3, <2>1, CampaignAssumption DEF CollabInv, C!WorkIsAgreed, C!SampleShipped, C!In, TermsRow
  <2>5. /\ v1' \in [Names -> C!Statuses]
        /\ \A x \in Names \ {c} : v1'[x] = v1[x]
        /\ ~v4[c] => v1'[c] = C!Told[r.state]
    BY <1>3, <2>1 DEF CollabInv, C!TypeOK, C!ApplicationFollowsTerms, C!SampleShipped, C!In, C!Statuses, C!Told, C!TermStates, TermsRow
  <2>. QED  BY <1>3, <2>1, <2>2, <2>3, <2>4, <2>5, TermsChange DEF C!SampleShipped
<1>4. ASSUME NEW c \in Names, C!IssueAffiliateLink(c)
      PROVE  CollabInv'
  <2>. DEFINE r == [v2[c] EXCEPT !.link = TRUE]
  <2>1. v2[c] \in TermsRow /\ v2[c] # None /\ v2[c].state # "declined"
    BY <1>4 DEF CollabInv, C!TypeOK, TermsRow, C!IssueAffiliateLink, C!In
  <2>2. r \in TermsRow
    BY <2>1 DEF TermsRow, C!TermStates
  <2>3. v2' = [v2 EXCEPT ![c] = r]
    BY <1>4 DEF C!IssueAffiliateLink
  <2>4. /\ r.state \notin {"selected", "declined"} => r.agreed = r.proposed
        /\ r.link \/ r.spark => r.agreed # None
    BY <1>4, <2>1, CampaignAssumption DEF CollabInv, C!WorkIsAgreed, C!IssueAffiliateLink, C!In, TermsRow
  <2>5. /\ v1' \in [Names -> C!Statuses]
        /\ \A x \in Names \ {c} : v1'[x] = v1[x]
        /\ ~v4[c] => v1'[c] = C!Told[r.state]
    BY <1>4, <2>1 DEF CollabInv, C!TypeOK, C!ApplicationFollowsTerms, C!IssueAffiliateLink, C!In, C!Statuses, C!Told, C!TermStates, TermsRow
  <2>. QED  BY <1>4, <2>1, <2>2, <2>3, <2>4, <2>5, TermsChange DEF C!IssueAffiliateLink
<1>5. ASSUME NEW c \in Names, C!SubmitSparkCode(c)
      PROVE  CollabInv'
  <2>. DEFINE r == [v2[c] EXCEPT !.spark = TRUE]
  <2>1. v2[c] \in TermsRow /\ v2[c] # None /\ v2[c].state # "declined"
    BY <1>5 DEF CollabInv, C!TypeOK, TermsRow, C!SubmitSparkCode, C!In
  <2>2. r \in TermsRow
    BY <2>1 DEF TermsRow, C!TermStates
  <2>3. v2' = [v2 EXCEPT ![c] = r]
    BY <1>5 DEF C!SubmitSparkCode
  <2>4. /\ r.state \notin {"selected", "declined"} => r.agreed = r.proposed
        /\ r.link \/ r.spark => r.agreed # None
    BY <1>5, <2>1, CampaignAssumption DEF CollabInv, C!WorkIsAgreed, C!SubmitSparkCode, C!In, TermsRow
  <2>5. /\ v1' \in [Names -> C!Statuses]
        /\ \A x \in Names \ {c} : v1'[x] = v1[x]
        /\ ~v4[c] => v1'[c] = C!Told[r.state]
    BY <1>5, <2>1 DEF CollabInv, C!TypeOK, C!ApplicationFollowsTerms, C!SubmitSparkCode, C!In, C!Statuses, C!Told, C!TermStates, TermsRow
  <2>. QED  BY <1>5, <2>1, <2>2, <2>3, <2>4, <2>5, TermsChange DEF C!SubmitSparkCode
<1>6. ASSUME NEW c \in Names, C!SubmitContent(c)
      PROVE  CollabInv'
  <2>. DEFINE r == [v2[c] EXCEPT !.state = "content_submitted"]
  <2>1. v2[c] \in TermsRow /\ v2[c] # None /\ v2[c].state # "declined"
    BY <1>6 DEF CollabInv, C!TypeOK, TermsRow, C!SubmitContent, C!In
  <2>2. r \in TermsRow
    BY <2>1 DEF TermsRow, C!TermStates
  <2>3. v2' = [v2 EXCEPT ![c] = r]
    BY <1>6 DEF C!SubmitContent, C!Move
  <2>4. /\ r.state \notin {"selected", "declined"} => r.agreed = r.proposed
        /\ r.link \/ r.spark => r.agreed # None
    BY <1>6, <2>1, CampaignAssumption DEF CollabInv, C!WorkIsAgreed, C!SubmitContent, C!In, TermsRow
  <2>5. /\ v1' \in [Names -> C!Statuses]
        /\ \A x \in Names \ {c} : v1'[x] = v1[x]
        /\ ~v4[c] => v1'[c] = C!Told[r.state]
    BY <1>6, <2>1 DEF CollabInv, C!TypeOK, C!ApplicationFollowsTerms, C!SubmitContent, C!In, C!Statuses, C!Told, C!TermStates, TermsRow
  <2>. QED  BY <1>6, <2>1, <2>2, <2>3, <2>4, <2>5, TermsChange DEF C!SubmitContent
<1>7. ASSUME NEW c \in Names, C!CompleteTerms(c)
      PROVE  CollabInv'
  <2>. DEFINE r == [v2[c] EXCEPT !.state = "completed"]
  <2>1. v2[c] \in TermsRow /\ v2[c] # None /\ v2[c].state # "declined"
    BY <1>7 DEF CollabInv, C!TypeOK, TermsRow, C!CompleteTerms, C!In
  <2>2. r \in TermsRow
    BY <2>1 DEF TermsRow, C!TermStates
  <2>3. v2' = [v2 EXCEPT ![c] = r]
    BY <1>7 DEF C!CompleteTerms, C!Move
  <2>4. /\ r.state \notin {"selected", "declined"} => r.agreed = r.proposed
        /\ r.link \/ r.spark => r.agreed # None
    BY <1>7, <2>1, CampaignAssumption DEF CollabInv, C!WorkIsAgreed, C!CompleteTerms, C!In, TermsRow
  <2>5. /\ v1' \in [Names -> C!Statuses]
        /\ \A x \in Names \ {c} : v1'[x] = v1[x]
        /\ ~v4[c] => v1'[c] = C!Told[r.state]
    BY <1>7, <2>1 DEF CollabInv, C!TypeOK, C!ApplicationFollowsTerms, C!CompleteTerms, C!In, C!Statuses, C!Told, C!TermStates, TermsRow
  <2>. QED  BY <1>7, <2>1, <2>2, <2>3, <2>4, <2>5, TermsChange DEF C!CompleteTerms
<1>8. ASSUME NEW c \in Names, C!Apply(c) \/ C!ReviewPasses(c)
      PROVE  CollabInv'
  <2>1. C!Taken' = C!Taken
    BY <1>8 DEF C!Apply, C!ReviewPasses, C!Taken
  <2>2. C!TypeOK' /\ OneSelection' /\ CountHolds' /\ C!CapacityKept' /\ C!WorkIsAgreed'
    BY <1>8, <2>1 DEF CollabInv, C!TypeOK, C!Statuses, OneSelection, CountHolds, C!CapacityKept, C!WorkIsAgreed,
                      C!Apply, C!ReviewPasses
  <2>3. C!ApplicationFollowsTerms'
    BY <1>8 DEF CollabInv, C!TypeOK, C!ApplicationFollowsTerms, C!Told, C!TermStates, C!Apply, C!ReviewPasses
  <2>. QED  BY <2>2, <2>3 DEF CollabInv
<1>9. ASSUME NEW s \in Ids, NEW c \in Names, C!SelectBegins(s, c)
      PROVE  CollabInv'
  <2>1. C!Taken' = C!Taken
    BY <1>9 DEF C!SelectBegins, C!Taken
  <2>. QED
    BY <1>9, <2>1 DEF CollabInv, C!TypeOK, OneSelection, CountHolds, C!CapacityKept, C!WorkIsAgreed,
                      C!ApplicationFollowsTerms, C!SelectBegins
<1>10. ASSUME NEW s \in Ids, C!SelectCounts(s) \/ C!SelectEnds(s)
       PROVE  CollabInv'
  <2>1. C!Taken' = C!Taken
    BY <1>10 DEF C!SelectCounts, C!SelectEnds, C!Taken
  <2>2. C!TypeOK' /\ OneSelection'
    BY <1>10 DEF CollabInv, C!TypeOK, OneSelection, C!SelectCounts, C!SelectEnds
  <2>3. CountHolds' /\ C!CapacityKept'
    BY <1>10, <2>1, SameSize DEF CollabInv, C!TypeOK, CountHolds, C!CapacityKept, C!SelectCounts, C!SelectEnds
  <2>. QED
    BY <1>10, <2>2, <2>3 DEF CollabInv, C!WorkIsAgreed, C!ApplicationFollowsTerms, C!SelectCounts, C!SelectEnds
\* No other selection has counted, and this one leaves.
<1>11. ASSUME NEW s \in Ids, NEW o \in Bound.offers, C!SelectInserts(s, o)
       PROVE  CollabInv'
  <2>. DEFINE c == v3[s].creator
              r == [state |-> "selected", proposed |-> o, agreed |-> None, link |-> FALSE, spark |-> FALSE]
  <2>1. c \in Names /\ r \in TermsRow /\ r # None
    <3>1. r \in TermsRow
      BY DEF TermsRow, C!TermStates
    <3>2. v3[s] \in [creator : Names, step : {"locked", "counted"}]
      BY <1>11 DEF CollabInv, C!TypeOK, C!SelectInserts
    <3>. QED  BY <3>1, <3>2, CampaignAssumption
  <2>2. v2' = [v2 EXCEPT ![c] = r] /\ v1' = [v1 EXCEPT ![c] = "selected"]
    BY <1>11 DEF C!SelectInserts
  <2>3. C!Taken' \subseteq C!Taken \cup {c}
    BY <2>1, <2>2 DEF CollabInv, C!TypeOK, C!Taken
  <2>4. C!TypeOK' /\ OneSelection'
    BY <1>11, <2>1, <2>2 DEF CollabInv, C!TypeOK, OneSelection, C!SelectInserts, TermsRow, C!Statuses
  <2>5. C!CapacityKept'
    BY <1>11, <2>3, SameSize, OnePlaceMore, TakenIsFinite, CampaignAssumption DEF CollabInv, CountHolds, C!CapacityKept, C!SelectInserts
  <2>6. CountHolds'
    BY <1>11 DEF CollabInv, C!TypeOK, OneSelection, CountHolds, C!SelectInserts
  <2>7. C!WorkIsAgreed' /\ C!ApplicationFollowsTerms'
    BY <1>11, <2>1, <2>2 DEF CollabInv, C!TypeOK, C!WorkIsAgreed, C!ApplicationFollowsTerms, C!Told, C!SelectInserts
  <2>. QED  BY <2>4, <2>5, <2>6, <2>7 DEF CollabInv
<1>12. CASE UNCHANGED C!cvars
  BY <1>12 DEF CollabInv, C!TypeOK, OneSelection, CountHolds, C!CapacityKept, C!Taken, C!WorkIsAgreed,
               C!ApplicationFollowsTerms, C!cvars
<1>. QED
  BY <1>1, <1>2, <1>3, <1>4, <1>5, <1>6, <1>7, <1>8, <1>9, <1>10, <1>11, <1>12 DEF C!CNext

\* The invariant holds of an empty campaign.
LEMMA CollabBegins == C!CInit => CollabInv
<1>. SUFFICES ASSUME C!CInit PROVE CollabInv
  OBVIOUS
<1>1. C!Taken = {} /\ Cardinality(C!Taken) = 0
  BY FS_EmptySet DEF C!CInit, C!Taken
<1>. QED
  BY <1>1, SameSize, CampaignAssumption DEF C!CInit, CollabInv, C!TypeOK, C!Statuses, OneSelection, CountHolds, C!CapacityKept, C!WorkIsAgreed, C!ApplicationFollowsTerms

-------------------------------------------------------------------------------
(* The fit of candidates *)
L == INSTANCE CandidateMatch WITH
  Calls <- Ids, Candidates <- Bound.candidates, PerCall <- Bound.perCall,
  DailyCap <- Bound.dailyCap, MaxDay <- Bound.days, MaxVersion <- Bound.versions, day <- v1,
  profile <- v2, row <- v3, out <- v4, scores <- v5, usage <- v6, lock <- v7, call <- v8,
  asks <- v9, cut <- v10, known <- v11, twice <- v12, older <- v13

ASSUME FitAssumption ==
  /\ IsFiniteSet(Bound.candidates)
  /\ Bound.perCall \in Nat /\ Bound.dailyCap \in Nat
  /\ Bound.days \in Nat \ {0} /\ Bound.versions \in Nat \ {0}
  /\ None \notin L!Call

FitInv ==
  /\ L!TypeOK /\ L!AskingInv /\ L!AsksInv /\ L!KnownInv /\ L!ShownInv
  /\ L!CapPerDay /\ L!EvaluatedOnce

\* One day, or version, more.
LEMMA FitCounts ==
  /\ \A n \in 1..Bound.days : n < Bound.days => n + 1 \in 1..Bound.days
  /\ \A n \in 1..Bound.versions : n < Bound.versions => n + 1 \in 1..Bound.versions
BY FitAssumption

\* A batch has a size.
LEMMA FitSize == \A T \in SUBSET Bound.candidates : L!Cardinality(T) \in Nat
<1>1. \A T : L!Cardinality(T) = Cardinality(T)
  BY DEF L!Cardinality, Cardinality
<1>. QED  BY <1>1, FS_Subset, FS_CardinalityType, FitAssumption

\* What was counted for a day is a number, and no more than what was counted since.
LEMMA FitCounted ==
  ASSUME L!TypeOK, L!AsksInv, NEW d \in L!Days
  PROVE  L!Counted(d) \in Nat /\ L!Counted(d) <= v6[d]
<1>1. v6[d] \in Nat /\ (d + 1 \in L!Days => v6[d + 1] \in Nat /\ v6[d + 1] <= v6[d])
  BY DEF L!TypeOK, L!AsksInv
<1>. QED  BY <1>1 DEF L!Counted

\* Nothing is asked at first.
LEMMA FitBegins == L!MInit => FitInv
<1>. SUFFICES ASSUME L!MInit PROVE FitInv
  OBVIOUS
<1>1. 1 \in L!Days /\ 1 \in L!Versions
  BY FitAssumption DEF L!Days, L!Versions
<1>2. L!TypeOK
  BY <1>1 DEF L!MInit, L!TypeOK
<1>3. \A d \in L!Days : L!Counted(d) = 0
  BY DEF L!MInit, L!Counted
<1>. QED
  BY <1>2, <1>3, FitAssumption DEF L!MInit, L!AskingInv, L!AsksInv, L!KnownInv, L!ShownInv, L!CapPerDay,
     L!EvaluatedOnce, L!At, FitInv

\* The evaluations keep what they promise, in every step.
LEMMA FitKeeps == FitInv /\ [L!MNext]_(L!mvars) => FitInv'
<1>. SUFFICES ASSUME FitInv, [L!MNext]_(L!mvars) PROVE FitInv'
  OBVIOUS
<1>1. ASSUME NEW i \in Ids, L!Read(i) PROVE FitInv'
  <2>. DEFINE n == [step |-> "read", day |-> v1, profile |-> v2, batch |-> {},
                     rows |-> [c \in Bound.candidates |-> IF c \in v4 THEN 0 ELSE v3[c]],
                     shown |-> [c \in Bound.candidates |-> 0]]
  <2>11. n \in L!Call /\ n # None
    BY FitAssumption DEF FitInv, L!TypeOK, L!Call
  <2>12. /\ v8' = [v8 EXCEPT ![i] = n] /\ (v8[i] = None \/ v8[i].step = "done")
         /\ UNCHANGED <<v1, v2, v3, v4, v5, v6, v7, v9, v10, v11, v12, v13>>
    BY <1>1 DEF L!Read, L!At
  <2>13. n.step = "read" /\ \A c \in Bound.candidates : n.shown[c] = 0
    OBVIOUS
  <2>. HIDE DEF n
  <2>14. v8 \in [Ids -> L!Call \cup {None}]
    BY DEF FitInv, L!TypeOK
  <2>15. v8'[i] = n /\ \A j \in Ids \ {i} : v8'[j] = v8[j]
    BY <2>12, <2>14
  <2>16. v7 # None => v7 \in Ids \ {i} /\ v8'[v7] = v8[v7]
    BY <2>12, <2>15 DEF FitInv, L!TypeOK, L!AsksInv, L!At
  <2>1. L!TypeOK'
    BY <2>11, <2>12, <2>14 DEF FitInv, L!TypeOK
  <2>2. L!AskingInv'
    BY <2>12, <2>13, <2>15 DEF FitInv, L!AskingInv, L!At
  <2>3. L!AsksInv'
    BY <2>12, <2>16 DEF FitInv, L!AsksInv, L!At, L!Counted
  <2>4. L!KnownInv'
    BY <2>12 DEF FitInv, L!KnownInv
  <2>5. L!ShownInv'
    BY <2>13, <2>15 DEF FitInv, L!ShownInv
  <2>6. ((L!CapPerDay /\ L!EvaluatedOnce))'
    BY <2>12 DEF FitInv, L!CapPerDay, L!EvaluatedOnce, L!Counted
  <2>. QED  BY <2>1, <2>2, <2>3, <2>4, <2>5, <2>6 DEF FitInv
<1>2. ASSUME NEW i \in Ids, L!TakeLock(i) PROVE FitInv'
  <2>11. UNCHANGED <<v1, v2, v3, v4, v5, v6, v10, v11, v12, v13>> /\ v7 = None /\ L!At(i, "read")
    BY <1>2 DEF L!TakeLock
  <2>12. v8 \in [Ids -> L!Call \cup {None}]
    BY DEF FitInv, L!TypeOK
  <2>1. /\ v8[i] # None /\ v8[i] \in L!Call /\ v8[i].step = "read" /\ v7 = None
        /\ v8 \in [Ids -> L!Call \cup {None}]
        /\ UNCHANGED <<v1, v2, v3, v4, v5, v6, v10, v11, v12, v13>>
    BY <2>11, <2>12 DEF L!At
  <2>2. L!Fresh(i) \subseteq Bound.candidates /\ \A c \in L!Fresh(i) : v8[i].rows[c] \notin {0, v5[v8[i].profile][c]}
    BY DEF L!Fresh, L!Cached
  <2>3. v6[v8[i].day] \in Nat /\ v8[i].day \in L!Days /\ L!Cardinality(L!Fresh(i)) \in Nat
    BY <2>1, <2>2, FitSize DEF FitInv, L!TypeOK, L!Call
  <2>4. L!Room(i) \in Nat /\ (L!Room(i) # 0 => v6[v8[i].day] + L!Room(i) <= Bound.dailyCap)
    BY <2>3, FitAssumption DEF L!Room, L!UsedToday, L!Least
  <2>5. L!Size(i) \in Nat /\ (L!Size(i) # 0 => v6[v8[i].day] + L!Size(i) <= Bound.dailyCap)
    BY <2>3, <2>4, FitAssumption DEF L!Size, L!Least
  <2>6. L!FromCache(i) \in [Bound.candidates -> L!Versions \cup {0}]
        /\ \A c \in Bound.candidates : L!FromCache(i)[c] \in {0, v8[i].rows[c]}
    <3>1. v5[v8[i].profile] \in [Bound.candidates -> L!Versions \cup {0}]
      BY <2>1 DEF FitInv, L!TypeOK, L!Call
    <3>. QED  BY <3>1 DEF L!Cached, L!FromCache
  <2>8. CASE L!Size(i) = 0
    <3>. DEFINE d == L!Looked(i, "done", {})
    <3>1. v8' = [v8 EXCEPT ![i] = d] /\ UNCHANGED <<v7, v9>>
      BY <1>2, <2>8 DEF L!TakeLock
    <3>2. d \in L!Call /\ d # None /\ d.step = "done" /\ d.shown = L!FromCache(i) /\ d.rows = v8[i].rows
      <4>1. d \in L!Call /\ d.step = "done" /\ d.shown = L!FromCache(i) /\ d.rows = v8[i].rows
        BY <2>1, <2>6 DEF L!Call, L!Looked
      <4>. QED  BY <4>1, FitAssumption
    <3>. HIDE DEF d
    <3>3. L!TypeOK'
      BY <2>1, <3>1, <3>2 DEF FitInv, L!TypeOK
    <3>4. v8'[i] = d /\ \A j \in Ids \ {i} : v8'[j] = v8[j]
      BY <2>1, <3>1
    <3>5. L!AskingInv'
      BY <2>1, <3>1, <3>2, <3>4 DEF FitInv, L!AskingInv, L!At
    <3>6. L!AsksInv' /\ L!KnownInv' /\ L!CapPerDay' /\ L!EvaluatedOnce'
      BY <2>1, <3>1 DEF FitInv, L!AsksInv, L!KnownInv, L!CapPerDay, L!EvaluatedOnce, L!Counted
    <3>7. L!ShownInv'
      BY <2>1, <2>6, <3>2, <3>4 DEF FitInv, L!ShownInv
    <3>. QED  BY <3>3, <3>5, <3>6, <3>7 DEF FitInv
  <2>9. CASE L!Size(i) # 0
    <3>1. PICK b \in SUBSET L!Fresh(i) :
             /\ L!Cardinality(b) = L!Size(i)
             /\ v8' = [v8 EXCEPT ![i] = L!Looked(i, "asking", b)]
      BY <1>2, <2>9 DEF L!TakeLock
    <3>2. v7' = i /\ v9' = [v9 EXCEPT ![v8[i].day] = v9[v8[i].day] + L!Size(i)]
      BY <1>2, <2>9 DEF L!TakeLock
    <3>. DEFINE d == L!Looked(i, "asking", b)
    <3>3. /\ d \in L!Call /\ d # None /\ d.step = "asking" /\ d.batch = b /\ d.shown = L!FromCache(i)
          /\ d.rows = v8[i].rows /\ d.day = v8[i].day /\ d.profile = v8[i].profile
      <4>1. b \in SUBSET Bound.candidates
        BY <2>2
      <4>2. /\ d \in L!Call /\ d.step = "asking" /\ d.batch = b /\ d.shown = L!FromCache(i)
            /\ d.rows = v8[i].rows /\ d.day = v8[i].day /\ d.profile = v8[i].profile
        BY <4>1, <2>1, <2>6 DEF L!Call, L!Looked
      <4>. QED  BY <4>2, FitAssumption
    <3>4. \A c \in b : v8[i].rows[c] \notin {0, v5[v8[i].profile][c]}
      BY <2>2
    <3>. HIDE DEF d
    <3>5. v8'[i] = d /\ \A j \in Ids \ {i} : v8'[j] = v8[j]
      BY <2>1, <3>1 DEF d
    <3>6. L!TypeOK'
      <4>1. v9' \in [L!Days -> Nat]
        BY <2>3, <2>5, <3>2 DEF FitInv, L!TypeOK
      <4>2. v8' \in [Ids -> L!Call \cup {None}]
        BY <2>1, <3>1, <3>3 DEF d
      <4>. QED  BY <2>1, <3>2, <4>1, <4>2 DEF FitInv, L!TypeOK
    <3>7. L!AskingInv'
      <4>1. \A j \in Ids : L!At(j, "asking")' => j = i
        BY <2>1, <3>5, NullAssumption DEF FitInv, L!AskingInv, L!At
      <4>2. /\ v7' = i /\ \A c \in v8'[i].batch : v8'[i].rows[c] \notin {0, v5'[v8'[i].profile][c]}
            /\ v6'[v8'[i].day] + L!Cardinality(v8'[i].batch) <= Bound.dailyCap
        BY <2>1, <2>5, <2>9, <3>1, <3>2, <3>3, <3>4, <3>5
      <4>. QED  BY <4>1, <4>2 DEF L!AskingInv
    <3>8. L!AsksInv'
      <4>1. /\ i # None /\ L!Counted(v8[i].day) \in Nat
            /\ \A e \in L!Days : v9'[e] = IF e = v8[i].day THEN v9[e] + L!Size(i) ELSE v9[e]
        BY <2>3, <3>2, NullAssumption, FitCounted DEF FitInv, L!TypeOK
      <4>2. \A e \in L!Days : L!Counted(e)' = L!Counted(e)
        BY <2>1 DEF L!Counted
      <4>3. \A e \in L!Days : ~v10 => v9[e] = L!Counted(e) + 0
        BY <2>1 DEF FitInv, L!AsksInv
      <4>4. \A e \in L!Days : ~v10' => v9'[e] = L!Counted(e)' +
               (IF v7' # None /\ v8'[v7'].day = e THEN L!Cardinality(v8'[v7'].batch) ELSE 0)
        <5>1. \A e \in L!Days : L!Counted(e) \in Nat
          BY FitCounted DEF FitInv
        <5>2. v7' # None /\ v8'[v7'].day = v8[i].day /\ L!Cardinality(v8'[v7'].batch) = L!Size(i) /\ v10' = v10
          BY <2>1, <3>1, <3>2, <3>3, <3>5, <4>1
        <5>. QED  BY <2>5, <4>1, <4>2, <4>3, <5>1, <5>2
      <4>5. L!At(i, "asking")'
        BY <3>3, <3>5 DEF L!At
      <4>. QED  BY <2>1, <3>2, <4>4, <4>5 DEF FitInv, L!AsksInv
    <3>9. L!KnownInv' /\ L!EvaluatedOnce'
      BY <2>1 DEF FitInv, L!KnownInv, L!EvaluatedOnce
    <3>10. L!ShownInv'
      BY <2>6, <3>3, <3>5 DEF FitInv, L!ShownInv
    <3>11. L!CapPerDay'
      <4>1. \A e \in L!Days : L!Counted(e)' = L!Counted(e) /\ L!Counted(e) \in Nat /\ L!Counted(e) <= v6[e]
        BY <2>1, FitCounted DEF FitInv, L!Counted
      <4>2. \A e \in L!Days : ~v10 => v9[e] = L!Counted(e)
        BY <2>1, <4>1 DEF FitInv, L!AsksInv
      <4>3. \A e \in L!Days : v9'[e] = IF e = v8[i].day THEN v9[e] + L!Size(i) ELSE v9[e]
        BY <2>3, <3>2 DEF FitInv, L!TypeOK
      <4>4. ~v10 => v9'[v8[i].day] <= Bound.dailyCap
        BY <2>3, <2>5, <2>9, <4>1, <4>2, <4>3, FitAssumption
      <4>. QED  BY <2>1, <4>1, <4>3, <4>4 DEF FitInv, L!CapPerDay
    <3>. QED  BY <3>6, <3>7, <3>8, <3>9, <3>10, <3>11 DEF FitInv
  <2>. QED  BY <2>8, <2>9
<1>3. ASSUME NEW i \in Ids, NEW told \in SUBSET Bound.candidates, L!Answer(i, told) PROVE FitInv'
  <2>. DEFINE f == [c \in Bound.candidates |-> IF c \in told THEN v8[i].rows[c] ELSE v8[i].shown[c]]
              d == [v8[i] EXCEPT !.step = "done", !.shown = f]
              n == L!Cardinality(v8[i].batch)
              p == v8[i].profile
  <2>11. /\ v8[i] \in L!Call /\ v8[i].step = "asking" /\ told \subseteq v8[i].batch /\ v7 = i /\ i # None /\ v8[i] # None
         /\ L!At(i, "asking") /\ v8 \in [Ids -> L!Call \cup {None}]
    BY <1>3, NullAssumption DEF FitInv, L!TypeOK, L!Answer, L!At, L!AskingInv
  <2>12. /\ v8' = [v8 EXCEPT ![i] = d] /\ v7' = None
         /\ UNCHANGED <<v1, v2, v3, v4, v9, v10>>
    <3>1. v7' = None /\ UNCHANGED <<v1, v2, v3, v4, v9, v10>>
      BY <1>3 DEF L!Answer
    <3>2. v8' = [v8 EXCEPT ![i] = [v8[i] EXCEPT !.step = "done", !.shown =
             [c \in Bound.candidates |-> IF c \in told THEN v8[i].rows[c] ELSE v8[i].shown[c]]]]
      BY <1>3 DEF L!Answer
    <3>. QED  BY <3>1, <3>2
  <2>13. n \in Nat /\ p \in L!Versions /\ v8[i].day \in L!Days /\ v6 \in [L!Days -> Nat]
    BY <2>11, FitSize DEF FitInv, L!TypeOK, L!Call
  <2>14. v6' = [e \in L!Days |-> IF e <= v8[i].day THEN v6[e] + n ELSE v6[e]]
    BY <1>3 DEF L!Answer
  <2>15. v5 \in [L!Versions -> [Bound.candidates -> L!Versions \cup {0}]] /\ v8[i].rows \in [Bound.candidates -> L!Versions \cup {0}]
    BY <2>11 DEF FitInv, L!TypeOK, L!Call
  <2>23. f \in [Bound.candidates -> L!Versions \cup {0}]
         /\ \A c \in Bound.candidates : f[c] = IF c \in told THEN v8[i].rows[c] ELSE v8[i].shown[c]
    BY <2>11, <2>15 DEF L!Call
  <2>. HIDE DEF f
  <2>16. d \in L!Call /\ d # None /\ d.step = "done" /\ d.rows = v8[i].rows /\ d.shown = f
    <3>1. d \in L!Call /\ d.step = "done" /\ d.rows = v8[i].rows /\ d.shown = f
      BY <2>11, <2>23 DEF L!Call
    <3>. QED  BY <3>1, FitAssumption
  <2>. HIDE DEF d, n
  <2>17. v8'[i] = d /\ \A j \in Ids \ {i} : v8'[j] = v8[j]
    BY <2>11, <2>12
  <2>18. v5' = [v5 EXCEPT ![p] = [c \in Bound.candidates |-> IF c \in told THEN v8[i].rows[c] ELSE v5[p][c]]]
    BY <1>3 DEF L!Answer
  <2>19. /\ v13' = (v13 \/ \E c \in told : v5[p][c] > v8[i].rows[c])
         /\ v11' = v11 \cup {<<p, c, v8[i].rows[c]>> : c \in told}
         /\ v12' = (v12 \/ v11 \cap {<<p, c, v8[i].rows[c]>> : c \in told} # {})
    BY <1>3 DEF L!Answer
  <2>20. \A c \in told : v5[p][c] # v8[i].rows[c] /\ v8[i].rows[c] # 0
    BY <2>11 DEF FitInv, L!AskingInv
  <2>21. v6[v8[i].day] + n <= Bound.dailyCap
    BY <2>11 DEF FitInv, L!AskingInv, n
  <2>22. \A j \in Ids : ~L!At(j, "asking")'
    BY <2>11, <2>16, <2>17 DEF FitInv, L!AskingInv, L!At
  <2>1. L!TypeOK'
    <3>1. v8' \in [Ids -> L!Call \cup {None}] /\ v6' \in [L!Days -> Nat]
      BY <2>11, <2>12, <2>13, <2>14, <2>16
    <3>2. v5' \in [L!Versions -> [Bound.candidates -> L!Versions \cup {0}]]
      BY <2>13, <2>15, <2>18
    <3>3. v11' \subseteq L!Versions \X Bound.candidates \X L!Versions
      BY <2>13, <2>15, <2>19, <2>20 DEF FitInv, L!TypeOK
    <3>4. v12' \in BOOLEAN
      BY <2>19 DEF FitInv, L!TypeOK
    <3>5. v13' \in BOOLEAN
      BY <2>19 DEF FitInv, L!TypeOK
    <3>6. v7' \in Ids \cup {None}
      BY <2>12
    <3>. QED  BY <2>12, <3>1, <3>2, <3>3, <3>4, <3>5, <3>6 DEF FitInv, L!TypeOK
  <2>2. L!AskingInv'
    BY <2>22 DEF L!AskingInv
  <2>3. L!AsksInv'
    <3>1. \A e \in L!Days : e \in Nat /\ v6[e] \in Nat /\ (e + 1 \in L!Days => v6[e + 1] \in Nat)
      BY <2>13 DEF L!Days
    <3>2. /\ \A e \in L!Days : v6'[e] = IF e <= v8[i].day THEN v6[e] + n ELSE v6[e]
          /\ \A e \in L!Days : e + 1 \in L!Days =>
               v6'[e + 1] = IF e + 1 <= v8[i].day THEN v6[e + 1] + n ELSE v6[e + 1]
      BY <2>14
    <3>3. \A e \in L!Days : e + 1 \in L!Days => v6'[e + 1] <= v6'[e]
      BY <2>13, <3>1, <3>2, FitAssumption DEF FitInv, L!AsksInv, L!Days
    <3>4. ASSUME NEW e \in L!Days
          PROVE  L!Counted(e)' = IF e = v8[i].day THEN L!Counted(e) + n ELSE L!Counted(e)
      <4>1. v8[i].day \in Nat /\ v8[i].day <= Bound.days /\ e \in Nat /\ (e + 1 \in L!Days <=> e < Bound.days)
        <5>1. v8[i].day \in L!Days
          BY <2>13
        <5>2. Bound.days \in Nat
          BY FitAssumption
        <5>. QED  BY <5>1, <5>2 DEF L!Days
      <4>2. CASE e = Bound.days
        BY <2>13, <3>1, <3>2, <4>1, <4>2 DEF L!Counted
      <4>3. CASE e < Bound.days
        BY <2>13, <3>1, <3>2, <4>1, <4>3 DEF L!Counted
      <4>. QED  BY <4>1, <4>2, <4>3, FitAssumption DEF L!Days
    <3>5. \A e \in L!Days : ~v10 => v9[e] = L!Counted(e) + (IF v8[i].day = e THEN n ELSE 0)
      BY <2>11 DEF FitInv, L!AsksInv, n
    <3>6. \A e \in L!Days : L!Counted(e) \in Nat
      BY FitCounted DEF FitInv
    <3>7. \A e \in L!Days : ~v10' => v9'[e] = L!Counted(e)' + 0
      BY <2>12, <2>13, <3>4, <3>5, <3>6
    <3>. QED  BY <2>12, <3>3, <3>7 DEF L!AsksInv
  <2>4. L!KnownInv'
    <3>1. SUFFICES ASSUME ~v13', NEW k \in v11' PROVE v5'[k[1]][k[2]] >= k[3]
      BY DEF L!KnownInv
    <3>2. ~v13 /\ \A c \in told : ~(v5[p][c] > v8[i].rows[c])
      BY <2>19, <3>1
    <3>3. \A c \in told : v5'[p][c] = v8[i].rows[c] /\ v8[i].rows[c] \in Nat /\ v5[p][c] \in Nat
      BY <2>13, <2>15, <2>18 DEF L!Versions
    <3>4. CASE k \in v11
      <4>1. k \in L!Versions \X Bound.candidates \X L!Versions /\ v5[k[1]][k[2]] >= k[3]
        BY <3>2, <3>4 DEF FitInv, L!TypeOK, L!KnownInv
      <4>2. v5[k[1]][k[2]] \in Nat /\ k[3] \in Nat
        BY <2>15, <4>1 DEF L!Versions
      <4>3. v5'[k[1]][k[2]] = IF k[1] = p /\ k[2] \in told THEN v8[i].rows[k[2]] ELSE v5[k[1]][k[2]]
        BY <2>13, <2>15, <2>18, <4>1
      <4>. QED  BY <3>2, <3>3, <4>1, <4>2, <4>3
    <3>5. CASE k \in {<<p, c, v8[i].rows[c]>> : c \in told}
      BY <3>3, <3>5
    <3>. QED  BY <2>19, <3>1, <3>4, <3>5
  <2>5. L!ShownInv'
    BY <2>11, <2>16, <2>17, <2>23 DEF FitInv, L!ShownInv
  <2>6. ((L!CapPerDay /\ L!EvaluatedOnce))'
    <3>1. L!EvaluatedOnce'
      <4>1. ASSUME ~v13', NEW k \in v11, k \in {<<p, c, v8[i].rows[c]>> : c \in told} PROVE FALSE
        <5>1. PICK c \in told : k = <<p, c, v8[i].rows[c]>>
          BY <4>1
        <5>2. ~v13 /\ ~(v5[p][c] > v8[i].rows[c])
          BY <2>19, <4>1
        <5>3. v5[p][c] >= v8[i].rows[c]
          BY <4>1, <5>1, <5>2 DEF FitInv, L!KnownInv
        <5>4. v5[p][c] \in Nat /\ v8[i].rows[c] \in Nat
          BY <2>13, <2>15 DEF L!Versions
        <5>. QED  BY <2>20, <5>2, <5>3, <5>4
      <4>. QED  BY <2>19, <4>1 DEF FitInv, L!EvaluatedOnce
    <3>2. \A e \in L!Days : e \in Nat /\ v6[e] \in Nat /\ (e + 1 \in L!Days => v6[e + 1] \in Nat)
      BY <2>13 DEF L!Days
    <3>3. /\ \A e \in L!Days : v6'[e] = IF e <= v8[i].day THEN v6[e] + n ELSE v6[e]
          /\ \A e \in L!Days : e + 1 \in L!Days =>
               v6'[e + 1] = IF e + 1 <= v8[i].day THEN v6[e + 1] + n ELSE v6[e + 1]
      BY <2>14
    <3>4. ASSUME NEW e \in L!Days
          PROVE  L!Counted(e)' = IF e = v8[i].day THEN L!Counted(e) + n ELSE L!Counted(e)
      <4>1. v8[i].day \in Nat /\ v8[i].day <= Bound.days /\ e \in Nat /\ (e + 1 \in L!Days <=> e < Bound.days)
        <5>1. v8[i].day \in L!Days
          BY <2>13
        <5>2. Bound.days \in Nat
          BY FitAssumption
        <5>. QED  BY <5>1, <5>2 DEF L!Days
      <4>2. CASE e = Bound.days
        BY <2>13, <3>2, <3>3, <4>1, <4>2 DEF L!Counted
      <4>3. CASE e < Bound.days
        BY <2>13, <3>2, <3>3, <4>1, <4>3 DEF L!Counted
      <4>. QED  BY <4>1, <4>2, <4>3, FitAssumption DEF L!Days
    <3>5. L!Counted(v8[i].day) \in Nat /\ L!Counted(v8[i].day) <= v6[v8[i].day]
      BY <2>13, FitCounted DEF FitInv
    <3>6. L!Counted(v8[i].day) + n <= Bound.dailyCap
      BY <2>13, <2>21, <3>2, <3>5, FitAssumption
    <3>. QED  BY <2>12, <3>1, <3>4, <3>6 DEF FitInv, L!CapPerDay
  <2>. QED  BY <2>1, <2>2, <2>3, <2>4, <2>5, <2>6 DEF FitInv
<1>4. ASSUME NEW i \in Ids, L!CutOff(i) PROVE FitInv'
  <2>11. /\ v8' = [v8 EXCEPT ![i] = None] /\ v7' = None /\ v10' = TRUE /\ L!At(i, "asking")
         /\ UNCHANGED <<v1, v2, v3, v4, v5, v6, v9, v11, v12, v13>>
    BY <1>4 DEF L!CutOff
  <2>12. v8 \in [Ids -> L!Call \cup {None}]
    BY DEF FitInv, L!TypeOK
  <2>13. v8'[i] = None /\ \A j \in Ids \ {i} : v8'[j] = v8[j]
    BY <2>11, <2>12
  <2>1. L!TypeOK'
    BY <2>11, <2>12 DEF FitInv, L!TypeOK
  <2>2. L!AskingInv'
    BY <2>11, <2>13 DEF FitInv, L!AskingInv, L!At
  <2>3. L!AsksInv'
    BY <2>11 DEF FitInv, L!AsksInv
  <2>4. L!KnownInv'
    BY <2>11 DEF FitInv, L!KnownInv
  <2>5. L!ShownInv'
    BY <2>13 DEF FitInv, L!ShownInv
  <2>6. ((L!CapPerDay /\ L!EvaluatedOnce))'
    BY <2>11 DEF FitInv, L!CapPerDay, L!EvaluatedOnce, L!Counted
  <2>. QED  BY <2>1, <2>2, <2>3, <2>4, <2>5, <2>6 DEF FitInv
<1>5. ASSUME NEW c \in Bound.candidates, L!WriteRow(c) PROVE FitInv'
  <2>1. UNCHANGED <<v5, v6, v7, v8, v9, v10, v11, v12, v13>>
    BY <1>5 DEF L!WriteRow
  <2>2. L!TypeOK'
    BY <1>5, FitCounts DEF FitInv, L!TypeOK, L!WriteRow, L!Days, L!Versions
  <2>. QED
    BY <2>1, <2>2 DEF FitInv, L!AskingInv, L!AsksInv, L!KnownInv, L!ShownInv, L!CapPerDay,
       L!EvaluatedOnce, L!At, L!Counted
<1>6. ASSUME NEW c \in Bound.candidates, L!OptOut(c) PROVE FitInv'
  <2>1. UNCHANGED <<v5, v6, v7, v8, v9, v10, v11, v12, v13>>
    BY <1>6 DEF L!OptOut
  <2>2. L!TypeOK'
    BY <1>6, FitCounts DEF FitInv, L!TypeOK, L!OptOut, L!Days, L!Versions
  <2>. QED
    BY <2>1, <2>2 DEF FitInv, L!AskingInv, L!AsksInv, L!KnownInv, L!ShownInv, L!CapPerDay,
       L!EvaluatedOnce, L!At, L!Counted
<1>7. ASSUME L!SaveProfile PROVE FitInv'
  <2>1. UNCHANGED <<v5, v6, v7, v8, v9, v10, v11, v12, v13>>
    BY <1>7 DEF L!SaveProfile
  <2>2. L!TypeOK'
    BY <1>7, FitCounts DEF FitInv, L!TypeOK, L!SaveProfile, L!Days, L!Versions
  <2>. QED
    BY <2>1, <2>2 DEF FitInv, L!AskingInv, L!AsksInv, L!KnownInv, L!ShownInv, L!CapPerDay,
       L!EvaluatedOnce, L!At, L!Counted
<1>8. ASSUME L!Midnight PROVE FitInv'
  <2>1. UNCHANGED <<v5, v6, v7, v8, v9, v10, v11, v12, v13>>
    BY <1>8 DEF L!Midnight
  <2>2. L!TypeOK'
    BY <1>8, FitCounts DEF FitInv, L!TypeOK, L!Midnight, L!Days, L!Versions
  <2>. QED
    BY <2>1, <2>2 DEF FitInv, L!AskingInv, L!AsksInv, L!KnownInv, L!ShownInv, L!CapPerDay,
       L!EvaluatedOnce, L!At, L!Counted
<1>9. CASE UNCHANGED L!mvars
  BY <1>9 DEF L!mvars, FitInv, L!TypeOK, L!Call, L!AskingInv, L!At, L!AsksInv, L!Counted,
      L!KnownInv, L!ShownInv, L!CapPerDay, L!EvaluatedOnce
<1>. QED  BY <1>1, <1>2, <1>3, <1>4, <1>5, <1>6, <1>7, <1>8, <1>9 DEF L!MNext

\* What a call shows was read, or judged, for the row it read.
LEMMA FitShown == FitInv => L!ShownFitsTheRow
BY DEF FitInv, L!ShownInv, L!ShownFitsTheRow, L!At

-------------------------------------------------------------------------------
(* What a sign-up costs *)
U == INSTANCE SignupUsage WITH
  Txs <- Ids, Users <- Bound.users, Creators <- Names, Brands <- Bound.brands,
  Demos <- Bound.demos, MaxEntries <- Bound.entries, account <- v1, owner <- v2,
  verified <- v3, members <- v4, charged <- v5, job <- v6, at <- v7, draft <- v8, raced <- v9,
  entries <- v10, own <- v11, step <- v12, seen <- v13, rowLocks <- v14

ASSUME UsageAssumption == Bound.entries \in Nat

\* Every transaction has its rows and its place.
UsageLedger == DOMAIN v11 = Ids /\ DOMAIN v12 = Ids

UsageInv ==
  /\ U!TablesTyped /\ UsageLedger /\ U!JobsInv /\ U!EntriesInv /\ U!ChargesInv /\ U!TriggeredInv
  /\ U!ChargedAreVerifiedMembers /\ U!MissedOnlyInRace

\* Nothing is written at first.
LEMMA UsageBegins == U!Init => UsageInv
<1>. SUFFICES ASSUME U!Init PROVE UsageInv
  OBVIOUS
<1>1. /\ U!Idle \in U!Job /\ U!Empty \in U!Draft /\ U!Idle.type = "none"
      /\ U!Empty.members = {} /\ U!Empty.verified = {} /\ U!Empty.charged = {} /\ U!Empty.accounts = {}
  BY DEF U!Idle, U!Empty, U!Job, U!Draft
<1>2. /\ v6 = [x \in Ids |-> U!Idle] /\ v7 = [x \in Ids |-> "idle"] /\ v8 = [x \in Ids |-> U!Empty]
      /\ v10 = {} /\ v11 = [x \in Ids |-> {}] /\ v12 = [x \in Ids |-> "idle"]
      /\ v3 = {} /\ v4 = {} /\ v5 = {} /\ v9 = {}
      /\ v1 = [u \in Bound.users |-> None] /\ v2 = [c \in Names |-> None]
  BY DEF U!Init, U!L!LInit
<1>3. U!TablesTyped
  BY <1>1, <1>2 DEF U!TablesTyped, U!Steps
<1>4. UsageLedger
  BY <1>2 DEF UsageLedger
<1>5. U!JobsInv
  BY <1>1, <1>2 DEF U!JobsInv, U!JobFits
<1>6. U!EntriesInv /\ U!ChargesInv /\ U!TriggeredInv
  BY <1>1, <1>2 DEF U!EntriesInv, U!CommittedTold, U!WriterTold, U!WrittenOnce, U!Told, U!ChargesInv, U!TriggeredInv, U!Triggered
<1>7. U!ChargedAreVerifiedMembers /\ U!MissedOnlyInRace
  BY <1>2 DEF U!ChargedAreVerifiedMembers, U!MissedOnlyInRace
<1>. QED  BY <1>3, <1>4, <1>5, <1>6, <1>7 DEF UsageInv

\* The entries of a membership stay its own when a transaction tells nothing, and writes
\* only a membership that no one else has written.
LEMMA EntriesStay ==
  ASSUME UsageInv, NEW x \in Ids, UNCHANGED <<v4, v10, v11>>,
         \A y \in Ids \ {x} : v7'[y] = v7[y] /\ v8'[y] = v8[y],
         \A m \in v8'[x].members :
           m \in v8[x].members \/ (m \notin v4 /\ \A y \in Ids \ {x} : m \notin v8[y].members),
         \A m \in Names \X Bound.brands :
           (m \in v8'[x].members /\ v7'[x] = "done") <=> (m \in v8[x].members /\ v7[x] = "done")
  PROVE  U!EntriesInv'
<1>. SUFFICES ASSUME NEW m \in Names \X Bound.brands
              PROVE  U!CommittedTold(m)' /\ U!WrittenOnce(m)' /\ \A y \in Ids : U!WriterTold(m, y)'
  BY DEF U!EntriesInv
<1>1. U!CommittedTold(m) /\ U!WrittenOnce(m) /\ \A y \in Ids : U!WriterTold(m, y)
  BY DEF UsageInv, U!EntriesInv
<1>2. U!CommittedTold(m)'
  BY <1>1 DEF U!CommittedTold
<1>3. U!WrittenOnce(m)'
  BY <1>1 DEF U!WrittenOnce, U!Others
<1>4. \A y \in Ids : U!WriterTold(m, y)'
  BY <1>1 DEF U!WriterTold
<1>. QED  BY <1>2, <1>3, <1>4

\* A step that writes no membership, verification or charge changes nothing of what counts.
LEMMA UsageMoves ==
  ASSUME UsageInv, NEW x \in Ids, UNCHANGED <<v1, v2, v3, v4, v5, v9, v10, v11>>,
         \A y \in Ids \ {x} : v7'[y] = v7[y] /\ v8'[y] = v8[y],
         v8'[x].members = v8[x].members, v8'[x].verified = v8[x].verified, v8'[x].charged = v8[x].charged,
         v7'[x] = v7[x] \/ (v8[x].members = {} /\ v8[x].verified = {} /\ v8[x].charged = {})
  PROVE  /\ U!EntriesInv' /\ U!ChargesInv' /\ U!TriggeredInv'
         /\ U!ChargedAreVerifiedMembers' /\ U!MissedOnlyInRace'
<1>1. U!EntriesInv'
  <2>1. \A m \in Names \X Bound.brands : v7'[x] # v7[x] => m \notin v8[x].members
    OBVIOUS
  <2>. QED  BY <2>1, EntriesStay
<1>2. U!ChargesInv'
  BY DEF UsageInv, U!ChargesInv
<1>3. U!TriggeredInv'
  <2>1. CASE v7'[x] = v7[x]
    <3>1. \A y \in Ids : U!Triggered(y)' <=> U!Triggered(y)
      BY <2>1 DEF U!Triggered
    <3>2. \A y \in Ids : /\ v8'[y].members = v8[y].members /\ v8'[y].verified = v8[y].verified
                        /\ v8'[y].charged = v8[y].charged
      OBVIOUS
    <3>. QED  BY <3>1, <3>2 DEF UsageInv, U!TriggeredInv, U!Others
  <2>2. CASE v8[x].members = {} /\ v8[x].verified = {} /\ v8[x].charged = {}
    <3>1. \A y \in Ids \ {x} : U!Triggered(y)' <=> U!Triggered(y)
      BY DEF U!Triggered
    <3>. QED  BY <2>2, <3>1 DEF UsageInv, U!TriggeredInv, U!Others
  <2>. QED  BY <2>1, <2>2
<1>4. U!ChargedAreVerifiedMembers' /\ U!MissedOnlyInRace'
  BY DEF UsageInv, U!ChargedAreVerifiedMembers, U!MissedOnlyInRace
<1>. QED  BY <1>1, <1>2, <1>3, <1>4

\* The sign-up keeps what it promises, in every step.
LEMMA UsageKeeps == UsageInv /\ [U!Next]_(U!vars) => UsageInv'
<1>. SUFFICES ASSUME UsageInv, [U!Next]_(U!vars) PROVE UsageInv'
  OBVIOUS
<1>1. ASSUME NEW x \in Ids, NEW u \in Bound.users, NEW b \in Bound.brands, U!Join(x, u, b) PROVE UsageInv'
  <2>1. /\ v6 \in [Ids -> U!Job] /\ v8 \in [Ids -> U!Draft] /\ DOMAIN v11 = Ids /\ DOMAIN v12 = Ids
        /\ v7 \in [Ids -> U!Steps]
    BY DEF UsageInv, UsageLedger, U!TablesTyped
  <2>5. /\ v12[x] = "idle" /\ v12' = [v12 EXCEPT ![x] = "active"]
        /\ UNCHANGED <<v1, v2, v3, v4, v5, v8, v9, v10, v11>>
    BY <1>1 DEF U!Join, U!L!Begin, U!tables
  <2>2. UNCHANGED <<v1, v2, v3, v4, v5, v9, v10, v11>> /\ DOMAIN v12' = Ids
    BY <2>1, <2>5
  <2>6. /\ v6' = [v6 EXCEPT ![x] = [type |-> "join", user |-> u, creator |-> None, brand |-> b]]
        /\ v7' = [v7 EXCEPT ![x] = "find"]
    BY <1>1 DEF U!Join, U!Goto
  <2>3. /\ [type |-> "join", user |-> u, creator |-> None, brand |-> b] \in U!Job
        /\ v6' \in [Ids -> U!Job] /\ v7' \in [Ids -> U!Steps] /\ v8' \in [Ids -> U!Draft]
    <3>1. [type |-> "join", user |-> u, creator |-> None, brand |-> b] \in U!Job
      BY DEF U!Job
    <3>. QED  BY <2>1, <2>5, <2>6, <3>1 DEF U!Steps
  <2>7. v7[x] = "idle" /\ v8[x].members = {} /\ v8[x].verified = {} /\ v8[x].charged = {}
    BY <2>5 DEF UsageInv, U!JobsInv, U!JobFits
  <2>4. /\ \A y \in Ids \ {x} : v7'[y] = v7[y] /\ v8'[y] = v8[y]
        /\ v8'[x].members = v8[x].members /\ v8'[x].verified = v8[x].verified /\ v8'[x].charged = v8[x].charged
        /\ v8[x].members = {} /\ v8[x].verified = {} /\ v8[x].charged = {}
    BY <2>1, <2>5, <2>6, <2>7
  <2>80. U!TablesTyped'
    BY <2>1, <2>2, <2>3 DEF UsageInv, U!TablesTyped, U!Steps
  <2>81. UsageLedger'
    BY <2>1, <2>2 DEF UsageInv, UsageLedger
  <2>82. U!JobsInv'
    <3>1. v7'[x] = "find" /\ v6'[x].type = "join" /\ v8' = v8 /\ v11' = v11 /\ v12'[x] # "idle"
      BY <2>1, <2>5, <2>6
    <3>2. \A y \in Ids \ {x} : v6'[y] = v6[y] /\ v7'[y] = v7[y] /\ v12'[y] = v12[y]
      BY <2>1, <2>5, <2>6
    <3>. QED  BY <2>7, <3>1, <3>2 DEF UsageInv, U!JobsInv, U!JobFits, U!Membership
  <2>. QED
    BY <2>2, <2>4, <2>80, <2>81, <2>82, UsageMoves DEF UsageInv
<1>2. ASSUME NEW x \in Ids, NEW c \in Names, U!Verify(x, c) PROVE UsageInv'
  <2>1. /\ v6 \in [Ids -> U!Job] /\ v8 \in [Ids -> U!Draft] /\ DOMAIN v11 = Ids /\ DOMAIN v12 = Ids
        /\ v7 \in [Ids -> U!Steps]
    BY DEF UsageInv, UsageLedger, U!TablesTyped
  <2>5. /\ v12[x] = "idle" /\ v12' = [v12 EXCEPT ![x] = "active"]
        /\ UNCHANGED <<v1, v2, v3, v4, v5, v8, v9, v10, v11>>
    BY <1>2 DEF U!Verify, U!L!Begin, U!tables
  <2>2. UNCHANGED <<v1, v2, v3, v4, v5, v9, v10, v11>> /\ DOMAIN v12' = Ids
    BY <2>1, <2>5
  <2>6. /\ v6' = [v6 EXCEPT ![x] = [type |-> "verify", user |-> None, creator |-> c, brand |-> None]]
        /\ v7' = [v7 EXCEPT ![x] = "update"]
    BY <1>2 DEF U!Verify, U!Goto
  <2>3. /\ [type |-> "verify", user |-> None, creator |-> c, brand |-> None] \in U!Job
        /\ v6' \in [Ids -> U!Job] /\ v7' \in [Ids -> U!Steps] /\ v8' \in [Ids -> U!Draft]
    <3>1. [type |-> "verify", user |-> None, creator |-> c, brand |-> None] \in U!Job
      BY DEF U!Job
    <3>. QED  BY <2>1, <2>5, <2>6, <3>1 DEF U!Steps
  <2>7. v7[x] = "idle" /\ v8[x].members = {} /\ v8[x].verified = {} /\ v8[x].charged = {} /\ v8[x].accounts = {}
    BY <2>5 DEF UsageInv, U!JobsInv, U!JobFits
  <2>4. /\ \A y \in Ids \ {x} : v7'[y] = v7[y] /\ v8'[y] = v8[y]
        /\ v8'[x].members = v8[x].members /\ v8'[x].verified = v8[x].verified /\ v8'[x].charged = v8[x].charged
        /\ v8[x].members = {} /\ v8[x].verified = {} /\ v8[x].charged = {}
    BY <2>1, <2>5, <2>6, <2>7
  <2>80. U!TablesTyped'
    BY <2>1, <2>2, <2>3 DEF UsageInv, U!TablesTyped, U!Steps
  <2>81. UsageLedger'
    BY <2>1, <2>2 DEF UsageInv, UsageLedger
  <2>82. U!JobsInv'
    <3>1. v7'[x] = "update" /\ v6'[x].type = "verify" /\ v6'[x].creator = c /\ v8' = v8 /\ v11' = v11 /\ v12'[x] # "idle"
      BY <2>1, <2>5, <2>6
    <3>2. \A y \in Ids \ {x} : v6'[y] = v6[y] /\ v7'[y] = v7[y] /\ v12'[y] = v12[y]
      BY <2>1, <2>5, <2>6
    <3>. QED  BY <2>7, <3>1, <3>2 DEF UsageInv, U!JobsInv, U!JobFits, U!Membership
  <2>. QED
    BY <2>2, <2>4, <2>80, <2>81, <2>82, UsageMoves DEF UsageInv
<1>3. ASSUME NEW x \in Ids, U!FindCreator(x) PROVE UsageInv'
  <2>1. /\ v6 \in [Ids -> U!Job] /\ v8 \in [Ids -> U!Draft] /\ DOMAIN v11 = Ids /\ DOMAIN v12 = Ids
        /\ v7 \in [Ids -> U!Steps]
    BY DEF UsageInv, UsageLedger, U!TablesTyped
  <2>5. /\ UNCHANGED <<v1, v2, v3, v4, v5, v8, v9, v10, v11, v12>> /\ v7[x] = "find"
    BY <1>3 DEF U!FindCreator, U!tables, U!lvars
  <2>2. UNCHANGED <<v1, v2, v3, v4, v5, v9, v10, v11>> /\ DOMAIN v12' = Ids
    BY <2>1, <2>5
  <2>6. PICK c \in Names : /\ v6' = [v6 EXCEPT ![x].creator = c]
                           /\ v7' = [v7 EXCEPT ![x] = "join"] \/ v7' = [v7 EXCEPT ![x] = "profile"]
    <3>1. CASE v1[v6[x].user] # None
      <4>1. v6[x].type = "join"
        BY <2>5 DEF UsageInv, U!JobsInv, U!JobFits
      <4>2. v6[x].user \in Bound.users
        BY <2>1, <4>1 DEF U!Job, U!Idle
      <4>3. v1[v6[x].user] \in Names
        BY <3>1, <4>2 DEF UsageInv, U!TablesTyped
      <4>. QED  BY <1>3, <3>1, <4>3 DEF U!FindCreator, U!Goto
    <3>2. CASE v1[v6[x].user] = None
      BY <1>3, <3>2 DEF U!FindCreator, U!Goto, U!Fresh
    <3>. QED  BY <3>1, <3>2
  <2>8. v6[x] \in U!Job /\ v6[x].type = "join"
    BY <2>1, <2>5 DEF UsageInv, U!JobsInv, U!JobFits
  <2>9. [v6[x] EXCEPT !.creator = c] \in U!Job
    <3>1. v6[x] \in [type : {"join"}, user : Bound.users, creator : Names \cup {None}, brand : Bound.brands]
      BY <2>8 DEF U!Job, U!Idle
    <3>2. [v6[x] EXCEPT !.creator = c] \in [type : {"join"}, user : Bound.users, creator : Names \cup {None}, brand : Bound.brands]
      BY <3>1
    <3>. QED  BY <3>2 DEF U!Job
  <2>3. v6' \in [Ids -> U!Job] /\ v7' \in [Ids -> U!Steps] /\ v8' \in [Ids -> U!Draft]
    BY <2>1, <2>5, <2>6, <2>9 DEF U!Steps
  <2>7. v8[x].members = {} /\ v8[x].verified = {} /\ v8[x].charged = {}
    BY <2>5 DEF UsageInv, U!JobsInv, U!JobFits
  <2>4. /\ \A y \in Ids \ {x} : v7'[y] = v7[y] /\ v8'[y] = v8[y]
        /\ v8'[x].members = v8[x].members /\ v8'[x].verified = v8[x].verified /\ v8'[x].charged = v8[x].charged
        /\ v8[x].members = {} /\ v8[x].verified = {} /\ v8[x].charged = {}
    BY <2>1, <2>5, <2>6, <2>7
  <2>80. U!TablesTyped'
    BY <2>1, <2>2, <2>3 DEF UsageInv, U!TablesTyped, U!Steps
  <2>81. UsageLedger'
    BY <2>1, <2>2 DEF UsageInv, UsageLedger
  <2>82. U!JobsInv'
    <3>1. v7'[x] \in {"join", "profile"} /\ v6'[x].type = "join" /\ v6'[x].creator = c
      <4>1. v6'[x] = [v6[x] EXCEPT !.creator = c]
        BY <2>1, <2>6
      <4>2. v6[x] \in [type : {"join"}, user : Bound.users, creator : Names \cup {None}, brand : Bound.brands]
        BY <2>8 DEF U!Job, U!Idle
      <4>. QED  BY <2>1, <2>6, <4>1, <4>2
    <3>2. \A y \in Ids \ {x} : v6'[y] = v6[y] /\ v7'[y] = v7[y]
      BY <2>1, <2>6
    <3>3. v12[x] # "idle" /\ UNCHANGED <<v8, v11, v12>>
      BY <2>5 DEF UsageInv, U!JobsInv, U!JobFits
    <3>. QED  BY <2>5, <2>7, <3>1, <3>2, <3>3 DEF UsageInv, U!JobsInv, U!JobFits, U!Membership
  <2>. QED
    BY <2>2, <2>4, <2>80, <2>81, <2>82, UsageMoves DEF UsageInv
<1>4. ASSUME NEW x \in Ids, U!SaveCreator(x) PROVE UsageInv'
  <2>1. /\ v6 \in [Ids -> U!Job] /\ v8 \in [Ids -> U!Draft] /\ DOMAIN v11 = Ids /\ DOMAIN v12 = Ids
        /\ v7 \in [Ids -> U!Steps]
    BY DEF UsageInv, UsageLedger, U!TablesTyped
  <2>5. /\ UNCHANGED <<v1, v2, v3, v4, v5, v6, v9, v10, v11, v12>> /\ v7[x] = "profile"
        /\ v8' = [v8 EXCEPT ![x].accounts = {<<v6[x].user, v6[x].creator>>}]
        /\ v7' = [v7 EXCEPT ![x] = "log_profile"]
    BY <1>4 DEF U!SaveCreator, U!tables, U!lvars, U!Goto
  <2>2. UNCHANGED <<v1, v2, v3, v4, v5, v9, v10, v11>> /\ DOMAIN v12' = Ids
    BY <2>1, <2>5
  <2>7. /\ v6[x].type = "join" /\ v6[x].creator \in Names
        /\ v8[x].members = {} /\ v8[x].verified = {} /\ v8[x].charged = {}
    BY <2>5 DEF UsageInv, U!JobsInv, U!JobFits
  <2>8. v6[x].user \in Bound.users /\ v8[x] \in U!Draft
    BY <2>1, <2>7 DEF U!Job, U!Idle
  <2>9. /\ v8'[x] = [v8[x] EXCEPT !.accounts = {<<v6[x].user, v6[x].creator>>}]
        /\ \A y \in Ids \ {x} : v8'[y] = v8[y]
    BY <2>1, <2>5
  <2>10. /\ v8'[x] \in U!Draft
         /\ v8'[x].members = v8[x].members /\ v8'[x].verified = v8[x].verified /\ v8'[x].charged = v8[x].charged
    BY <2>7, <2>8, <2>9 DEF U!Draft
  <2>3. v6' \in [Ids -> U!Job] /\ v7' \in [Ids -> U!Steps] /\ v8' \in [Ids -> U!Draft]
    BY <2>1, <2>5, <2>9, <2>10 DEF U!Steps
  <2>4. /\ \A y \in Ids \ {x} : v7'[y] = v7[y] /\ v8'[y] = v8[y]
        /\ v8'[x].members = v8[x].members /\ v8'[x].verified = v8[x].verified /\ v8'[x].charged = v8[x].charged
        /\ v8[x].members = {} /\ v8[x].verified = {} /\ v8[x].charged = {}
    BY <2>1, <2>5, <2>7, <2>9, <2>10
  <2>80. U!TablesTyped'
    BY <2>1, <2>2, <2>3 DEF UsageInv, U!TablesTyped, U!Steps
  <2>81. UsageLedger'
    BY <2>1, <2>2 DEF UsageInv, UsageLedger
  <2>82. U!JobsInv'
    <3>1. v7'[x] = "log_profile" /\ \A y \in Ids \ {x} : v7'[y] = v7[y]
      BY <2>1, <2>5
    <3>2. v12[x] # "idle" /\ UNCHANGED <<v6, v11, v12>>
      BY <2>5 DEF UsageInv, U!JobsInv, U!JobFits
    <3>. QED  BY <2>4, <2>5, <2>7, <3>1, <3>2 DEF UsageInv, U!JobsInv, U!JobFits, U!Membership
  <2>. QED
    BY <2>2, <2>4, <2>80, <2>81, <2>82, UsageMoves DEF UsageInv
<1>5. ASSUME NEW x \in Ids, U!InsertMember(x) PROVE UsageInv'
  <2>1. /\ v6 \in [Ids -> U!Job] /\ v8 \in [Ids -> U!Draft] /\ DOMAIN v11 = Ids /\ DOMAIN v12 = Ids
        /\ v7 \in [Ids -> U!Steps]
    BY DEF UsageInv, UsageLedger, U!TablesTyped
  <2>2. /\ UNCHANGED <<v1, v2, v3, v4, v5, v6, v9, v10, v11, v12>> /\ v7[x] = "join"
        /\ \A y \in Ids \ {x} : U!Membership(x) \notin v8[y].members
    BY <1>5 DEF U!InsertMember, U!tables, U!lvars, U!Others
  <2>3. /\ v6[x].type = "join" /\ v6[x].creator \in Names /\ v12[x] # "idle"
        /\ v8[x].members = {} /\ v8[x].verified = {} /\ v8[x].charged = {}
    BY <2>2 DEF UsageInv, U!JobsInv, U!JobFits
  <2>4. v8[x] \in U!Draft /\ U!Membership(x) \in Names \X Bound.brands
    BY <2>1, <2>3 DEF U!Job, U!Idle, U!Membership
  <2>5. UsageLedger'
    BY <2>1, <2>2 DEF UsageLedger
  <2>6. CASE U!Membership(x) \in v4
    <3>1. v7' = [v7 EXCEPT ![x] = "done"] /\ v8' = v8
      BY <1>5, <2>6 DEF U!InsertMember, U!Goto
    <3>2. v7'[x] = "done" /\ \A y \in Ids \ {x} : v7'[y] = v7[y]
      BY <2>1, <3>1
    <3>3. U!TablesTyped'
      BY <2>1, <2>2, <3>1 DEF UsageInv, U!TablesTyped, U!Steps
    <3>4. U!JobsInv'
      BY <2>2, <2>3, <3>1, <3>2 DEF UsageInv, U!JobsInv, U!JobFits, U!Membership
    <3>. QED  BY <2>1, <2>2, <2>3, <2>5, <3>1, <3>2, <3>3, <3>4, UsageMoves DEF UsageInv
  <2>7. CASE U!Membership(x) \notin v4
    <3>1. v7' = [v7 EXCEPT ![x] = "trigger"] /\ v8' = [v8 EXCEPT ![x].members = {U!Membership(x)}]
      BY <1>5, <2>7 DEF U!InsertMember, U!Goto
    <3>2. v7'[x] = "trigger" /\ \A y \in Ids \ {x} : v7'[y] = v7[y]
      BY <2>1, <3>1
    <3>3. v8'[x] = [v8[x] EXCEPT !.members = {U!Membership(x)}] /\ \A y \in Ids \ {x} : v8'[y] = v8[y]
      BY <2>1, <3>1
    <3>4. /\ v8'[x] \in U!Draft /\ v8'[x].members = {U!Membership(x)} /\ v8'[x].verified = {}
          /\ v8'[x].charged = {} /\ v8'[x].accounts = v8[x].accounts
      BY <2>3, <2>4, <3>3 DEF U!Draft
    <3>5. v7' \in [Ids -> U!Steps] /\ v8' \in [Ids -> U!Draft]
      BY <2>1, <3>1, <3>3, <3>4 DEF U!Steps
    <3>6. U!TablesTyped'
      BY <2>2, <3>5 DEF UsageInv, U!TablesTyped, U!Steps
    <3>7. U!JobsInv'
      <4>1. U!JobFits(x)'
        BY <2>2, <2>3, <3>2, <3>4 DEF UsageInv, U!JobsInv, U!JobFits, U!Membership
      <4>2. \A y \in Ids \ {x} : U!JobFits(y)'
        BY <2>2, <3>2, <3>3 DEF UsageInv, U!JobsInv, U!JobFits, U!Membership
      <4>. QED  BY <4>1, <4>2 DEF U!JobsInv
    <3>8. U!EntriesInv'
      <4>1. \A m \in v8'[x].members : m \notin v4 /\ \A y \in Ids \ {x} : m \notin v8[y].members
        BY <2>2, <2>7, <3>4
      <4>2. \A m : ~(m \in v8'[x].members /\ v7'[x] = "done") /\ ~(m \in v8[x].members /\ v7[x] = "done")
        BY <2>2, <3>2
      <4>. QED  BY <2>2, <3>2, <3>3, <4>1, <4>2, EntriesStay
    <3>9. U!ChargesInv'
      BY <2>2, <3>3, <3>4 DEF UsageInv, U!ChargesInv
    <3>10. U!TriggeredInv'
      BY <2>2, <3>2, <3>3, <3>4 DEF UsageInv, U!TriggeredInv, U!Triggered, U!Others
    <3>11. U!ChargedAreVerifiedMembers' /\ U!MissedOnlyInRace'
      BY <2>2 DEF UsageInv, U!ChargedAreVerifiedMembers, U!MissedOnlyInRace
    <3>. QED  BY <2>5, <3>6, <3>7, <3>8, <3>9, <3>10, <3>11 DEF UsageInv
  <2>. QED  BY <2>6, <2>7
<1>6. ASSUME NEW x \in Ids, U!UpdateCreator(x) PROVE UsageInv'
  <2>1. /\ v6 \in [Ids -> U!Job] /\ v8 \in [Ids -> U!Draft] /\ DOMAIN v11 = Ids /\ DOMAIN v12 = Ids
        /\ v7 \in [Ids -> U!Steps]
    BY DEF UsageInv, UsageLedger, U!TablesTyped
  <2>2. /\ UNCHANGED <<v1, v2, v3, v4, v5, v6, v9, v10, v11, v12>> /\ v7[x] = "update"
    BY <1>6 DEF U!UpdateCreator, U!tables, U!lvars
  <2>3. /\ v6[x].type = "verify" /\ v6[x].creator \in Names /\ v12[x] # "idle"
        /\ v8[x].members = {} /\ v8[x].verified = {} /\ v8[x].charged = {}
    BY <2>2 DEF UsageInv, U!JobsInv, U!JobFits
  <2>4. v8[x] \in U!Draft
    BY <2>1
  <2>5. UsageLedger'
    BY <2>1, <2>2 DEF UsageLedger
  <2>6. CASE v6[x].creator \in v3
    <3>1. v7' = [v7 EXCEPT ![x] = "log"] /\ v8' = v8
      BY <1>6, <2>6 DEF U!UpdateCreator, U!Goto
    <3>2. v7'[x] = "log" /\ \A y \in Ids \ {x} : v7'[y] = v7[y]
      BY <2>1, <3>1
    <3>3. U!TablesTyped'
      BY <2>1, <2>2, <3>1 DEF UsageInv, U!TablesTyped, U!Steps
    <3>4. U!JobsInv'
      BY <2>2, <2>3, <3>1, <3>2 DEF UsageInv, U!JobsInv, U!JobFits, U!Membership
    <3>. QED  BY <2>1, <2>2, <2>3, <2>5, <3>1, <3>2, <3>3, <3>4, UsageMoves DEF UsageInv
  <2>7. CASE v6[x].creator \notin v3
    <3>1. v7' = [v7 EXCEPT ![x] = "trigger"] /\ v8' = [v8 EXCEPT ![x].verified = {v6[x].creator}]
      BY <1>6, <2>7 DEF U!UpdateCreator, U!Goto
    <3>2. v7'[x] = "trigger" /\ \A y \in Ids \ {x} : v7'[y] = v7[y]
      BY <2>1, <3>1
    <3>3. v8'[x] = [v8[x] EXCEPT !.verified = {v6[x].creator}] /\ \A y \in Ids \ {x} : v8'[y] = v8[y]
      BY <2>1, <3>1
    <3>4. /\ v8'[x] \in U!Draft /\ v8'[x].members = {} /\ v8'[x].verified = {v6[x].creator}
          /\ v8'[x].charged = {} /\ v8'[x].accounts = v8[x].accounts
      BY <2>3, <2>4, <3>3 DEF U!Draft
    <3>5. v7' \in [Ids -> U!Steps] /\ v8' \in [Ids -> U!Draft]
      BY <2>1, <3>1, <3>3, <3>4 DEF U!Steps
    <3>6. U!TablesTyped'
      BY <2>2, <3>5 DEF UsageInv, U!TablesTyped, U!Steps
    <3>7. U!JobsInv'
      <4>1. U!JobFits(x)'
        BY <2>2, <2>3, <3>2, <3>4 DEF UsageInv, U!JobsInv, U!JobFits, U!Membership
      <4>2. \A y \in Ids \ {x} : U!JobFits(y)'
        BY <2>2, <3>2, <3>3 DEF UsageInv, U!JobsInv, U!JobFits, U!Membership
      <4>. QED  BY <4>1, <4>2 DEF U!JobsInv
    <3>8. U!EntriesInv'
      BY <2>1, <2>2, <2>3, <2>7, <3>2, <3>3, <3>4, EntriesStay
    <3>9. U!ChargesInv'
      BY <2>2, <3>3, <3>4 DEF UsageInv, U!ChargesInv
    <3>10. U!TriggeredInv'
      BY <2>2, <3>2, <3>3, <3>4 DEF UsageInv, U!TriggeredInv, U!Triggered, U!Others
    <3>11. U!ChargedAreVerifiedMembers' /\ U!MissedOnlyInRace'
      BY <2>2 DEF UsageInv, U!ChargedAreVerifiedMembers, U!MissedOnlyInRace
    <3>. QED  BY <2>5, <3>6, <3>7, <3>8, <3>9, <3>10, <3>11 DEF UsageInv
  <2>. QED  BY <2>6, <2>7
<1>7. ASSUME NEW x \in Ids, U!Trigger(x) PROVE UsageInv'
  <2>1. /\ v6 \in [Ids -> U!Job] /\ v8 \in [Ids -> U!Draft] /\ DOMAIN v11 = Ids /\ DOMAIN v12 = Ids
        /\ v7 \in [Ids -> U!Steps]
    BY DEF UsageInv, UsageLedger, U!TablesTyped
  <2>2. /\ UNCHANGED <<v1, v2, v3, v4, v5, v6, v10, v11, v12>> /\ v7[x] = "trigger"
        /\ v7' = [v7 EXCEPT ![x] = "log"] /\ v8' = [v8 EXCEPT ![x].charged = U!Chargeable(x) \ v5]
        /\ v9' = v9 \cup U!Unseen(x)
    BY <1>7 DEF U!Trigger, U!tables, U!lvars, U!Goto
  <2>3. v8[x] \in U!Draft /\ v8[x].charged = {} /\ v12[x] # "idle" /\ v6[x].creator \in Names
    BY <2>1, <2>2 DEF UsageInv, U!JobsInv, U!JobFits
  <2>4. /\ U!Chargeable(x) \subseteq v4 \cup v8[x].members
        /\ \A m \in U!Chargeable(x) : m[1] \in v3 \cup v8[x].verified /\ m[2] \notin Bound.demos
        /\ \A m \in v4 \cup v8[x].members : /\ m[1] = v6[x].creator /\ m[1] \in v3 \cup v8[x].verified
                                          /\ m[2] \notin Bound.demos => m \in U!Chargeable(x)
    BY DEF U!Chargeable
  <2>5. /\ U!Unseen(x) \subseteq Names \X Bound.brands
        /\ \A y \in Ids \ {x} : \A m \in v8[y].members : m[1] \in v8[x].verified => m \in U!Unseen(x)
        /\ \A y \in Ids \ {x} : \A m \in v8[x].members : m[1] \in v8[y].verified => m \in U!Unseen(x)
    BY <2>1 DEF U!Unseen, U!Others, U!Draft
  <2>6. v7'[x] = "log" /\ \A y \in Ids \ {x} : v7'[y] = v7[y]
    BY <2>1, <2>2
  <2>7. v8'[x] = [v8[x] EXCEPT !.charged = U!Chargeable(x) \ v5] /\ \A y \in Ids \ {x} : v8'[y] = v8[y]
    BY <2>1, <2>2
  <2>8. /\ v8'[x] \in U!Draft /\ v8'[x].members = v8[x].members /\ v8'[x].verified = v8[x].verified
        /\ v8'[x].charged = U!Chargeable(x) \ v5 /\ v8'[x].accounts = v8[x].accounts
    <3>1. U!Chargeable(x) \ v5 \in SUBSET (Names \X Bound.brands)
      BY <2>3, <2>4 DEF U!Draft, UsageInv, U!TablesTyped
    <3>. QED  BY <2>3, <2>7, <3>1 DEF U!Draft
  <2>9. v7' \in [Ids -> U!Steps] /\ v8' \in [Ids -> U!Draft]
    BY <2>1, <2>2, <2>7, <2>8 DEF U!Steps
  <2>10. U!TablesTyped'
    BY <2>2, <2>5, <2>9 DEF UsageInv, U!TablesTyped, U!Steps
  <2>11. UsageLedger'
    BY <2>1, <2>2 DEF UsageLedger
  <2>12. U!JobsInv'
    BY <2>2, <2>3, <2>6, <2>7, <2>8 DEF UsageInv, U!JobsInv, U!JobFits, U!Membership
  <2>13. U!EntriesInv'
    BY <2>1, <2>2, <2>6, <2>7, <2>8, EntriesStay
  <2>14. U!ChargesInv'
    BY <2>2, <2>4, <2>7, <2>8 DEF UsageInv, U!ChargesInv
\* What it made a member, or verified, is of its creator: charged, or not verified, or unseen.
  <2>15. U!TriggeredInv'
    <3>1. /\ \A m \in v8[x].members : m = U!Membership(x) /\ m[1] = v6[x].creator
          /\ \A c \in v8[x].verified : c = v6[x].creator
      BY <2>2 DEF UsageInv, U!JobsInv, U!JobFits, U!Membership
    <3>2. v8'[x].charged \cup v5 \subseteq v5' \cup v8'[x].charged \cup v9' /\ U!Chargeable(x) \subseteq v5 \cup v8'[x].charged
      BY <2>2, <2>8
    <3>3. /\ \A m \in v8[x].members : m[1] \in v3 /\ m[2] \notin Bound.demos =>
               m \in v5 \cup v8'[x].charged
          /\ \A m \in v4 : m[1] \in v8[x].verified /\ m[2] \notin Bound.demos =>
               m \in v5 \cup v8'[x].charged
      BY <2>4, <3>1, <3>2
    <3>4. ASSUME NEW y \in Ids, U!Triggered(y)'
          PROVE  /\ \A m \in v8'[y].members : m[1] \in v3' /\ m[2] \notin Bound.demos =>
                      m \in v5' \cup v8'[y].charged \cup v9'
                 /\ \A m \in v4' : m[1] \in v8'[y].verified /\ m[2] \notin Bound.demos =>
                      m \in v5' \cup v8'[y].charged \cup v9'
      <4>1. CASE y = x
        BY <2>2, <2>8, <3>3, <4>1
      <4>2. CASE y # x
        BY <2>2, <2>6, <2>7, <3>4, <4>2 DEF UsageInv, U!TriggeredInv, U!Triggered
      <4>. QED  BY <4>1, <4>2
    <3>5. ASSUME NEW y \in Ids, NEW z \in Ids, y # z, U!Triggered(y)', U!Triggered(z)',
                 NEW m \in v8'[y].members, m[1] \in v8'[z].verified
          PROVE  m \in v9'
      <4>1. CASE x \in {y, z}
        BY <2>2, <2>5, <2>7, <2>8, <3>5, <4>1
      <4>2. CASE x \notin {y, z}
        BY <2>2, <2>6, <2>7, <3>5, <4>2 DEF UsageInv, U!TriggeredInv, U!Triggered, U!Others
      <4>. QED  BY <4>1, <4>2
    <3>. QED  BY <3>4, <3>5 DEF U!TriggeredInv, U!Others
  <2>16. U!ChargedAreVerifiedMembers' /\ U!MissedOnlyInRace'
    BY <2>2 DEF UsageInv, U!ChargedAreVerifiedMembers, U!MissedOnlyInRace
  <2>. QED  BY <2>10, <2>11, <2>12, <2>13, <2>14, <2>15, <2>16 DEF UsageInv
<1>8. ASSUME NEW x \in Ids, U!Read(x) PROVE UsageInv'
  <2>1. /\ v6 \in [Ids -> U!Job] /\ v8 \in [Ids -> U!Draft] /\ DOMAIN v11 = Ids /\ DOMAIN v12 = Ids
        /\ v7 \in [Ids -> U!Steps]
    BY DEF UsageInv, UsageLedger, U!TablesTyped
  <2>5. UNCHANGED <<v1, v2, v3, v4, v5, v6, v7, v8, v9, v10, v11>> /\ v7[x] # "idle"
    BY <1>8 DEF U!Read, U!tables, U!L!ReadLast, U!L!LockLast
  <2>6. v12[x] # "idle" /\ \A y \in Ids : v12'[y] = "idle" => v12[y] = "idle"
    <3>1. v12[x] # "idle"
      BY <2>5 DEF UsageInv, U!JobsInv, U!JobFits
    <3>2. v12'[x] # "idle" /\ \A y \in Ids \ {x} : v12'[y] = v12[y]
      <4>1. \E s \in {"locking", "inserting"} : v12' = [v12 EXCEPT ![x] = s]
        <5>1. CASE U!L!ReadLast(x)
          BY <5>1 DEF U!L!ReadLast
        <5>2. CASE U!L!LockLast(x)
          BY <5>2 DEF U!L!LockLast
        <5>. QED  BY <5>1, <5>2, <1>8 DEF U!Read
      <4>. QED  BY <2>1, <4>1
    <3>. QED  BY <3>1, <3>2
  <2>2. UNCHANGED <<v1, v2, v3, v4, v5, v9, v10, v11>> /\ DOMAIN v12' = Ids
    BY <2>1, <2>5, <1>8 DEF U!Read, U!L!ReadLast, U!L!LockLast
  <2>3. v6' \in [Ids -> U!Job] /\ v7' \in [Ids -> U!Steps] /\ v8' \in [Ids -> U!Draft]
    BY <2>1, <2>5
  <2>4. /\ \A y \in Ids \ {x} : v7'[y] = v7[y] /\ v8'[y] = v8[y]
        /\ v8'[x].members = v8[x].members /\ v8'[x].verified = v8[x].verified /\ v8'[x].charged = v8[x].charged
        /\ v7'[x] = v7[x]
    BY <2>5
  <2>80. U!TablesTyped'
    BY <2>1, <2>2, <2>3 DEF UsageInv, U!TablesTyped, U!Steps
  <2>81. UsageLedger'
    BY <2>1, <2>2 DEF UsageInv, UsageLedger
  <2>82. U!JobsInv'
    BY <2>5, <2>6 DEF UsageInv, U!JobsInv, U!JobFits, U!Membership
  <2>. QED
    BY <2>2, <2>4, <2>80, <2>81, <2>82, UsageMoves DEF UsageInv
<1>9. ASSUME NEW x \in Ids, U!Write(x) PROVE UsageInv'
  <2>1. /\ v6 \in [Ids -> U!Job] /\ v8 \in [Ids -> U!Draft] /\ DOMAIN v11 = Ids /\ DOMAIN v12 = Ids
        /\ v7 \in [Ids -> U!Steps]
    BY DEF UsageInv, UsageLedger, U!TablesTyped
  <2>. DEFINE n == [seq |-> v13[x] + 1, event |-> U!Event(x), prev |-> U!L!PrevHash(x)]
  <2>2. /\ UNCHANGED <<v1, v2, v3, v4, v5, v6, v8, v9, v10>> /\ v7[x] \in {"log_profile", "log"}
        /\ v7' = [v7 EXCEPT ![x] = IF v7[x] = "log_profile" THEN "join" ELSE "done"]
        /\ v11' = [v11 EXCEPT ![x] = v11[x] \cup {n}] /\ v12' = [v12 EXCEPT ![x] = "active"]
    BY <1>9 DEF U!Write, U!tables, U!lvars, U!Goto, U!L!Insert
  <2>3. n.event = U!Event(x)
    OBVIOUS
  <2>. HIDE DEF n
  <2>4. /\ v7'[x] = IF v7[x] = "log_profile" THEN "join" ELSE "done"
        /\ \A y \in Ids \ {x} : v7'[y] = v7[y] /\ v11'[y] = v11[y] /\ v12'[y] = v12[y]
        /\ v11'[x] = v11[x] \cup {n} /\ v12'[x] = "active" /\ DOMAIN v11' = Ids /\ DOMAIN v12' = Ids
    BY <2>1, <2>2
  <2>5. U!TablesTyped'
    BY <2>1, <2>2 DEF UsageInv, U!TablesTyped, U!Steps
  <2>6. UsageLedger'
    BY <2>4 DEF UsageLedger
  <2>7. U!JobsInv'
    BY <2>2, <2>4 DEF UsageInv, U!JobsInv, U!JobFits, U!Membership
\* The entry of a join tells the membership it wrote; no other entry tells one.
  <2>8. U!EntriesInv'
    <3>1. v6[x].type \in {"join", "verify", "none"} /\ (v7[x] = "log_profile" => v8[x].members = {})
          /\ (v6[x].type # "join" => v8[x].members = {})
          /\ (v6[x].type = "join" /\ v7[x] = "log" => v8[x].members = {U!Membership(x)})
      BY <2>1, <2>2 DEF UsageInv, U!JobsInv, U!JobFits, U!Job, U!Idle
    <3>2. ASSUME NEW m \in Names \X Bound.brands
          PROVE  n.event = [type |-> "joined", creator |-> m[1], brand |-> m[2]] <=> v7[x] = "log" /\ m \in v8[x].members
      <4>1. CASE v7[x] = "log_profile"
        BY <2>3, <3>1, <4>1 DEF U!Event
      <4>2. CASE v7[x] = "log" /\ v6[x].type # "join"
        BY <2>3, <3>1, <4>2 DEF U!Event
      <4>3. CASE v7[x] = "log" /\ v6[x].type = "join"
        <5>1. n.event = [type |-> "joined", creator |-> v6[x].creator, brand |-> v6[x].brand]
          BY <2>3, <4>3 DEF U!Event
        <5>2. m = <<m[1], m[2]>>
          OBVIOUS
        <5>3. m \in v8[x].members <=> m[1] = v6[x].creator /\ m[2] = v6[x].brand
          BY <3>1, <4>3, <5>2 DEF U!Membership
        <5>. QED  BY <4>3, <5>1, <5>3
      <4>. QED  BY <2>2, <4>1, <4>2, <4>3
    <3>3. ASSUME NEW m \in Names \X Bound.brands
          PROVE  U!Told(v11'[x], m) = IF v7[x] = "log" /\ m \in v8[x].members THEN {n} ELSE {}
      <4>1. U!Told(v11[x], m) = {}
        BY <2>2 DEF UsageInv, U!EntriesInv, U!CommittedTold, U!WriterTold, U!WrittenOnce
      <4>. QED  BY <2>4, <3>2, <4>1 DEF U!Told
    <3>4. n \in v11'[x] /\ v7'[x] = "done" <=> v7[x] = "log"
      BY <2>2, <2>4
    <3>5. ASSUME NEW m \in Names \X Bound.brands, NEW y \in Ids
          PROVE  /\ m \in v8'[y].members /\ v7'[y] = "done" => \E e \in v11'[y] : U!Told(v11'[y], m) = {e}
                 /\ ~(m \in v8'[y].members /\ v7'[y] = "done") => U!Told(v11'[y], m) = {}
      <4>1. CASE y = x
        BY <2>2, <2>4, <3>1, <3>3, <3>4, <4>1
      <4>2. CASE y # x
        <5>1. U!WriterTold(m, y)
          BY DEF UsageInv, U!EntriesInv
        <5>. QED  BY <2>2, <2>4, <4>2, <5>1 DEF U!WriterTold
      <4>. QED  BY <4>1, <4>2
    <3>6. \A m \in Names \X Bound.brands : U!CommittedTold(m)' /\ U!WrittenOnce(m)'
      BY <2>2 DEF UsageInv, U!EntriesInv, U!CommittedTold, U!WrittenOnce
    <3>7. \A m \in Names \X Bound.brands : \A y \in Ids : U!WriterTold(m, y)'
      BY <3>5 DEF U!WriterTold
    <3>. QED  BY <3>6, <3>7 DEF U!EntriesInv
  <2>9. U!ChargesInv'
    BY <2>2 DEF UsageInv, U!ChargesInv
  <2>10. U!TriggeredInv'
    <3>1. \A y \in Ids : U!Triggered(y)' => U!Triggered(y)
      BY <2>2, <2>4 DEF U!Triggered
    <3>. QED  BY <2>2, <3>1 DEF UsageInv, U!TriggeredInv, U!Others
  <2>11. U!ChargedAreVerifiedMembers' /\ U!MissedOnlyInRace'
    BY <2>2 DEF UsageInv, U!ChargedAreVerifiedMembers, U!MissedOnlyInRace
  <2>. QED  BY <2>5, <2>6, <2>7, <2>8, <2>9, <2>10, <2>11 DEF UsageInv
<1>10. ASSUME NEW x \in Ids, U!RollBack(x) PROVE UsageInv'
  <2>1. /\ v6 \in [Ids -> U!Job] /\ v8 \in [Ids -> U!Draft] /\ DOMAIN v11 = Ids /\ DOMAIN v12 = Ids
        /\ v7 \in [Ids -> U!Steps]
    BY DEF UsageInv, UsageLedger, U!TablesTyped
  <2>2. /\ UNCHANGED <<v1, v2, v3, v4, v5, v9, v10>>
        /\ v6' = [v6 EXCEPT ![x] = U!Idle] /\ v8' = [v8 EXCEPT ![x] = U!Empty] /\ v7' = [v7 EXCEPT ![x] = "idle"]
        /\ v11' = [v11 EXCEPT ![x] = {}] /\ v12' = [v12 EXCEPT ![x] = "idle"]
    BY <1>10 DEF U!RollBack, U!tables, U!Finish, U!Goto, U!L!Refuse, U!L!Abort, U!L!End
  <2>3. /\ v7'[x] = "idle" /\ v6'[x] = U!Idle /\ v8'[x] = U!Empty /\ v11'[x] = {} /\ v12'[x] = "idle"
        /\ \A y \in Ids \ {x} : /\ v7'[y] = v7[y] /\ v6'[y] = v6[y] /\ v8'[y] = v8[y]
                             /\ v11'[y] = v11[y] /\ v12'[y] = v12[y]
    BY <2>1, <2>2
  <2>4. /\ U!Idle.type = "none" /\ U!Empty.members = {} /\ U!Empty.verified = {} /\ U!Empty.charged = {}
        /\ U!Empty.accounts = {} /\ U!Empty \in U!Draft /\ U!Idle \in U!Job
    BY DEF U!Idle, U!Empty, U!Draft, U!Job
  <2>5. /\ v6' \in [Ids -> U!Job] /\ v7' \in [Ids -> U!Steps] /\ v8' \in [Ids -> U!Draft]
        /\ DOMAIN v11' = Ids /\ DOMAIN v12' = Ids
    BY <2>1, <2>2, <2>4 DEF U!Steps
  <2>6. UsageLedger'
    BY <2>5 DEF UsageLedger
  <2>7. U!JobsInv'
    BY <2>3, <2>4 DEF UsageInv, U!JobsInv, U!JobFits, U!Membership
  <2>8. U!TablesTyped'
    BY <2>2, <2>5 DEF UsageInv, U!TablesTyped, U!Steps
  <2>9. U!EntriesInv'
    <3>1. \A m : U!Told({}, m) = {}
      BY DEF U!Told
    <3>2. \A m \in Names \X Bound.brands : U!CommittedTold(m)'
      BY <2>2 DEF UsageInv, U!EntriesInv, U!CommittedTold
    <3>3. \A m \in Names \X Bound.brands : U!WrittenOnce(m)'
      BY <2>2, <2>3, <2>4 DEF UsageInv, U!EntriesInv, U!WrittenOnce, U!Others
    <3>4. \A m \in Names \X Bound.brands : U!WriterTold(m, x)'
      BY <2>3, <2>4, <3>1 DEF U!WriterTold
    <3>5. \A m \in Names \X Bound.brands : \A y \in Ids \ {x} : U!WriterTold(m, y)'
      BY <2>3 DEF UsageInv, U!EntriesInv, U!WriterTold
    <3>. QED  BY <3>2, <3>3, <3>4, <3>5 DEF U!EntriesInv
  <2>10. U!ChargesInv'
    BY <2>2, <2>3, <2>4 DEF UsageInv, U!ChargesInv
  <2>11. U!TriggeredInv'
    BY <2>2, <2>3, <2>4 DEF UsageInv, U!TriggeredInv, U!Triggered, U!Others
  <2>12. U!ChargedAreVerifiedMembers' /\ U!MissedOnlyInRace'
    BY <2>2 DEF UsageInv, U!ChargedAreVerifiedMembers, U!MissedOnlyInRace
  <2>. QED  BY <2>6, <2>7, <2>8, <2>9, <2>10, <2>11, <2>12 DEF UsageInv
<1>11. ASSUME NEW x \in Ids, U!Commit(x) PROVE UsageInv'
  <2>1. /\ v6 \in [Ids -> U!Job] /\ v8 \in [Ids -> U!Draft] /\ DOMAIN v11 = Ids /\ DOMAIN v12 = Ids
        /\ v7 \in [Ids -> U!Steps]
    BY DEF UsageInv, UsageLedger, U!TablesTyped
  <2>2. /\ v3' = v3 \cup v8[x].verified /\ v4' = v4 \cup v8[x].members /\ v5' = v5 \cup v8[x].charged
        /\ v7[x] = "done" /\ v9' = v9 /\ v10' = v10 \cup v11[x]
        /\ v6' = [v6 EXCEPT ![x] = U!Idle] /\ v8' = [v8 EXCEPT ![x] = U!Empty] /\ v7' = [v7 EXCEPT ![x] = "idle"]
        /\ v11' = [v11 EXCEPT ![x] = {}] /\ v12' = [v12 EXCEPT ![x] = "idle"]
    BY <1>11 DEF U!Commit, U!Finish, U!Goto, U!L!Commit, U!L!End, U!L!Visible
  <2>3. /\ v7'[x] = "idle" /\ v6'[x] = U!Idle /\ v8'[x] = U!Empty /\ v11'[x] = {} /\ v12'[x] = "idle"
        /\ \A y \in Ids \ {x} : /\ v7'[y] = v7[y] /\ v6'[y] = v6[y] /\ v8'[y] = v8[y]
                             /\ v11'[y] = v11[y] /\ v12'[y] = v12[y]
    BY <2>1, <2>2
  <2>4. /\ U!Idle.type = "none" /\ U!Empty.members = {} /\ U!Empty.verified = {} /\ U!Empty.charged = {}
        /\ U!Empty.accounts = {} /\ U!Empty \in U!Draft /\ U!Idle \in U!Job
    BY DEF U!Idle, U!Empty, U!Draft, U!Job
  <2>5. /\ v6' \in [Ids -> U!Job] /\ v7' \in [Ids -> U!Steps] /\ v8' \in [Ids -> U!Draft]
        /\ DOMAIN v11' = Ids /\ DOMAIN v12' = Ids
    BY <2>1, <2>2, <2>4 DEF U!Steps
  <2>6. UsageLedger'
    BY <2>5 DEF UsageLedger
  <2>7. U!JobsInv'
    BY <2>3, <2>4 DEF UsageInv, U!JobsInv, U!JobFits, U!Membership
  <2>8. v8[x] \in U!Draft
    BY <2>1
  <2>9. U!TablesTyped'
    <3>1. v1' \in [Bound.users -> Names \cup {None}] /\ v2' \in [Names -> Bound.users \cup {None}]
      <4>1. v1 \in [Bound.users -> Names \cup {None}] /\ v2 \in [Names -> Bound.users \cup {None}]
        BY DEF UsageInv, U!TablesTyped
      <4>2. v1' = [u \in Bound.users |-> IF <<u, v6[x].creator>> \in v8[x].accounts THEN v6[x].creator ELSE v1[u]]
        BY <1>11 DEF U!Commit
      <4>3. v2' = [c \in Names |-> IF \E u \in Bound.users : <<u, c>> \in v8[x].accounts THEN v6[x].user ELSE v2[c]]
        BY <1>11 DEF U!Commit
      <4>4. v8[x].accounts # {} => v6[x].user \in Bound.users
        <5>1. v8[x].accounts # {} => v6[x].type = "join"
          BY DEF UsageInv, U!JobsInv, U!JobFits
        <5>. QED  BY <2>1, <5>1 DEF U!Job, U!Idle
      <4>5. \A u \in Bound.users : \A c : <<u, c>> \in v8[x].accounts => c \in Names
        BY <2>8 DEF U!Draft
      <4>. QED  BY <4>1, <4>2, <4>3, <4>4, <4>5
    <3>2. v3' \subseteq Names /\ v4' \subseteq Names \X Bound.brands /\ v5' \subseteq Names \X Bound.brands
      BY <2>2, <2>8 DEF U!Draft, UsageInv, U!TablesTyped
    <3>. QED  BY <2>2, <2>5, <3>1, <3>2 DEF UsageInv, U!TablesTyped, U!Steps
  <2>10. U!EntriesInv'
    <3>1. ASSUME NEW m \in Names \X Bound.brands
          PROVE  /\ m \in v4' => \E e \in v10' : U!Told(v10', m) = {e}
                 /\ m \notin v4' => U!Told(v10', m) = {}
      <4>1. U!Told(v10', m) = U!Told(v10, m) \cup U!Told(v11[x], m)
        BY <2>2 DEF U!Told
      <4>2. CASE m \in v8[x].members
        <5>1. m \notin v4 /\ U!Told(v10, m) = {} /\ \E e \in v11[x] : U!Told(v11[x], m) = {e}
          BY <2>2, <4>2 DEF UsageInv, U!EntriesInv, U!CommittedTold, U!WriterTold, U!WrittenOnce
        <5>. QED  BY <2>2, <4>1, <4>2, <5>1
      <4>3. CASE m \notin v8[x].members
        <5>1. U!Told(v11[x], m) = {} /\ (m \in v4' <=> m \in v4)
          BY <2>2, <4>3 DEF UsageInv, U!EntriesInv, U!CommittedTold, U!WriterTold, U!WrittenOnce
        <5>2. (m \in v4 => \E e \in v10 : U!Told(v10, m) = {e}) /\ (m \notin v4 => U!Told(v10, m) = {})
          BY DEF UsageInv, U!EntriesInv, U!CommittedTold, U!WriterTold, U!WrittenOnce
        <5>. QED  BY <2>2, <4>1, <5>1, <5>2
      <4>. QED  BY <4>2, <4>3
    <3>2. ASSUME NEW m \in Names \X Bound.brands, NEW y \in Ids, m \in v8'[y].members
          PROVE  m \notin v4' /\ \A z \in Ids \ {y} : m \notin v8'[z].members
      BY <2>2, <2>3, <2>4, <3>2 DEF UsageInv, U!EntriesInv, U!CommittedTold, U!WriterTold, U!WrittenOnce, U!Others
    <3>3. ASSUME NEW m \in Names \X Bound.brands, NEW y \in Ids
          PROVE  /\ m \in v8'[y].members /\ v7'[y] = "done" => \E e \in v11'[y] : U!Told(v11'[y], m) = {e}
                 /\ ~(m \in v8'[y].members /\ v7'[y] = "done") => U!Told(v11'[y], m) = {}
      <4>1. CASE y = x
        BY <2>3, <2>4, <4>1 DEF U!Told
      <4>2. CASE y # x
        <5>1. U!WriterTold(m, y)
          BY DEF UsageInv, U!EntriesInv
        <5>. QED  BY <2>3, <4>2, <5>1 DEF U!WriterTold
      <4>. QED  BY <4>1, <4>2
    <3>. QED  BY <3>1, <3>2, <3>3 DEF U!EntriesInv, U!CommittedTold, U!WriterTold, U!WrittenOnce, U!Others
  <2>11. U!ChargesInv'
    BY <2>2, <2>3, <2>4 DEF UsageInv, U!ChargesInv
  <2>12. U!Triggered(x)
    BY <2>2 DEF U!Triggered
  <2>13. U!TriggeredInv'
    <3>1. ASSUME NEW y \in Ids, U!Triggered(y)'
          PROVE  y # x /\ U!Triggered(y) /\ v8'[y] = v8[y]
      BY <2>3, <3>1 DEF U!Triggered
    <3>2. ASSUME NEW y \in Ids, U!Triggered(y)', NEW m \in v8'[y].members, m[1] \in v3', m[2] \notin Bound.demos
          PROVE  m \in v5' \cup v8'[y].charged \cup v9'
      BY <2>2, <2>12, <3>1, <3>2 DEF UsageInv, U!TriggeredInv, U!Others
    <3>3. ASSUME NEW y \in Ids, U!Triggered(y)', NEW m \in v4', m[1] \in v8'[y].verified, m[2] \notin Bound.demos
          PROVE  m \in v5' \cup v8'[y].charged \cup v9'
      BY <2>2, <2>12, <3>1, <3>3 DEF UsageInv, U!TriggeredInv, U!Others
    <3>4. ASSUME NEW y \in Ids, NEW z \in Ids, y # z, U!Triggered(y)', U!Triggered(z)',
                 NEW m \in v8'[y].members, m[1] \in v8'[z].verified
          PROVE  m \in v9'
      BY <2>2, <3>1, <3>4 DEF UsageInv, U!TriggeredInv, U!Others
    <3>. QED  BY <3>2, <3>3, <3>4 DEF U!TriggeredInv, U!Others
  <2>14. U!ChargedAreVerifiedMembers'
    BY <2>2 DEF UsageInv, U!ChargesInv, U!ChargedAreVerifiedMembers
  <2>15. U!MissedOnlyInRace'
    <3>1. SUFFICES ASSUME NEW m \in v4', m[1] \in v3', m[2] \notin Bound.demos PROVE m \in v5' \cup v9'
      BY DEF U!MissedOnlyInRace
    <3>2. CASE m \in v8[x].members /\ m[1] \in v3
      BY <2>2, <2>12, <3>1, <3>2 DEF UsageInv, U!TriggeredInv
    <3>3. CASE m \in v4 /\ m[1] \in v8[x].verified
      BY <2>2, <2>12, <3>1, <3>3 DEF UsageInv, U!TriggeredInv
    <3>4. CASE m \in v4 /\ m[1] \in v3
      BY <2>2, <3>1, <3>4 DEF UsageInv, U!MissedOnlyInRace
    <3>5. ~(m \in v8[x].members /\ m[1] \in v8[x].verified)
      BY DEF UsageInv, U!JobsInv, U!JobFits
    <3>. QED  BY <2>2, <3>1, <3>2, <3>3, <3>4, <3>5
  <2>. QED  BY <2>6, <2>7, <2>9, <2>10, <2>11, <2>13, <2>14, <2>15 DEF UsageInv
<1>12. CASE UNCHANGED U!vars
  <2>1. UNCHANGED <<v1, v2, v3, v4, v5, v6, v7, v8, v9, v10, v11, v12>>
    BY <1>12 DEF U!vars, U!tables, U!lvars
  <2>2. U!TablesTyped' /\ UsageLedger'
    BY <2>1 DEF UsageInv, U!TablesTyped, UsageLedger
  <2>3. U!JobsInv'
    BY <2>1 DEF UsageInv, U!JobsInv, U!JobFits, U!Membership
  <2>4. U!EntriesInv'
    BY <2>1 DEF UsageInv, U!EntriesInv, U!CommittedTold, U!WriterTold, U!WrittenOnce
  <2>5. U!ChargesInv' /\ U!ChargedAreVerifiedMembers' /\ U!MissedOnlyInRace'
    BY <2>1 DEF UsageInv, U!ChargesInv, U!ChargedAreVerifiedMembers, U!MissedOnlyInRace
  <2>6. U!TriggeredInv'
    BY <2>1 DEF UsageInv, U!TriggeredInv, U!Triggered
  <2>. QED  BY <2>2, <2>3, <2>4, <2>5, <2>6 DEF UsageInv
<1>. QED  BY <1>1, <1>2, <1>3, <1>4, <1>5, <1>6, <1>7, <1>8, <1>9, <1>10, <1>11, <1>12 DEF U!Next

\* One entry tells each membership.
LEMMA UsageTold == UsageInv => U!LedgerTellsMembers
<1>1. \A T : U!Cardinality(T) = Cardinality(T)
  BY DEF U!Cardinality, Cardinality
<1>. SUFFICES ASSUME UsageInv, NEW m \in Names \X Bound.brands
              PROVE  Cardinality(U!Told(v10, m)) = IF m \in v4 THEN 1 ELSE 0
  BY <1>1 DEF U!LedgerTellsMembers
<1>2. IF m \in v4 THEN \E e \in v10 : U!Told(v10, m) = {e} ELSE U!Told(v10, m) = {}
  BY DEF UsageInv, U!EntriesInv, U!CommittedTold
<1>. QED  BY <1>2, FS_EmptySet, FS_Singleton

\* The ledger of the sign-up: its rows and what is read of it are in its bounds.
LedgerTyped ==
  /\ U!L!TypeOK
  /\ \A x \in Ids : \A e \in U!L!Visible(x) : e.seq \in 1..Bound.entries
  /\ \A x \in Ids : v12[x] \in {"locking", "inserting"} =>
       /\ v13[x] < Bound.entries
       /\ v12[x] = "locking" => v13[x] # 0
       /\ v13[x] # 0 => \E e \in U!L!Visible(x) : e.seq = v13[x]

\* Of some numbers up to another one is the greatest.
LEMMA Greatest ==
  ASSUME NEW n \in Nat, NEW s \in SUBSET (0..n), s # {}
  PROVE  U!L!Max(s) \in s /\ \A y \in s : U!L!Max(s) >= y
<1>. DEFINE back == {n - t : t \in s}
            before == {p \in Nat \X Nat : p[1] < p[2]}
<1>0. \A t \in s : t \in Nat /\ t <= n /\ n - t \in Nat
  OBVIOUS
<1>1. back \in SUBSET Nat /\ back # {}
  BY <1>0
<1>2. IsWellFoundedOn(before, Nat)
  BY NatLessThanWellFounded, Zenon DEF OpToRel
<1>3. PICK b \in back : \A y \in back : ~ (<<y, b>> \in before)
  BY <1>1, <1>2, WFMin, Zenon
<1>4. ASSUME NEW y \in back PROVE b <= y
  <2>1. b \in Nat /\ y \in Nat /\ <<y, b>> \in Nat \X Nat
    BY <1>1
  <2>2. <<y, b>>[1] = y /\ <<y, b>>[2] = b
    OBVIOUS
  <2>3. ~ (y < b)
    BY <1>3, <1>4, <2>1, <2>2, Zenon
  <2>. QED  BY <2>1, <2>3
<1>5. PICK x \in s : b = n - x
  OBVIOUS
<1>6. ASSUME NEW y \in s PROVE x >= y
  <2>1. n - x <= n - y
    BY <1>4, <1>5
  <2>. QED  BY <1>0, <2>1
<1>. QED  BY <1>6 DEF U!L!Max

\* There are no rows at first.
LEMMA LedgerBegins == U!Init => LedgerTyped
BY UsageAssumption DEF U!Init, U!L!LInit, U!L!TypeOK, LedgerTyped, U!L!Visible

\* What the sign-up does is to the ledger a step of the ledger, or none.
LEMMA LedgerSteps == UsageInv /\ [U!Next]_(U!vars) => [U!L!LNext]_(U!L!lvars)
<1>. SUFFICES ASSUME UsageInv, [U!Next]_(U!vars) PROVE U!L!LNext \/ UNCHANGED U!L!lvars
  OBVIOUS
<1>1. ASSUME NEW x \in Ids, U!L!Begin(x) PROVE U!L!LNext
  BY <1>1 DEF U!L!LNext
<1>2. ASSUME NEW x \in Ids, U!Write(x) PROVE U!L!LNext
  <2>1. v6[x] \in U!Job /\ v7[x] \in {"log_profile", "log"} /\ v6[x].creator \in Names
    BY <1>2 DEF U!Write, UsageInv, U!TablesTyped, U!JobsInv, U!JobFits
  <2>2. /\ v7[x] = "log_profile" => v6[x].type = "join"
        /\ v6[x].type = "join" => v6[x].brand \in Bound.brands
        /\ v6[x].type = "verify" => v6[x].brand = None
        /\ v6[x].type \in {"join", "verify"}
    BY <2>1, NullAssumption DEF U!Job, U!Idle, UsageInv, U!JobsInv, U!JobFits
  <2>3. U!Event(x) \in U!Events
    BY <2>1, <2>2 DEF U!Event, U!Events
  <2>4. U!L!Insert(x, U!Event(x))
    BY <1>2 DEF U!Write
  <2>. QED  BY <2>3, <2>4 DEF U!L!LNext, U!L!AppendNext
<1>3. ASSUME NEW x \in Ids, U!Read(x) PROVE U!L!LNext
  BY <1>3 DEF U!Read, U!L!LNext, U!L!AppendNext
<1>4. ASSUME NEW x \in Ids, U!RollBack(x) PROVE U!L!LNext
  BY <1>4 DEF U!RollBack, U!L!LNext, U!L!AppendNext
<1>5. ASSUME NEW x \in Ids, U!Commit(x) PROVE U!L!LNext
  BY <1>5 DEF U!Commit, U!L!LNext
<1>6. ASSUME NEW x \in Ids,
             U!FindCreator(x) \/ U!SaveCreator(x) \/ U!InsertMember(x) \/ U!UpdateCreator(x) \/ U!Trigger(x)
      PROVE  UNCHANGED U!L!lvars
  BY <1>6 DEF U!FindCreator, U!SaveCreator, U!InsertMember, U!UpdateCreator, U!Trigger, U!lvars, U!L!lvars
<1>7. CASE UNCHANGED U!vars
  BY <1>7 DEF U!vars, U!lvars, U!L!lvars
<1>8. ASSUME NEW x \in Ids, NEW u \in Bound.users, NEW b \in Bound.brands, U!Join(x, u, b) PROVE U!L!LNext
  BY <1>1, <1>8 DEF U!Join
<1>9. ASSUME NEW x \in Ids, NEW c \in Names, U!Verify(x, c) PROVE U!L!LNext
  BY <1>1, <1>9 DEF U!Verify
<1>. QED  BY <1>2, <1>3, <1>4, <1>5, <1>6, <1>7, <1>8, <1>9 DEF U!Next

\* Every step of the ledger keeps its rows and what is read of them.
LEMMA LedgerKeeps == LedgerTyped /\ [U!L!LNext]_(U!L!lvars) => LedgerTyped'
<1>. SUFFICES ASSUME LedgerTyped, [U!L!LNext]_(U!L!lvars) PROVE LedgerTyped'
  OBVIOUS
<1>t. /\ v10 \subseteq U!L!Entry /\ v11 \in [Ids -> SUBSET U!L!Entry]
      /\ v12 \in [Ids -> {"idle", "active", "locking", "inserting"}]
      /\ v13 \in [Ids -> 0..Bound.entries] /\ v14 \in [Ids -> SUBSET (1..Bound.entries)]
  BY DEF LedgerTyped, U!L!TypeOK
<1>1. ASSUME NEW x \in Ids, U!L!Begin(x) PROVE LedgerTyped'
  BY <1>t, <1>1 DEF U!L!Begin, LedgerTyped, U!L!TypeOK, U!L!Visible
<1>2. ASSUME NEW x \in Ids, U!L!ReadLast(x) PROVE LedgerTyped'
  <2>. DEFINE s == {0} \cup {e.seq : e \in U!L!Visible(x)}
  <2>1. s \in SUBSET (0..Bound.entries) /\ s # {}
    BY UsageAssumption DEF LedgerTyped
  <2>2. U!L!Last(x) \in s
    BY <2>1, UsageAssumption, Greatest DEF U!L!Last
  <2>3. U!L!Last(x) \in 0..Bound.entries
    BY <2>1, <2>2
  <2>4. /\ v13' = [v13 EXCEPT ![x] = U!L!Last(x)] /\ UNCHANGED <<v10, v11, v14>>
        /\ v12' = [v12 EXCEPT ![x] = IF U!L!Last(x) = 0 THEN "inserting" ELSE "locking"]
        /\ U!L!Last(x) < Bound.entries
    BY <1>2 DEF U!L!ReadLast
  <2>5. U!L!Last(x) # 0 => \E e \in U!L!Visible(x) : e.seq = U!L!Last(x)
    BY <2>2
  <2>. DEFINE last == U!L!Last(x)
  <2>. HIDE DEF last, s
  <2>6. v13' = [v13 EXCEPT ![x] = last] /\ v12' = [v12 EXCEPT ![x] = IF last = 0 THEN "inserting" ELSE "locking"]
        /\ last < Bound.entries /\ last \in 0..Bound.entries
        /\ (last # 0 => \E e \in U!L!Visible(x) : e.seq = last)
    BY <2>3, <2>4, <2>5 DEF last
  <2>. QED  BY <1>t, <2>4, <2>6 DEF LedgerTyped, U!L!TypeOK, U!L!Visible
<1>3. ASSUME NEW x \in Ids, U!L!LockLast(x) PROVE LedgerTyped'
  <2>1. v13[x] \in 1..Bound.entries
    BY <1>t, <1>3, UsageAssumption DEF U!L!LockLast, LedgerTyped
  <2>. QED  BY <1>t, <1>3, <2>1 DEF U!L!LockLast, LedgerTyped, U!L!TypeOK, U!L!Visible
<1>4. ASSUME NEW x \in Ids, NEW v \in U!Events, U!L!Insert(x, v) PROVE LedgerTyped'
  <2>1. U!L!PrevHash(x) \in Seq(U!Events)
    <3>1. CASE v13[x] = 0
      BY <3>1 DEF U!L!PrevHash, U!L!GENESIS
    <3>2. CASE v13[x] # 0
      <4>1. PICK e \in U!L!Visible(x) : e.seq = v13[x]
        BY <1>4, <3>2 DEF LedgerTyped, U!L!Insert
      <4>. DEFINE d == CHOOSE d \in U!L!Visible(x) : d.seq = v13[x]
      <4>2. d \in U!L!Visible(x)
        BY <4>1
      <4>3. d.prev \in Seq(U!Events) /\ d.event \in U!Events
        BY <1>t, <4>2 DEF U!L!Visible, U!L!Entry
      <4>4. U!L!PrevHash(x) = Append(d.prev, d.event)
        BY <3>2 DEF U!L!PrevHash, U!L!Hash
      <4>. QED  BY <4>3, <4>4
    <3>. QED  BY <3>1, <3>2
  <2>. DEFINE r == [seq |-> v13[x] + 1, event |-> v, prev |-> U!L!PrevHash(x)]
  <2>2. v13[x] + 1 \in 1..Bound.entries
    BY <1>t, <1>4, UsageAssumption DEF LedgerTyped, U!L!Insert
  <2>3. r \in U!L!Entry /\ r.seq \in 1..Bound.entries
    BY <2>1, <2>2 DEF U!L!Entry
  <2>4. v11' = [v11 EXCEPT ![x] = v11[x] \cup {r}] /\ v12' = [v12 EXCEPT ![x] = "active"]
        /\ UNCHANGED <<v10, v13, v14>>
    BY <1>4 DEF U!L!Insert
  <2>. HIDE DEF r
  <2>5. U!L!TypeOK'
    BY <1>t, <2>3, <2>4 DEF U!L!TypeOK
  <2>6. \A y \in Ids : /\ U!L!Visible(y) \subseteq U!L!Visible(y)'
                       /\ U!L!Visible(y)' \subseteq U!L!Visible(y) \cup {r}
    BY <1>t, <2>4 DEF U!L!Visible
  <2>7. \A y \in Ids : v12'[y] \in {"locking", "inserting"} => v12[y] = v12'[y]
    BY <1>t, <2>4
  <2>. QED  BY <2>3, <2>4, <2>5, <2>6, <2>7 DEF LedgerTyped
<1>5. ASSUME NEW x \in Ids, U!L!End(x), v10' = v10 \/ v10' = U!L!Visible(x) PROVE LedgerTyped'
  <2>1. /\ v11' = [v11 EXCEPT ![x] = {}] /\ v14' = [v14 EXCEPT ![x] = {}]
        /\ v12' = [v12 EXCEPT ![x] = "idle"] /\ v13' = [v13 EXCEPT ![x] = 0]
    BY <1>5 DEF U!L!End
  <2>2. v10 \subseteq v10' /\ v10' \subseteq U!L!Visible(x)
    BY <1>5 DEF U!L!Visible
  <2>3. U!L!TypeOK'
    BY <1>t, <2>1, <2>2, UsageAssumption DEF U!L!TypeOK, U!L!Visible
  <2>4. \A y \in Ids : U!L!Visible(y)' \subseteq U!L!Visible(y) \cup U!L!Visible(x)
    BY <1>t, <2>1, <2>2 DEF U!L!Visible
  <2>5. \A y \in Ids : v12'[y] \in {"locking", "inserting"} =>
          v12[y] = v12'[y] /\ v13'[y] = v13[y] /\ U!L!Visible(y) \subseteq U!L!Visible(y)'
    BY <1>t, <2>1, <2>2 DEF U!L!Visible
  <2>. QED  BY <2>3, <2>4, <2>5 DEF LedgerTyped
<1>6. CASE UNCHANGED U!L!lvars
  BY <1>6 DEF U!L!lvars, LedgerTyped, U!L!TypeOK, U!L!Visible
<1>. QED  BY <1>1, <1>2, <1>3, <1>4, <1>5, <1>6
          DEF U!L!LNext, U!L!AppendNext, U!L!Refuse, U!L!Abort, U!L!Commit

\* The sign-up and its ledger together.
SignUpsInv == UsageInv /\ LedgerTyped

\* At first nobody has signed up.
LEMMA SignUpsBegin == U!Init => SignUpsInv
BY UsageBegins, LedgerBegins DEF SignUpsInv

\* Whatever accounts, connections and administrators do, the sign-up and its ledger are well.
LEMMA SignUpsKeep == SignUpsInv /\ [U!Next]_(U!vars) => SignUpsInv'
BY UsageKeeps, LedgerSteps, LedgerKeeps DEF SignUpsInv

-------------------------------------------------------------------------------
(* The session of a browser, Session *)
S == INSTANCE Session WITH
  Accounts <- Names, Tokens <- Ids, surface <- v1, issued <- v2, jwt <- v3, me <- v4,
  chip <- v5, panel <- v6, asked <- v7, raced <- v8

ASSUME SessionAssumption ==
  None \notin S!Record /\ "open" \notin Ids /\ "refused" \notin Ids

\* The session of a browser.
SignedUpInv == S!TypeOK /\ S!TokensInv /\ S!SignedInv

\* Nobody has signed in at first.
LEMMA SessionBegins == S!SInit => SignedUpInv
<1>. SUFFICES ASSUME S!SInit PROVE SignedUpInv
  OBVIOUS
<1>1. (v1 \in {"brand", "creator"}) \in BOOLEAN
  OBVIOUS
<1>2. S!TypeOK
  BY <1>1 DEF S!SInit, S!TypeOK
<1>3. S!TokensInv /\ S!SignedInv
  BY DEF S!SInit, S!TokensInv, S!SignedInv
<1>. QED  BY <1>2, <1>3 DEF SignedUpInv

\* The session stays of one account, in every step.
LEMMA SessionKeeps == SignedUpInv /\ [S!SNext]_(S!svars) => SignedUpInv'
<1>. SUFFICES ASSUME SignedUpInv, [S!SNext]_(S!svars) PROVE SignedUpInv'
  OBVIOUS
<1>1. ASSUME NEW s \in S!Surfaces, NEW link \in {"none", "magic", "invite"}, S!Startup(s, link) PROVE SignedUpInv'
  <2>10. /\ v7' = (IF link = "magic" /\ s = "creator" THEN {S!Ask("magic")} ELSE {})
                   \cup (IF v3 # None THEN {S!Ask("me")} ELSE {})
         /\ v1' = s /\ v4' = None /\ ~v8' /\ UNCHANGED <<v2, v3>> /\ v8' \in BOOLEAN
         /\ v5' = (v3 = None /\ (s \in {"brand", "creator"} \/ link = "invite"))
         /\ v6' = IF link = "invite" THEN "invite" ELSE "none"
    BY <1>1 DEF S!Startup
  <2>11. \A k \in S!Kinds : /\ S!Ask(k) \in S!Request /\ S!Ask(k).kind = k /\ S!Ask(k).token = v3
                           /\ S!Ask(k).answer = "open"
    BY DEF S!Ask, S!Request, SignedUpInv, S!TypeOK
  <2>12. \A x \in v7' : /\ x \in S!Request /\ x.token = v3 /\ x.answer \notin Ids
                       /\ \/ x = S!Ask("magic") /\ x.kind = "magic" /\ s = "creator"
                          \/ x = S!Ask("me") /\ x.kind = "me" /\ v3 # None
    BY <2>10, <2>11, SessionAssumption DEF S!Kinds
  <2>13. v6' \in {"invite", "none"} /\ v5' \in BOOLEAN /\ (v5' => v3 = None)
    BY <2>10
  <2>1. S!TypeOK'
    BY <2>10, <2>12, <2>13 DEF SignedUpInv, S!TypeOK
  <2>2. S!TokensInv'
    BY <2>10, <2>12, <2>13 DEF SignedUpInv, S!TokensInv
  <2>3. S!SignedInv'
    BY <2>10, <2>12, <2>13 DEF S!SignedInv
  <2>. QED  BY <2>1, <2>2, <2>3 DEF SignedUpInv
<1>2. ASSUME S!ChipClick PROVE SignedUpInv'
  <2>1. S!TypeOK'
    BY <1>2, NullAssumption, SessionAssumption DEF SignedUpInv, S!TypeOK, S!Request, S!Kinds,
        S!Surfaces, S!Record, S!ChipClick
  <2>2. S!TokensInv'
    BY <1>2, NullAssumption, SessionAssumption DEF SignedUpInv, S!TokensInv, S!TypeOK, S!Request,
        S!ChipClick
  <2>3. S!SignedInv'
    BY <1>2, NullAssumption, SessionAssumption DEF SignedUpInv, S!SignedInv, S!TokensInv, S!TypeOK,
        S!Request, S!ChipClick
  <2>. QED  BY <2>1, <2>2, <2>3 DEF SignedUpInv
<1>3. ASSUME S!AuthLogin PROVE SignedUpInv'
  <2>1. S!TypeOK'
    BY <1>3, NullAssumption, SessionAssumption DEF SignedUpInv, S!TypeOK, S!Request, S!Kinds,
        S!Surfaces, S!Record, S!AuthLogin, S!Submit, S!Ask
  <2>2. S!TokensInv'
    BY <1>3, NullAssumption, SessionAssumption DEF SignedUpInv, S!TokensInv, S!TypeOK, S!Request,
        S!AuthLogin, S!Submit, S!Ask
  <2>3. S!SignedInv'
    BY <1>3, NullAssumption, SessionAssumption DEF SignedUpInv, S!SignedInv, S!TokensInv, S!TypeOK,
        S!Request, S!AuthLogin, S!Submit, S!Ask
  <2>. QED  BY <2>1, <2>2, <2>3 DEF SignedUpInv
<1>4. ASSUME S!AuthOtp PROVE SignedUpInv'
  <2>1. S!TypeOK'
    BY <1>4, NullAssumption, SessionAssumption DEF SignedUpInv, S!TypeOK, S!Request, S!Kinds,
        S!Surfaces, S!Record, S!AuthOtp, S!Submit, S!Ask
  <2>2. S!TokensInv'
    BY <1>4, NullAssumption, SessionAssumption DEF SignedUpInv, S!TokensInv, S!TypeOK, S!Request,
        S!AuthOtp, S!Submit, S!Ask
  <2>3. S!SignedInv'
    BY <1>4, NullAssumption, SessionAssumption DEF SignedUpInv, S!SignedInv, S!TokensInv, S!TypeOK,
        S!Request, S!AuthOtp, S!Submit, S!Ask
  <2>. QED  BY <2>1, <2>2, <2>3 DEF SignedUpInv
<1>5. ASSUME S!AuthAccept PROVE SignedUpInv'
  <2>1. S!TypeOK'
    BY <1>5, NullAssumption, SessionAssumption DEF SignedUpInv, S!TypeOK, S!Request, S!Kinds,
        S!Surfaces, S!Record, S!AuthAccept, S!Submit, S!Ask
  <2>2. S!TokensInv'
    BY <1>5, NullAssumption, SessionAssumption DEF SignedUpInv, S!TokensInv, S!TypeOK, S!Request,
        S!AuthAccept, S!Submit, S!Ask
  <2>3. S!SignedInv'
    BY <1>5, NullAssumption, SessionAssumption DEF SignedUpInv, S!SignedInv, S!TokensInv, S!TypeOK,
        S!Request, S!AuthAccept, S!Submit, S!Ask
  <2>. QED  BY <2>1, <2>2, <2>3 DEF SignedUpInv
<1>6. ASSUME S!AuthLogout PROVE SignedUpInv'
  <2>1. S!TypeOK'
    BY <1>6, NullAssumption, SessionAssumption DEF SignedUpInv, S!TypeOK, S!Request, S!Kinds,
        S!Surfaces, S!Record, S!AuthLogout
  <2>2. S!TokensInv'
    BY <1>6, NullAssumption, SessionAssumption DEF SignedUpInv, S!TokensInv, S!TypeOK, S!Request,
        S!AuthLogout
  <2>3. S!SignedInv'
    BY <1>6, NullAssumption, SessionAssumption DEF SignedUpInv, S!SignedInv, S!TokensInv, S!TypeOK,
        S!Request, S!AuthLogout
  <2>. QED  BY <2>1, <2>2, <2>3 DEF SignedUpInv
<1>7. ASSUME NEW t \in Ids, S!Revoke(t) PROVE SignedUpInv'
  <2>10. /\ v2[t] \in S!Record /\ v2' = [v2 EXCEPT ![t].revoked = TRUE] /\ v2 \in [Ids -> S!Record \cup {None}]
         /\ UNCHANGED <<v1, v3, v4, v5, v6, v7, v8>>
    BY <1>7 DEF S!Revoke, S!Valid, SignedUpInv, S!TypeOK
  <2>11. v2'[t] = [v2[t] EXCEPT !.revoked = TRUE] /\ \A u \in Ids \ {t} : v2'[u] = v2[u]
    BY <2>10
  <2>12. v2'[t] \in S!Record /\ v2'[t].account = v2[t].account /\ v2'[t].pending = v2[t].pending
    BY <2>10, <2>11 DEF S!Record
  <2>13. \A u \in Ids : v2[u] # None => v2'[u] # None /\ v2'[u].account = v2[u].account /\ v2'[u].pending = v2[u].pending
    BY <2>11, <2>12, SessionAssumption
  <2>14. \A x \in v7 : x.token \in Ids \cup {None}
    BY DEF SignedUpInv, S!TypeOK, S!Request
  <2>1. S!TypeOK'
    BY <2>10, <2>11, <2>12 DEF SignedUpInv, S!TypeOK
  <2>2. S!TokensInv'
    BY <2>10, <2>13, <2>14 DEF SignedUpInv, S!TypeOK, S!TokensInv
  <2>3. S!SignedInv'
    BY <2>10, <2>13 DEF SignedUpInv, S!TypeOK, S!SignedInv
  <2>. QED  BY <2>1, <2>2, <2>3 DEF SignedUpInv
<1>8. ASSUME NEW r \in v7, S!Refuse(r) PROVE SignedUpInv'
  <2>. DEFINE n == [r EXCEPT !.answer = "refused"]
  <2>10. v7' = (v7 \ {r}) \cup {n} /\ r \in S!Request /\ r.answer = "open" /\ r.answer \notin Ids
    BY <1>8, SessionAssumption DEF S!Refuse, S!Answer, SignedUpInv, S!TypeOK
  <2>11. /\ n \in S!Request /\ n.kind = r.kind /\ n.token = r.token /\ n.answer = "refused"
         /\ \A x \in v7' : x = n \/ (x \in v7 /\ x # r)
    BY <1>8, <2>10 DEF S!Request, S!Refuse, S!Valid
  <2>. HIDE DEF n
  <2>1. S!TypeOK'
    BY <1>8, <2>10, <2>11 DEF SignedUpInv, S!TypeOK, S!Record, S!Refuse
  <2>2. S!TokensInv'
    BY <1>8, <2>10, <2>11, NullAssumption, SessionAssumption DEF SignedUpInv, S!TokensInv, S!TypeOK, S!Refuse
  <2>3. S!SignedInv'
    BY <1>8, <2>10, <2>11 DEF SignedUpInv, S!SignedInv, S!Refuse
  <2>. QED  BY <2>1, <2>2, <2>3 DEF SignedUpInv
<1>9. ASSUME NEW r \in v7, S!ServeMe(r) PROVE SignedUpInv'
  <2>. DEFINE n == [r EXCEPT !.answer = r.token]
  <2>10. v7' = (v7 \ {r}) \cup {n} /\ r \in S!Request /\ r.answer = "open" /\ r.answer \notin Ids
    BY <1>9, SessionAssumption DEF S!ServeMe, S!Answer, SignedUpInv, S!TypeOK
  <2>11. /\ n \in S!Request /\ n.kind = r.kind /\ n.token = r.token /\ n.answer = r.token
         /\ \A x \in v7' : x = n \/ (x \in v7 /\ x # r)
    BY <1>9, <2>10 DEF S!Request, S!ServeMe, S!Valid
  <2>. HIDE DEF n
  <2>1. S!TypeOK'
    BY <1>9, <2>10, <2>11 DEF SignedUpInv, S!TypeOK, S!Record, S!ServeMe, S!Valid
  <2>2. S!TokensInv'
    BY <1>9, <2>10, <2>11, NullAssumption, SessionAssumption DEF SignedUpInv, S!TokensInv, S!TypeOK, S!ServeMe, S!Valid
  <2>3. S!SignedInv'
    BY <1>9, <2>10, <2>11 DEF SignedUpInv, S!SignedInv, S!ServeMe, S!Valid
  <2>. QED  BY <2>1, <2>2, <2>3 DEF SignedUpInv
<1>10. ASSUME NEW r \in v7, NEW t \in Ids, NEW a \in Names, NEW p \in BOOLEAN, S!ServeSignIn(r, t, a, p) PROVE SignedUpInv'
  <2>. DEFINE n == [r EXCEPT !.answer = t]
  <2>10. v7' = (v7 \ {r}) \cup {n} /\ r \in S!Request /\ r.answer = "open" /\ r.answer \notin Ids
    BY <1>10, SessionAssumption DEF S!ServeSignIn, S!Answer, SignedUpInv, S!TypeOK
  <2>11. /\ n \in S!Request /\ n.kind = r.kind /\ n.token = r.token /\ n.answer = t
         /\ \A x \in v7' : x = n \/ (x \in v7 /\ x # r)
    BY <1>10, <2>10 DEF S!Request, S!ServeSignIn, S!Valid
  <2>. HIDE DEF n
  <2>12. /\ v2[t] = None /\ v2' = [v2 EXCEPT ![t] = [account |-> a, pending |-> p, revoked |-> FALSE]]
         /\ UNCHANGED <<v1, v3, v4, v5, v6, v8>> /\ r.kind # "me" /\ (p => r.kind = "login")
         /\ v2 \in [Ids -> S!Record \cup {None}]
    BY <1>10 DEF S!ServeSignIn, SignedUpInv, S!TypeOK
  <2>13. v2'[t] = [account |-> a, pending |-> p, revoked |-> FALSE] /\ \A u \in Ids \ {t} : v2'[u] = v2[u]
    BY <2>12
  <2>14. v2'[t] \in S!Record /\ v2'[t] # None /\ v2'[t].pending = p
    <3>1. v2'[t] \in S!Record
      BY <2>13 DEF S!Record
    <3>2. v2'[t].pending = p
      <4>. DEFINE m == [account |-> a, pending |-> p, revoked |-> FALSE]
      <4>1. m.pending = p
        OBVIOUS
      <4>2. v2'[t] = m
        BY <2>13
      <4>. HIDE DEF m
      <4>. QED  BY <4>1, <4>2
    <3>. QED  BY <3>1, <3>2, SessionAssumption
  <2>15. v3 # t /\ t # None /\ \A x \in v7 : x.token # t /\ x.answer # t
    BY <2>12, NullAssumption DEF SignedUpInv, S!TokensInv
  <2>16. \A x \in v7 : x.token \in Ids \cup {None}
    BY DEF SignedUpInv, S!TypeOK, S!Request
  <2>1. S!TypeOK'
    BY <2>10, <2>11, <2>12, <2>13, <2>14 DEF SignedUpInv, S!TypeOK
  <2>2. S!TokensInv'
    <3>1. v3 # None => v2'[v3] # None
      BY <2>12, <2>13, <2>15 DEF SignedUpInv, S!TypeOK, S!TokensInv
    <3>2. ASSUME NEW x \in v7'
          PROVE  /\ x.token # None => v2'[x.token] # None
                 /\ x.answer \in Ids => v2'[x.answer] # None
                 /\ x.kind = "me" => x.token # None /\ (x.answer \in Ids => x.answer = x.token)
                 /\ x.kind = "magic" => v1 = "creator"
      BY <2>10, <2>11, <2>12, <2>13, <2>14, <2>15, <2>16 DEF SignedUpInv, S!TokensInv
    <3>3. ASSUME NEW x \in v7', x.kind # "me", x.answer \in Ids
          PROVE  /\ x.answer # v3 /\ (v2'[x.answer].pending => x.kind = "login")
                 /\ \A y \in v7' : y.token # x.answer /\ (y.answer = x.answer => y = x)
      <4>1. CASE x = n
        BY <2>10, <2>11, <2>12, <2>14, <2>15, <4>1
      <4>2. CASE x # n
        BY <2>10, <2>11, <2>12, <2>13, <2>15, <3>3, <4>2 DEF SignedUpInv, S!TokensInv
      <4>. QED  BY <4>1, <4>2
    <3>4. \A x, y \in v7' : x.kind = "me" /\ y.kind = "me" => x = y
      BY <2>11, <2>12 DEF SignedUpInv, S!TokensInv
    <3>. QED  BY <2>12, <3>1, <3>2, <3>3, <3>4 DEF SignedUpInv, S!TokensInv
  <2>3. S!SignedInv'
    BY <2>10, <2>11, <2>12, <2>13, <2>15 DEF SignedUpInv, S!SignedInv, S!TypeOK
  <2>. QED  BY <2>1, <2>2, <2>3 DEF SignedUpInv
<1>11. ASSUME NEW r \in v7, S!OnMe(r) PROVE SignedUpInv'
  <2>10. r.answer \in Ids /\ v2[r.answer] # None /\ v2[r.answer].account \in Names /\ v2[r.answer].pending \in BOOLEAN
    BY <1>11 DEF S!OnMe, SignedUpInv, S!TypeOK, S!TokensInv, S!Record
  <2>1. S!TypeOK'
    BY <1>11, <2>10 DEF SignedUpInv, S!TypeOK, S!OnMe, S!Receive
  <2>2. S!TokensInv'
    BY <1>11, NullAssumption, SessionAssumption DEF SignedUpInv, S!TokensInv, S!TypeOK, S!Request,
        S!OnMe, S!Receive
  <2>3. S!SignedInv'
    BY <1>11, NullAssumption, SessionAssumption DEF SignedUpInv, S!SignedInv, S!TokensInv,
        S!TypeOK, S!Request, S!OnMe, S!Receive
  <2>. QED  BY <2>1, <2>2, <2>3 DEF SignedUpInv
<1>12. ASSUME NEW r \in v7, S!OnMeRefused(r) PROVE SignedUpInv'
  <2>1. S!TypeOK'
    BY <1>12, NullAssumption, SessionAssumption DEF SignedUpInv, S!TypeOK, S!Request, S!Kinds,
        S!Surfaces, S!Record, S!OnMeRefused, S!Receive
  <2>2. S!TokensInv'
    BY <1>12, NullAssumption, SessionAssumption DEF SignedUpInv, S!TokensInv, S!TypeOK, S!Request,
        S!OnMeRefused, S!Receive
  <2>3. S!SignedInv'
    BY <1>12, NullAssumption, SessionAssumption DEF SignedUpInv, S!SignedInv, S!TokensInv,
        S!TypeOK, S!Request, S!OnMeRefused, S!Receive
  <2>. QED  BY <2>1, <2>2, <2>3 DEF SignedUpInv
<1>13. ASSUME NEW r \in v7, S!OnSignIn(r) PROVE SignedUpInv'
  <2>10. r.answer \in Ids /\ v2[r.answer] # None /\ v2[r.answer].account \in Names /\ v2[r.answer].pending \in BOOLEAN
    BY <1>13 DEF S!OnSignIn, SignedUpInv, S!TypeOK, S!TokensInv, S!Record
  <2>1. S!TypeOK'
    BY <1>13, <2>10 DEF SignedUpInv, S!TypeOK, S!OnSignIn, S!Receive
  <2>2. S!TokensInv'
    BY <1>13, NullAssumption, SessionAssumption DEF SignedUpInv, S!TokensInv, S!TypeOK, S!Request,
        S!OnSignIn, S!Receive
  <2>3. S!SignedInv'
    BY <1>13, NullAssumption, SessionAssumption DEF SignedUpInv, S!SignedInv, S!TokensInv,
        S!TypeOK, S!Request, S!OnSignIn, S!Receive
  <2>. QED  BY <2>1, <2>2, <2>3 DEF SignedUpInv
<1>14. ASSUME NEW r \in v7, S!OnRefusal(r) PROVE SignedUpInv'
  <2>1. S!TypeOK'
    BY <1>14, NullAssumption, SessionAssumption DEF SignedUpInv, S!TypeOK, S!Request, S!Kinds,
        S!Surfaces, S!Record, S!OnRefusal, S!Receive
  <2>2. S!TokensInv'
    BY <1>14, NullAssumption, SessionAssumption DEF SignedUpInv, S!TokensInv, S!TypeOK, S!Request,
        S!OnRefusal, S!Receive
  <2>3. S!SignedInv'
    BY <1>14, NullAssumption, SessionAssumption DEF SignedUpInv, S!SignedInv, S!TokensInv,
        S!TypeOK, S!Request, S!OnRefusal, S!Receive
  <2>. QED  BY <2>1, <2>2, <2>3 DEF SignedUpInv
<1>15. CASE UNCHANGED S!svars
  BY <1>15 DEF S!svars, SignedUpInv, S!TypeOK, S!Request, S!Kinds, S!Surfaces, S!Record,
      S!TokensInv, S!SignedInv
<1>. QED  BY <1>1, <1>2, <1>3, <1>4, <1>5, <1>6, <1>7, <1>8, <1>9, <1>10, <1>11, <1>12, <1>13, <1>14, <1>15 DEF
    S!SNext

\* The page shows the account its requests are made for.
LEMMA SessionIsOfOne == SignedUpInv => S!MixedOnlyInRace
BY DEF SignedUpInv, S!SignedInv, S!MixedOnlyInRace

-------------------------------------------------------------------------------
(* The epoch of a session, SessionEpoch *)
E == INSTANCE SessionEpoch WITH
  Processes <- Names, Requests <- Ids, Ttl <- Bound.ttl, MaxEpoch <- Bound.epochs,
  MaxTime <- Bound.ticks, now <- v1, since <- v2, resetting <- v3, cache <- v4, request <- v5

ASSUME EpochAssumption ==
  /\ Bound.ttl \in Nat \ {0} /\ Bound.epochs \in Nat /\ Bound.ticks \in Nat
  /\ None \notin Nat /\ None \notin E!Entry /\ None \notin E!Request

\* The epochs of an account.
EpochsInv == E!TypeOK /\ E!EpochInv /\ E!HeldInv

\* The highest epoch is the one the epochs end with.
LEMMA EpochIs ==
  ASSUME NEW e \in E!Epochs, \A d \in E!Epochs : v2[d] # None <=> d <= e
  PROVE  E!Epoch = e
<1>1. v2[e] # None /\ \A d \in E!Epochs : v2[d] # None => d <= e
  BY EpochAssumption DEF E!Epochs
<1>2. \A c \in E!Epochs : (v2[c] # None /\ \A d \in E!Epochs : v2[d] # None => d <= c) => c = e
  BY <1>1, EpochAssumption DEF E!Epochs
<1>. QED  BY <1>1, <1>2 DEF E!Epoch

\* The first epoch is the account's.
LEMMA EpochBegins == E!EInit => EpochsInv
<1>. SUFFICES ASSUME E!EInit PROVE EpochsInv
  OBVIOUS
<1>1. 0 \in E!Epochs /\ 0 \in 0..Bound.ticks /\ \A d \in E!Epochs : d <= 0 <=> d = 0
  BY EpochAssumption DEF E!Epochs
<1>2. E!TypeOK
  BY <1>1 DEF E!EInit, E!TypeOK
<1>3. E!EpochInv
  BY <1>1, EpochAssumption DEF E!EInit, E!EpochInv
<1>4. E!HeldInv
  BY <1>1 DEF E!EInit, E!HeldInv
<1>. QED  BY <1>2, <1>3, <1>4 DEF EpochsInv

\* What is remembered, and found, stays as old as it is told to be, in every step.
LEMMA EpochKeeps == EpochsInv /\ [E!ENext]_(E!evars) => EpochsInv'
<1>. SUFFICES ASSUME EpochsInv, [E!ENext]_(E!evars) PROVE EpochsInv'
  OBVIOUS
<1>1. ASSUME E!Tick PROVE EpochsInv'
  <2>1. E!TypeOK'
    BY <1>1, EpochAssumption DEF EpochsInv, E!TypeOK, E!Tick
  <2>2. E!EpochInv'
    BY <1>1, EpochAssumption DEF EpochsInv, E!EpochInv, E!TypeOK, E!Tick
  <2>3. E!HeldInv'
    <3>1. /\ v1 \in Nat /\ v1' = v1 + 1 /\ UNCHANGED <<v2, v3, v4, v5>>
          /\ \A d \in E!Epochs : v2[d] # None => v2[d] \in Nat
          /\ \A p \in Names : v4[p] # None => v4[p].at \in Nat
          /\ \A r \in Ids : v5[r] # None => v5[r].began \in Nat
      BY <1>1, EpochAssumption DEF EpochsInv, E!TypeOK, E!Tick, E!Entry, E!Request
    <3>. QED  BY <3>1 DEF EpochsInv, E!HeldInv, E!HeldAt
  <2>. QED  BY <2>1, <2>2, <2>3 DEF EpochsInv
<1>2. ASSUME NEW p \in Names, E!Reset(p) PROVE EpochsInv'
  <2>1. E!TypeOK'
    BY <1>2, EpochAssumption DEF EpochsInv, E!TypeOK, E!Reset
  <2>2. E!EpochInv'
    <3>1. PICK e \in E!Epochs : /\ \A d \in E!Epochs : v2[d] # None <=> d <= e
                                /\ v3 # None => e < Bound.epochs
      BY DEF EpochsInv, E!EpochInv
    <3>2. E!Epoch = e
      BY <3>1, EpochIs
    <3>. QED  BY <1>2, <3>1, <3>2 DEF E!Reset, E!EpochInv
  <2>3. E!HeldInv'
    BY <1>2, EpochAssumption DEF EpochsInv, E!HeldInv, E!HeldAt, E!TypeOK, E!Entry, E!Request,
        E!Reset
  <2>. QED  BY <2>1, <2>2, <2>3 DEF EpochsInv
<1>3. ASSUME E!CommitReset PROVE EpochsInv'
  <2>10. PICK e \in E!Epochs : /\ \A d \in E!Epochs : v2[d] # None <=> d <= e
                               /\ v3 # None => e < Bound.epochs
    BY DEF EpochsInv, E!EpochInv
  <2>11. E!Epoch = e
    BY <2>10, EpochIs
  <2>12. /\ v3 # None /\ v3' = None /\ v2' = [v2 EXCEPT ![e + 1] = v1] /\ UNCHANGED <<v1, v4, v5>>
         /\ v1 \in 0..Bound.ticks /\ v2 \in [E!Epochs -> (0..Bound.ticks) \cup {None}]
    BY <1>3, <2>11 DEF E!CommitReset, EpochsInv, E!TypeOK
  <2>13. e \in Nat /\ e < Bound.epochs /\ e + 1 \in E!Epochs /\ Bound.epochs \in Nat /\ v1 # None
    <3>1. e < Bound.epochs
      BY <2>10, <2>12
    <3>2. v1 # None
      BY <2>12, EpochAssumption
    <3>. QED  BY <3>1, <3>2, EpochAssumption DEF E!Epochs
  <2>14. \A d \in E!Epochs : v2'[d] = IF d = e + 1 THEN v1 ELSE v2[d]
    BY <2>12, <2>13
  <2>1. E!TypeOK'
    BY <2>12, <2>13 DEF EpochsInv, E!TypeOK
  <2>2. E!EpochInv'
    <3>1. \A d \in E!Epochs : v2'[d] # None <=> d <= e + 1
      BY <2>10, <2>13, <2>14 DEF E!Epochs
    <3>. QED  BY <2>12, <2>13, <3>1 DEF E!EpochInv
  <2>3. E!HeldInv'
    <3>1. /\ v1 \in Nat /\ Bound.ttl \in Nat \ {0}
          /\ \A p \in Names : v4[p] # None => v4[p].at \in Nat /\ v4[p].epoch \in E!Epochs
          /\ \A r \in Ids : v5[r] # None => /\ v5[r].began \in Nat /\ v5[r].token \in E!Epochs
      BY EpochAssumption DEF EpochsInv, E!TypeOK, E!Entry, E!Request
    <3>2. ASSUME NEW d, NEW t \in Nat, t <= v1, E!HeldAt(d, t)
          PROVE  E!HeldAt(d, t)'
      BY <2>14, <3>1, <3>2 DEF E!HeldAt
    <3>3. \A d \in E!Epochs : v2'[d] # None => v2'[d] <= v1'
      BY <2>12, <2>14, <3>1 DEF EpochsInv, E!HeldInv
    <3>4. \A p \in Names : v4'[p] # None => v4'[p].at <= v1' /\ E!HeldAt(v4[p].epoch, v4[p].at)'
      BY <2>12, <3>1, <3>2 DEF EpochsInv, E!HeldInv
    <3>5. ASSUME NEW r \in Ids, v5[r] # None
          PROVE  /\ v2'[v5[r].token] # None /\ v5[r].began <= v1
                 /\ v5[r].done => v5[r].found # None
                 /\ v5[r].found # None /\ ~v5[r].done => E!HeldAt(v5[r].found, v5[r].began)'
                 /\ v5[r].found # None => \A d \in E!Epochs : v5[r].found < d /\ v2'[d] # None =>
                      v5[r].began < v2'[d] + Bound.ttl
      <4>1. /\ v2[v5[r].token] # None /\ v5[r].began <= v1 /\ (v5[r].done => v5[r].found # None)
            /\ v5[r].began \in Nat /\ v5[r].token \in E!Epochs
            /\ v5[r].found # None /\ ~v5[r].done => E!HeldAt(v5[r].found, v5[r].began)
            /\ v5[r].found # None => \A d \in E!Epochs : v5[r].found < d /\ v2[d] # None =>
                 v5[r].began < v2[d] + Bound.ttl
        BY <3>1, <3>5 DEF EpochsInv, E!HeldInv
      <4>2. v2'[v5[r].token] # None
        BY <2>13, <2>14, <4>1
      <4>3. v5[r].found # None /\ ~v5[r].done => E!HeldAt(v5[r].found, v5[r].began)'
        BY <2>12, <2>14, <3>1, <4>1 DEF E!HeldAt
      <4>4. v5[r].began < v1 + Bound.ttl
        BY <3>1, <4>1
      <4>. QED  BY <2>12, <2>14, <4>1, <4>2, <4>3, <4>4
    <3>. QED  BY <2>12, <3>3, <3>4, <3>5 DEF E!HeldInv, E!HeldAt
  <2>. QED  BY <2>1, <2>2, <2>3 DEF EpochsInv
<1>4. ASSUME E!AbortReset PROVE EpochsInv'
  <2>1. E!TypeOK'
    BY <1>4, EpochAssumption DEF EpochsInv, E!TypeOK, E!AbortReset
  <2>2. E!EpochInv'
    BY <1>4, EpochAssumption DEF EpochsInv, E!EpochInv, E!TypeOK, E!AbortReset
  <2>3. E!HeldInv'
    BY <1>4, EpochAssumption DEF EpochsInv, E!HeldInv, E!HeldAt, E!TypeOK, E!Entry, E!Request,
        E!AbortReset
  <2>. QED  BY <2>1, <2>2, <2>3 DEF EpochsInv
<1>5. ASSUME NEW r \in Ids, NEW p \in Names, NEW t \in E!Epochs, E!Begin(r, p, t) PROVE EpochsInv'
  <2>. DEFINE n == E!Begun(p, t)
  <2>10. /\ n.process = p /\ n.began = v1 /\ n.token = t /\ n.done = E!Fresh(p)
         /\ n.found = IF E!Fresh(p) THEN v4[p].epoch ELSE None
    BY DEF E!Begun
  <2>11. /\ v5 \in [Ids -> E!Request \cup {None}] /\ v4 \in [Names -> E!Entry \cup {None}]
         /\ v1 \in 0..Bound.ticks /\ Bound.ttl \in Nat \ {0} /\ Bound.ticks \in Nat
    BY EpochAssumption DEF EpochsInv, E!TypeOK
  <2>12. E!Fresh(p) => v4[p] # None /\ v4[p].epoch \in E!Epochs /\ v4[p].at \in Nat /\ v1 < v4[p].at + Bound.ttl
    BY <2>11 DEF E!Fresh, E!Entry
  <2>13. n \in E!Request /\ n # None
    <3>1. E!Fresh(p) \in BOOLEAN
      BY DEF E!Fresh
    <3>2. (IF E!Fresh(p) THEN v4[p].epoch ELSE None) \in E!Epochs \cup {None}
      BY <2>12
    <3>3. n \in E!Request
      BY <2>11, <3>1, <3>2 DEF E!Begun, E!Request
    <3>. QED  BY <3>3, EpochAssumption
  <2>14. v5[r] = None /\ v2[t] # None /\ v5' = [v5 EXCEPT ![r] = n] /\ UNCHANGED <<v1, v2, v3, v4>>
    BY <1>5 DEF E!Begin
  <2>. HIDE DEF n
  <2>1. E!TypeOK'
    BY <2>11, <2>13, <2>14 DEF EpochsInv, E!TypeOK
  <2>2. E!EpochInv'
    BY <2>14 DEF EpochsInv, E!EpochInv
  <2>3. E!HeldInv'
    <3>1. E!Epochs \subseteq Nat /\ None \notin Nat /\ \A d \in E!Epochs : v2[d] # None => v2[d] \in Nat
      BY EpochAssumption DEF EpochsInv, E!TypeOK, E!Epochs
    <3>2. n.done => \A d \in E!Epochs : n.found < d /\ v2[d] # None => n.began < v2[d] + Bound.ttl
      BY <2>10, <2>11, <2>12, <3>1 DEF EpochsInv, E!HeldInv, E!HeldAt
    <3>3. n.found # None <=> n.done
      BY <2>10, <2>12, <3>1
    <3>. QED  BY <2>10, <2>11, <2>14, <3>2, <3>3 DEF EpochsInv, E!HeldInv, E!HeldAt
  <2>. QED  BY <2>1, <2>2, <2>3 DEF EpochsInv
<1>6. ASSUME NEW r \in Ids, E!Query(r) PROVE EpochsInv'
  <2>10. /\ v5[r] # None /\ ~v5[r].done /\ v5' = [v5 EXCEPT ![r].found = E!Epoch] /\ UNCHANGED <<v1, v2, v3, v4>>
         /\ v5 \in [Ids -> E!Request \cup {None}] /\ v5[r] \in E!Request
    BY <1>6 DEF E!Query, E!Asking, EpochsInv, E!TypeOK
  <2>11. /\ v5'[r] = [v5[r] EXCEPT !.found = E!Epoch] /\ \A s \in Ids \ {r} : v5'[s] = v5[s]
         /\ E!Epoch \in E!Epochs /\ E!Epoch # None /\ \A d \in E!Epochs : v2[d] # None <=> d <= E!Epoch
    <3>1. PICK e \in E!Epochs : \A d \in E!Epochs : v2[d] # None <=> d <= e
      BY DEF EpochsInv, E!EpochInv
    <3>2. E!Epoch = e
      BY <3>1, EpochIs
    <3>3. e # None
      BY EpochAssumption DEF E!Epochs
    <3>. QED  BY <2>10, <3>1, <3>2, <3>3
  <2>12. /\ v5'[r] \in E!Request /\ v5'[r] # None /\ v5'[r].found = E!Epoch /\ v5'[r].token = v5[r].token
         /\ v5'[r].began = v5[r].began /\ v5'[r].done = v5[r].done
    BY <2>10, <2>11, EpochAssumption DEF E!Request
  <2>13. \A d \in E!Epochs : ~(E!Epoch < d /\ v2[d] # None)
    BY <2>11, EpochAssumption DEF E!Epochs
  <2>1. E!TypeOK'
    BY <2>10, <2>12 DEF EpochsInv, E!TypeOK
  <2>2. E!EpochInv'
    BY <2>10 DEF EpochsInv, E!EpochInv
  <2>3. E!HeldInv'
    BY <2>10, <2>11, <2>12, <2>13 DEF EpochsInv, E!HeldInv, E!HeldAt
  <2>. QED  BY <2>1, <2>2, <2>3 DEF EpochsInv
<1>7. ASSUME NEW r \in Ids, E!Remember(r) PROVE EpochsInv'
  <2>. DEFINE n == [epoch |-> v5[r].found, at |-> v5[r].began]
  <2>10. /\ v5[r] # None /\ ~v5[r].done /\ v5[r].found # None /\ v5' = [v5 EXCEPT ![r].done = TRUE]
         /\ v4' = [v4 EXCEPT ![v5[r].process] = n] /\ UNCHANGED <<v1, v2, v3>>
         /\ v5 \in [Ids -> E!Request \cup {None}] /\ v5[r] \in E!Request /\ v4 \in [Names -> E!Entry \cup {None}]
    BY <1>7 DEF E!Remember, E!Asking, EpochsInv, E!TypeOK
  <2>11. /\ v5'[r] = [v5[r] EXCEPT !.done = TRUE] /\ \A s \in Ids \ {r} : v5'[s] = v5[s]
         /\ n \in E!Entry /\ n.epoch = v5[r].found /\ n.at = v5[r].began /\ v5[r].process \in Names
    BY <2>10 DEF E!Request, E!Entry
  <2>12. /\ v5'[r] \in E!Request /\ v5'[r] # None /\ v5'[r].found = v5[r].found /\ v5'[r].token = v5[r].token
         /\ v5'[r].began = v5[r].began /\ v5'[r].done
    BY <2>10, <2>11, EpochAssumption DEF E!Request
  <2>13. \A p \in Names : v4'[p] = IF p = v5[r].process THEN n ELSE v4[p]
    BY <2>10, <2>11
  <2>. HIDE DEF n
  <2>1. E!TypeOK'
    BY <2>10, <2>11, <2>12 DEF EpochsInv, E!TypeOK
  <2>2. E!EpochInv'
    BY <2>10 DEF EpochsInv, E!EpochInv
  <2>3. E!HeldInv'
    BY <2>10, <2>11, <2>12, <2>13 DEF EpochsInv, E!HeldInv, E!HeldAt
  <2>. QED  BY <2>1, <2>2, <2>3 DEF EpochsInv
<1>8. ASSUME NEW r \in Ids, E!Answer(r) PROVE EpochsInv'
  <2>1. E!TypeOK'
    BY <1>8, EpochAssumption DEF EpochsInv, E!TypeOK, E!Answer
  <2>2. E!EpochInv'
    BY <1>8, EpochAssumption DEF EpochsInv, E!EpochInv, E!TypeOK, E!Answer
  <2>3. E!HeldInv'
    BY <1>8, EpochAssumption DEF EpochsInv, E!HeldInv, E!HeldAt, E!TypeOK, E!Entry, E!Request,
        E!Answer
  <2>. QED  BY <2>1, <2>2, <2>3 DEF EpochsInv
<1>9. ASSUME NEW p \in Names, E!Restart(p) PROVE EpochsInv'
  <2>1. E!TypeOK'
    BY <1>9 DEF EpochsInv, E!TypeOK, E!Restart
  <2>2. E!EpochInv'
    BY <1>9 DEF EpochsInv, E!EpochInv, E!Restart
  <2>3. E!HeldInv'
    BY <1>9, EpochAssumption DEF EpochsInv, E!HeldInv, E!HeldAt, E!TypeOK, E!Entry, E!Request,
        E!Restart
  <2>. QED  BY <2>1, <2>2, <2>3 DEF EpochsInv
<1>10. CASE UNCHANGED E!evars
  BY <1>10 DEF E!evars, EpochsInv, E!TypeOK, E!EpochInv, E!HeldInv, E!HeldAt, E!Entry, E!Request
<1>. QED  BY <1>1, <1>2, <1>3, <1>4, <1>5, <1>6, <1>7, <1>8, <1>9, <1>10 DEF E!ENext

\* A session from before a reset is let in, and one from after it refused, for Ttl at most.
LEMMA EpochJudges == EpochsInv => E!RevokedWithinTtl /\ E!NewSessionWithinTtl
<1>. SUFFICES ASSUME EpochsInv PROVE E!RevokedWithinTtl /\ E!NewSessionWithinTtl
  OBVIOUS
<1>1. \A r \in E!Judged : /\ r \in Ids /\ v5[r] # None /\ v5[r].done /\ v5[r].token \in E!Epochs
                         /\ v5[r].found # None
  BY DEF E!Judged, EpochsInv, E!TypeOK, E!HeldInv, E!Request
<1>2. E!RevokedWithinTtl
  BY <1>1 DEF E!RevokedWithinTtl, E!Accepted, EpochsInv, E!HeldInv
<1>3. E!NewSessionWithinTtl
  BY <1>1 DEF E!NewSessionWithinTtl, E!Accepted, EpochsInv, E!HeldInv
<1>. QED  BY <1>2, <1>3

-------------------------------------------------------------------------------
(* The administrators, AdminAccess *)
X == INSTANCE AdminAccess WITH
  Tabs <- Names, Secrets <- Ids, MaxAsked <- Bound.asked, admins <- v1, otp <- v2, made <- v3,
  jwt <- v4, page <- v5, shown <- v6, app <- v7, asked <- v8, raced <- v9

ASSUME AdminAssumption == IsFiniteSet(Names)

\* How the administrator comes in.
AdminInv == X!TypeOK /\ X!PagesInv /\ X!SecretsInv /\ X!BootstrapInv /\ X!NotLockedOut /\ X!OneBootstrap

\* There are finitely many tabs, whose number bounds the administrators.
LEMMA TabsAreCounted == X!Cardinality(Names) \in Nat
<1>1. X!Cardinality(Names) = Cardinality(Names)
  BY DEF X!Cardinality, Cardinality
<1>. QED  BY <1>1, FS_CardinalityType, AdminAssumption

\* What goes on when a tab is left is what went on before.
LEMMA LeftBehind ==
  ASSUME X!TypeOK, NEW t \in Names
  PROVE  \A x \in X!Left(t) :
           \E r \in v8 :
             /\ x \in X!Request /\ x.tab = r.tab /\ x.kind = r.kind /\ x.secret = r.secret /\ x.answer = r.answer
             /\ (x = r /\ r.tab # t)
                \/ (x = [r EXCEPT !.here = FALSE] /\ r.tab = t /\ r.kind # "me" /\ ~x.here)
<1>. SUFFICES ASSUME NEW x \in X!Left(t)
              PROVE  \E r \in v8 :
                       /\ x \in X!Request /\ x.tab = r.tab /\ x.kind = r.kind /\ x.secret = r.secret
                       /\ x.answer = r.answer
                       /\ (x = r /\ r.tab # t)
                          \/ (x = [r EXCEPT !.here = FALSE] /\ r.tab = t /\ r.kind # "me" /\ ~x.here)
  OBVIOUS
<1>1. CASE x \in v8 /\ x.tab # t
  BY <1>1 DEF X!TypeOK
<1>2. CASE ~(x \in v8 /\ x.tab # t)
  <2>1. PICK r \in v8 : x = [r EXCEPT !.here = FALSE] /\ r.tab = t /\ r.kind \in {"bootstrap", "setup", "enable"}
    BY <1>2 DEF X!Left
  <2>2. r \in X!Request
    BY DEF X!TypeOK
  <2>. QED  BY <2>1, <2>2 DEF X!Request
<1>. QED  BY <1>1, <1>2

\* Nobody is an administrator at first.
LEMMA AdminBegins == X!XInit => AdminInv
<1>. SUFFICES ASSUME X!XInit PROVE AdminInv
  OBVIOUS
<1>1. X!TypeOK
  <2>1. v4 \in BOOLEAN /\ v2 \in [secret : Ids \cup {None}, enabled : BOOLEAN] /\ v1 \in 0..X!Cardinality(Names)
    <3>1. v4 \in BOOLEAN
      BY DEF X!XInit
    <3>2. v2 \in [secret : Ids \cup {None}, enabled : BOOLEAN]
      BY DEF X!XInit
    <3>3. v1 \in 0..X!Cardinality(Names)
      BY TabsAreCounted DEF X!XInit
    <3>. QED  BY <3>1, <3>2, <3>3
  <2>2. v6 \in [Names -> [step : {"idle", "show", "done"}, secret : Ids \cup {None}]]
    BY DEF X!XInit
  <2>. QED  BY <2>1, <2>2 DEF X!XInit, X!TypeOK, X!Forms
<1>2. X!PagesInv /\ X!SecretsInv /\ X!BootstrapInv
  BY DEF X!XInit, X!PagesInv, X!SecretsInv, X!BootstrapInv
<1>3. X!NotLockedOut /\ X!OneBootstrap
  BY DEF X!XInit, X!NotLockedOut, X!OneBootstrap
<1>. QED  BY <1>1, <1>2, <1>3 DEF AdminInv

\* The administrator comes in, and nobody else does, in every step.
LEMMA AdminKeeps == AdminInv /\ [X!XNext]_(X!xvars) => AdminInv'
<1>. SUFFICES ASSUME AdminInv, [X!XNext]_(X!xvars) PROVE AdminInv'
  OBVIOUS
<1>1. ASSUME NEW t \in Names, X!Open(t) PROVE AdminInv'
  <2>. DEFINE n == X!Ask(t, IF v4 THEN "me" ELSE "status", None)
  <2>10. /\ v8' = X!Left(t) \cup {n} /\ UNCHANGED <<v1, v2, v3, v7>>
         /\ v5' = [v5 EXCEPT ![t] = IF v4 THEN "start" ELSE "loading"]
         /\ v6' = [v6 EXCEPT ![t] = [step |-> "idle", secret |-> None]]
    BY <1>1 DEF X!Open, X!Server
  <2>11. /\ n \in X!Request /\ n.tab = t /\ n.kind = (IF v4 THEN "me" ELSE "status") /\ n.answer = "open" /\ n.here
    BY DEF X!Ask, X!Request, X!Kinds
  <2>. HIDE DEF n
  <2>12. /\ v5 \in [Names -> X!Forms \cup {"start", "in"}] /\ v8 \subseteq X!Request /\ v4 \in BOOLEAN
         /\ DOMAIN v6 = Names
    BY DEF AdminInv, X!TypeOK
  <2>13. v5'[t] = (IF v4 THEN "start" ELSE "loading") /\ v6'[t].step = "idle" /\ \A u \in Names \ {t} : v5'[u] = v5[u] /\ v6'[u] = v6[u]
    BY <2>10, <2>12
  <2>14. v8' \subseteq X!Request
    BY <2>10, <2>11, LeftBehind DEF AdminInv
  <2>15. v4' \in BOOLEAN
    BY <1>1 DEF AdminInv, X!TypeOK, X!Open
  <2>1. X!TypeOK'
    BY <1>1, <2>10, <2>14, <2>15 DEF AdminInv, X!TypeOK, X!Forms, X!Removed, X!Open
  <2>2. X!PagesInv'
    BY <1>1, <2>10, <2>11, <2>12, <2>13, LeftBehind DEF AdminInv, X!PagesInv, X!Removed, X!In, X!Open
  <2>3. X!SecretsInv'
    BY <1>1, <2>10, <2>11, <2>13, LeftBehind DEF AdminInv, X!SecretsInv, X!Removed, X!Open
  <2>4. X!BootstrapInv'
    <3>1. SUFFICES ASSUME "bootstrap" \notin v9',
                          NEW x \in v8', x.kind = "bootstrap", x.answer = "read",
                          NEW y \in v8', y.kind = "bootstrap", y.answer = "read"
                   PROVE  v1' = 0 /\ y = x
      BY DEF X!BootstrapInv
    <3>2. x \in X!Left(t) /\ y \in X!Left(t) /\ "bootstrap" \notin v9
      BY <1>1, <2>10, <2>11, <3>1 DEF X!Removed, X!Open
    <3>3. PICK r \in v8 : /\ r.kind = x.kind /\ r.answer = x.answer
                          /\ (x = r /\ r.tab # t) \/ (x = [r EXCEPT !.here = FALSE] /\ r.tab = t)
      BY <3>2, LeftBehind DEF AdminInv
    <3>4. PICK q \in v8 : /\ q.kind = y.kind /\ q.answer = y.answer
                          /\ (y = q /\ q.tab # t) \/ (y = [q EXCEPT !.here = FALSE] /\ q.tab = t)
      BY <3>2, LeftBehind DEF AdminInv
    <3>5. v1 = 0 /\ q = r
      BY <3>1, <3>2, <3>3, <3>4 DEF AdminInv, X!BootstrapInv
    <3>. QED  BY <2>10, <3>3, <3>4, <3>5
  <2>5. ((X!NotLockedOut /\ X!OneBootstrap))'
    BY <1>1, <2>10 DEF AdminInv, X!NotLockedOut, X!OneBootstrap, X!Removed, X!Open
  <2>. QED  BY <2>1, <2>2, <2>3, <2>4, <2>5 DEF AdminInv
<1>2. ASSUME NEW t \in Names, X!Logout(t) PROVE AdminInv'
  <2>. DEFINE n == X!Ask(t, "status", None)
  <2>10. /\ v8' = X!Left(t) \cup {n} /\ UNCHANGED <<v1, v2, v3, v7>>
         /\ v5' = [v5 EXCEPT ![t] = "loading"]
         /\ v6' = [v6 EXCEPT ![t] = [step |-> "idle", secret |-> None]]
    BY <1>2 DEF X!Logout, X!Server
  <2>11. /\ n \in X!Request /\ n.tab = t /\ n.kind = ("status") /\ n.answer = "open" /\ n.here
    BY DEF X!Ask, X!Request, X!Kinds
  <2>. HIDE DEF n
  <2>12. /\ v5 \in [Names -> X!Forms \cup {"start", "in"}] /\ v8 \subseteq X!Request /\ v4 \in BOOLEAN
         /\ DOMAIN v6 = Names
    BY DEF AdminInv, X!TypeOK
  <2>13. v5'[t] = ("loading") /\ v6'[t].step = "idle" /\ \A u \in Names \ {t} : v5'[u] = v5[u] /\ v6'[u] = v6[u]
    BY <2>10, <2>12
  <2>14. v8' \subseteq X!Request
    BY <2>10, <2>11, LeftBehind DEF AdminInv
  <2>15. v4' \in BOOLEAN
    BY <1>2 DEF AdminInv, X!TypeOK, X!Logout
  <2>1. X!TypeOK'
    BY <1>2, <2>10, <2>14, <2>15 DEF AdminInv, X!TypeOK, X!Forms, X!Removed, X!Logout
  <2>2. X!PagesInv'
    BY <1>2, <2>10, <2>11, <2>12, <2>13, LeftBehind DEF AdminInv, X!PagesInv, X!Removed, X!In, X!Logout
  <2>3. X!SecretsInv'
    BY <1>2, <2>10, <2>11, <2>13, LeftBehind DEF AdminInv, X!SecretsInv, X!Removed, X!Logout
  <2>4. X!BootstrapInv'
    <3>1. SUFFICES ASSUME "bootstrap" \notin v9',
                          NEW x \in v8', x.kind = "bootstrap", x.answer = "read",
                          NEW y \in v8', y.kind = "bootstrap", y.answer = "read"
                   PROVE  v1' = 0 /\ y = x
      BY DEF X!BootstrapInv
    <3>2. x \in X!Left(t) /\ y \in X!Left(t) /\ "bootstrap" \notin v9
      BY <1>2, <2>10, <2>11, <3>1 DEF X!Removed, X!Logout
    <3>3. PICK r \in v8 : /\ r.kind = x.kind /\ r.answer = x.answer
                          /\ (x = r /\ r.tab # t) \/ (x = [r EXCEPT !.here = FALSE] /\ r.tab = t)
      BY <3>2, LeftBehind DEF AdminInv
    <3>4. PICK q \in v8 : /\ q.kind = y.kind /\ q.answer = y.answer
                          /\ (y = q /\ q.tab # t) \/ (y = [q EXCEPT !.here = FALSE] /\ q.tab = t)
      BY <3>2, LeftBehind DEF AdminInv
    <3>5. v1 = 0 /\ q = r
      BY <3>1, <3>2, <3>3, <3>4 DEF AdminInv, X!BootstrapInv
    <3>. QED  BY <2>10, <3>3, <3>4, <3>5
  <2>5. ((X!NotLockedOut /\ X!OneBootstrap))'
    BY <1>2, <2>10 DEF AdminInv, X!NotLockedOut, X!OneBootstrap, X!Removed, X!Logout
  <2>. QED  BY <2>1, <2>2, <2>3, <2>4, <2>5 DEF AdminInv
<1>3. ASSUME NEW t \in Names, X!Submit(t) PROVE AdminInv'
  <2>. DEFINE n == X!Ask(t, v5[t], None)
  <2>10. v8' = v8 \cup {n} /\ v5[t] \in X!Kinds /\ UNCHANGED <<v1, v2, v3, v4, v5, v6, v7, v9>>
         /\ v5[t] # "start"
    BY <1>3 DEF X!Submit, X!Send, X!Server, X!Kinds, X!In
  <2>11. n \in X!Request /\ n.tab = t /\ n.kind = v5[t] /\ n.secret = None /\ n.answer = "open"
    BY <2>10 DEF X!Ask, X!Request, AdminInv, X!TypeOK
  <2>12. n.kind # "me" /\ (n.kind = "enable" => n.secret \in v7)
    BY <1>3, <2>11 DEF X!Submit
  <2>. HIDE DEF n
  <2>1. X!TypeOK'
    BY <2>10, <2>11 DEF AdminInv, X!TypeOK
  <2>2. X!PagesInv'
    BY <2>10, <2>11, <2>12 DEF AdminInv, X!PagesInv
  <2>3. X!SecretsInv'
    BY <2>10, <2>11, <2>12 DEF AdminInv, X!SecretsInv
  <2>4. X!BootstrapInv'
    BY <2>10, <2>11, <2>12 DEF AdminInv, X!BootstrapInv
  <2>5. ((X!NotLockedOut /\ X!OneBootstrap))'
    BY <2>10 DEF AdminInv, X!NotLockedOut, X!OneBootstrap
  <2>. QED  BY <2>1, <2>2, <2>3, <2>4, <2>5 DEF AdminInv
<1>4. ASSUME NEW t \in Names, NEW s \in v7, X!SubmitCode(t, s) PROVE AdminInv'
  <2>. DEFINE n == X!Ask(t, "otp", s)
  <2>10. v8' = v8 \cup {n} /\ "otp" \in X!Kinds /\ UNCHANGED <<v1, v2, v3, v4, v5, v6, v7, v9>>
         /\ v5[t] # "start"
    BY <1>4 DEF X!SubmitCode, X!Send, X!Server, X!Kinds, X!In
  <2>11. n \in X!Request /\ n.tab = t /\ n.kind = "otp" /\ n.secret = s /\ n.answer = "open"
    BY <2>10 DEF X!Ask, X!Request, AdminInv, X!TypeOK
  <2>12. n.kind # "me" /\ (n.kind = "enable" => n.secret \in v7)
    BY <1>4, <2>11 DEF X!SubmitCode
  <2>. HIDE DEF n
  <2>1. X!TypeOK'
    BY <2>10, <2>11 DEF AdminInv, X!TypeOK
  <2>2. X!PagesInv'
    BY <2>10, <2>11, <2>12 DEF AdminInv, X!PagesInv
  <2>3. X!SecretsInv'
    BY <2>10, <2>11, <2>12 DEF AdminInv, X!SecretsInv
  <2>4. X!BootstrapInv'
    BY <2>10, <2>11, <2>12 DEF AdminInv, X!BootstrapInv
  <2>5. ((X!NotLockedOut /\ X!OneBootstrap))'
    BY <2>10 DEF AdminInv, X!NotLockedOut, X!OneBootstrap
  <2>. QED  BY <2>1, <2>2, <2>3, <2>4, <2>5 DEF AdminInv
<1>5. ASSUME NEW t \in Names, X!OtpSetup(t) PROVE AdminInv'
  <2>. DEFINE n == X!Ask(t, "setup", None)
  <2>10. v8' = v8 \cup {n} /\ "setup" \in X!Kinds /\ UNCHANGED <<v1, v2, v3, v4, v5, v6, v7, v9>>
         /\ v5[t] # "start"
    BY <1>5 DEF X!OtpSetup, X!Send, X!Server, X!Kinds, X!In
  <2>11. n \in X!Request /\ n.tab = t /\ n.kind = "setup" /\ n.secret = None /\ n.answer = "open"
    BY <2>10 DEF X!Ask, X!Request, AdminInv, X!TypeOK
  <2>12. n.kind # "me" /\ (n.kind = "enable" => n.secret \in v7)
    BY <1>5, <2>11 DEF X!OtpSetup
  <2>. HIDE DEF n
  <2>1. X!TypeOK'
    BY <2>10, <2>11 DEF AdminInv, X!TypeOK
  <2>2. X!PagesInv'
    BY <2>10, <2>11, <2>12 DEF AdminInv, X!PagesInv
  <2>3. X!SecretsInv'
    BY <2>10, <2>11, <2>12 DEF AdminInv, X!SecretsInv
  <2>4. X!BootstrapInv'
    BY <2>10, <2>11, <2>12 DEF AdminInv, X!BootstrapInv
  <2>5. ((X!NotLockedOut /\ X!OneBootstrap))'
    BY <2>10 DEF AdminInv, X!NotLockedOut, X!OneBootstrap
  <2>. QED  BY <2>1, <2>2, <2>3, <2>4, <2>5 DEF AdminInv
<1>6. ASSUME NEW t \in Names, NEW s \in v7, X!OtpEnable(t, s) PROVE AdminInv'
  <2>. DEFINE n == X!Ask(t, "enable", s)
  <2>10. v8' = v8 \cup {n} /\ "enable" \in X!Kinds /\ UNCHANGED <<v1, v2, v3, v4, v5, v6, v7, v9>>
         /\ v5[t] # "start"
    BY <1>6 DEF X!OtpEnable, X!Send, X!Server, X!Kinds, X!In
  <2>11. n \in X!Request /\ n.tab = t /\ n.kind = "enable" /\ n.secret = s /\ n.answer = "open"
    BY <2>10 DEF X!Ask, X!Request, AdminInv, X!TypeOK
  <2>12. n.kind # "me" /\ (n.kind = "enable" => n.secret \in v7)
    BY <1>6, <2>11 DEF X!OtpEnable
  <2>. HIDE DEF n
  <2>1. X!TypeOK'
    BY <2>10, <2>11 DEF AdminInv, X!TypeOK
  <2>2. X!PagesInv'
    BY <2>10, <2>11, <2>12 DEF AdminInv, X!PagesInv
  <2>3. X!SecretsInv'
    BY <2>10, <2>11, <2>12 DEF AdminInv, X!SecretsInv
  <2>4. X!BootstrapInv'
    BY <2>10, <2>11, <2>12 DEF AdminInv, X!BootstrapInv
  <2>5. ((X!NotLockedOut /\ X!OneBootstrap))'
    BY <2>10 DEF AdminInv, X!NotLockedOut, X!OneBootstrap
  <2>. QED  BY <2>1, <2>2, <2>3, <2>4, <2>5 DEF AdminInv
<1>7. ASSUME NEW t \in Names, X!Register(t) PROVE AdminInv'
  <2>1. X!TypeOK'
    BY <1>7 DEF AdminInv, X!TypeOK, X!Server, X!Forms, X!Kinds, X!Register, X!SecretsInv
  <2>2. X!PagesInv'
    BY <1>7 DEF AdminInv, X!PagesInv, X!Server, X!In, X!Register
  <2>3. X!SecretsInv'
    BY <1>7 DEF AdminInv, X!SecretsInv, X!Server, X!Register
  <2>4. X!BootstrapInv'
    BY <1>7 DEF AdminInv, X!BootstrapInv, X!Server, X!Register
  <2>5. ((X!NotLockedOut /\ X!OneBootstrap))'
    BY <1>7 DEF AdminInv, X!NotLockedOut, X!OneBootstrap, X!Server, X!Register
  <2>. QED  BY <2>1, <2>2, <2>3, <2>4, <2>5 DEF AdminInv
<1>8. ASSUME NEW r \in v8, X!Refuse(r) PROVE AdminInv'
  <2>. DEFINE n == [r EXCEPT !.answer = "refused"]
  <2>10. v8' = (v8 \ {r}) \cup {n} /\ r \in X!Request /\ UNCHANGED <<v1, v2, v3, v4, v5, v6, v7, v9>>
    BY <1>8 DEF X!Refuse, X!Answer, X!Server, AdminInv, X!TypeOK
  <2>11. /\ n \in X!Request /\ n.tab = r.tab /\ n.kind = r.kind /\ n.secret = r.secret /\ n.here = r.here
         /\ n.answer = "refused"
         /\ \A x \in v8' : x = n \/ (x \in v8 /\ x # r)
    BY <2>10 DEF X!Request
  <2>. HIDE DEF n
  <2>1. X!TypeOK'
    BY <1>8, <2>10, <2>11, TabsAreCounted DEF AdminInv, X!TypeOK, X!Refuse
  <2>2. X!PagesInv'
    BY <1>8, <2>10, <2>11 DEF AdminInv, X!PagesInv, X!Refuse
  <2>3. X!SecretsInv'
    BY <1>8, <2>10, <2>11 DEF AdminInv, X!SecretsInv, X!Refuse
  <2>4. X!BootstrapInv'
    BY <1>8, <2>10, <2>11 DEF AdminInv, X!BootstrapInv, X!Refuse
  <2>5. ((X!NotLockedOut /\ X!OneBootstrap))'
    BY <1>8, <2>10, <2>11 DEF AdminInv, X!NotLockedOut, X!OneBootstrap, X!BootstrapInv, X!SecretsInv, X!TypeOK, X!Refuse
  <2>. QED  BY <2>1, <2>2, <2>3, <2>4, <2>5 DEF AdminInv
<1>9. ASSUME NEW r \in v8, X!ServeStatus(r) PROVE AdminInv'
  <2>. DEFINE n == [r EXCEPT !.answer = IF v1 > 0 THEN "ok" ELSE "code"]
  <2>10. v8' = (v8 \ {r}) \cup {n} /\ r \in X!Request /\ UNCHANGED <<v1, v2, v3, v4, v5, v6, v7, v9>>
    BY <1>9 DEF X!ServeStatus, X!Answer, X!Server, AdminInv, X!TypeOK
  <2>11. /\ n \in X!Request /\ n.tab = r.tab /\ n.kind = r.kind /\ n.secret = r.secret /\ n.here = r.here
         /\ n.answer = IF v1 > 0 THEN "ok" ELSE "code"
         /\ \A x \in v8' : x = n \/ (x \in v8 /\ x # r)
    BY <2>10 DEF X!Request
  <2>. HIDE DEF n
  <2>1. X!TypeOK'
    BY <1>9, <2>10, <2>11, TabsAreCounted DEF AdminInv, X!TypeOK, X!ServeStatus
  <2>2. X!PagesInv'
    BY <1>9, <2>10, <2>11 DEF AdminInv, X!PagesInv, X!ServeStatus
  <2>3. X!SecretsInv'
    BY <1>9, <2>10, <2>11 DEF AdminInv, X!SecretsInv, X!ServeStatus
  <2>4. X!BootstrapInv'
    BY <1>9, <2>10, <2>11 DEF AdminInv, X!BootstrapInv, X!ServeStatus
  <2>5. ((X!NotLockedOut /\ X!OneBootstrap))'
    BY <1>9, <2>10, <2>11 DEF AdminInv, X!NotLockedOut, X!OneBootstrap, X!BootstrapInv, X!SecretsInv, X!TypeOK, X!ServeStatus
  <2>. QED  BY <2>1, <2>2, <2>3, <2>4, <2>5 DEF AdminInv
<1>10. ASSUME NEW r \in v8, X!ServeMe(r) PROVE AdminInv'
  <2>. DEFINE n == [r EXCEPT !.answer = "ok"]
  <2>10. v8' = (v8 \ {r}) \cup {n} /\ r \in X!Request /\ UNCHANGED <<v1, v2, v3, v4, v5, v6, v7, v9>>
    BY <1>10 DEF X!ServeMe, X!Answer, X!Server, AdminInv, X!TypeOK
  <2>11. /\ n \in X!Request /\ n.tab = r.tab /\ n.kind = r.kind /\ n.secret = r.secret /\ n.here = r.here
         /\ n.answer = "ok"
         /\ \A x \in v8' : x = n \/ (x \in v8 /\ x # r)
    BY <2>10 DEF X!Request
  <2>. HIDE DEF n
  <2>1. X!TypeOK'
    BY <1>10, <2>10, <2>11, TabsAreCounted DEF AdminInv, X!TypeOK, X!ServeMe
  <2>2. X!PagesInv'
    BY <1>10, <2>10, <2>11 DEF AdminInv, X!PagesInv, X!ServeMe
  <2>3. X!SecretsInv'
    BY <1>10, <2>10, <2>11 DEF AdminInv, X!SecretsInv, X!ServeMe
  <2>4. X!BootstrapInv'
    BY <1>10, <2>10, <2>11 DEF AdminInv, X!BootstrapInv, X!ServeMe
  <2>5. ((X!NotLockedOut /\ X!OneBootstrap))'
    BY <1>10, <2>10, <2>11 DEF AdminInv, X!NotLockedOut, X!OneBootstrap, X!BootstrapInv, X!SecretsInv, X!TypeOK, X!ServeMe
  <2>. QED  BY <2>1, <2>2, <2>3, <2>4, <2>5 DEF AdminInv
<1>11. ASSUME NEW r \in v8, X!ServeLogin(r) PROVE AdminInv'
  <2>. DEFINE n == [r EXCEPT !.answer = IF v2.enabled THEN "code" ELSE "ok"]
  <2>10. v8' = (v8 \ {r}) \cup {n} /\ r \in X!Request /\ UNCHANGED <<v1, v2, v3, v4, v5, v6, v7, v9>>
    BY <1>11 DEF X!ServeLogin, X!Answer, X!Server, AdminInv, X!TypeOK
  <2>11. /\ n \in X!Request /\ n.tab = r.tab /\ n.kind = r.kind /\ n.secret = r.secret /\ n.here = r.here
         /\ n.answer = IF v2.enabled THEN "code" ELSE "ok"
         /\ \A x \in v8' : x = n \/ (x \in v8 /\ x # r)
    BY <2>10 DEF X!Request
  <2>. HIDE DEF n
  <2>1. X!TypeOK'
    BY <1>11, <2>10, <2>11, TabsAreCounted DEF AdminInv, X!TypeOK, X!ServeLogin
  <2>2. X!PagesInv'
    BY <1>11, <2>10, <2>11 DEF AdminInv, X!PagesInv, X!ServeLogin
  <2>3. X!SecretsInv'
    BY <1>11, <2>10, <2>11 DEF AdminInv, X!SecretsInv, X!ServeLogin
  <2>4. X!BootstrapInv'
    BY <1>11, <2>10, <2>11 DEF AdminInv, X!BootstrapInv, X!ServeLogin
  <2>5. ((X!NotLockedOut /\ X!OneBootstrap))'
    BY <1>11, <2>10, <2>11 DEF AdminInv, X!NotLockedOut, X!OneBootstrap, X!BootstrapInv, X!SecretsInv, X!TypeOK, X!ServeLogin
  <2>. QED  BY <2>1, <2>2, <2>3, <2>4, <2>5 DEF AdminInv
<1>12. ASSUME NEW r \in v8, X!ServeCode(r) PROVE AdminInv'
  <2>. DEFINE n == [r EXCEPT !.answer = "ok"]
  <2>10. v8' = (v8 \ {r}) \cup {n} /\ r \in X!Request /\ UNCHANGED <<v1, v2, v3, v4, v5, v6, v7, v9>>
    BY <1>12 DEF X!ServeCode, X!Answer, X!Server, AdminInv, X!TypeOK
  <2>11. /\ n \in X!Request /\ n.tab = r.tab /\ n.kind = r.kind /\ n.secret = r.secret /\ n.here = r.here
         /\ n.answer = "ok"
         /\ \A x \in v8' : x = n \/ (x \in v8 /\ x # r)
    BY <2>10 DEF X!Request
  <2>. HIDE DEF n
  <2>1. X!TypeOK'
    BY <1>12, <2>10, <2>11, TabsAreCounted DEF AdminInv, X!TypeOK, X!ServeCode
  <2>2. X!PagesInv'
    BY <1>12, <2>10, <2>11 DEF AdminInv, X!PagesInv, X!ServeCode
  <2>3. X!SecretsInv'
    BY <1>12, <2>10, <2>11 DEF AdminInv, X!SecretsInv, X!ServeCode
  <2>4. X!BootstrapInv'
    BY <1>12, <2>10, <2>11 DEF AdminInv, X!BootstrapInv, X!ServeCode
  <2>5. ((X!NotLockedOut /\ X!OneBootstrap))'
    BY <1>12, <2>10, <2>11 DEF AdminInv, X!NotLockedOut, X!OneBootstrap, X!BootstrapInv, X!SecretsInv, X!TypeOK, X!ServeCode
  <2>. QED  BY <2>1, <2>2, <2>3, <2>4, <2>5 DEF AdminInv
<1>13. ASSUME NEW r \in v8, X!BootstrapReads(r) PROVE AdminInv'
  <2>. DEFINE n == [r EXCEPT !.answer = "read"]
  <2>10. v8' = (v8 \ {r}) \cup {n} /\ r \in X!Request /\ UNCHANGED <<v1, v2, v3, v4, v5, v6, v7>>
    BY <1>13 DEF X!BootstrapReads, X!Answer, X!Server, AdminInv, X!TypeOK
  <2>11. /\ n \in X!Request /\ n.tab = r.tab /\ n.kind = r.kind /\ n.secret = r.secret /\ n.here = r.here
         /\ n.answer = "read"
         /\ \A x \in v8' : x = n \/ (x \in v8 /\ x # r)
    BY <2>10 DEF X!Request
  <2>. HIDE DEF n
  <2>1. X!TypeOK'
    BY <1>13, <2>10, <2>11, TabsAreCounted DEF AdminInv, X!TypeOK, X!BootstrapReads
  <2>2. X!PagesInv'
    BY <1>13, <2>10, <2>11 DEF AdminInv, X!PagesInv, X!BootstrapReads
  <2>3. X!SecretsInv'
    BY <1>13, <2>10, <2>11 DEF AdminInv, X!SecretsInv, X!BootstrapReads
  <2>4. X!BootstrapInv'
    BY <1>13, <2>10, <2>11 DEF AdminInv, X!BootstrapInv, X!BootstrapReads
  <2>5. ((X!NotLockedOut /\ X!OneBootstrap))'
    BY <1>13, <2>10, <2>11 DEF AdminInv, X!NotLockedOut, X!OneBootstrap, X!BootstrapInv, X!SecretsInv, X!TypeOK, X!BootstrapReads
  <2>. QED  BY <2>1, <2>2, <2>3, <2>4, <2>5 DEF AdminInv
<1>14. ASSUME NEW r \in v8, X!BootstrapInserts(r) PROVE AdminInv'
  <2>. DEFINE n == [r EXCEPT !.answer = "ok"]
  <2>10. v8' = (v8 \ {r}) \cup {n} /\ r \in X!Request /\ UNCHANGED <<v2, v3, v4, v5, v6, v7, v9>>
    BY <1>14 DEF X!BootstrapInserts, X!Answer, X!Server, AdminInv, X!TypeOK
  <2>11. /\ n \in X!Request /\ n.tab = r.tab /\ n.kind = r.kind /\ n.secret = r.secret /\ n.here = r.here
         /\ n.answer = "ok"
         /\ \A x \in v8' : x = n \/ (x \in v8 /\ x # r)
    BY <2>10 DEF X!Request
  <2>. HIDE DEF n
  <2>1. X!TypeOK'
    BY <1>14, <2>10, <2>11, TabsAreCounted DEF AdminInv, X!TypeOK, X!BootstrapInserts
  <2>2. X!PagesInv'
    BY <1>14, <2>10, <2>11 DEF AdminInv, X!PagesInv, X!BootstrapInserts
  <2>3. X!SecretsInv'
    BY <1>14, <2>10, <2>11 DEF AdminInv, X!SecretsInv, X!BootstrapInserts
  <2>4. X!BootstrapInv'
    BY <1>14, <2>10, <2>11 DEF AdminInv, X!BootstrapInv, X!BootstrapInserts
  <2>5. ((X!NotLockedOut /\ X!OneBootstrap))'
    BY <1>14, <2>10, <2>11 DEF AdminInv, X!NotLockedOut, X!OneBootstrap, X!BootstrapInv, X!SecretsInv, X!TypeOK, X!BootstrapInserts
  <2>. QED  BY <2>1, <2>2, <2>3, <2>4, <2>5 DEF AdminInv
<1>15. ASSUME NEW r \in v8, NEW s \in Ids, X!ServeSetup(r, s) PROVE AdminInv'
  <2>. DEFINE n == [r EXCEPT !.secret = s, !.answer = "ok"]
  <2>10. /\ v8' = (v8 \ {r}) \cup {n} /\ r \in X!Request /\ r.kind = "setup"
         /\ UNCHANGED <<v1, v4, v5, v6, v7>> /\ v3' = v3 \cup {s} /\ v2' = [secret |-> s, enabled |-> FALSE]
    BY <1>15 DEF X!ServeSetup, AdminInv, X!TypeOK
  <2>11. /\ n \in X!Request /\ n.tab = r.tab /\ n.kind = r.kind /\ n.secret = s /\ n.here = r.here
         /\ n.answer = "ok" /\ \A x \in v8' : x = n \/ (x \in v8 /\ x # r)
    BY <2>10 DEF X!Request
  <2>12. v9' \in {v9, v9 \cup {"enable"}} /\ ("enable" \notin v9' => \A x \in v8 : ~(x.kind = "enable" /\ x.answer = "read"))
    BY <1>15 DEF X!ServeSetup
  <2>. HIDE DEF n
  <2>1. X!TypeOK'
    BY <2>10, <2>11, <2>12 DEF AdminInv, X!TypeOK
  <2>2. X!PagesInv'
    BY <2>10, <2>11, <2>12 DEF AdminInv, X!PagesInv
  <2>3. X!SecretsInv'
    BY <2>10, <2>11, <2>12 DEF AdminInv, X!SecretsInv
  <2>4. X!BootstrapInv'
    BY <2>10, <2>11, <2>12 DEF AdminInv, X!BootstrapInv
  <2>5. ((X!NotLockedOut /\ X!OneBootstrap))'
    BY <2>10, <2>12 DEF AdminInv, X!NotLockedOut, X!OneBootstrap
  <2>. QED  BY <2>1, <2>2, <2>3, <2>4, <2>5 DEF AdminInv
<1>16. ASSUME NEW r \in v8, X!EnableReads(r) PROVE AdminInv'
  <2>. DEFINE n == [r EXCEPT !.answer = "read"]
  <2>10. v8' = (v8 \ {r}) \cup {n} /\ r \in X!Request /\ UNCHANGED <<v1, v2, v3, v4, v5, v6, v7, v9>>
    BY <1>16 DEF X!EnableReads, X!Answer, X!Server, AdminInv, X!TypeOK
  <2>11. /\ n \in X!Request /\ n.tab = r.tab /\ n.kind = r.kind /\ n.secret = r.secret /\ n.here = r.here
         /\ n.answer = "read"
         /\ \A x \in v8' : x = n \/ (x \in v8 /\ x # r)
    BY <2>10 DEF X!Request
  <2>. HIDE DEF n
  <2>1. X!TypeOK'
    BY <1>16, <2>10, <2>11, TabsAreCounted DEF AdminInv, X!TypeOK, X!EnableReads
  <2>2. X!PagesInv'
    BY <1>16, <2>10, <2>11 DEF AdminInv, X!PagesInv, X!EnableReads
  <2>3. X!SecretsInv'
    BY <1>16, <2>10, <2>11 DEF AdminInv, X!SecretsInv, X!EnableReads
  <2>4. X!BootstrapInv'
    BY <1>16, <2>10, <2>11 DEF AdminInv, X!BootstrapInv, X!EnableReads
  <2>5. ((X!NotLockedOut /\ X!OneBootstrap))'
    BY <1>16, <2>10, <2>11 DEF AdminInv, X!NotLockedOut, X!OneBootstrap, X!BootstrapInv, X!SecretsInv, X!TypeOK, X!EnableReads
  <2>. QED  BY <2>1, <2>2, <2>3, <2>4, <2>5 DEF AdminInv
<1>17. ASSUME NEW r \in v8, X!EnableWrites(r) PROVE AdminInv'
  <2>. DEFINE n == [r EXCEPT !.answer = "ok"]
  <2>10. v8' = (v8 \ {r}) \cup {n} /\ r \in X!Request /\ UNCHANGED <<v1, v3, v4, v5, v6, v7, v9>>
    BY <1>17 DEF X!EnableWrites, X!Answer, X!Server, AdminInv, X!TypeOK
  <2>11. /\ n \in X!Request /\ n.tab = r.tab /\ n.kind = r.kind /\ n.secret = r.secret /\ n.here = r.here
         /\ n.answer = "ok"
         /\ \A x \in v8' : x = n \/ (x \in v8 /\ x # r)
    BY <2>10 DEF X!Request
  <2>. HIDE DEF n
  <2>1. X!TypeOK'
    BY <1>17, <2>10, <2>11, TabsAreCounted DEF AdminInv, X!TypeOK, X!EnableWrites
  <2>2. X!PagesInv'
    BY <1>17, <2>10, <2>11 DEF AdminInv, X!PagesInv, X!EnableWrites
  <2>3. X!SecretsInv'
    BY <1>17, <2>10, <2>11 DEF AdminInv, X!SecretsInv, X!EnableWrites
  <2>4. X!BootstrapInv'
    BY <1>17, <2>10, <2>11 DEF AdminInv, X!BootstrapInv, X!EnableWrites
  <2>5. ((X!NotLockedOut /\ X!OneBootstrap))'
    BY <1>17, <2>10, <2>11 DEF AdminInv, X!NotLockedOut, X!OneBootstrap, X!BootstrapInv, X!SecretsInv, X!TypeOK, X!EnableWrites
  <2>. QED  BY <2>1, <2>2, <2>3, <2>4, <2>5 DEF AdminInv
<1>18. ASSUME NEW r \in v8, X!Gone(r) PROVE AdminInv'
  <2>1. X!TypeOK'
    BY <1>18 DEF AdminInv, X!TypeOK, X!Server, X!Forms, X!Kinds, X!Gone
  <2>2. X!PagesInv'
    BY <1>18 DEF AdminInv, X!PagesInv, X!Server, X!In, X!Gone
  <2>3. X!SecretsInv'
    BY <1>18 DEF AdminInv, X!SecretsInv, X!Server, X!Gone
  <2>4. X!BootstrapInv'
    BY <1>18 DEF AdminInv, X!BootstrapInv, X!Server, X!Gone
  <2>5. ((X!NotLockedOut /\ X!OneBootstrap))'
    BY <1>18 DEF AdminInv, X!NotLockedOut, X!OneBootstrap, X!Server, X!Gone
  <2>. QED  BY <2>1, <2>2, <2>3, <2>4, <2>5 DEF AdminInv
<1>19. ASSUME NEW r \in v8, X!OnStatus(r) PROVE AdminInv'
  <2>1. X!TypeOK'
    BY <1>19 DEF AdminInv, X!TypeOK, X!Server, X!Forms, X!Kinds, X!OnStatus, X!Receive, X!Request
  <2>2. X!PagesInv'
    BY <1>19 DEF AdminInv, X!PagesInv, X!Server, X!In, X!OnStatus, X!Receive, X!Request, X!TypeOK
  <2>3. X!SecretsInv'
    BY <1>19 DEF AdminInv, X!SecretsInv, X!Server, X!OnStatus, X!Receive, X!Request, X!TypeOK
  <2>4. X!BootstrapInv'
    BY <1>19 DEF AdminInv, X!BootstrapInv, X!Server, X!OnStatus, X!Receive
  <2>5. ((X!NotLockedOut /\ X!OneBootstrap))'
    BY <1>19 DEF AdminInv, X!NotLockedOut, X!OneBootstrap, X!Server, X!OnStatus, X!Receive
  <2>. QED  BY <2>1, <2>2, <2>3, <2>4, <2>5 DEF AdminInv
<1>20. ASSUME NEW r \in v8, X!OnMe(r) PROVE AdminInv'
  <2>1. X!TypeOK'
    BY <1>20 DEF AdminInv, X!TypeOK, X!Server, X!Forms, X!Kinds, X!OnMe, X!Receive, X!Request
  <2>2. X!PagesInv'
    BY <1>20 DEF AdminInv, X!PagesInv, X!Server, X!In, X!OnMe, X!Receive, X!Request, X!TypeOK
  <2>3. X!SecretsInv'
    BY <1>20 DEF AdminInv, X!SecretsInv, X!Server, X!OnMe, X!Receive, X!Request, X!TypeOK
  <2>4. X!BootstrapInv'
    BY <1>20 DEF AdminInv, X!BootstrapInv, X!Server, X!OnMe, X!Receive
  <2>5. ((X!NotLockedOut /\ X!OneBootstrap))'
    BY <1>20 DEF AdminInv, X!NotLockedOut, X!OneBootstrap, X!Server, X!OnMe, X!Receive
  <2>. QED  BY <2>1, <2>2, <2>3, <2>4, <2>5 DEF AdminInv
<1>21. ASSUME NEW r \in v8, X!OnMeRefused(r) PROVE AdminInv'
  <2>. DEFINE n == X!Ask(r.tab, "status", None)
  <2>10. /\ v8' = (v8 \ {r}) \cup {n} /\ UNCHANGED <<v1, v2, v3, v6, v7>> /\ r.kind = "me"
         /\ v5' = [v5 EXCEPT ![r.tab] = "loading"] /\ ~v4' /\ v4' \in BOOLEAN /\ v9' = X!Removed(r.tab)
         /\ r.tab \in Names /\ v5 \in [Names -> X!Forms \cup {"start", "in"}]
    BY <1>21 DEF X!OnMeRefused, X!Server, AdminInv, X!TypeOK, X!Request
  <2>11. /\ n \in X!Request /\ n.tab = r.tab /\ n.kind = "status" /\ n.answer = "open" /\ n.here
    BY <2>10 DEF X!Ask, X!Request, X!Kinds
  <2>12. v5'[r.tab] = "loading" /\ \A u \in Names \ {r.tab} : v5'[u] = v5[u]
    BY <2>10
  <2>13. \A x \in v8 : x.tab \in Names
    BY DEF AdminInv, X!TypeOK, X!Request
  <2>. HIDE DEF n
  <2>1. X!TypeOK'
    BY <2>10, <2>11 DEF AdminInv, X!TypeOK, X!Forms, X!Removed
  <2>2. X!PagesInv'
    BY <2>10, <2>11, <2>12, <2>13 DEF AdminInv, X!PagesInv, X!Removed
  <2>3. X!SecretsInv'
    BY <2>10, <2>11 DEF AdminInv, X!SecretsInv, X!Removed
  <2>4. X!BootstrapInv'
    BY <2>10, <2>11 DEF AdminInv, X!BootstrapInv, X!Removed
  <2>5. ((X!NotLockedOut /\ X!OneBootstrap))'
    BY <2>10 DEF AdminInv, X!NotLockedOut, X!OneBootstrap, X!Removed
  <2>. QED  BY <2>1, <2>2, <2>3, <2>4, <2>5 DEF AdminInv
<1>22. ASSUME NEW r \in v8, X!OnLogin(r) PROVE AdminInv'
  <2>1. X!TypeOK'
    BY <1>22 DEF AdminInv, X!TypeOK, X!Server, X!Forms, X!Kinds, X!OnLogin, X!Receive, X!Request
  <2>2. X!PagesInv'
    BY <1>22 DEF AdminInv, X!PagesInv, X!Server, X!In, X!OnLogin, X!Receive, X!Request, X!TypeOK
  <2>3. X!SecretsInv'
    BY <1>22 DEF AdminInv, X!SecretsInv, X!Server, X!OnLogin, X!Receive, X!Request, X!TypeOK
  <2>4. X!BootstrapInv'
    BY <1>22 DEF AdminInv, X!BootstrapInv, X!Server, X!OnLogin, X!Receive
  <2>5. ((X!NotLockedOut /\ X!OneBootstrap))'
    BY <1>22 DEF AdminInv, X!NotLockedOut, X!OneBootstrap, X!Server, X!OnLogin, X!Receive
  <2>. QED  BY <2>1, <2>2, <2>3, <2>4, <2>5 DEF AdminInv
<1>23. ASSUME NEW r \in v8, X!OnSession(r) PROVE AdminInv'
  <2>1. X!TypeOK'
    BY <1>23 DEF AdminInv, X!TypeOK, X!Server, X!Forms, X!Kinds, X!OnSession, X!Receive, X!Request
  <2>2. X!PagesInv'
    BY <1>23 DEF AdminInv, X!PagesInv, X!Server, X!In, X!OnSession, X!Receive, X!Request, X!TypeOK
  <2>3. X!SecretsInv'
    BY <1>23 DEF AdminInv, X!SecretsInv, X!Server, X!OnSession, X!Receive, X!Request, X!TypeOK
  <2>4. X!BootstrapInv'
    BY <1>23 DEF AdminInv, X!BootstrapInv, X!Server, X!OnSession, X!Receive
  <2>5. ((X!NotLockedOut /\ X!OneBootstrap))'
    BY <1>23 DEF AdminInv, X!NotLockedOut, X!OneBootstrap, X!Server, X!OnSession, X!Receive
  <2>. QED  BY <2>1, <2>2, <2>3, <2>4, <2>5 DEF AdminInv
<1>24. ASSUME NEW r \in v8, X!OnSetup(r) PROVE AdminInv'
  <2>1. X!TypeOK'
    BY <1>24 DEF AdminInv, X!TypeOK, X!Server, X!Forms, X!Kinds, X!OnSetup, X!Receive, X!Request
  <2>2. X!PagesInv'
    BY <1>24 DEF AdminInv, X!PagesInv, X!Server, X!In, X!OnSetup, X!Receive, X!Request, X!TypeOK
  <2>3. X!SecretsInv'
    BY <1>24 DEF AdminInv, X!SecretsInv, X!Server, X!OnSetup, X!Receive, X!Request, X!TypeOK
  <2>4. X!BootstrapInv'
    BY <1>24 DEF AdminInv, X!BootstrapInv, X!Server, X!OnSetup, X!Receive
  <2>5. ((X!NotLockedOut /\ X!OneBootstrap))'
    BY <1>24 DEF AdminInv, X!NotLockedOut, X!OneBootstrap, X!Server, X!OnSetup, X!Receive
  <2>. QED  BY <2>1, <2>2, <2>3, <2>4, <2>5 DEF AdminInv
<1>25. ASSUME NEW r \in v8, X!OnEnabled(r) PROVE AdminInv'
  <2>1. X!TypeOK'
    BY <1>25 DEF AdminInv, X!TypeOK, X!Server, X!Forms, X!Kinds, X!OnEnabled, X!Receive, X!Request
  <2>2. X!PagesInv'
    BY <1>25 DEF AdminInv, X!PagesInv, X!Server, X!In, X!OnEnabled, X!Receive, X!Request, X!TypeOK
  <2>3. X!SecretsInv'
    BY <1>25 DEF AdminInv, X!SecretsInv, X!Server, X!OnEnabled, X!Receive, X!Request, X!TypeOK
  <2>4. X!BootstrapInv'
    BY <1>25 DEF AdminInv, X!BootstrapInv, X!Server, X!OnEnabled, X!Receive
  <2>5. ((X!NotLockedOut /\ X!OneBootstrap))'
    BY <1>25 DEF AdminInv, X!NotLockedOut, X!OneBootstrap, X!Server, X!OnEnabled, X!Receive
  <2>. QED  BY <2>1, <2>2, <2>3, <2>4, <2>5 DEF AdminInv
<1>26. ASSUME NEW r \in v8, X!OnRefused(r) PROVE AdminInv'
  <2>1. X!TypeOK'
    BY <1>26 DEF AdminInv, X!TypeOK, X!Server, X!Forms, X!Kinds, X!OnRefused, X!Receive
  <2>2. X!PagesInv'
    BY <1>26 DEF AdminInv, X!PagesInv, X!Server, X!In, X!OnRefused, X!Receive
  <2>3. X!SecretsInv'
    BY <1>26 DEF AdminInv, X!SecretsInv, X!Server, X!OnRefused, X!Receive
  <2>4. X!BootstrapInv'
    BY <1>26 DEF AdminInv, X!BootstrapInv, X!Server, X!OnRefused, X!Receive
  <2>5. ((X!NotLockedOut /\ X!OneBootstrap))'
    BY <1>26 DEF AdminInv, X!NotLockedOut, X!OneBootstrap, X!Server, X!OnRefused, X!Receive
  <2>. QED  BY <2>1, <2>2, <2>3, <2>4, <2>5 DEF AdminInv
<1>27. CASE UNCHANGED X!xvars
  BY <1>27 DEF X!xvars, AdminInv, X!TypeOK, X!Server, X!Forms, X!Kinds, X!PagesInv, X!In,
      X!SecretsInv, X!BootstrapInv, X!NotLockedOut, X!OneBootstrap
<1>. QED  BY <1>1, <1>2, <1>3, <1>4, <1>5, <1>6, <1>7, <1>8, <1>9, <1>10, <1>11, <1>12, <1>13, <1>14, <1>15, <1>16, <1>17, <1>18, <1>19, <1>20, <1>21, <1>22, <1>23, <1>24, <1>25, <1>26, <1>27 DEF
    X!XNext

\* A tab that is in has a token.
LEMMA AdminHasToken == AdminInv => X!SignedInHasToken
BY DEF AdminInv, X!PagesInv, X!SignedInHasToken, X!In

-------------------------------------------------------------------------------
(* The links that are mailed, OneTimeLinks *)
T == INSTANCE OneTimeLinks WITH
  Addresses <- Bound.addresses, Calls <- Ids, MailLimit <- Bound.mails, PeerLimit <- Bound.peers,
  Window <- Bound.window, Ttl <- Bound.until, MaxTime <- Bound.time, MaxLinks <- Bound.links,
  now <- v1, account <- v2, links <- v3, rows <- v4, call <- v5, session <- v6

ASSUME LinksAssumption ==
  /\ Bound.mails \in Nat /\ Bound.peers \in Nat /\ Bound.window \in Nat \ {0}
  /\ Bound.time \in Nat /\ Bound.links \in Nat
  /\ \A m \in T!Means : Bound.until[m] \in Nat
  /\ None \notin T!Account /\ None \notin T!Call /\ None \notin T!Sessions

\* The links and who they are for.
LinksInv ==
  /\ T!TypeOK /\ T!CallsInv /\ T!LocksInv /\ T!RowsInv /\ T!OwnersInv
  /\ T!LinksFitTheAccount /\ T!ResetsAreLimited

\* Sets are counted the same in this module and in OneTimeLinks.
LEMMA CountsAlike == \A s : T!Cardinality(s) = Cardinality(s) /\ (T!IsFiniteSet(s) <=> IsFiniteSet(s))
BY DEF T!Cardinality, Cardinality, T!IsFiniteSet, IsFiniteSet

\* Whatever is counted of the requests is a number.
LEMMA RowsCounted ==
  ASSUME T!TypeOK
  PROVE  /\ \A s : IsFiniteSet(T!Made(s)) /\ Cardinality(T!Made(s)) \in Nat
         /\ \A s, b : IsFiniteSet(T!Of(b, s)) /\ Cardinality(T!Of(b, s)) \in Nat
<1>1. IsFiniteSet(v4)
  BY CountsAlike DEF T!TypeOK
<1>2. \A s, b : T!Made(s) \subseteq v4 /\ T!Of(b, s) \subseteq v4
  BY DEF T!Made, T!Of
<1>. QED  BY <1>1, <1>2, FS_Subset, FS_CardinalityType

\* A part of a set with one more has at most one more.
LEMMA AtMostOneMore ==
  ASSUME NEW big, IsFiniteSet(big), NEW x, NEW small \in SUBSET (big \cup {x})
  PROVE  Cardinality(small) <= Cardinality(big) + 1 /\ Cardinality(small) \in Nat
<1>1. IsFiniteSet(big \cup {x}) /\ Cardinality(big \cup {x}) <= Cardinality(big) + 1 /\ Cardinality(big) \in Nat
  BY FS_AddElement, FS_CardinalityType
<1>2. IsFiniteSet(small) /\ Cardinality(small) <= Cardinality(big \cup {x}) /\ Cardinality(small) \in Nat
      /\ Cardinality(big \cup {x}) \in Nat
  BY <1>1, FS_Subset, FS_CardinalityType
<1>. QED  BY <1>1, <1>2

\* A step that leaves the requests alone leaves their limits.
LEMMA SameRows ==
  ASSUME UNCHANGED v4, T!RowsInv, T!ResetsAreLimited
  PROVE  T!RowsInv' /\ T!ResetsAreLimited'
BY DEF T!RowsInv, T!ResetsAreLimited, T!Mailed, T!Of, T!Made

\* A step that neither adds a request nor takes the locks leaves what was counted.
LEMMA SameLocks ==
  ASSUME UNCHANGED v4, T!LocksInv,
         \A j \in Ids : T!At(j, "locked")' => T!At(j, "locked") /\ v5'[j] = v5[j]
  PROVE  T!LocksInv'
<1>1. ASSUME NEW j \in Ids, T!HasCounted(j), v5'[j] = v5[j] PROVE T!HasCounted(j)'
  BY <1>1 DEF T!HasCounted, T!Made, T!Of
<1>. QED  BY <1>1 DEF T!LocksInv

\* The links, one by one.
LEMMA LinkTyped ==
  ASSUME T!TypeOK
  PROVE  /\ v3 \in Seq(T!Link) /\ DOMAIN v3 = 1..Len(v3) /\ Len(v3) \in Nat
         /\ \A j \in DOMAIN v3 : /\ v3[j] \in T!Link /\ v3[j].to \in Bound.addresses
                                 /\ v3[j].means \in T!Means
<1>1. v3 \in Seq(T!Link)
  BY DEF T!TypeOK
<1>2. DOMAIN v3 = 1..Len(v3) /\ Len(v3) \in Nat /\ \A j \in DOMAIN v3 : v3[j] \in T!Link
  BY <1>1
<1>. QED  BY <1>1, <1>2 DEF T!Link

\* A new link is the last one and of its request.
LEMMA LinkIssued ==
  ASSUME T!TypeOK, NEW i \in Ids, v5[i] \in T!Call
  PROVE  /\ T!Issued(i) \in Seq(T!Link) /\ Len(T!Issued(i)) = Len(v3) + 1
         /\ \A j \in DOMAIN T!Issued(i) :
              \/ j \in DOMAIN v3 /\ T!Issued(i)[j] = v3[j]
              \/ T!Issued(i)[j].to = v5[i].to /\ T!Issued(i)[j].means = v5[i].means
<1>. DEFINE n == [means |-> v5[i].means, to |-> v5[i].to, until |-> v5[i].at + Bound.until[v5[i].means],
                  used |-> FALSE]
<1>1. v5[i].at \in Nat /\ v5[i].means \in T!Means /\ v5[i].to \in Bound.addresses
  BY LinksAssumption DEF T!Call, T!Times
<1>2. n \in T!Link /\ n.to = v5[i].to /\ n.means = v5[i].means
  BY <1>1, LinksAssumption DEF T!Link
<1>3. T!Issued(i) = Append(v3, n) /\ v3 \in Seq(T!Link)
  BY DEF T!Issued, T!TypeOK
<1>. HIDE DEF n
<1>4. /\ Append(v3, n) \in Seq(T!Link) /\ Len(Append(v3, n)) = Len(v3) + 1 /\ Len(v3) \in Nat
      /\ DOMAIN v3 = 1..Len(v3) /\ DOMAIN Append(v3, n) = 1..(Len(v3) + 1)
      /\ Append(v3, n)[Len(v3) + 1] = n /\ \A j \in 1..Len(v3) : Append(v3, n)[j] = v3[j]
  BY <1>2, <1>3
<1>. QED  BY <1>2, <1>3, <1>4

\* A link that was used is still of whom it was.
LEMMA LinksKept ==
  ASSUME T!TypeOK, NEW k \in DOMAIN v3
  PROVE  /\ T!Consumed(k) \in Seq(T!Link) /\ Len(T!Consumed(k)) = Len(v3) /\ DOMAIN T!Consumed(k) = DOMAIN v3
         /\ \A j \in DOMAIN v3 : T!Consumed(k)[j].to = v3[j].to /\ T!Consumed(k)[j].means = v3[j].means
<1>. DEFINE n == [v3[k] EXCEPT !.used = TRUE]
<1>1. v3 \in Seq(T!Link) /\ v3[k] \in T!Link
  BY DEF T!TypeOK
<1>2. n \in T!Link /\ n.to = v3[k].to /\ n.means = v3[k].means
  BY <1>1 DEF T!Link
<1>3. T!Consumed(k) = [v3 EXCEPT ![k] = n]
  BY DEF T!Consumed
<1>. HIDE DEF n
<1>. QED  BY <1>1, <1>2, <1>3

\* A session keeps its epoch when the password is set.
LEMMA SetAgain ==
  ASSUME T!TypeOK, T!OwnersInv, NEW a \in Bound.addresses, NEW m \in {"invite", "reset"}
  PROVE  /\ T!SetBy(a, m) \in T!Sessions \cup {None}
         /\ T!SetBy(a, m) # None => /\ T!SetBy(a, m).epoch \in Nat /\ T!SetBy(a, m).epoch <= v2[a].epoch
                                    /\ (m # "reset" /\ "reset" \in T!SetBy(a, m).set) =>
                                         T!SetBy(a, m).epoch < v2[a].epoch
<1>1. CASE v6[a] = None
  BY <1>1 DEF T!SetBy
<1>2. CASE v6[a] # None
  <2>. DEFINE n == [v6[a] EXCEPT !.set = v6[a].set \cup {m}]
  <2>1. v6[a] \in T!Sessions
    BY <1>2 DEF T!TypeOK
  <2>2. n \in T!Sessions /\ n.epoch = v6[a].epoch /\ n.set = v6[a].set \cup {m} /\ v6[a].epoch \in Nat
    BY <2>1 DEF T!Sessions
  <2>3. T!SetBy(a, m) = n
    BY <1>2 DEF T!SetBy
  <2>. HIDE DEF n
  <2>. QED  BY <1>2, <2>2, <2>3 DEF T!OwnersInv
<1>. QED  BY <1>1, <1>2

\* The session that is followed fits its account.
LEMMA SessionIssued ==
  ASSUME T!TypeOK, T!OwnersInv, NEW a \in Bound.addresses, v2[a] # None, v2[a].epoch \in Nat,
         NEW old \in T!Sessions \cup {None}, T!Issue(a, old),
         old # None => old.epoch <= v2[a].epoch /\ ("reset" \in old.set => old.epoch < v2[a].epoch)
  PROVE  /\ v6' \in [Bound.addresses -> T!Sessions \cup {None}]
         /\ \A b \in Bound.addresses : v6'[b] # None =>
              /\ v2[b] # None /\ v6'[b].epoch <= v2[b].epoch
              /\ "reset" \in v6'[b].set => v6'[b].epoch < v2[b].epoch
<1>. DEFINE n == [epoch |-> v2[a].epoch, set |-> {}]
<1>1. n \in T!Sessions /\ n.epoch = v2[a].epoch /\ n.set = {}
  BY DEF T!Sessions
<1>2. PICK s \in {old, n} \ {None} : v6' = [v6 EXCEPT ![a] = s]
  BY DEF T!Issue
<1>. HIDE DEF n
<1>3. /\ s \in T!Sessions /\ s.epoch <= v2[a].epoch /\ ("reset" \in s.set => s.epoch < v2[a].epoch)
  BY <1>1, <1>2
<1>4. v6'[a] = s /\ v6' \in [Bound.addresses -> T!Sessions \cup {None}] /\ \A b \in Bound.addresses \ {a} : v6'[b] = v6[b]
  BY <1>2, <1>3 DEF T!TypeOK
<1>. QED  BY <1>3, <1>4 DEF T!OwnersInv

\* Nobody was mailed anything at first.
LEMMA LinksBegin == T!LInit => LinksInv
<1>. SUFFICES ASSUME T!LInit PROVE LinksInv
  OBVIOUS
<1>1. [kind |-> "admin", password |-> TRUE, epoch |-> 0] \in T!Account
  BY DEF T!Account, T!Kinds
<1>2. T!IsFiniteSet({}) /\ T!Cardinality({}) = 0
  BY CountsAlike, FS_EmptySet
<1>3. T!TypeOK
  <2>1. v2 \in [Bound.addresses -> T!Account \cup {None}]
    BY <1>1 DEF T!LInit
  <2>2. v3 \in Seq(T!Link) /\ Len(v3) <= Bound.links
    BY LinksAssumption DEF T!LInit
  <2>3. v1 \in T!Times /\ v4 \subseteq T!Row /\ T!IsFiniteSet(v4)
    BY <1>2, LinksAssumption DEF T!LInit, T!Times
  <2>4. v5 \in [Ids -> T!Call \cup {None}] /\ v6 \in [Bound.addresses -> T!Sessions \cup {None}]
    BY DEF T!LInit
  <2>. QED  BY <2>1, <2>2, <2>3, <2>4 DEF T!TypeOK
<1>4. T!CallsInv /\ T!LocksInv /\ T!RowsInv /\ T!OwnersInv
  BY DEF T!LInit, T!CallsInv, T!LocksInv, T!RowsInv, T!OwnersInv, T!At
<1>5. T!LinksFitTheAccount
  <2>1. \A a \in Bound.addresses : v2[a] # None => v2[a].kind = "admin"
    BY DEF T!LInit
  <2>. QED  BY <2>1 DEF T!LInit, T!LinksFitTheAccount
<1>6. T!ResetsAreLimited
  <2>1. \A s, b : T!Made(s) = {} /\ T!Mailed(b, s) = {}
    BY DEF T!LInit, T!Made, T!Of, T!Mailed
  <2>. QED  BY <1>2, <2>1, LinksAssumption DEF T!ResetsAreLimited
<1>. QED  BY <1>3, <1>4, <1>5, <1>6 DEF LinksInv

\* However the requests overlap, the links stay of those they were mailed to and within
\* their limits: a request counted, under the lock, what lies in every window it is added to.
LEMMA LinksKeep == LinksInv /\ [T!LNext]_(T!lvars) => LinksInv'
<1>. SUFFICES ASSUME LinksInv, [T!LNext]_(T!lvars) PROVE LinksInv'
  OBVIOUS
<1>1. ASSUME NEW i \in Ids, NEW a \in Bound.addresses, NEW m \in T!Means, T!Begin(i, a, m) PROVE LinksInv'
  <2>. DEFINE n == [means |-> m, to |-> a, at |-> v1, step |-> IF m = "reset" THEN "begun" ELSE "read",
                 found |-> v2[a] # None, mine |-> 0]
  <2>10. /\ v5[i] = None /\ v5' = [v5 EXCEPT ![i] = n] /\ UNCHANGED <<v1, v2, v3, v4, v6>>
         /\ v2[a] # None /\ m # "reset" => v2[a].kind \in T!ForKind[m]
    BY <1>1 DEF T!Begin
  <2>11. /\ n \in T!Call /\ n # None /\ n.to = a /\ n.means = m
         /\ n.step = (IF m = "reset" THEN "begun" ELSE "read") /\ (n.found => v2[a] # None)
    <3>1. (v2[a] # None) \in BOOLEAN
      OBVIOUS
    <3>2. n \in T!Call
      BY <3>1 DEF T!Call, LinksInv, T!TypeOK
    <3>. QED  BY <3>2, LinksAssumption
  <2>. HIDE DEF n
  <2>12. /\ v5' \in [Ids -> T!Call \cup {None}] /\ v5'[i] = n /\ \A j \in Ids \ {i} : v5'[j] = v5[j]
    BY <2>10, <2>11 DEF LinksInv, T!TypeOK
  <2>13. \A j \in Ids : T!At(j, "locked")' <=> T!At(j, "locked")
    BY <2>10, <2>11, <2>12 DEF T!At
  <2>1. T!TypeOK'
    BY <2>10, <2>12 DEF LinksInv, T!TypeOK
  <2>2. T!CallsInv'
    BY <2>10, <2>11, <2>12 DEF LinksInv, T!CallsInv
  <2>3. T!LocksInv'
    <3>1. \A j \in Ids : T!At(j, "locked") => v5'[j] = v5[j]
      BY <2>10, <2>12 DEF T!At
    <3>. QED  BY <2>10, <2>13, <3>1, SameLocks DEF LinksInv
  <2>4. T!RowsInv'
    BY <2>10, SameRows DEF LinksInv
  <2>5. T!OwnersInv'
    BY <2>10 DEF LinksInv, T!OwnersInv
  <2>6. T!LinksFitTheAccount'
    BY <2>10 DEF LinksInv, T!LinksFitTheAccount
  <2>7. T!ResetsAreLimited'
    BY <2>10, SameRows DEF LinksInv
  <2>. QED  BY <2>1, <2>2, <2>3, <2>4, <2>5, <2>6, <2>7 DEF LinksInv
<1>2. ASSUME NEW i \in Ids, T!LockReset(i) PROVE LinksInv'
  <2>1a. T!At(i, "begun") /\ (\A j \in Ids : ~T!At(j, "locked")) /\ UNCHANGED <<v1, v2, v3, v4, v6>>
    BY <1>2 DEF T!LockReset
  <2>2a. v5[i] \in T!Call /\ v5 \in [Ids -> T!Call \cup {None}] /\ v5[i].step = "begun" /\ v5[i].means = "reset"
    BY <2>1a DEF T!At, LinksInv, T!TypeOK, T!CallsInv
  <2>3a. /\ Cardinality(T!Made(T!Since(v5[i].at))) \in Nat
         /\ Cardinality(T!Of(v5[i].to, T!Since(v5[i].at))) \in Nat
    BY RowsCounted DEF LinksInv
  <2>4a. /\ T!Counted(i) \in T!Call /\ T!Counted(i) # None /\ T!Counted(i).step = "locked"
         /\ T!Counted(i).means = "reset" /\ T!Counted(i).to = v5[i].to /\ T!Counted(i).at = v5[i].at
         /\ T!Counted(i).mine = Cardinality(T!Of(v5[i].to, T!Since(v5[i].at))) + 1
    <3>. DEFINE c == T!Cardinality(T!Of(v5[i].to, T!Since(v5[i].at)))
                n == [v5[i] EXCEPT !.step = "locked", !.mine = c + 1]
    <3>1. c = Cardinality(T!Of(v5[i].to, T!Since(v5[i].at))) /\ c + 1 \in Nat
      BY <2>3a, CountsAlike
    <3>2. T!Counted(i) = n
      BY DEF T!Counted
    <3>. HIDE DEF c
    <3>3. n \in T!Call
      BY <2>2a, <3>1 DEF T!Call
    <3>4. n.step = "locked" /\ n.means = v5[i].means /\ n.to = v5[i].to /\ n.at = v5[i].at /\ n.mine = c + 1
      BY <2>2a, <3>1 DEF T!Call
    <3>. HIDE DEF n
    <3>. QED  BY <2>2a, <3>1, <3>2, <3>3, <3>4, LinksAssumption
  <2>5a. /\ v5' \in [Ids -> T!Call \cup {None}] /\ \A j \in Ids \ {i} : v5'[j] = v5[j]
         /\ \/ v5'[i] = None
            \/ v5'[i] = T!Counted(i) /\ Cardinality(T!Made(T!Since(v5[i].at))) < Bound.peers
    <3>1. CASE T!Cardinality(T!Made(T!Since(v5[i].at))) >= Bound.peers
      <4>1. v5' = [v5 EXCEPT ![i] = None]
        BY <1>2, <3>1 DEF T!LockReset
      <4>. QED  BY <2>2a, <4>1
    <3>2. CASE ~(T!Cardinality(T!Made(T!Since(v5[i].at))) >= Bound.peers)
      <4>1. v5' = [v5 EXCEPT ![i] = T!Counted(i)]
        BY <1>2, <3>2 DEF T!LockReset
      <4>2. Cardinality(T!Made(T!Since(v5[i].at))) < Bound.peers
        BY <2>3a, <3>2, CountsAlike, LinksAssumption
      <4>. QED  BY <2>2a, <2>4a, <4>1, <4>2
    <3>. QED  BY <3>1, <3>2
  <2>1. T!TypeOK'
    BY <2>1a, <2>5a DEF LinksInv, T!TypeOK
  <2>2. T!CallsInv'
    BY <2>1a, <2>4a, <2>5a DEF LinksInv, T!CallsInv
  <2>3. T!LocksInv'
    <3>1. \A j \in Ids : T!At(j, "locked")' => j = i /\ v5'[i] = T!Counted(i)
      BY <2>1a, <2>5a DEF T!At
    <3>2. \A s, b : T!Made(s)' = T!Made(s) /\ T!Of(b, s)' = T!Of(b, s)
      BY <2>1a DEF T!Made, T!Of
    <3>3. ASSUME NEW j \in Ids, T!At(j, "locked")' PROVE T!HasCounted(j)'
      <4>1. j = i /\ v5'[i] = T!Counted(i)
        BY <3>1, <3>3
      <4>2. /\ Cardinality(T!Made(T!Since(v5'[j].at))) < Bound.peers
            /\ v5'[j].mine = Cardinality(T!Of(v5'[j].to, T!Since(v5'[j].at))) + 1
        BY <2>4a, <2>5a, <4>1, LinksAssumption
      <4>3. v5'[j].to = v5[i].to /\ v5'[j].at = v5[i].at
        BY <2>4a, <4>1
      <4>. QED  BY <2>1a, <4>2, <4>3, CountsAlike DEF T!HasCounted, T!Made, T!Of
    <3>4. \A j, k \in Ids : T!At(j, "locked")' /\ T!At(k, "locked")' => j = k
      BY <3>1
    <3>. QED  BY <3>3, <3>4 DEF T!LocksInv
  <2>4. T!RowsInv'
    BY <2>1a, SameRows DEF LinksInv
  <2>5. T!OwnersInv'
    BY <2>1a DEF LinksInv, T!OwnersInv
  <2>6. T!LinksFitTheAccount'
    BY <2>1a DEF LinksInv, T!LinksFitTheAccount
  <2>7. T!ResetsAreLimited'
    BY <2>1a, SameRows DEF LinksInv
  <2>. QED  BY <2>1, <2>2, <2>3, <2>4, <2>5, <2>6, <2>7 DEF LinksInv
<1>3. ASSUME NEW i \in Ids, NEW sent \in BOOLEAN, T!MakeLink(i, sent) PROVE LinksInv'
  <2>1a. /\ v5[i] # None /\ v5[i] \in T!Call /\ v5[i].step = "read" /\ v5[i].means \in {"invite", "magic"}
         /\ v5' = [v5 EXCEPT ![i] = None] /\ UNCHANGED <<v1, v4, v6>> /\ v5 \in [Ids -> T!Call \cup {None}]
         /\ v2 \in [Bound.addresses -> T!Account \cup {None}] /\ v5[i].to \in Bound.addresses /\ Len(v3) < Bound.links
    BY <1>3 DEF T!MakeLink, T!At, LinksInv, T!TypeOK, T!CallsInv, T!Call, T!Means
  <2>. DEFINE a == v5[i].to
              n == [kind |-> IF v5[i].means = "invite" THEN "brand" ELSE "creator",
                    password |-> FALSE, epoch |-> 0]
  <2>2a. /\ n \in T!Account /\ n # None /\ n.kind \in T!ForKind[v5[i].means] /\ ~n.password
    <3>1. n \in T!Account /\ n.kind = (IF v5[i].means = "invite" THEN "brand" ELSE "creator") /\ ~n.password
      BY DEF T!Account, T!Kinds
    <3>2. n # None
      BY <3>1, LinksAssumption
    <3>. HIDE DEF n
    <3>3. n.kind \in T!ForKind[v5[i].means]
      BY <2>1a, <3>1 DEF T!ForKind
    <3>. QED  BY <3>1, <3>2, <3>3
  <2>. HIDE DEF n
  <2>3a. /\ \/ v2' = v2 /\ (v5[i].found \/ v3' = v3)
            \/ ~v5[i].found /\ v2[a] = None /\ v2' = [v2 EXCEPT ![a] = n]
         /\ v3' \in {v3, T!Issued(i)}
    BY <1>3 DEF T!MakeLink, n
  <2>4a. /\ v2' \in [Bound.addresses -> T!Account \cup {None}]
         /\ \A b \in Bound.addresses : v2[b] # None => v2'[b] = v2[b]
         /\ v3' # v3 => v2'[a] # None /\ v2'[a].kind \in T!ForKind[v5[i].means]
         /\ \A b \in Bound.addresses : v2'[b] # v2[b] => v2'[b] = n
    BY <2>1a, <2>2a, <2>3a DEF LinksInv, T!CallsInv
  <2>5a. \A j \in Ids : v5'[j] # None => v5'[j] = v5[j]
    BY <2>1a
  <2>6a. \A j \in DOMAIN v3 : v3[j].to \in Bound.addresses
    BY LinkTyped DEF LinksInv
  <2>7a. /\ v3' \in Seq(T!Link) /\ Len(v3') <= Bound.links
         /\ \A j \in DOMAIN v3' : \/ j \in DOMAIN v3 /\ v3'[j] = v3[j]
                                  \/ v3' # v3 /\ v3'[j].to = a /\ v3'[j].means = v5[i].means
    BY <2>1a, <2>3a, LinkIssued, LinksAssumption DEF LinksInv, T!TypeOK
  <2>1. T!TypeOK'
    BY <2>1a, <2>4a, <2>7a DEF LinksInv, T!TypeOK
  <2>2. T!CallsInv'
    <3>1. \A j \in Ids : v5[j] # None => v5[j].to \in Bound.addresses
      BY DEF LinksInv, T!TypeOK, T!Call
    <3>. QED  BY <2>4a, <2>5a, <3>1 DEF LinksInv, T!CallsInv
  <2>3. T!LocksInv'
    <3>1. \A j \in Ids : T!At(j, "locked")' => T!At(j, "locked") /\ v5'[j] = v5[j]
      BY <2>1a, <2>5a DEF T!At
    <3>. QED  BY <2>1a, <3>1, SameLocks DEF LinksInv
  <2>4. T!RowsInv'
    BY <2>1a, SameRows DEF LinksInv
  <2>5. T!OwnersInv'
    BY <2>1a, <2>4a, <2>6a, <2>7a DEF LinksInv, T!OwnersInv
  <2>6. T!LinksFitTheAccount'
    <3>1. \A j \in DOMAIN v3' : v2'[v3'[j].to].kind \in T!ForKind[v3'[j].means]
      BY <2>4a, <2>6a, <2>7a DEF LinksInv, T!OwnersInv, T!LinksFitTheAccount
    <3>2. \A b \in Bound.addresses : v2'[b] # None /\ v2'[b].kind = "creator" => ~v2'[b].password
      BY <2>2a, <2>4a DEF LinksInv, T!LinksFitTheAccount
    <3>. QED  BY <3>1, <3>2 DEF T!LinksFitTheAccount
  <2>7. T!ResetsAreLimited'
    BY <2>1a, SameRows DEF LinksInv
  <2>. QED  BY <2>1, <2>2, <2>3, <2>4, <2>5, <2>6, <2>7 DEF LinksInv
<1>4. ASSUME NEW i \in Ids, NEW sent \in BOOLEAN, T!CommitReset(i, sent) PROVE LinksInv'
  <2>. DEFINE n == T!Recorded(i)
  <2>1a. /\ T!At(i, "locked") /\ v5' = [v5 EXCEPT ![i] = None] /\ UNCHANGED <<v1, v2, v6>> /\ Len(v3) < Bound.links
         /\ v4' = v4 \cup {n} /\ (v3' = v3 \/ (T!Eligible(i) /\ v3' = T!Issued(i)))
    BY <1>4 DEF T!CommitReset
  <2>2a. /\ v5[i] # None /\ v5[i] \in T!Call /\ v5 \in [Ids -> T!Call \cup {None}] /\ v5[i].to \in Bound.addresses
         /\ v5[i].at \in T!Times /\ v5[i].means = "reset" /\ v5[i].mine \in Nat
    BY <2>1a DEF T!At, LinksInv, T!TypeOK, T!CallsInv, T!Call
  <2>3a. Cardinality(v4) \in Nat /\ IsFiniteSet(v4) /\ \A r \in v4 : r.id \in Nat
    BY CountsAlike, FS_CardinalityType DEF LinksInv, T!TypeOK, T!Row
  <2>4a. /\ n \in T!Row /\ n.id = Cardinality(v4) + 1 /\ n.to = v5[i].to /\ n.at = v5[i].at /\ (n.mailed => T!Eligible(i))
    <3>1. T!Eligible(i) \in BOOLEAN
      BY DEF T!Eligible
    <3>. QED  BY <2>2a, <2>3a, <3>1, CountsAlike DEF T!Recorded, T!Row
  <2>5a. n \notin v4 /\ IsFiniteSet(v4') /\ Cardinality(v4') = Cardinality(v4) + 1
    <3>1. n \notin v4
      BY <2>3a, <2>4a, CountsAlike DEF LinksInv, T!RowsInv
    <3>. QED  BY <2>1a, <2>3a, <3>1, FS_AddElement
  <2>. HIDE DEF n
  <2>6a. T!Eligible(i) => v2[v5[i].to] # None /\ v2[v5[i].to].kind \in T!ForKind["reset"] /\ v5[i].mine <= Bound.mails
    BY DEF T!Eligible
  <2>7a. /\ v3' \in Seq(T!Link) /\ Len(v3') <= Bound.links
         /\ \A j \in DOMAIN v3' : \/ j \in DOMAIN v3 /\ v3'[j] = v3[j]
                                  \/ T!Eligible(i) /\ v3'[j].to = v5[i].to /\ v3'[j].means = "reset"
    BY <2>1a, <2>2a, LinkIssued, LinksAssumption DEF LinksInv, T!TypeOK
  <2>8a. \A j \in Ids : v5'[j] # None => v5'[j] = v5[j] /\ j # i
    BY <2>1a, <2>2a
  <2>9a. /\ Cardinality(T!Made(T!Since(v5[i].at))) < Bound.peers
         /\ v5[i].mine = Cardinality(T!Of(v5[i].to, T!Since(v5[i].at))) + 1
    BY <2>1a, CountsAlike DEF LinksInv, T!LocksInv, T!HasCounted
  <2>1. T!TypeOK'
    BY <2>1a, <2>2a, <2>4a, <2>5a, <2>7a, CountsAlike DEF LinksInv, T!TypeOK
  <2>2. T!CallsInv'
    BY <2>1a, <2>8a DEF LinksInv, T!CallsInv
  <2>3. T!LocksInv'
    <3>1. \A j \in Ids : ~T!At(j, "locked")'
      BY <2>1a, <2>8a DEF T!At, LinksInv, T!LocksInv
    <3>. QED  BY <3>1 DEF T!LocksInv
  <2>4. T!RowsInv'
    BY <2>1a, <2>3a, <2>4a, <2>5a, CountsAlike DEF LinksInv, T!RowsInv
  <2>5. T!OwnersInv'
    BY <2>1a, <2>6a, <2>7a DEF LinksInv, T!OwnersInv
  <2>6. T!LinksFitTheAccount'
    BY <2>1a, <2>6a, <2>7a DEF LinksInv, T!LinksFitTheAccount
  <2>7. T!ResetsAreLimited'
    <3>. DEFINE Seen(t) == T!Since(t) \cap 0..t
                Held == T!Since(v5[i].at)
    <3>0. /\ \A s : IsFiniteSet(T!Made(s)) /\ Cardinality(T!Made(s)) \in Nat
          /\ \A s, b : IsFiniteSet(T!Of(b, s)) /\ Cardinality(T!Of(b, s)) \in Nat
      BY RowsCounted DEF LinksInv
    <3>1. ASSUME NEW t \in T!Times, v5[i].at \in Seen(t) PROVE Seen(t) \subseteq Held
      BY <2>2a, <3>1, LinksAssumption DEF T!Since, T!Times
    <3>2. ASSUME NEW t \in T!Times PROVE T!Cardinality(T!Made(Seen(t)))' <= Bound.peers
      <4>1. CASE v5[i].at \in Seen(t)
        <5>1. T!Made(Seen(t))' \subseteq T!Made(Held) \cup {n}
          BY <2>1a, <3>1, <4>1 DEF T!Made
        <5>2. Cardinality(T!Made(Seen(t))') <= Cardinality(T!Made(Held)) + 1 /\ Cardinality(T!Made(Seen(t))') \in Nat
          BY <3>0, <5>1, AtMostOneMore
        <5>. QED  BY <2>9a, <3>0, <5>2, CountsAlike, LinksAssumption
      <4>2. CASE v5[i].at \notin Seen(t)
        <5>1. T!Made(Seen(t))' = T!Made(Seen(t))
          BY <2>1a, <2>4a, <4>2 DEF T!Made
        <5>. QED  BY <5>1, CountsAlike DEF LinksInv, T!ResetsAreLimited
      <4>. QED  BY <4>1, <4>2
    <3>3. ASSUME NEW t \in T!Times, NEW b \in Bound.addresses PROVE T!Cardinality(T!Mailed(b, t))' <= Bound.mails
      <4>1. CASE v5[i].at \in Seen(t) /\ b = v5[i].to /\ n.mailed
        <5>1. T!Mailed(b, t)' \subseteq T!Of(b, Held) \cup {n}
          BY <2>1a, <3>1, <4>1 DEF T!Mailed, T!Of, T!Made
        <5>2. Cardinality(T!Mailed(b, t)') <= Cardinality(T!Of(b, Held)) + 1 /\ Cardinality(T!Mailed(b, t)') \in Nat
          BY <3>0, <5>1, AtMostOneMore
        <5>. QED  BY <2>2a, <2>4a, <2>6a, <2>9a, <3>0, <4>1, <5>2, CountsAlike, LinksAssumption
      <4>2. CASE ~(v5[i].at \in Seen(t) /\ b = v5[i].to /\ n.mailed)
        <5>1. T!Mailed(b, t)' = T!Mailed(b, t)
          BY <2>1a, <2>4a, <4>2 DEF T!Mailed, T!Of, T!Made
        <5>. QED  BY <5>1, CountsAlike DEF LinksInv, T!ResetsAreLimited
      <4>. QED  BY <4>1, <4>2
    <3>. QED  BY <3>2, <3>3 DEF T!ResetsAreLimited
  <2>. QED  BY <2>1, <2>2, <2>3, <2>4, <2>5, <2>6, <2>7 DEF LinksInv
<1>5. ASSUME NEW k \in DOMAIN v3, T!AcceptInvite(k) PROVE LinksInv'
  <2>. DEFINE a == v3[k].to
  <2>1a. /\ v3' = T!Consumed(k) /\ UNCHANGED <<v1, v4, v5>> /\ a \in Bound.addresses /\ v2[a] # None /\ v2[a] \in T!Account
         /\ v2 \in [Bound.addresses -> T!Account \cup {None}] /\ v6 \in [Bound.addresses -> T!Sessions \cup {None}]
         /\ v2[a].epoch \in Nat
    BY <1>5, LinkTyped DEF T!AcceptInvite, LinksInv, T!TypeOK, T!OwnersInv, T!Account
  <2>2a. /\ v2' \in [Bound.addresses -> T!Account \cup {None}]
         /\ \A b \in Bound.addresses : /\ v2'[b] # None <=> v2[b] # None
                                       /\ v2'[b].kind = v2[b].kind /\ (b # a => v2'[b] = v2[b])
         /\ v2'[a].epoch = v2[a].epoch
         /\ \A b \in Bound.addresses : v2'[b] # None /\ v2'[b].kind = "creator" => ~v2'[b].password
    <3>. DEFINE m == [v2[a] EXCEPT !.password = TRUE]
    <3>1. m \in T!Account /\ m # None /\ m.kind = v2[a].kind /\ m.epoch = v2[a].epoch
      <4>1. m \in T!Account
        BY <2>1a DEF T!Account
      <4>. QED  BY <2>1a, <4>1, LinksAssumption DEF T!Account
    <3>2. v2' = [v2 EXCEPT ![a] = m] /\ v2[a].kind = "brand"
      BY <1>5, <2>1a DEF T!AcceptInvite, T!Owner
    <3>. HIDE DEF m
    <3>. QED  BY <2>1a, <3>1, <3>2 DEF LinksInv, T!LinksFitTheAccount
  <2>3a. /\ v3' \in Seq(T!Link) /\ Len(v3') = Len(v3) /\ DOMAIN v3' = DOMAIN v3
         /\ \A j \in DOMAIN v3 : v3'[j].to = v3[j].to /\ v3'[j].means = v3[j].means
    BY <2>1a, LinksKept DEF LinksInv
  <2>4a. /\ v6' \in [Bound.addresses -> T!Sessions \cup {None}]
         /\ \A b \in Bound.addresses : v6'[b] # None =>
              /\ v2'[b] # None /\ v6'[b].epoch <= v2'[b].epoch
              /\ "reset" \in v6'[b].set => v6'[b].epoch < v2'[b].epoch
    <3>1. T!Issue(a, T!SetBy(a, "invite"))
      BY <1>5 DEF T!AcceptInvite
    <3>2. /\ T!SetBy(a, "invite") \in T!Sessions \cup {None}
          /\ T!SetBy(a, "invite") # None => /\ T!SetBy(a, "invite").epoch <= v2[a].epoch
                                            /\ "reset" \in T!SetBy(a, "invite").set =>
                                                 T!SetBy(a, "invite").epoch < v2[a].epoch
      BY <2>1a, SetAgain DEF LinksInv
    <3>. QED  BY <2>1a, <2>2a, <3>1, <3>2, SessionIssued DEF LinksInv
  <2>6a. \A j \in DOMAIN v3 : v3[j].to \in Bound.addresses
    BY LinkTyped DEF LinksInv
  <2>1. T!TypeOK'
    BY <2>1a, <2>2a, <2>3a, <2>4a DEF LinksInv, T!TypeOK
  <2>2. T!CallsInv'
    <3>1. \A j \in Ids : v5[j] # None => v5[j].to \in Bound.addresses
      BY DEF LinksInv, T!TypeOK, T!Call
    <3>. QED  BY <2>1a, <2>2a, <3>1 DEF LinksInv, T!CallsInv
  <2>3. T!LocksInv'
    BY <2>1a, SameLocks DEF LinksInv, T!At
  <2>4. T!RowsInv'
    BY <2>1a, SameRows DEF LinksInv
  <2>5. T!OwnersInv'
    <3>1. \A j \in DOMAIN v3' : v2'[v3'[j].to] # None
      BY <2>2a, <2>3a, <2>6a DEF LinksInv, T!OwnersInv
    <3>. QED  BY <2>4a, <3>1 DEF T!OwnersInv
  <2>6. T!LinksFitTheAccount'
    <3>1. \A j \in DOMAIN v3' : v2'[v3'[j].to].kind \in T!ForKind[v3'[j].means]
      BY <2>2a, <2>3a, <2>6a DEF LinksInv, T!LinksFitTheAccount
    <3>2. \A b \in Bound.addresses : v2'[b] # None /\ v2'[b].kind = "creator" => ~v2'[b].password
      BY <2>2a DEF LinksInv, T!LinksFitTheAccount
    <3>. QED  BY <3>1, <3>2 DEF T!LinksFitTheAccount
  <2>7. T!ResetsAreLimited'
    BY <2>1a, SameRows DEF LinksInv
  <2>. QED  BY <2>1, <2>2, <2>3, <2>4, <2>5, <2>6, <2>7 DEF LinksInv
<1>6. ASSUME NEW k \in DOMAIN v3, T!MagicVerify(k) PROVE LinksInv'
  <2>. DEFINE a == v3[k].to
  <2>1a. /\ v3' = T!Consumed(k) /\ UNCHANGED <<v1, v4, v5>> /\ a \in Bound.addresses /\ v2[a] # None /\ v2[a] \in T!Account
         /\ v2 \in [Bound.addresses -> T!Account \cup {None}] /\ v6 \in [Bound.addresses -> T!Sessions \cup {None}]
         /\ v2[a].epoch \in Nat
    BY <1>6, LinkTyped DEF T!MagicVerify, LinksInv, T!TypeOK, T!OwnersInv, T!Account
  <2>2a. v2' = v2
    BY <1>6 DEF T!MagicVerify
  <2>3a. /\ v3' \in Seq(T!Link) /\ Len(v3') = Len(v3) /\ DOMAIN v3' = DOMAIN v3
         /\ \A j \in DOMAIN v3 : v3'[j].to = v3[j].to /\ v3'[j].means = v3[j].means
    BY <2>1a, LinksKept DEF LinksInv
  <2>4a. /\ v6' \in [Bound.addresses -> T!Sessions \cup {None}]
         /\ \A b \in Bound.addresses : v6'[b] # None =>
              /\ v2'[b] # None /\ v6'[b].epoch <= v2'[b].epoch
              /\ "reset" \in v6'[b].set => v6'[b].epoch < v2'[b].epoch
    <3>1. T!Issue(a, v6[a]) /\ v6[a] \in T!Sessions \cup {None}
      BY <1>6, <2>1a DEF T!MagicVerify
    <3>2. v6[a] # None => v6[a].epoch <= v2[a].epoch /\ ("reset" \in v6[a].set => v6[a].epoch < v2[a].epoch)
      BY <2>1a DEF LinksInv, T!OwnersInv
    <3>. QED  BY <2>1a, <2>2a, <3>1, <3>2, SessionIssued DEF LinksInv
  <2>6a. \A j \in DOMAIN v3 : v3[j].to \in Bound.addresses
    BY LinkTyped DEF LinksInv
  <2>1. T!TypeOK'
    BY <2>1a, <2>2a, <2>3a, <2>4a DEF LinksInv, T!TypeOK
  <2>2. T!CallsInv'
    <3>1. \A j \in Ids : v5[j] # None => v5[j].to \in Bound.addresses
      BY DEF LinksInv, T!TypeOK, T!Call
    <3>. QED  BY <2>1a, <2>2a, <3>1 DEF LinksInv, T!CallsInv
  <2>3. T!LocksInv'
    BY <2>1a, SameLocks DEF LinksInv, T!At
  <2>4. T!RowsInv'
    BY <2>1a, SameRows DEF LinksInv
  <2>5. T!OwnersInv'
    <3>1. \A j \in DOMAIN v3' : v2'[v3'[j].to] # None
      BY <2>2a, <2>3a, <2>6a DEF LinksInv, T!OwnersInv
    <3>. QED  BY <2>4a, <3>1 DEF T!OwnersInv
  <2>6. T!LinksFitTheAccount'
    <3>1. \A j \in DOMAIN v3' : v2'[v3'[j].to].kind \in T!ForKind[v3'[j].means]
      BY <2>2a, <2>3a, <2>6a DEF LinksInv, T!LinksFitTheAccount
    <3>2. \A b \in Bound.addresses : v2'[b] # None /\ v2'[b].kind = "creator" => ~v2'[b].password
      BY <2>2a DEF LinksInv, T!LinksFitTheAccount
    <3>. QED  BY <3>1, <3>2 DEF T!LinksFitTheAccount
  <2>7. T!ResetsAreLimited'
    BY <2>1a, SameRows DEF LinksInv
  <2>. QED  BY <2>1, <2>2, <2>3, <2>4, <2>5, <2>6, <2>7 DEF LinksInv
<1>7. ASSUME NEW k \in DOMAIN v3, T!ResetConfirm(k) PROVE LinksInv'
  <2>. DEFINE a == v3[k].to
  <2>1a. /\ v3' = T!Consumed(k) /\ UNCHANGED <<v1, v4, v5>> /\ a \in Bound.addresses /\ v2[a] # None /\ v2[a] \in T!Account
         /\ v2 \in [Bound.addresses -> T!Account \cup {None}] /\ v6 \in [Bound.addresses -> T!Sessions \cup {None}]
         /\ v2[a].epoch \in Nat
    BY <1>7, LinkTyped DEF T!ResetConfirm, LinksInv, T!TypeOK, T!OwnersInv, T!Account
  <2>2a. /\ v2' \in [Bound.addresses -> T!Account \cup {None}]
         /\ \A b \in Bound.addresses : /\ v2'[b] # None <=> v2[b] # None
                                       /\ v2'[b].kind = v2[b].kind /\ (b # a => v2'[b] = v2[b])
         /\ v2'[a].epoch = v2[a].epoch + 1
         /\ \A b \in Bound.addresses : v2'[b] # None /\ v2'[b].kind = "creator" => ~v2'[b].password
    <3>. DEFINE m == T!NewPassword(a)
    <3>1. m \in T!Account /\ m # None /\ m.kind = v2[a].kind /\ m.epoch = v2[a].epoch + 1
      <4>. DEFINE e == v2[a].epoch + 1
      <4>1. m = [v2[a] EXCEPT !.password = TRUE, !.epoch = e] /\ e \in Nat
        BY <2>1a DEF T!NewPassword
      <4>. HIDE DEF e, m
      <4>2. m \in T!Account /\ m.kind = v2[a].kind /\ m.epoch = e
        BY <2>1a, <4>1 DEF T!Account
      <4>. QED  BY <4>2, LinksAssumption DEF e
    <3>2. v2' = [v2 EXCEPT ![a] = m] /\ v2[a].kind \in {"brand", "admin"}
      BY <1>7, <2>1a DEF T!ResetConfirm, T!Owner
    <3>. HIDE DEF m
    <3>. QED  BY <2>1a, <3>1, <3>2 DEF LinksInv, T!LinksFitTheAccount
  <2>3a. /\ v3' \in Seq(T!Link) /\ Len(v3') = Len(v3) /\ DOMAIN v3' = DOMAIN v3
         /\ \A j \in DOMAIN v3 : v3'[j].to = v3[j].to /\ v3'[j].means = v3[j].means
    BY <2>1a, LinksKept DEF LinksInv
  <2>4a. /\ v6' \in [Bound.addresses -> T!Sessions \cup {None}]
         /\ \A b \in Bound.addresses : v6'[b] # None =>
              /\ v2'[b] # None /\ v6'[b].epoch <= v2'[b].epoch
              /\ "reset" \in v6'[b].set => v6'[b].epoch < v2'[b].epoch
    <3>1. v6' = [v6 EXCEPT ![a] = T!SetBy(a, "reset")]
      BY <1>7 DEF T!ResetConfirm
    <3>2. /\ T!SetBy(a, "reset") \in T!Sessions \cup {None}
          /\ T!SetBy(a, "reset") # None => T!SetBy(a, "reset").epoch <= v2[a].epoch /\ T!SetBy(a, "reset").epoch \in Nat
      BY <2>1a, SetAgain DEF LinksInv
    <3>3. v6'[a] = T!SetBy(a, "reset") /\ \A b \in Bound.addresses \ {a} : v6'[b] = v6[b]
      BY <2>1a, <3>1
    <3>4. v6' \in [Bound.addresses -> T!Sessions \cup {None}]
      BY <2>1a, <3>1, <3>2
    <3>5. \A b \in Bound.addresses \ {a} : v6'[b] # None =>
              /\ v2'[b] # None /\ v6'[b].epoch <= v2'[b].epoch
              /\ "reset" \in v6'[b].set => v6'[b].epoch < v2'[b].epoch
      BY <2>2a, <3>3 DEF LinksInv, T!OwnersInv
    <3>6. v6'[a] # None => v2'[a] # None /\ v6'[a].epoch < v2'[a].epoch /\ v6'[a].epoch <= v2'[a].epoch
      BY <2>1a, <2>2a, <3>2, <3>3
    <3>. QED  BY <3>4, <3>5, <3>6
  <2>6a. \A j \in DOMAIN v3 : v3[j].to \in Bound.addresses
    BY LinkTyped DEF LinksInv
  <2>1. T!TypeOK'
    BY <2>1a, <2>2a, <2>3a, <2>4a DEF LinksInv, T!TypeOK
  <2>2. T!CallsInv'
    <3>1. \A j \in Ids : v5[j] # None => v5[j].to \in Bound.addresses
      BY DEF LinksInv, T!TypeOK, T!Call
    <3>. QED  BY <2>1a, <2>2a, <3>1 DEF LinksInv, T!CallsInv
  <2>3. T!LocksInv'
    BY <2>1a, SameLocks DEF LinksInv, T!At
  <2>4. T!RowsInv'
    BY <2>1a, SameRows DEF LinksInv
  <2>5. T!OwnersInv'
    <3>1. \A j \in DOMAIN v3' : v2'[v3'[j].to] # None
      BY <2>2a, <2>3a, <2>6a DEF LinksInv, T!OwnersInv
    <3>. QED  BY <2>4a, <3>1 DEF T!OwnersInv
  <2>6. T!LinksFitTheAccount'
    <3>1. \A j \in DOMAIN v3' : v2'[v3'[j].to].kind \in T!ForKind[v3'[j].means]
      BY <2>2a, <2>3a, <2>6a DEF LinksInv, T!LinksFitTheAccount
    <3>2. \A b \in Bound.addresses : v2'[b] # None /\ v2'[b].kind = "creator" => ~v2'[b].password
      BY <2>2a DEF LinksInv, T!LinksFitTheAccount
    <3>. QED  BY <3>1, <3>2 DEF T!LinksFitTheAccount
  <2>7. T!ResetsAreLimited'
    BY <2>1a, SameRows DEF LinksInv
  <2>. QED  BY <2>1, <2>2, <2>3, <2>4, <2>5, <2>6, <2>7 DEF LinksInv
<1>8. ASSUME NEW a \in Bound.addresses, T!Login(a) PROVE LinksInv'
  <2>1a. /\ v2[a] # None /\ UNCHANGED <<v1, v2, v3, v4, v5>> /\ T!Issue(a, None)
         /\ v2 \in [Bound.addresses -> T!Account \cup {None}] /\ v2[a].epoch \in Nat
    BY <1>8 DEF T!Login, LinksInv, T!TypeOK, T!Account
  <2>4a. /\ v6' \in [Bound.addresses -> T!Sessions \cup {None}]
         /\ \A b \in Bound.addresses : v6'[b] # None =>
              /\ v2[b] # None /\ v6'[b].epoch <= v2[b].epoch
              /\ "reset" \in v6'[b].set => v6'[b].epoch < v2[b].epoch
    BY <2>1a, SessionIssued DEF LinksInv
  <2>1. T!TypeOK'
    BY <2>1a, <2>4a DEF LinksInv, T!TypeOK
  <2>2. T!CallsInv'
    BY <2>1a DEF LinksInv, T!CallsInv
  <2>3. T!LocksInv'
    BY <2>1a, SameLocks DEF LinksInv, T!At
  <2>4. T!RowsInv'
    BY <2>1a, SameRows DEF LinksInv
  <2>5. T!OwnersInv'
    BY <2>1a, <2>4a DEF LinksInv, T!OwnersInv
  <2>6. T!LinksFitTheAccount'
    BY <2>1a DEF LinksInv, T!LinksFitTheAccount
  <2>7. T!ResetsAreLimited'
    BY <2>1a, SameRows DEF LinksInv
  <2>. QED  BY <2>1, <2>2, <2>3, <2>4, <2>5, <2>6, <2>7 DEF LinksInv
<1>9. ASSUME T!Tick PROVE LinksInv'
  <2>1. T!TypeOK'
    BY <1>9, LinksAssumption DEF LinksInv, T!TypeOK, T!Tick, T!Times
  <2>2. T!CallsInv'
    BY <1>9 DEF LinksInv, T!CallsInv, T!Tick
  <2>3. T!LocksInv'
    BY <1>9, SameLocks DEF LinksInv, T!Tick, T!At
  <2>4. T!RowsInv'
    BY <1>9 DEF LinksInv, T!RowsInv, T!Tick
  <2>5. T!OwnersInv'
    BY <1>9 DEF LinksInv, T!OwnersInv, T!Tick
  <2>6. T!LinksFitTheAccount'
    BY <1>9 DEF LinksInv, T!LinksFitTheAccount, T!Tick
  <2>7. T!ResetsAreLimited'
    BY <1>9 DEF LinksInv, T!ResetsAreLimited, T!Tick, T!Mailed, T!Of, T!Made
  <2>. QED  BY <2>1, <2>2, <2>3, <2>4, <2>5, <2>6, <2>7 DEF LinksInv
<1>10. CASE UNCHANGED T!lvars
  <2>1. UNCHANGED <<v1, v2, v3, v4, v5, v6>>
    BY <1>10 DEF T!lvars
  <2>2. T!TypeOK' /\ T!CallsInv'
    BY <2>1 DEF LinksInv, T!TypeOK, T!CallsInv
  <2>3. T!LocksInv'
    BY <2>1, SameLocks DEF LinksInv, T!At
  <2>4. T!RowsInv' /\ T!ResetsAreLimited'
    BY <2>1, SameRows DEF LinksInv
  <2>5. T!OwnersInv' /\ T!LinksFitTheAccount'
    BY <2>1 DEF LinksInv, T!OwnersInv, T!LinksFitTheAccount
  <2>. QED  BY <2>2, <2>3, <2>4, <2>5 DEF LinksInv
<1>. QED  BY <1>1, <1>2, <1>3, <1>4, <1>5, <1>6, <1>7, <1>8, <1>9, <1>10 DEF T!LNext

\* A session from before a reset is of an older epoch.
LEMMA ResetsEnd == LinksInv => T!ResetEndsSessions
<1>. SUFFICES ASSUME LinksInv PROVE T!ResetEndsSessions
  OBVIOUS
<1>1. \A a \in Bound.addresses : v6[a] # None => v6[a].epoch \in Nat
  BY DEF LinksInv, T!TypeOK, T!Sessions
<1>. QED  BY <1>1 DEF LinksInv, T!OwnersInv, T!ResetEndsSessions

-------------------------------------------------------------------------------
(* The address a brand sends from, SenderDomain *)
W == INSTANCE SenderDomain WITH
  Calls <- Ids, demo <- v1, state <- v2, code <- v3, warm <- v4, call <- v5,
  stopped <- v6, overlapped <- v7

ASSUME SenderAssumption == None \notin [op : W!Operations, saw : W!States]

\* What an address may do, and what its calls have read.
SenderInv ==
  /\ W!TypeOK /\ W!CallsInv
  /\ W!PausedUntilResumed /\ W!CodeIsKept /\ W!ActiveIsWarm

\* No address is registered.
LEMMA SenderBegins == W!WInit => SenderInv
BY DEF W!WInit, SenderInv, W!TypeOK, W!CallsInv, W!PausedUntilResumed, W!CodeIsKept, W!ActiveIsWarm,
   W!States

\* A call that ends leaves the others, and while none overlaps there is no other.
LEMMA SenderEnds ==
  ASSUME SenderInv, NEW k \in Ids, v5[k] # None, v5' = [v5 EXCEPT ![k] = None], v7' = v7,
         v1' = v1, v2' \in W!States, v3' \in BOOLEAN, v4' \in BOOLEAN, v4 => v4', v6' \in BOOLEAN,
         v2' \in {"active", "paused"} => v4',
         ~v7 => (v2' = "paused" <=> v6') /\ (v2' = "unverified" <=> v3')
  PROVE  SenderInv'
<1>1. W!TypeOK'
  BY DEF SenderInv, W!TypeOK
<1>2. \A j \in Ids : v5'[j] # None => j # k /\ v5[j] # None /\ v5'[j] = v5[j]
  BY DEF SenderInv, W!TypeOK
<1>3. W!CallsInv'
  <2>1. ~v7 => \A j \in Ids : v5'[j] = None
    BY <1>2 DEF SenderInv, W!CallsInv
  <2>. QED  BY <1>2, <2>1 DEF SenderInv, W!CallsInv
<1>4. W!PausedUntilResumed'
  BY <1>1 DEF W!TypeOK, W!PausedUntilResumed
<1>5. W!CodeIsKept'
  BY <1>1 DEF W!TypeOK, W!CodeIsKept
<1>. QED  BY <1>1, <1>3, <1>4, <1>5 DEF SenderInv, W!ActiveIsWarm

\* Whatever overlaps, an address is active only when it is warm; and until something does,
\* a pause lasts and a code is kept.
LEMMA SenderKeeps == SenderInv /\ [W!WNext]_(W!wvars) => SenderInv'
<1>. SUFFICES ASSUME SenderInv, [W!WNext]_(W!wvars) PROVE SenderInv'
  OBVIOUS
<1>a. /\ v2 \in W!States /\ v3 \in BOOLEAN /\ v4 \in BOOLEAN /\ v6 \in BOOLEAN /\ v7 \in BOOLEAN
      /\ v5 \in [Ids -> [op : W!Operations, saw : W!States] \cup {None}]
      /\ ~v7 => (v2 = "paused" <=> v6) /\ (v2 = "unverified" <=> v3)
      /\ v2 \in {"active", "paused"} => v4
  BY DEF SenderInv, W!TypeOK, W!PausedUntilResumed, W!CodeIsKept, W!ActiveIsWarm
<1>1. CASE W!Register
  <2>1. W!TypeOK'
    BY <1>1 DEF SenderInv, W!TypeOK, W!Register, W!States
  <2>2. W!CallsInv'
    BY <1>1 DEF SenderInv, W!CallsInv, W!Register
  <2>3. W!PausedUntilResumed' /\ W!CodeIsKept' /\ W!ActiveIsWarm'
    BY <1>a, <1>1 DEF W!PausedUntilResumed, W!CodeIsKept, W!ActiveIsWarm, W!Register
  <2>. QED  BY <2>1, <2>2, <2>3 DEF SenderInv
<1>2. ASSUME NEW k \in Ids, NEW op \in W!Operations, W!Read(k, op) PROVE SenderInv'
  <2>. DEFINE n == [op |-> op, saw |-> v2]
  <2>1. /\ v5[k] = None /\ W!Admitted(op) /\ v5' = [v5 EXCEPT ![k] = n]
        /\ v7' = (v7 \/ \E x \in Ids : v5[x] # None) /\ UNCHANGED <<v1, v2, v3, v4, v6>>
    BY <1>2 DEF W!Read
  <2>2. n \in [op : W!Operations, saw : W!States] /\ n.op = op /\ n.saw = v2 /\ n # None
    BY <1>a, SenderAssumption
  <2>. HIDE DEF n
  <2>3. W!TypeOK'
    BY <1>a, <2>1, <2>2 DEF SenderInv, W!TypeOK
  <2>4. \A j \in Ids : v5'[j] = IF j = k THEN n ELSE v5[j]
    BY <1>a, <2>1
  <2>5. /\ op = "verify" => v2 = "unverified"
        /\ op = "dns" => v2 = "dns_pending"
        /\ op = "resume" => v2 = "paused"
        /\ v2 # "none"
    BY <2>1 DEF W!Admitted
  <2>6. ~v7' => ~v7 /\ \A x \in Ids : v5[x] = None
    BY <1>a, <2>1
  <2>7. W!CallsInv'
    BY <1>a, <2>1, <2>2, <2>4, <2>5, <2>6 DEF SenderInv, W!CallsInv
  <2>8. W!PausedUntilResumed' /\ W!CodeIsKept' /\ W!ActiveIsWarm'
    BY <2>1, <2>6 DEF SenderInv, W!PausedUntilResumed, W!CodeIsKept, W!ActiveIsWarm
  <2>. QED  BY <2>3, <2>7, <2>8 DEF SenderInv
<1>3. ASSUME NEW k \in Ids, W!Verify(k) \/ W!CheckDns(k) \/ W!ReportGood(k) \/ W!ReportBad(k)
                            \/ W!Resume(k) \/ W!Abort(k)
      PROVE  SenderInv'
  <2>1. v5[k] # None /\ v5' = [v5 EXCEPT ![k] = None] /\ v7' = v7 /\ v1' = v1
    BY <1>3 DEF W!Verify, W!CheckDns, W!ReportGood, W!ReportBad, W!Resume, W!Abort, W!Doing
  <2>2. /\ v5[k].saw \in W!States
        /\ v5[k].op = "verify" => v5[k].saw = "unverified"
        /\ v5[k].op = "dns" => v5[k].saw = "dns_pending"
        /\ v5[k].op = "resume" => v5[k].saw = "paused"
        /\ v5[k].saw \in {"active", "paused"} => v4
        /\ ~v7 => v5[k].saw = v2
    BY <1>a, <2>1 DEF SenderInv, W!CallsInv
  <2>3. CASE W!Verify(k)
    BY <1>a, <2>1, <2>2, <2>3, SenderEnds DEF W!Verify, W!Doing, W!States
  <2>4. CASE W!CheckDns(k)
    BY <1>a, <2>1, <2>2, <2>4, SenderEnds DEF W!CheckDns, W!Doing, W!States
  <2>5. CASE W!ReportGood(k)
    BY <1>a, <2>1, <2>2, <2>5, SenderEnds DEF W!ReportGood, W!Doing
  <2>6. CASE W!ReportBad(k)
    <3>1. v2' \in W!States /\ v6' \in BOOLEAN
      BY <1>a, <2>2, <2>6 DEF W!ReportBad, W!States
    <3>. QED  BY <1>a, <2>1, <2>2, <2>6, <3>1, SenderEnds DEF W!ReportBad, W!Doing
  <2>7. CASE W!Resume(k)
    BY <1>a, <2>1, <2>2, <2>7, SenderEnds DEF W!Resume, W!Doing, W!States
  <2>8. CASE W!Abort(k)
    BY <1>a, <2>1, <2>2, <2>8, SenderEnds DEF W!Abort
  <2>. QED  BY <1>3, <2>3, <2>4, <2>5, <2>6, <2>7, <2>8
<1>4. CASE UNCHANGED W!wvars
  BY <1>4 DEF W!wvars, SenderInv, W!TypeOK, W!CallsInv, W!PausedUntilResumed, W!CodeIsKept,
     W!ActiveIsWarm
<1>. QED  BY <1>1, <1>2, <1>3, <1>4 DEF W!WNext

-------------------------------------------------------------------------------
(* The consents of a creator, ConsentStore *)
CS == INSTANCE ConsentStore WITH
  Brands <- Names, Hooks <- Bound.hooks, Ban <- Bound.ban, MaxDay <- Bound.day,
  MaxGrants <- Bound.grants, day <- v1, records <- v2, ban <- v3, frozen <- v4, told <- v5

ASSUME ConsentAssumption ==
  /\ Bound.hooks \in Nat /\ Bound.ban \in Nat /\ Bound.day \in Nat /\ Bound.grants \in Nat
  /\ None \notin Nat

\* The consents, what was told of their end, and the ban.
ConsentInv == CS!TypeOK /\ CS!WithdrawalIsFelt /\ CS!BanInv

\* Nobody has consented.
LEMMA ConsentBegins == CS!CInit => ConsentInv
<1>. SUFFICES ASSUME CS!CInit PROVE ConsentInv
  OBVIOUS
<1>1. /\ v1 = 0 /\ v2 = <<>> /\ v3 = None /\ v4 = FALSE /\ v5 = [h \in 1..Bound.hooks |-> {}]
      /\ v2 \in Seq(CS!Record) /\ Len(v2) = 0 /\ DOMAIN v2 = {}
  BY DEF CS!CInit
<1>2. CS!TypeOK
  <2>1. v5 \in [1..Bound.hooks -> SUBSET (1..Bound.grants)]
    BY <1>1
  <2>2. Len(v2) <= Bound.grants /\ 0 \in 0..Bound.day
    BY <1>1, ConsentAssumption
  <2>. QED  BY <1>1, <2>1, <2>2 DEF CS!TypeOK
<1>3. CS!Ended = {}
  BY <1>1 DEF CS!Ended
<1>4. \A h \in 1..Bound.hooks : v5[h] = {}
  BY <1>1
<1>. QED  BY <1>2, <1>3, <1>4 DEF ConsentInv, CS!WithdrawalIsFelt, CS!BanInv

\* A consent that ended has its day.
LEMMA ConsentDays ==
  ASSUME v2 \in Seq(CS!Record), NEW i \in CS!Ended
  PROVE  i \in DOMAIN v2 /\ v2[i].withdrawn \in Nat
<1>1. i \in DOMAIN v2 /\ v2[i].withdrawn # None
  BY DEF CS!Ended
<1>2. v2[i] \in CS!Record
  BY <1>1
<1>3. v2[i].withdrawn \in 0..Bound.day
  BY <1>1, <1>2 DEF CS!Record
<1>. QED  BY <1>1, <1>3, ConsentAssumption

\* A grant ends nothing.
LEMMA ConsentGrant ==
  ASSUME ConsentInv, NEW x \in CS!Kinds, NEW b \in Names \cup {None}, CS!Grant(x, b)
  PROVE  ConsentInv'
<1>. DEFINE n == [kind |-> x, brand |-> b, withdrawn |-> None]
<1>1. /\ n \in CS!Record /\ n.withdrawn = None
  BY DEF CS!Record
<1>2. v2' = Append(v2, n) /\ Len(v2) < Bound.grants /\ UNCHANGED <<v1, v3, v4, v5>>
  BY DEF CS!Grant
<1>. HIDE DEF n
<1>3. /\ v2' \in Seq(CS!Record) /\ Len(v2') = Len(v2) + 1 /\ Len(v2) \in Nat
      /\ DOMAIN v2' = 1..Len(v2) + 1 /\ DOMAIN v2 = 1..Len(v2)
      /\ v2'[Len(v2) + 1] = n /\ \A i \in 1..Len(v2) : v2'[i] = v2[i]
  BY <1>1, <1>2 DEF ConsentInv, CS!TypeOK
<1>4. CS!TypeOK'
  BY <1>2, <1>3, ConsentAssumption DEF ConsentInv, CS!TypeOK
<1>5. CS!Ended' = CS!Ended
  BY <1>1, <1>3 DEF CS!Ended
<1>6. \A i \in CS!Ended : v2'[i] = v2[i]
  BY <1>3 DEF CS!Ended
<1>7. CS!BanInv'
  BY <1>2, <1>5, <1>6 DEF ConsentInv, CS!BanInv
<1>8. CS!WithdrawalIsFelt'
  BY <1>2, <1>5, <1>6 DEF ConsentInv, CS!WithdrawalIsFelt, CS!RecontactAllowed
<1>. QED  BY <1>4, <1>7, <1>8 DEF ConsentInv

\* The one that ends is told to all of the hooks, or what is sent out stops.
LEMMA ConsentEnds ==
  ASSUME ConsentInv, NEW x \in CS!Kinds, NEW b \in Names \cup {None}, NEW f \in 1..Bound.hooks + 1,
         CS!Withdraw(x, b, f)
  PROVE  ConsentInv'
<1>1. PICK i \in CS!Active(x, b) :
        /\ v2' = [v2 EXCEPT ![i].withdrawn = v1]
        /\ v5' = [h \in 1..Bound.hooks |-> IF h < f THEN v5[h] \cup {i} ELSE v5[h]]
  BY DEF CS!Withdraw
<1>2. /\ v4' = (v4 \/ f <= Bound.hooks) /\ v3' = (IF f <= Bound.hooks THEN v3 ELSE v1 + Bound.ban)
      /\ v1' = v1
  BY DEF CS!Withdraw
<1>t. /\ v1 \in 0..Bound.day /\ v2 \in Seq(CS!Record) /\ Len(v2) <= Bound.grants
      /\ v3 \in (0..Bound.day + Bound.ban) \cup {None} /\ v4 \in BOOLEAN
      /\ v5 \in [1..Bound.hooks -> SUBSET (1..Bound.grants)]
  BY DEF ConsentInv, CS!TypeOK
<1>3. i \in DOMAIN v2 /\ v2[i] \in CS!Record /\ i \in 1..Bound.grants
  BY <1>t, ConsentAssumption DEF CS!Active
<1>. DEFINE n == [v2[i] EXCEPT !.withdrawn = v1]
<1>4. n \in CS!Record /\ n.withdrawn = v1 /\ v2' = [v2 EXCEPT ![i] = n]
  BY <1>t, <1>1, <1>3 DEF CS!Record
<1>. HIDE DEF n
<1>5. /\ v2' \in Seq(CS!Record) /\ Len(v2') = Len(v2) /\ DOMAIN v2' = DOMAIN v2
      /\ \A j \in DOMAIN v2 : v2'[j] = IF j = i THEN n ELSE v2[j]
  BY <1>t, <1>3, <1>4
<1>6. CS!TypeOK'
  <2>1. v5' \in [1..Bound.hooks -> SUBSET (1..Bound.grants)]
    BY <1>t, <1>1, <1>3
  <2>2. v3' \in (0..Bound.day + Bound.ban) \cup {None}
    BY <1>t, <1>2, ConsentAssumption
  <2>. QED  BY <1>t, <1>2, <1>5, <2>1, <2>2 DEF CS!TypeOK
<1>7. CS!Ended' = CS!Ended \cup {i}
  BY <1>t, <1>3, <1>4, <1>5, ConsentAssumption DEF CS!Ended
<1>8. \A j \in CS!Ended : v2'[j].withdrawn = (IF j = i THEN v1 ELSE v2[j].withdrawn) /\ v2[j].withdrawn \in Nat
  <2>1. ASSUME NEW j \in CS!Ended PROVE v2[j].withdrawn \in Nat /\ j \in DOMAIN v2
    BY <1>t, ConsentDays
  <2>. QED  BY <1>4, <1>5, <2>1
<1>9. v2'[i].withdrawn = v1 /\ v1 \in Nat
  BY <1>t, <1>3, <1>4, <1>5
<1>10. CS!BanInv'
  <2>1. ASSUME NEW j \in CS!Ended' PROVE v2'[j].withdrawn <= v1 /\ v2'[j].withdrawn \in Nat
    BY <1>7, <1>8, <1>9, <2>1 DEF ConsentInv, CS!BanInv
  <2>2. ~v4' => ~v4 /\ v3' = v1 + Bound.ban /\ v3' # None
    <3>1. ~v4' => ~v4 /\ ~(f <= Bound.hooks)
      BY <1>2
    <3>2. v1 + Bound.ban \in Nat
      BY <1>t, ConsentAssumption
    <3>. QED  BY <1>2, <3>1, <3>2, ConsentAssumption
  <2>. QED  BY <1>t, <1>2, <2>1, <2>2, ConsentAssumption DEF CS!BanInv
<1>11. CS!WithdrawalIsFelt'
  <2>1. CASE v4'
    BY <2>1 DEF CS!WithdrawalIsFelt
  <2>2. CASE ~v4'
    <3>0. ~v4 /\ ~(f <= Bound.hooks)
      BY <1>2, <2>2
    <3>1. ~v4 /\ f = Bound.hooks + 1
      BY <3>0, ConsentAssumption
    <3>2. \A h \in 1..Bound.hooks : v5'[h] = v5[h] \cup {i}
      BY <1>1, <3>1, ConsentAssumption
    <3>3. \A h \in 1..Bound.hooks : v5'[h] = CS!Ended'
      BY <1>7, <3>1, <3>2 DEF ConsentInv, CS!WithdrawalIsFelt
    <3>4. ASSUME NEW j \in CS!Ended', v1' < v2'[j].withdrawn + Bound.ban PROVE ~CS!RecontactAllowed'
      <4>1. v3' # None /\ v2'[j].withdrawn + Bound.ban <= v3' /\ v3' \in Nat /\ v1' \in Nat
        BY <1>6, <1>10, <2>2, ConsentAssumption DEF CS!BanInv, CS!TypeOK
      <4>2. v2'[j].withdrawn \in Nat
        BY <1>7, <1>8, <1>9
      <4>. QED  BY <3>4, <4>1, <4>2, ConsentAssumption DEF CS!RecontactAllowed
    <3>. QED  BY <3>3, <3>4 DEF CS!WithdrawalIsFelt
  <2>. QED  BY <2>1, <2>2
<1>. QED  BY <1>6, <1>10, <1>11 DEF ConsentInv

\* Whatever is granted, withdrawn or fails, a withdrawal is felt.
LEMMA ConsentKeeps == ConsentInv /\ [CS!CNext]_(CS!cvars) => ConsentInv'
<1>. SUFFICES ASSUME ConsentInv, [CS!CNext]_(CS!cvars) PROVE ConsentInv'
  OBVIOUS
<1>1. CASE CS!NextDay
  <2>1. v1' = v1 + 1 /\ v1 < Bound.day /\ v1 \in Nat /\ UNCHANGED <<v2, v3, v4, v5>>
    BY <1>1, ConsentAssumption DEF CS!NextDay, ConsentInv, CS!TypeOK
  <2>2. CS!TypeOK'
    BY <2>1, ConsentAssumption DEF ConsentInv, CS!TypeOK
  <2>3. CS!Ended' = CS!Ended /\ \A i \in CS!Ended : v2[i].withdrawn \in Nat
    <3>1. CS!Ended' = CS!Ended
      BY <2>1 DEF CS!Ended
    <3>. QED  BY <3>1, ConsentDays DEF ConsentInv, CS!TypeOK
  <2>4. CS!BanInv'
    BY <2>1, <2>3 DEF ConsentInv, CS!BanInv
  <2>5. CS!WithdrawalIsFelt'
    <3>1. ASSUME ~v4', NEW j \in CS!Ended', v1' < v2'[j].withdrawn + Bound.ban
          PROVE  ~CS!RecontactAllowed'
      <4>1. v3' # None /\ v2'[j].withdrawn + Bound.ban <= v3' /\ v3' \in Nat /\ v1' \in Nat
        BY <2>2, <2>4, <3>1, ConsentAssumption DEF CS!BanInv, CS!TypeOK
      <4>2. v2'[j].withdrawn \in Nat
        BY <2>1, <2>3
      <4>. QED  BY <3>1, <4>1, <4>2, ConsentAssumption DEF CS!RecontactAllowed
    <3>. QED  BY <2>1, <2>3, <3>1 DEF ConsentInv, CS!WithdrawalIsFelt
  <2>. QED  BY <2>2, <2>4, <2>5 DEF ConsentInv
<1>2. CASE UNCHANGED CS!cvars
  BY <1>2 DEF CS!cvars, ConsentInv, CS!TypeOK, CS!BanInv, CS!Ended, CS!WithdrawalIsFelt, CS!RecontactAllowed
<1>. QED  BY <1>1, <1>2, ConsentGrant, ConsentEnds DEF CS!CNext

-------------------------------------------------------------------------------
(* The batches of samples and their gates, Dispatch *)
K == INSTANCE Dispatch WITH
  Batches <- Names, Readers <- Ids, Creators <- Bound.creators, gate <- v1, batch <- v2,
  rows <- v3, invited <- v4, reader <- v5, approvals <- v6, after <- v7, raced <- v8

ASSUME DispatchAssumption == K!Verdicts

\* The batches keep their invariant: it is inductive as module Dispatch states it.
BatchesInv == K!KInv

\* There is no batch yet.
LEMMA BatchesBegin == K!KInit => BatchesInv
BY DEF BatchesInv, K!KInit, K!KInv, K!TypeOK, K!Gates, K!GateInv, K!ReaderInv, K!InvitedInv,
       K!AfterInv, K!InvitedAfterApproval, K!OneVerdict

\* Every decision, import and read of a batch keeps the invariant.
LEMMA BatchesKeep == BatchesInv /\ [K!KNext]_(K!kvars) => BatchesInv'
<1>. SUFFICES ASSUME K!KInv, [K!KNext]_(K!kvars) PROVE K!KInv'
  BY DEF BatchesInv
<1>. USE DEF K!Gates
<1>1. ASSUME NEW b \in Names, NEW targets \in SUBSET Bound.creators, K!Create(b, targets)
      PROVE  K!KInv'
  <2>1. K!TypeOK'
    BY <1>1 DEF K!KInv, K!TypeOK, K!Create
  <2>2. \A y \in Names :
          /\ v1'[y] = IF y = b THEN "PENDING" ELSE v1[y]
          /\ v2'[y] = IF y = b THEN "PENDING_GATE" ELSE v2[y]
    BY <1>1 DEF K!KInv, K!TypeOK, K!Create
  <2>3. \A y \in Names, c \in Bound.creators :
          v3'[y][c] = IF y # b THEN v3[y][c] ELSE IF c \in targets THEN "DRAFT" ELSE "none"
    BY <1>1 DEF K!KInv, K!TypeOK, K!Create
  <2>4. /\ v2[b] = "none" /\ \A c \in targets : ~K!Banned(c)
        /\ UNCHANGED <<v4, v5, v6, v8>>
    BY <1>1 DEF K!Create
  <2>5. v6[b] = 0 /\ \A c \in Bound.creators : v4[b][c] = "never"
    BY <2>4 DEF K!KInv, K!GateInv
  <2>6. K!GateInv'
    BY <2>2, <2>4, <2>5 DEF K!KInv, K!GateInv
  <2>7. K!ReaderInv'
    <3>1. \A r \in Ids : v5[r] # None => v5[r].batch \in Names \ {b}
      BY <2>4 DEF K!KInv, K!TypeOK, K!ReaderInv
    <3>. QED  BY <2>2, <2>4, <3>1 DEF K!KInv, K!ReaderInv
  <2>8. K!InvitedInv'
    BY <2>3, <2>4, <2>5 DEF K!KInv, K!InvitedInv
  <2>9. K!AfterInv'
    <3>1. \A y \in Names : v7'[y] \in SUBSET Names
      BY <2>1 DEF K!TypeOK
    <3>2. \A x \in v7'[b] : \E c \in Bound.creators : v4[x][c] = "recently"
      BY <1>1 DEF K!KInv, K!TypeOK, K!Create
    <3>3. \A y \in Names \ {b} : v7'[y] = v7[y]
      BY <1>1 DEF K!KInv, K!TypeOK, K!Create
    <3>4. \A c \in targets : \A x \in Names : v4[x][c] # "recently"
      BY <2>4 DEF K!Banned
    <3>. QED  BY <2>3, <2>4, <3>1, <3>2, <3>3, <3>4 DEF K!KInv, K!AfterInv
  <2>10. K!InvitedAfterApproval' /\ K!OneVerdict'
    BY <2>2, <2>4, <2>5 DEF K!KInv, K!InvitedAfterApproval, K!OneVerdict
  <2>. QED  BY <2>1, <2>6, <2>7, <2>8, <2>9, <2>10 DEF K!KInv
<1>2. ASSUME NEW b \in Names, NEW state \in {"APPROVED", "HELD", "REJECTED"}, K!Decide(b, state)
      PROVE  K!KInv'
  <2>1. K!TypeOK'
    BY <1>2 DEF K!KInv, K!TypeOK, K!Decide
  <2>2. /\ v1[b] \in {"PENDING", "HELD"}
        /\ \A y \in Names : v1'[y] = IF y = b THEN state ELSE v1[y]
        /\ UNCHANGED <<v2, v3, v4, v5, v6, v7, v8>>
    BY <1>2 DEF K!KInv, K!TypeOK, K!Decide
  <2>3. \A y \in Names :
          /\ v1[y] = "APPROVED" => v1'[y] = "APPROVED"
          /\ v1'[y] = "none" <=> v1[y] = "none"
    BY <2>2
  <2>4. K!GateInv' /\ K!InvitedInv' /\ K!AfterInv' /\ K!InvitedAfterApproval' /\ K!OneVerdict'
    BY <2>2, <2>3 DEF K!KInv, K!GateInv, K!InvitedInv, K!AfterInv, K!InvitedAfterApproval,
           K!OneVerdict
  <2>5. K!ReaderInv'
    <3>1. \A r \in Ids : v5[r] # None => v5[r].batch \in Names
      BY DEF K!KInv, K!TypeOK
    <3>. QED  BY <2>2, <2>3, <3>1 DEF K!KInv, K!ReaderInv
  <2>. QED  BY <2>1, <2>4, <2>5 DEF K!KInv
<1>3. ASSUME NEW b \in Names, NEW c \in Bound.creators, K!Import(b, c)
      PROVE  K!KInv'
  <2>1. K!TypeOK'
    BY <1>3 DEF K!KInv, K!TypeOK, K!Import
  <2>2. UNCHANGED <<v1, v2, v4, v5, v6, v7, v8>>
    BY <1>3 DEF K!Import
  <2>3. \A y \in Names, d \in Bound.creators :
          /\ v3'[y][d] = "none" <=> v3[y][d] = "none"
          /\ v3'[y][d] = "DRAFT" => v3[y][d] = "DRAFT"
    BY <1>3 DEF K!KInv, K!TypeOK, K!Import
  <2>4. K!GateInv' /\ K!ReaderInv' /\ K!InvitedAfterApproval' /\ K!OneVerdict'
    BY <2>2 DEF K!KInv, K!GateInv, K!ReaderInv, K!InvitedAfterApproval, K!OneVerdict
  <2>5. K!InvitedInv' /\ K!AfterInv'
    BY <2>2, <2>3 DEF K!KInv, K!InvitedInv, K!AfterInv
  <2>. QED  BY <2>1, <2>4, <2>5 DEF K!KInv
<1>4. ASSUME K!Age
      PROVE  K!KInv'
  <2>1. K!TypeOK'
    BY <1>4 DEF K!KInv, K!TypeOK, K!Age
  <2>2. UNCHANGED <<v1, v2, v3, v5, v6, v7, v8>>
    BY <1>4 DEF K!Age
  <2>3. \A y \in Names, d \in Bound.creators :
          /\ v4'[y][d] = "never" <=> v4[y][d] = "never"
          /\ v4'[y][d] # "recently"
    BY <1>4 DEF K!KInv, K!TypeOK, K!Age
  <2>4. K!GateInv' /\ K!ReaderInv' /\ K!InvitedInv' /\ K!InvitedAfterApproval' /\ K!OneVerdict'
    BY <2>2, <2>3 DEF K!KInv, K!GateInv, K!ReaderInv, K!InvitedInv, K!InvitedAfterApproval,
           K!OneVerdict
  <2>5. K!AfterInv'
    <3>1. \A y \in Names : v7[y] \in SUBSET Names
      BY DEF K!KInv, K!TypeOK
    <3>. QED  BY <2>2, <2>3, <3>1 DEF K!KInv, K!AfterInv
  <2>. QED  BY <2>1, <2>4, <2>5 DEF K!KInv
<1>5. ASSUME NEW r \in Ids, NEW b \in Names, K!SyncReads(r, b)
      PROVE  K!KInv'
  <2>1. K!TypeOK'
    BY <1>5 DEF K!KInv, K!TypeOK, K!SyncReads
  <2>2. /\ v5[r] = None /\ v2[b] = "PENDING_GATE"
        /\ \A q \in Ids : v5'[q] = IF q = r THEN [batch |-> b, saw |-> None] ELSE v5[q]
        /\ v8 \subseteq v8'
        /\ b \notin v8' => \A q \in Ids : v5[q] # None => v5[q].batch # b
        /\ UNCHANGED <<v1, v2, v3, v4, v6, v7>>
    BY <1>5 DEF K!KInv, K!TypeOK, K!SyncReads
  <2>3. K!GateInv' /\ K!InvitedInv' /\ K!AfterInv' /\ K!InvitedAfterApproval' /\ K!OneVerdict'
    BY <2>2 DEF K!KInv, K!GateInv, K!InvitedInv, K!AfterInv, K!InvitedAfterApproval, K!OneVerdict
  <2>4. K!ReaderInv'
    <3>1. ASSUME NEW q \in Ids, v5'[q] # None, q # r
          PROVE  v5'[q] = v5[q] /\ v5[q] # None
      BY <2>2, <3>1
    <3>2. v5'[r].batch = b /\ v5'[r].saw # "APPROVED"
      BY <2>2, DispatchAssumption DEF K!Verdicts
    <3>3. \A q \in Ids : v5[q] # None => v5[q].batch \in Names
      BY DEF K!KInv, K!TypeOK
    <3>. QED  BY <2>2, <3>1, <3>2, <3>3 DEF K!KInv, K!ReaderInv
  <2>. QED  BY <2>1, <2>3, <2>4 DEF K!KInv
<1>6. ASSUME NEW r \in Ids, K!SyncLooks(r)
      PROVE  K!KInv'
  <2>1. K!TypeOK'
    <3>. DEFINE new == [v5[r] EXCEPT !.saw = v1[v5[r].batch]]
    <3>1. v5[r] \in [batch : Names, saw : K!Gates \cup {None}]
      BY <1>6 DEF K!KInv, K!TypeOK, K!SyncLooks
    <3>2. v1[v5[r].batch] \in K!Gates
      BY <3>1 DEF K!KInv, K!TypeOK
    <3>3. new \in [batch : Names, saw : K!Gates \cup {None}]
      BY <3>1, <3>2
    <3>4. v5' = [v5 EXCEPT ![r] = None] \/ v5' = [v5 EXCEPT ![r] = new]
      BY <1>6 DEF K!SyncLooks
    <3>5. UNCHANGED <<v1, v2, v3, v4, v6, v7, v8>>
      BY <1>6 DEF K!SyncLooks
    <3>6. v5' \in [Ids -> [batch : Names, saw : K!Gates \cup {None}] \cup {None}]
      BY <3>3, <3>4 DEF K!KInv, K!TypeOK
    <3>. QED  BY <3>5, <3>6 DEF K!KInv, K!TypeOK
  <2>2. /\ v5[r] # None
        /\ \A q \in Ids \ {r} : v5'[q] = v5[q]
        /\ \/ v5'[r] = None
           \/ v5'[r].batch = v5[r].batch /\ v5'[r].saw = v1[v5[r].batch]
        /\ UNCHANGED <<v1, v2, v3, v4, v6, v7, v8>>
    BY <1>6 DEF K!KInv, K!TypeOK, K!SyncLooks
  <2>3. K!GateInv' /\ K!InvitedInv' /\ K!AfterInv' /\ K!InvitedAfterApproval' /\ K!OneVerdict'
    BY <2>2 DEF K!KInv, K!GateInv, K!InvitedInv, K!AfterInv, K!InvitedAfterApproval, K!OneVerdict
  <2>4. K!ReaderInv'
    BY <2>2 DEF K!KInv, K!ReaderInv
  <2>. QED  BY <2>1, <2>3, <2>4 DEF K!KInv
<1>7. ASSUME NEW r \in Ids, K!SyncWrites(r)
      PROVE  K!KInv'
  <2>. DEFINE b == v5[r].batch
              approved == v5[r].saw = "APPROVED"
  <2>1. v5[r] # None /\ b \in Names /\ v2[b] # "none" /\ (approved => v1[b] = "APPROVED")
    BY <1>7 DEF K!KInv, K!TypeOK, K!ReaderInv, K!SyncWrites
  <2>2. K!TypeOK'
    <3>1. v5' = [v5 EXCEPT ![r] = None] /\ UNCHANGED <<v1, v7, v8>>
      BY <1>7 DEF K!SyncWrites
    <3>2. v5' \in [Ids -> [batch : Names, saw : K!Gates \cup {None}] \cup {None}]
      BY <3>1 DEF K!KInv, K!TypeOK
    <3>3. v2' \in [Names -> {"none", "PENDING_GATE", "SENDING", "HELD"}]
      BY <1>7 DEF K!KInv, K!TypeOK, K!SyncWrites
    <3>4. v6' \in [Names -> Nat]
      <4>. HIDE DEF b
      <4>1. v6 \in [Names -> Nat]
        BY DEF K!KInv, K!TypeOK
      <4>2. v6[b] \in Nat
        BY <2>1, <4>1
      <4>3. \/ v6' = [v6 EXCEPT ![b] = v6[b] + 1]
            \/ v6' = [v6 EXCEPT ![b] = v6[b]]
        BY <1>7 DEF K!SyncWrites, b
      <4>. QED  BY <4>1, <4>2, <4>3
    <3>5. v3' \in [Names -> [Bound.creators -> {"none", "DRAFT", "INVITED", "later"}]]
      BY <1>7 DEF K!KInv, K!TypeOK, K!SyncWrites
    <3>6. v4' \in [Names -> [Bound.creators -> {"never", "recently", "before"}]]
      BY <1>7 DEF K!KInv, K!TypeOK, K!SyncWrites
    <3>. QED  BY <3>1, <3>2, <3>3, <3>4, <3>5, <3>6 DEF K!KInv, K!TypeOK
  <2>3. /\ \A y \in Names :
             /\ v2'[y] = IF y # b THEN v2[y] ELSE IF approved THEN "SENDING" ELSE "HELD"
             /\ v6'[y] = IF y = b /\ approved THEN v6[y] + 1 ELSE v6[y]
        /\ \A q \in Ids : v5'[q] = IF q = r THEN None ELSE v5[q]
        /\ UNCHANGED <<v1, v7, v8>>
    BY <1>7, <2>1 DEF K!KInv, K!TypeOK, K!SyncWrites
  \* What the write does to the rows and the invitations of any batch.
  <2>4. \A y \in Names, d \in Bound.creators :
          IF y = b /\ approved /\ v3[y][d] = "DRAFT"
            THEN v3'[y][d] = "INVITED" /\ v4'[y][d] = "recently"
            ELSE v3'[y][d] = v3[y][d] /\ v4'[y][d] = v4[y][d]
    BY <1>7, <2>1 DEF K!KInv, K!TypeOK, K!SyncWrites, K!Reached
  <2>5. b \notin v8 =>
          v2[b] = "PENDING_GATE" /\ \A q \in Ids : v5[q] # None /\ v5[q].batch = b => q = r
    BY <2>1 DEF K!KInv, K!ReaderInv
  <2>6. \A q \in Ids : v5[q] # None => v5[q].batch \in Names
    BY DEF K!KInv, K!TypeOK
  <2>7. K!ReaderInv'
    <3>1. ASSUME NEW q \in Ids, v5'[q] # None
          PROVE  q # r /\ v5'[q] = v5[q] /\ v5[q] # None
      BY <2>3, <3>1
    <3>. QED  BY <2>1, <2>3, <2>5, <2>6, <3>1 DEF K!KInv, K!ReaderInv
  <2>. HIDE DEF b, approved
  <2>8. K!GateInv'
    BY <2>1, <2>3, <2>4 DEF K!KInv, K!GateInv
  <2>9. K!InvitedInv'
    BY <2>1, <2>4 DEF K!KInv, K!InvitedInv
  <2>10. K!AfterInv'
    <3>1. \A y \in Names : v7[y] \in SUBSET Names
      BY DEF K!KInv, K!TypeOK
    <3>2. ASSUME NEW y \in Names, NEW x \in v7[y], NEW d \in Bound.creators
          PROVE  x \in Names /\ v4'[x][d] = v4[x][d]
      BY <2>4, <3>1 DEF K!KInv, K!AfterInv, K!InvitedInv
    <3>3. \A y \in Names, d \in Bound.creators : v3'[y][d] # "none" => v3[y][d] # "none"
      BY <2>4
    <3>. QED  BY <2>3, <3>2, <3>3 DEF K!KInv, K!AfterInv
  <2>11. K!InvitedAfterApproval'
    BY <2>1, <2>3, <2>4 DEF K!KInv, K!InvitedAfterApproval
  <2>12. K!OneVerdict'
    <3>1. b \notin v8 => v6[b] = 0 /\ \A d \in Bound.creators : v4[b][d] = "never"
      BY <2>1, <2>5 DEF K!KInv, K!GateInv
    <3>2. ASSUME b \notin v8 PROVE v6'[b] <= 1
      BY <2>1, <2>3, <3>1, <3>2
    <3>3. ASSUME b \notin v8, v2'[b] = "HELD", NEW d \in Bound.creators PROVE v4'[b][d] = "never"
      BY <2>1, <2>3, <2>4, <3>1, <3>3
    <3>4. ASSUME NEW y \in Names \ {b}
          PROVE  /\ v6'[y] = v6[y] /\ v2'[y] = v2[y]
                 /\ \A d \in Bound.creators : v4'[y][d] = v4[y][d]
      BY <2>3, <2>4
    <3>. QED  BY <2>3, <3>2, <3>3, <3>4 DEF K!KInv, K!OneVerdict
  <2>. QED  BY <2>2, <2>7, <2>8, <2>9, <2>10, <2>11, <2>12 DEF K!KInv
<1>8. CASE UNCHANGED K!kvars
  <2>1. K!TypeOK'
    BY <1>8 DEF K!KInv, K!TypeOK, K!kvars
  <2>2. K!GateInv' /\ K!InvitedInv' /\ K!AfterInv'
    BY <1>8 DEF K!KInv, K!GateInv, K!InvitedInv, K!AfterInv, K!kvars
  <2>3. K!ReaderInv' /\ K!InvitedAfterApproval' /\ K!OneVerdict'
    BY <1>8 DEF K!KInv, K!ReaderInv, K!InvitedAfterApproval, K!OneVerdict, K!kvars
  <2>. QED  BY <2>1, <2>2, <2>3 DEF K!KInv
<1>. QED  BY <1>1, <1>2, <1>3, <1>4, <1>5, <1>6, <1>7, <1>8 DEF K!KNext

\* Nobody is invited before an approval, by two batches, or on a verdict nobody gave.
LEMMA BatchesTell ==
  BatchesInv => K!InvitedAfterApproval /\ K!RepeatOnlyWhenBothWaited /\ K!OneVerdict
<1>1. ASSUME K!KInv, NEW b \in Names, NEW x \in v7[b], NEW c \in Bound.creators,
             v4[b][c] = "recently"
      PROVE  v4[x][c] # "recently"
  BY <1>1 DEF K!KInv, K!InvitedInv, K!AfterInv
<1>. QED  BY <1>1 DEF BatchesInv, K!KInv, K!RepeatOnlyWhenBothWaited

\* The invariant of the batches always holds.
LEMMA BatchesAlways == K!KSpec => []BatchesInv
BY BatchesBegin, BatchesKeep, PTL DEF K!KSpec

\* No invitation without a person's approval, however reads, decisions and imports interleave.
THEOREM ApprovedFirst == K!KSpec => []K!InvitedAfterApproval
BY BatchesTell, BatchesAlways, PTL

\* A lone reader of a batch tells its verdict, and once.
THEOREM VerdictToldOnce == K!KSpec => []K!OneVerdict
BY BatchesTell, BatchesAlways, PTL

\* The ban keeps apart a batch and all that had invited when it was made.
THEOREM BanKept == K!KSpec => []K!RepeatOnlyWhenBothWaited
BY BatchesTell, BatchesAlways, PTL

-------------------------------------------------------------------------------
(* Briefs and the posts that are checked, Submissions *)
J == INSTANCE Submissions WITH
  Posts <- Bound.submitted, land <- v1, banned <- v2, usp <- v3, brief <- v4, post <- v5

ASSUME PostsAssumption == None \notin J!Brief \cup J!Post

\* The brief and the posts.
PostsInv == J!TypeOK /\ J!BriefInv /\ J!HeedingPasses /\ J!ProposalsAreAllowed

\* There is neither at first.
LEMMA PostsBegin == J!SInit => PostsInv
BY DEF PostsInv, J!SInit, J!TypeOK, J!Claims, J!BriefInv, J!HeedingPasses, J!ProposalsAreAllowed

\* What the rules forbid to say.
LEMMA RulesForbid ==
  ASSUME NEW l \in J!Lands, NEW w \in BOOLEAN, NEW a \in BOOLEAN
  PROVE  /\ J!Donts(l, w, a) \subseteq J!Kinds
         /\ {"medical_claim", "absolute_claim", "missing_disclosure"} \subseteq J!Donts(l, w, a)
         /\ "functional_claim" \in J!Donts(l, w, a) <=> l = "KR" /\ ~a
         /\ "banned_word" \in J!Donts(l, w, a) <=> w
<1>. DEFINE t == [claims |-> J!Claims, disclosed |-> FALSE]
<1>1. t.claims = J!Claims /\ t.disclosed = FALSE
  OBVIOUS
<1>2. J!Donts(l, w, a) = J!Violations(t, l, w, a)
  BY DEF J!Donts
<1>. HIDE DEF t
<1>. QED  BY <1>1, <1>2 DEF J!Violations, J!Claims, J!Kinds

\* What is found in a text that says nothing the rules forbid, when the check of it does not
\* know what is allowed.
LEMMA HeedersPass ==
  ASSUME NEW t \in J!Text, NEW l \in J!Lands, NEW w \in BOOLEAN, NEW a \in BOOLEAN,
         t.claims \cap J!Donts(l, w, a) = {}, t.disclosed
  PROVE  \/ J!Violations(t, l, w, FALSE) = {}
         \/ a /\ J!Violations(t, l, w, FALSE) = {"functional_claim"}
<1>1. /\ t.claims \subseteq J!Claims
      /\ "medical_claim" \notin t.claims /\ "absolute_claim" \notin t.claims
      /\ "functional_claim" \in t.claims => l # "KR" \/ a
      /\ "banned_word" \in t.claims => ~w
  BY RulesForbid DEF J!Text
<1>. DEFINE f == J!Violations(t, l, w, FALSE)
<1>2. f \subseteq {"functional_claim"} /\ ("functional_claim" \in f => "functional_claim" \in t.claims /\ l = "KR")
  BY <1>1 DEF J!Violations
<1>. HIDE DEF f
<1>3. f = {} \/ f = {"functional_claim"}
  BY <1>2
<1>4. f = J!Violations(t, l, w, FALSE)
  BY DEF f
<1>. QED  BY <1>1, <1>2, <1>3, <1>4

\* A brief is written by the rules that were read.
LEMMA BriefIsWritten ==
  ASSUME PostsInv, NEW i \in BOOLEAN, NEW s \in SUBSET J!Claims, NEW a \in BOOLEAN,
         NEW l \in J!Lands, NEW w \in BOOLEAN,
         i => J!Blocking(J!Violations([claims |-> s, disclosed |-> TRUE], l, w, a)) = {},
         v4' = J!Written(i, s, a, l, w), UNCHANGED <<v1, v2, v3, v5>>
  PROVE  PostsInv'
<1>. DEFINE n == J!Written(i, s, a, l, w)
            t == [claims |-> s, disclosed |-> TRUE]
<1>1. /\ n \in J!Brief /\ n.ai = i /\ n.allowed = a /\ n.says = s /\ n.donts = J!Donts(l, w, a)
      /\ n.land = l /\ n.banned = w /\ n.same = (l = v1 /\ w = v2)
  BY RulesForbid DEF J!Written, J!Brief
<1>2. v4' = n /\ t.claims = s /\ t.disclosed = TRUE
      /\ (i => J!Blocking(J!Violations(t, l, w, a)) = {})
  OBVIOUS
<1>. HIDE DEF n, t
<1>3. n # None
  BY <1>1, PostsAssumption
<1>4. J!TypeOK'
  BY <1>1, <1>2 DEF PostsInv, J!TypeOK
<1>5. J!BriefInv'
  BY <1>1, <1>2, <1>3 DEF PostsInv, J!BriefInv
<1>6. J!HeedingPasses'
  BY DEF PostsInv, J!HeedingPasses
<1>7. i => s \cap J!Blocking(J!Donts(l, w, a)) = {}
  <2>1. SUFFICES ASSUME i, NEW c \in s, c \in J!Donts(l, w, a), c # "absolute_claim" PROVE FALSE
    BY DEF J!Blocking
  <2>2. c \in J!Violations(t, l, w, a)
    BY <1>2, <2>1, RulesForbid DEF J!Violations, J!Claims
  <2>. QED  BY <1>2, <2>1, <2>2 DEF J!Blocking
<1>8. J!ProposalsAreAllowed'
  BY <1>1, <1>2, <1>7 DEF J!ProposalsAreAllowed
<1>. QED  BY <1>4, <1>5, <1>6, <1>8 DEF PostsInv

\* A brief that is outdated says so.
LEMMA BriefAges ==
  ASSUME PostsInv, v4' = J!Outdated, v1' \in J!Lands, v2' \in BOOLEAN, v3' \subseteq J!Claims, v5' = v5
  PROVE  PostsInv'
<1>1. CASE v4 = None
  BY <1>1 DEF PostsInv, J!TypeOK, J!BriefInv, J!HeedingPasses, J!ProposalsAreAllowed, J!Outdated
<1>2. CASE v4 # None
  <2>. DEFINE n == [v4 EXCEPT !.same = FALSE]
  <2>1. v4 \in J!Brief /\ v4' = n
    BY <1>2 DEF PostsInv, J!TypeOK, J!Outdated
  <2>2. /\ n \in J!Brief /\ n.ai = v4.ai /\ n.allowed = v4.allowed /\ n.says = v4.says
        /\ n.donts = v4.donts /\ n.land = v4.land /\ n.banned = v4.banned /\ n.same = FALSE
    BY <2>1 DEF J!Brief
  <2>. HIDE DEF n
  <2>3. J!TypeOK'
    BY <2>1, <2>2 DEF PostsInv, J!TypeOK
  <2>4. J!BriefInv' /\ J!ProposalsAreAllowed'
    BY <1>2, <2>1, <2>2 DEF PostsInv, J!BriefInv, J!ProposalsAreAllowed
  <2>5. J!HeedingPasses'
    BY DEF PostsInv, J!HeedingPasses
  <2>. QED  BY <2>3, <2>4, <2>5 DEF PostsInv
<1>. QED  BY <1>1, <1>2

\* Whatever changes between a brief, a post and its check, who heeds the brief passes.
LEMMA PostsKeep == PostsInv /\ [J!SNext]_(J!svars) => PostsInv'
<1>. SUFFICES ASSUME PostsInv, [J!SNext]_(J!svars) PROVE PostsInv'
  OBVIOUS
<1>t. /\ v1 \in J!Lands /\ v2 \in BOOLEAN /\ v3 \subseteq J!Claims /\ v4 \in J!Brief \cup {None}
      /\ v5 \in [Bound.submitted -> J!Post \cup {None}]
  BY DEF PostsInv, J!TypeOK
<1>1. ASSUME NEW b \in BOOLEAN, NEW c \in {{}, {"medical_claim"}}, J!Publish(b, c) PROVE PostsInv'
  <2>1. v2' = b /\ v3' = c /\ v3' \subseteq J!Claims /\ v1' = v1 /\ v5' = v5
    BY <1>1 DEF J!Publish, J!Claims
  <2>2. CASE b = v2
    BY <1>t, <1>1, <2>1, <2>2 DEF J!Publish, PostsInv, J!TypeOK, J!BriefInv, J!HeedingPasses, J!ProposalsAreAllowed
  <2>3. CASE b # v2
    BY <1>t, <1>1, <2>1, <2>3, BriefAges DEF J!Publish
  <2>. QED  BY <2>2, <2>3
<1>2. ASSUME NEW l \in J!Lands, J!UpdateLocale(l) PROVE PostsInv'
  BY <1>t, <1>2, BriefAges DEF J!UpdateLocale
<1>3. ASSUME NEW a \in BOOLEAN, NEW w \in BOOLEAN, NEW l \in J!Lands, NEW c \in J!Faults,
             J!WriteBrief(c, a, l, w)
      PROVE  PostsInv'
  BY <1>3, BriefIsWritten DEF J!WriteBrief, J!Faults
<1>4. ASSUME NEW a \in BOOLEAN, NEW w \in BOOLEAN, NEW l \in J!Lands, NEW o \in {{}, {"medical_claim"}},
             J!FallBack(o, a, l, w)
      PROVE  PostsInv'
  <2>1. o \in SUBSET J!Claims
    BY DEF J!Claims
  <2>. QED  BY <1>4, <2>1, BriefIsWritten DEF J!FallBack
<1>5. ASSUME NEW x \in Bound.submitted, NEW n \in J!Post, v5' = [v5 EXCEPT ![x] = n],
             n.heeds => n.found = {} \/ (n.allowed /\ n.found = {"functional_claim"}),
             UNCHANGED <<v1, v2, v3, v4>>
      PROVE  PostsInv'
  <2>1. \A y \in Bound.submitted : v5'[y] = IF y = x THEN n ELSE v5[y]
    BY <1>t, <1>5
  <2>2. J!TypeOK'
    BY <1>t, <1>5 DEF J!TypeOK
  <2>3. J!HeedingPasses'
    BY <1>5, <2>1 DEF PostsInv, J!HeedingPasses
  <2>4. J!BriefInv' /\ J!ProposalsAreAllowed'
    BY <1>5 DEF PostsInv, J!BriefInv, J!ProposalsAreAllowed
  <2>. QED  BY <2>2, <2>3, <2>4 DEF PostsInv
<1>6. ASSUME NEW x \in Bound.submitted, NEW t \in J!Texts, J!Submit(x, t) PROVE PostsInv'
  <2>. DEFINE n == [state |-> "checking", found |-> J!Violations(t, v1, v2, FALSE),
                    heeds |-> J!Heeds(t), allowed |-> v4 # None /\ v4.allowed]
  <2>1. v5' = [v5 EXCEPT ![x] = n] /\ UNCHANGED <<v1, v2, v3, v4>> /\ t \in J!Text
    BY <1>6 DEF J!Submit, J!Texts
  <2>2. J!Violations(t, v1, v2, FALSE) \subseteq J!Kinds
    BY DEF J!Violations, J!Kinds, J!Claims
  <2>3. J!Heeds(t) \in BOOLEAN /\ (v4 # None /\ v4.allowed) \in BOOLEAN
    BY DEF J!Heeds
  <2>4. /\ n \in J!Post /\ n.found = J!Violations(t, v1, v2, FALSE) /\ n.heeds = J!Heeds(t)
        /\ n.allowed = (v4 # None /\ v4.allowed)
    BY <2>2, <2>3 DEF J!Post
  <2>. HIDE DEF n
  <2>5. J!Heeds(t) => n.found = {} \/ (n.allowed /\ n.found = {"functional_claim"})
    <3>. SUFFICES ASSUME J!Heeds(t) PROVE n.found = {} \/ (n.allowed /\ n.found = {"functional_claim"})
      OBVIOUS
    <3>1. v4 # None /\ v4.land = v1 /\ v4.banned = v2 /\ v4.donts = J!Donts(v1, v2, v4.allowed)
      BY DEF J!Heeds, PostsInv, J!BriefInv
    <3>2. v4.allowed \in BOOLEAN
      BY <1>t, <3>1 DEF J!Brief
    <3>3. t.claims \cap J!Donts(v1, v2, v4.allowed) = {} /\ t.disclosed
      BY <3>1 DEF J!Heeds
    <3>. QED  BY <1>t, <2>1, <2>4, <3>1, <3>2, <3>3, HeedersPass
  <2>. QED  BY <1>5, <2>1, <2>4, <2>5
<1>7. ASSUME NEW x \in Bound.submitted, v5[x] # None, NEW s \in {"in_review", "needs_fix", "passed"},
             v5' = [v5 EXCEPT ![x].state = s], UNCHANGED <<v1, v2, v3, v4>>
      PROVE  PostsInv'
  <2>. DEFINE n == [v5[x] EXCEPT !.state = s]
  <2>1. v5[x] \in J!Post /\ v5' = [v5 EXCEPT ![x] = n]
    BY <1>t, <1>7
  <2>2. n \in J!Post /\ n.found = v5[x].found /\ n.heeds = v5[x].heeds /\ n.allowed = v5[x].allowed
    BY <2>1 DEF J!Post
  <2>. HIDE DEF n
  <2>3. n.heeds => n.found = {} \/ (n.allowed /\ n.found = {"functional_claim"})
    BY <1>7, <2>2 DEF PostsInv, J!HeedingPasses
  <2>. QED  BY <1>5, <1>7, <2>1, <2>2, <2>3
<1>8. ASSUME NEW x \in Bound.submitted, NEW l \in BOOLEAN, J!Insert(x, l) PROVE PostsInv'
  <2>1. PICK s \in {"in_review", "needs_fix"} : v5' = [v5 EXCEPT ![x].state = s]
    BY <1>8 DEF J!Insert
  <2>. QED  BY <1>7, <1>8, <2>1 DEF J!Insert
<1>9. ASSUME NEW x \in Bound.submitted, NEW r \in {"passed", "needs_fix"}, J!ReviewSubmission(x, r)
      PROVE  PostsInv'
  BY <1>7, <1>9 DEF J!ReviewSubmission
<1>10. CASE UNCHANGED J!svars
  BY <1>10 DEF J!svars, PostsInv, J!TypeOK, J!BriefInv, J!HeedingPasses, J!ProposalsAreAllowed
<1>. QED  BY <1>1, <1>2, <1>3, <1>4, <1>6, <1>8, <1>9, <1>10 DEF J!SNext

-------------------------------------------------------------------------------
(* The gate engine, GateEngine *)
Z == INSTANCE GateEngine WITH
  Requests <- Ids, Members <- Names, MaxEntries <- Bound.entered, role <- v1, executor <- v2,
  request <- v3, ledger <- v4, failed <- v5

ASSUME GatesAssumption ==
  /\ Bound.entered \in Nat
  /\ None \notin [state : Z!States, by : Names \cup {None}, executed : BOOLEAN]

\* The gates and what the ledger tells of them.
GatesInv == Z!TypeOK /\ Z!LedgerTellsGates /\ Z!ApprovedIsExecuted /\ Z!WaitingInv

\* Nothing was requested.
LEMMA GatesBegin == Z!GInit => GatesInv
<1>. SUFFICES ASSUME Z!GInit PROVE GatesInv
  OBVIOUS
<1>1. /\ v1 = [m \in Names |-> None] /\ v2 = FALSE /\ v3 = [x \in Ids |-> None] /\ v4 = <<>> /\ v5 = {}
      /\ v4 \in Seq([type : Z!Types, gate : Ids, actor : Names \cup {None}]) /\ DOMAIN v4 = {}
  BY DEF Z!GInit
<1>2. Z!TypeOK
  BY <1>1 DEF Z!TypeOK
<1>3. \A x \in Ids : Z!Of(x) = {} /\ v3[x] = None
  BY <1>1 DEF Z!Of
<1>. QED
  BY <1>2, <1>3 DEF GatesInv, Z!LedgerTellsGates, Z!TellsGate, Z!ApprovedIsExecuted, Z!WaitingInv

\* An entry of a gate, and what it tells of the entries before it.
LEMMA GatesTold ==
  ASSUME GatesInv, NEW x \in Ids, v3[x] # None, v3[x].state \in {"PENDING", "HELD"},
         NEW i \in Z!Of(x)
  PROVE  v4[i].type \in {"GATE_REQUESTED", "GATE_HELD"}
<1>1. \A j \in Z!Of(x) : Z!Last(x, j) => v4[j].type \notin {"GATE_APPROVED", "GATE_EXECUTED", "GATE_REJECTED"}
  BY DEF GatesInv, Z!LedgerTellsGates, Z!TellsGate, Z!Told
<1>2. v4[i].type \in Z!Types
  <2>1. v4 \in Seq([type : Z!Types, gate : Ids, actor : Names \cup {None}]) /\ i \in DOMAIN v4
    BY DEF GatesInv, Z!TypeOK, Z!Of
  <2>. DEFINE t == [type : Z!Types, gate : Ids, actor : Names \cup {None}]
  <2>2. v4 \in Seq(t) /\ i \in DOMAIN v4
    BY <2>1
  <2>3. t = [type : Z!Types, gate : Ids, actor : Names \cup {None}]
    OBVIOUS
  <2>. HIDE DEF t
  <2>4. v4[i] \in t
    BY <2>2
  <2>. QED  BY <2>3, <2>4
<1>. QED  BY <1>1, <1>2 DEF GatesInv, Z!LedgerTellsGates, Z!TellsGate, Z!Types, Z!Decisions

\* The ledger grows by an entry: those of the other gates are the same.
LEMMA GatesGrow ==
  ASSUME NEW s \in Seq([type : Z!Types, gate : Ids, actor : Names \cup {None}]),
         NEW e \in [type : Z!Types, gate : Ids, actor : Names \cup {None}]
  PROVE  /\ Append(s, e) \in Seq([type : Z!Types, gate : Ids, actor : Names \cup {None}])
         /\ Len(s) \in Nat /\ DOMAIN s = 1..Len(s) /\ DOMAIN Append(s, e) = 1..Len(s) + 1
         /\ Len(Append(s, e)) = Len(s) + 1
         /\ Append(s, e)[Len(s) + 1] = e /\ \A i \in 1..Len(s) : Append(s, e)[i] = s[i]
OBVIOUS

\* Entries of one gate leave the others told.
LEMMA GatesOthers ==
  ASSUME GatesInv, NEW x \in Ids, NEW y \in Ids \ {x}, v3'[y] = v3[y],
         NEW n \in Nat, DOMAIN v4' = 1..n, DOMAIN v4 = 1..Len(v4), Len(v4) \in Nat, Len(v4) <= n,
         \A i \in 1..Len(v4) : v4'[i] = v4[i],
         \A i \in 1..n : i > Len(v4) => v4'[i].gate = x
  PROVE  Z!Of(y)' = Z!Of(y) /\ \A i \in Z!Of(y) : v4'[i] = v4[i]
<1>1. \A i \in 1..n : v4'[i].gate = y => i \in 1..Len(v4)
  OBVIOUS
<1>. QED  BY <1>1 DEF Z!Of

\* What is told of a gate that others are told of.
LEMMA GatesSame ==
  ASSUME GatesInv, NEW y \in Ids, v3'[y] = v3[y], Z!Of(y)' = Z!Of(y),
         \A i \in Z!Of(y) : v4'[i] = v4[i]
  PROVE  Z!TellsGate(y)'
BY DEF GatesInv, Z!LedgerTellsGates, Z!TellsGate, Z!First, Z!Last

\* A request, a hold or a rejection is told by one entry.
LEMMA GatesOne ==
  ASSUME GatesInv, NEW x \in Ids,
         NEW e \in [type : Z!Types, gate : Ids, actor : Names \cup {None}], e.gate = x,
         v4' = Append(v4, e), \A y \in Ids \ {x} : v3'[y] = v3[y], v3'[x] # None,
         v3'[x].state = Z!Told(e.type), v3'[x].executed = FALSE,
         \/ v3[x] = None /\ e.type = "GATE_REQUESTED"
         \/ /\ v3[x] # None /\ v3[x].state \in {"PENDING", "HELD"}
            /\ e.type \in {"GATE_HELD", "GATE_REJECTED", "GATE_APPROVED"}
  PROVE  Z!LedgerTellsGates'
<1>1. /\ v4 \in Seq([type : Z!Types, gate : Ids, actor : Names \cup {None}])
      /\ Len(v4) \in Nat /\ DOMAIN v4 = 1..Len(v4) /\ DOMAIN v4' = 1..Len(v4) + 1
      /\ v4'[Len(v4) + 1] = e /\ \A i \in 1..Len(v4) : v4'[i] = v4[i]
  BY GatesGrow DEF GatesInv, Z!TypeOK
<1>2. ASSUME NEW y \in Ids \ {x} PROVE Z!Of(y)' = Z!Of(y) /\ \A i \in Z!Of(y) : v4'[i] = v4[i]
  <2>. DEFINE n == Len(v4) + 1
  <2>1. n \in Nat /\ DOMAIN v4' = 1..n /\ Len(v4) <= n /\ \A i \in 1..n : i > Len(v4) => v4'[i].gate = x
    BY <1>1
  <2>. HIDE DEF n
  <2>. QED  BY <1>1, <2>1, GatesOthers
<1>3. /\ Z!Of(x)' = Z!Of(x) \cup {Len(v4) + 1}
      /\ \A i \in Z!Of(x) : i \in Nat /\ i <= Len(v4) /\ v4'[i] = v4[i]
  BY <1>1 DEF Z!Of
<1>4. \A i \in Z!Of(x) : v4[i].type \in {"GATE_REQUESTED", "GATE_HELD"}
  BY GatesTold DEF GatesInv, Z!LedgerTellsGates, Z!TellsGate
<1>5. \A i \in Z!Of(x)' : Z!Last(x, i)' <=> i = Len(v4) + 1
  BY <1>1, <1>3 DEF Z!Last
<1>6. \A i \in Z!Of(x)' : v4'[i].type = "GATE_REQUESTED" <=> Z!First(x, i)'
  <2>1. CASE v3[x] = None
    <3>1. Z!Of(x)' = {Len(v4) + 1} /\ e.type = "GATE_REQUESTED"
      BY <1>3, <2>1 DEF GatesInv, Z!LedgerTellsGates, Z!TellsGate
    <3>. QED  BY <1>1, <3>1 DEF Z!First
  <2>2. CASE v3[x] # None
    <3>1. Z!Of(x) # {} /\ e.type # "GATE_REQUESTED"
      BY <2>2 DEF GatesInv, Z!LedgerTellsGates, Z!TellsGate
    <3>2. \A i \in Z!Of(x)' : i = Len(v4) + 1 => ~Z!First(x, i)'
      BY <1>1, <1>3, <3>1 DEF Z!First
    <3>3. \A i \in Z!Of(x) : Z!First(x, i)' <=> Z!First(x, i)
      BY <1>1, <1>3 DEF Z!First
    <3>4. \A i \in Z!Of(x) : v4[i].type = "GATE_REQUESTED" <=> Z!First(x, i)
      BY DEF GatesInv, Z!LedgerTellsGates, Z!TellsGate
    <3>5. \A i \in Z!Of(x) : v4'[i].type = "GATE_REQUESTED" <=> Z!First(x, i)'
      BY <1>3, <3>3, <3>4
    <3>6. v4'[Len(v4) + 1].type # "GATE_REQUESTED"
      BY <1>1, <3>1
    <3>7. ASSUME NEW i \in Z!Of(x)' PROVE v4'[i].type = "GATE_REQUESTED" <=> Z!First(x, i)'
      <4>1. CASE i \in Z!Of(x)
        BY <3>5, <4>1
      <4>2. CASE i = Len(v4) + 1
        BY <3>2, <3>6, <4>2
      <4>. QED  BY <1>3, <4>1, <4>2
    <3>. QED  BY <3>7
  <2>. QED  BY <2>1, <2>2
<1>7. \A i \in Z!Of(x)' : /\ v4'[i].type = "GATE_REJECTED" => i = Len(v4) + 1
                          /\ v4'[i].type = "GATE_APPROVED" => i = Len(v4) + 1
                          /\ v4'[i].type # "GATE_EXECUTED"
  BY <1>1, <1>3, <1>4
<1>8. v3'[x].state = Z!Told(v4'[Len(v4) + 1].type) /\ ~v3'[x].executed
  BY <1>1
<1>9. Z!TellsGate(x)'
  BY <1>3, <1>5, <1>6, <1>7, <1>8 DEF Z!TellsGate, Z!Told
<1>10. ASSUME NEW y \in Ids \ {x} PROVE Z!TellsGate(y)'
  <2>1. v3'[y] = v3[y]
    OBVIOUS
  <2>. QED  BY <1>2, <2>1, GatesSame
<1>. QED  BY <1>9, <1>10 DEF Z!LedgerTellsGates

\* An approval that is carried out is told by two.
LEMMA GatesTwo ==
  ASSUME GatesInv, NEW x \in Ids, v3[x] # None, v3[x].state \in {"PENDING", "HELD"},
         NEW e \in [type : Z!Types, gate : Ids, actor : Names \cup {None}],
         NEW d \in [type : Z!Types, gate : Ids, actor : Names \cup {None}],
         e.gate = x, e.type = "GATE_APPROVED", d.gate = x, d.type = "GATE_EXECUTED",
         v4' = Append(Append(v4, e), d), \A y \in Ids \ {x} : v3'[y] = v3[y], v3'[x] # None,
         v3'[x].state = "APPROVED", v3'[x].executed = TRUE
  PROVE  Z!LedgerTellsGates'
<1>1. /\ v4 \in Seq([type : Z!Types, gate : Ids, actor : Names \cup {None}])
      /\ Len(v4) \in Nat /\ DOMAIN v4 = 1..Len(v4) /\ DOMAIN v4' = 1..Len(v4) + 2
      /\ v4'[Len(v4) + 1] = e /\ v4'[Len(v4) + 2] = d /\ \A i \in 1..Len(v4) : v4'[i] = v4[i]
  <2>. DEFINE s == Append(v4, e)
  <2>1. /\ v4 \in Seq([type : Z!Types, gate : Ids, actor : Names \cup {None}])
        /\ s \in Seq([type : Z!Types, gate : Ids, actor : Names \cup {None}])
        /\ Len(v4) \in Nat /\ DOMAIN v4 = 1..Len(v4) /\ Len(s) = Len(v4) + 1
        /\ s[Len(v4) + 1] = e /\ \A i \in 1..Len(v4) : s[i] = v4[i]
    BY GatesGrow DEF GatesInv, Z!TypeOK
  <2>. HIDE DEF s
  <2>2. /\ DOMAIN Append(s, d) = 1..Len(s) + 1 /\ Append(s, d)[Len(s) + 1] = d
        /\ \A i \in 1..Len(s) : Append(s, d)[i] = s[i]
    BY <2>1, GatesGrow
  <2>3. v4' = Append(s, d)
    BY DEF s
  <2>4. Len(s) + 1 = Len(v4) + 2 /\ 1..Len(s) = 1..Len(v4) + 1
    BY <2>1
  <2>5. \A i \in 1..Len(v4) : v4'[i] = v4[i]
    BY <2>1, <2>2, <2>3
  <2>6. DOMAIN v4' = 1..Len(v4) + 2 /\ v4'[Len(v4) + 2] = d /\ v4'[Len(v4) + 1] = s[Len(v4) + 1]
    BY <2>1, <2>2, <2>3, <2>4
  <2>. QED  BY <2>1, <2>5, <2>6
<1>2. ASSUME NEW y \in Ids \ {x} PROVE Z!Of(y)' = Z!Of(y) /\ \A i \in Z!Of(y) : v4'[i] = v4[i]
  <2>. DEFINE n == Len(v4) + 2
  <2>1. n \in Nat /\ DOMAIN v4' = 1..n /\ Len(v4) <= n /\ \A i \in 1..n : i > Len(v4) => v4'[i].gate = x
    BY <1>1
  <2>2. Len(v4) \in Nat /\ DOMAIN v4 = 1..Len(v4) /\ \A i \in 1..Len(v4) : v4'[i] = v4[i]
    BY <1>1
  <2>3. v3'[y] = v3[y]
    OBVIOUS
  <2>. HIDE DEF n
  <2>. QED  BY <2>1, <2>2, <2>3, GatesOthers
<1>3. /\ Z!Of(x)' = Z!Of(x) \cup {Len(v4) + 1, Len(v4) + 2}
      /\ \A i \in Z!Of(x) : i \in Nat /\ i <= Len(v4) /\ v4'[i] = v4[i]
  BY <1>1 DEF Z!Of
<1>4. Z!Of(x) # {} /\ \A i \in Z!Of(x) : v4[i].type \in {"GATE_REQUESTED", "GATE_HELD"}
  BY GatesTold DEF GatesInv, Z!LedgerTellsGates, Z!TellsGate
<1>5. \A i \in Z!Of(x)' : Z!Last(x, i)' <=> i = Len(v4) + 2
  BY <1>1, <1>3 DEF Z!Last
<1>6. \A i \in Z!Of(x)' : v4'[i].type = "GATE_REQUESTED" <=> Z!First(x, i)'
  <2>1. \A i \in {Len(v4) + 1, Len(v4) + 2} : ~Z!First(x, i)'
    BY <1>1, <1>3, <1>4 DEF Z!First
  <2>2. \A i \in Z!Of(x) : Z!First(x, i)' <=> Z!First(x, i)
    BY <1>1, <1>3 DEF Z!First
  <2>3. \A i \in Z!Of(x) : v4[i].type = "GATE_REQUESTED" <=> Z!First(x, i)
    BY DEF GatesInv, Z!LedgerTellsGates, Z!TellsGate
  <2>4. \A i \in Z!Of(x) : v4'[i].type = "GATE_REQUESTED" <=> Z!First(x, i)'
    BY <1>3, <2>2, <2>3
  <2>5. \A i \in {Len(v4) + 1, Len(v4) + 2} : v4'[i].type # "GATE_REQUESTED"
    BY <1>1
  <2>. QED  BY <1>3, <2>1, <2>4, <2>5
<1>7. \A i \in Z!Of(x)' : /\ v4'[i].type # "GATE_REJECTED"
                          /\ v4'[i].type = "GATE_APPROVED" => i = Len(v4) + 1
                          /\ v4'[i].type = "GATE_EXECUTED" => i = Len(v4) + 2
  BY <1>1, <1>3, <1>4
<1>8. /\ v3'[x].state = Z!Told(v4'[Len(v4) + 2].type) /\ v3'[x].executed = TRUE
      /\ v4'[Len(v4) + 1].type = "GATE_APPROVED" /\ v4'[Len(v4) + 2].type = "GATE_EXECUTED"
  BY <1>1 DEF Z!Told
<1>9. Len(v4) + 1 + 1 = Len(v4) + 2 /\ Len(v4) + 2 - 1 = Len(v4) + 1
  BY <1>1
<1>10. Z!TellsGate(x)'
  <2>1. Z!Of(x)' # {} /\ v3'[x] # None
    BY <1>3
  <2>2. ASSUME NEW i \in Z!Of(x)'
        PROVE  /\ v4'[i].type = "GATE_REQUESTED" <=> Z!First(x, i)'
               /\ v4'[i].type = "GATE_REJECTED" => Z!Last(x, i)'
    BY <1>6, <1>7
  <2>5. ASSUME NEW i \in Z!Of(x)', v4'[i].type = "GATE_EXECUTED"
        PROVE  Z!Last(x, i)' /\ i - 1 \in Z!Of(x)' /\ v4'[i - 1].type = "GATE_APPROVED"
    <3>1. i = Len(v4) + 2
      BY <1>7, <2>5
    <3>2. Z!Last(x, i)'
      BY <1>5, <3>1
    <3>3. i - 1 = Len(v4) + 1
      BY <1>9, <3>1
    <3>. QED  BY <1>3, <1>8, <3>2, <3>3
  <2>3. ASSUME NEW i \in Z!Of(x)', v4'[i].type = "GATE_APPROVED"
        PROVE  i + 1 \in Z!Of(x)' /\ v4'[i + 1].type = "GATE_EXECUTED"
    BY <1>3, <1>7, <1>8, <1>9, <2>3
  <2>4. ASSUME NEW i \in Z!Of(x)', Z!Last(x, i)'
        PROVE  v3'[x].state = Z!Told(v4'[i].type) /\ (v3'[x].executed <=> v4'[i].type = "GATE_EXECUTED")
    BY <1>5, <1>8, <2>4
  <2>. QED  BY <2>1, <2>2, <2>3, <2>4, <2>5 DEF Z!TellsGate
<1>11. ASSUME NEW y \in Ids \ {x} PROVE Z!TellsGate(y)'
  <2>1. v3'[y] = v3[y]
    OBVIOUS
  <2>. QED  BY <1>2, <2>1, GatesSame
<1>. QED  BY <1>10, <1>11 DEF Z!LedgerTellsGates

\* Whatever is decided, and whether or not it can be carried out, the ledger tells it.
LEMMA GatesKeep == GatesInv /\ [Z!GNext]_(Z!gvars) => GatesInv'
<1>. SUFFICES ASSUME GatesInv, [Z!GNext]_(Z!gvars) PROVE GatesInv'
  OBVIOUS
<1>t. /\ v1 \in [Names -> Z!Roles \cup {None}] /\ v2 \in BOOLEAN
      /\ v3 \in [Ids -> [state : Z!States, by : Names \cup {None}, executed : BOOLEAN] \cup {None}]
      /\ v4 \in Seq([type : Z!Types, gate : Ids, actor : Names \cup {None}])
      /\ v5 \subseteq Ids
  BY DEF GatesInv, Z!TypeOK
<1>1. ASSUME UNCHANGED <<v3, v4, v5>>, v1' \in [Names -> Z!Roles \cup {None}], v2' \in BOOLEAN
      PROVE  GatesInv'
  <2>1. Z!TypeOK'
    BY <1>t, <1>1 DEF Z!TypeOK
  <2>2. Z!Of(None)' = Z!Of(None) /\ \A y \in Ids : Z!Of(y)' = Z!Of(y) /\ \A i \in Z!Of(y) : v4'[i] = v4[i]
    BY <1>1 DEF Z!Of
  <2>3. Z!LedgerTellsGates'
    BY <1>1, <2>2, GatesSame DEF Z!LedgerTellsGates
  <2>4. Z!ApprovedIsExecuted' /\ Z!WaitingInv'
    BY <1>1 DEF GatesInv, Z!ApprovedIsExecuted, Z!WaitingInv
  <2>. QED  BY <2>1, <2>3, <2>4 DEF GatesInv
<1>2. CASE \E m \in Names, r \in Z!Roles : Z!RegisterMember(m, r)
  BY <1>t, <1>1, <1>2 DEF Z!RegisterMember
<1>3. CASE Z!RegisterExecutor
  BY <1>t, <1>1, <1>3 DEF Z!RegisterExecutor
<1>4. ASSUME NEW x \in Ids, Z!Request(x) PROVE GatesInv'
  <2>. DEFINE n == [state |-> "PENDING", by |-> None, executed |-> FALSE]
              e == Z!Entry("GATE_REQUESTED", x, None)
  <2>1. /\ v3[x] = None /\ v3' = [v3 EXCEPT ![x] = n] /\ v4' = Append(v4, e) /\ UNCHANGED <<v1, v2, v5>>
    BY <1>4 DEF Z!Request
  <2>2. /\ n \in [state : Z!States, by : Names \cup {None}, executed : BOOLEAN]
        /\ n.state = "PENDING" /\ n.executed = FALSE
        /\ e \in [type : Z!Types, gate : Ids, actor : Names \cup {None}]
        /\ e.type = "GATE_REQUESTED" /\ e.gate = x /\ Z!Told(e.type) = "PENDING"
    BY DEF Z!States, Z!Entry, Z!Types, Z!Told
  <2>. HIDE DEF n, e
  <2>3. /\ v3'[x] = n /\ n # None /\ \A y \in Ids \ {x} : v3'[y] = v3[y]
    BY <1>t, <2>1, <2>2, GatesAssumption
  <2>4. Z!TypeOK'
    BY <1>t, <2>1, <2>2, GatesGrow DEF Z!TypeOK
  <2>5. Z!LedgerTellsGates'
    BY <2>1, <2>2, <2>3, GatesOne
  <2>6. Z!ApprovedIsExecuted' /\ Z!WaitingInv'
    BY <2>1, <2>2, <2>3 DEF GatesInv, Z!ApprovedIsExecuted, Z!WaitingInv
  <2>. QED  BY <2>4, <2>5, <2>6 DEF GatesInv
<1>5. ASSUME NEW x \in Ids, NEW m \in Names, Z!Hold(x, m) PROVE GatesInv'
  <2>. DEFINE n == [v3[x] EXCEPT !.state = "HELD"]
              e == Z!Entry("GATE_HELD", x, m)
  <2>1. /\ v3[x] # None /\ v3[x].state \in {"PENDING", "HELD"} /\ v3' = [v3 EXCEPT ![x] = n]
        /\ v4' = Append(v4, e) /\ UNCHANGED <<v1, v2, v5>>
    BY <1>5 DEF Z!Hold, Z!Decidable
  <2>2. /\ n \in [state : Z!States, by : Names \cup {None}, executed : BOOLEAN]
        /\ n.state = "HELD" /\ n.executed = v3[x].executed
        /\ e \in [type : Z!Types, gate : Ids, actor : Names \cup {None}]
        /\ e.type = "GATE_HELD" /\ e.gate = x /\ Z!Told(e.type) = "HELD"
    BY <1>t, <2>1 DEF Z!States, Z!Entry, Z!Types, Z!Decisions, Z!Told
  <2>. HIDE DEF n, e
  <2>3. /\ v3'[x] = n /\ n # None /\ \A y \in Ids \ {x} : v3'[y] = v3[y]
    BY <1>t, <2>1, <2>2, GatesAssumption
  <2>4. v3[x].executed = FALSE
    BY <1>t, <2>1 DEF GatesInv, Z!WaitingInv
  <2>5. Z!TypeOK'
    BY <1>t, <2>1, <2>2, GatesGrow DEF Z!TypeOK
  <2>6. Z!LedgerTellsGates'
    BY <2>1, <2>2, <2>3, <2>4, GatesOne
  <2>7. Z!ApprovedIsExecuted' /\ Z!WaitingInv'
    BY <2>1, <2>2, <2>3 DEF GatesInv, Z!ApprovedIsExecuted, Z!WaitingInv
  <2>. QED  BY <2>5, <2>6, <2>7 DEF GatesInv
<1>6. ASSUME NEW x \in Ids, NEW m \in Names, Z!Reject(x, m) PROVE GatesInv'
  <2>. DEFINE n == [v3[x] EXCEPT !.state = "REJECTED", !.by = m]
              e == Z!Entry("GATE_REJECTED", x, m)
  <2>1. /\ v3[x] # None /\ v3[x].state \in {"PENDING", "HELD"} /\ v3' = [v3 EXCEPT ![x] = n]
        /\ v4' = Append(v4, e) /\ UNCHANGED <<v1, v2, v5>>
    BY <1>6 DEF Z!Reject, Z!Decidable
  <2>2. /\ n \in [state : Z!States, by : Names \cup {None}, executed : BOOLEAN]
        /\ n.state = "REJECTED" /\ n.executed = v3[x].executed
        /\ e \in [type : Z!Types, gate : Ids, actor : Names \cup {None}]
        /\ e.type = "GATE_REJECTED" /\ e.gate = x /\ Z!Told(e.type) = "REJECTED"
    BY <1>t, <2>1 DEF Z!States, Z!Entry, Z!Types, Z!Decisions, Z!Told
  <2>. HIDE DEF n, e
  <2>3. /\ v3'[x] = n /\ n # None /\ \A y \in Ids \ {x} : v3'[y] = v3[y]
    BY <1>t, <2>1, <2>2, GatesAssumption
  <2>4. v3[x].executed = FALSE
    BY <1>t, <2>1 DEF GatesInv, Z!WaitingInv
  <2>5. Z!TypeOK'
    BY <1>t, <2>1, <2>2, GatesGrow DEF Z!TypeOK
  <2>6. Z!LedgerTellsGates'
    BY <2>1, <2>2, <2>3, <2>4, GatesOne
  <2>7. Z!ApprovedIsExecuted' /\ Z!WaitingInv'
    BY <2>1, <2>2, <2>3 DEF GatesInv, Z!ApprovedIsExecuted, Z!WaitingInv
  <2>. QED  BY <2>5, <2>6, <2>7 DEF GatesInv
<1>7. ASSUME NEW x \in Ids, NEW m \in Names, NEW b \in BOOLEAN, Z!Approve(x, m, b) PROVE GatesInv'
  <2>. DEFINE n == [state |-> "APPROVED", by |-> m, executed |-> b]
              e == Z!Entry("GATE_APPROVED", x, m)
              d == Z!Entry("GATE_EXECUTED", x, None)
  <2>1. /\ v3[x] # None /\ v3[x].state \in {"PENDING", "HELD"} /\ v3' = [v3 EXCEPT ![x] = n]
        /\ v4' = (IF b THEN Append(Append(v4, e), d) ELSE Append(v4, e))
        /\ v5' = (IF b THEN v5 ELSE v5 \cup {x}) /\ UNCHANGED <<v1, v2>>
    BY <1>7 DEF Z!Approve, Z!Decidable
  <2>2. /\ n \in [state : Z!States, by : Names \cup {None}, executed : BOOLEAN]
        /\ n.state = "APPROVED" /\ n.executed = b
        /\ e \in [type : Z!Types, gate : Ids, actor : Names \cup {None}]
        /\ e.type = "GATE_APPROVED" /\ e.gate = x /\ Z!Told(e.type) = "APPROVED"
        /\ d \in [type : Z!Types, gate : Ids, actor : Names \cup {None}]
        /\ d.type = "GATE_EXECUTED" /\ d.gate = x /\ Z!Told(d.type) = "APPROVED"
    BY DEF Z!States, Z!Entry, Z!Types, Z!Decisions, Z!Told
  <2>. HIDE DEF n, e, d
  <2>3. /\ v3'[x] = n /\ n # None /\ \A y \in Ids \ {x} : v3'[y] = v3[y]
    BY <1>t, <2>1, <2>2, GatesAssumption
  <2>4. Z!TypeOK'
    <3>1. v4' \in Seq([type : Z!Types, gate : Ids, actor : Names \cup {None}])
      BY <1>t, <2>1, <2>2, GatesGrow
    <3>. QED  BY <1>t, <2>1, <2>2, <3>1 DEF Z!TypeOK
  <2>5. Z!LedgerTellsGates'
    <3>1. CASE ~b
      BY <2>1, <2>2, <2>3, <3>1, GatesOne
    <3>2. CASE b
      <4>1. v4' = Append(Append(v4, e), d)
        BY <2>1, <3>2
      <4>2. v3'[x] # None /\ v3'[x].state = "APPROVED" /\ v3'[x].executed = TRUE
        BY <2>2, <2>3, <3>2
      <4>3. v3[x] # None /\ v3[x].state \in {"PENDING", "HELD"}
        BY <2>1
      <4>. QED  BY <2>2, <2>3, <4>1, <4>2, <4>3, GatesTwo
    <3>. QED  BY <3>1, <3>2
  <2>6. Z!ApprovedIsExecuted' /\ Z!WaitingInv'
    BY <2>1, <2>2, <2>3 DEF GatesInv, Z!ApprovedIsExecuted, Z!WaitingInv
  <2>. QED  BY <2>4, <2>5, <2>6 DEF GatesInv
<1>8. CASE UNCHANGED Z!gvars
  BY <1>t, <1>1, <1>8 DEF Z!gvars
<1>. QED  BY <1>2, <1>3, <1>4, <1>5, <1>6, <1>7, <1>8 DEF Z!GNext

-------------------------------------------------------------------------------
(* The agent in communities outside, CommunitySeeding *)
A == INSTANCE CommunitySeeding WITH
  Communities <- Bound.communities, Items <- Ids, Week <- Bound.week, Ban <- Bound.warned,
  MaxDay <- Bound.lastDay, MaxDrafts <- Bound.drafts, day <- v1, posted <- v2,
  bannedUntil <- v3, banned <- v4, drafts <- v5

ASSUME SeedingAssumption ==
  Bound.week \in Nat /\ Bound.warned \in Nat /\ Bound.lastDay \in Nat

\* What waits may still be posted, and what was posted kept the limits.
SeedingInv == A!TypeOK /\ A!DraftsInv /\ A!OnePostAWeek

\* Nothing is written yet.
LEMMA SeedingBegins == A!GInit => SeedingInv
BY SeedingAssumption DEF SeedingInv, A!GInit, A!TypeOK, A!DraftsInv, A!OnePostAWeek

\* A community's days.
LEMMA SeedingDays ==
  ASSUME A!TypeOK
  PROVE  /\ v1 \in Nat /\ \A c \in Bound.communities : v3[c] \in Nat
         /\ \A c \in Bound.communities : \A i \in DOMAIN v2[c] : v2[c][i].on \in Nat
<1>1. \A q \in A!Post : q.on \in Nat
  BY SeedingAssumption DEF A!Post
<1>2. \A c \in Bound.communities : v2[c] \in Seq(A!Post)
  BY DEF A!TypeOK
<1>3. \A c \in Bound.communities : \A i \in DOMAIN v2[c] : v2[c][i] \in A!Post
  BY <1>2
<1>4. \A c \in Bound.communities : v3[c] \in 0..(Bound.lastDay + Bound.warned)
  BY DEF A!TypeOK
<1>. QED  BY <1>1, <1>3, <1>4, SeedingAssumption DEF A!TypeOK

\* A post of a draft that nothing overtook comes when one may.
LEMMA SeedingPosts ==
  ASSUME SeedingInv, NEW d \in v5, A!RecordPosted(d)
  PROVE  SeedingInv' /\ A!WarningsAreHeeded
<1>. DEFINE c == d.community
            n == [on |-> v1, items |-> d.items, overtaken |-> d.overtaken]
            new == Append(v2[c], n)
<1>1. d \in A!Draft /\ c \in Bound.communities /\ n \in A!Post
  BY DEF SeedingInv, A!TypeOK, A!Draft, A!Post
<1>2. /\ v2' = [v2 EXCEPT ![c] = new] /\ v5' = A!Overtake(v5 \ {d}, c)
      /\ UNCHANGED <<v1, v3, v4>>
  BY DEF A!RecordPosted
<1>3. v2[c] \in Seq(A!Post) /\ v2 \in [Bound.communities -> Seq(A!Post)]
  BY <1>1 DEF SeedingInv, A!TypeOK
<1>4. /\ new \in Seq(A!Post) /\ Len(new) = Len(v2[c]) + 1 /\ Len(v2[c]) \in Nat
      /\ DOMAIN new = 1..Len(v2[c]) + 1 /\ DOMAIN v2[c] = 1..Len(v2[c])
      /\ new[Len(v2[c]) + 1] = n /\ \A i \in DOMAIN v2[c] : new[i] = v2[c][i]
  BY <1>1, <1>3
<1>5. n.on = v1 /\ n.items = d.items /\ n.overtaken = d.overtaken
  OBVIOUS
<1>. HIDE DEF n, new
<1>6. v2'[c] = new /\ \A x \in Bound.communities \ {c} : v2'[x] = v2[x]
  BY <1>1, <1>2, <1>3
<1>7. \A q \in v5' : /\ q \in A!Draft
                     /\ q.community = c => q.overtaken
                     /\ q.community # c => q \in v5
  <2>1. ASSUME NEW e \in v5
        PROVE  [e EXCEPT !.overtaken = TRUE] \in A!Draft /\ [e EXCEPT !.overtaken = TRUE].overtaken
               /\ [e EXCEPT !.overtaken = TRUE].community = e.community
    BY <2>1 DEF SeedingInv, A!TypeOK, A!Draft
  <2>2. v5 \subseteq A!Draft
    BY DEF SeedingInv, A!TypeOK
  <2>. QED  BY <1>2, <2>1, <2>2 DEF A!Overtake
<1>8. A!TypeOK'
  <2>1. v2' \in [Bound.communities -> Seq(A!Post)]
    BY <1>1, <1>2, <1>3, <1>4
  <2>2. v5' \subseteq A!Draft
    BY <1>7
  <2>. QED  BY <1>2, <2>1, <2>2 DEF SeedingInv, A!TypeOK, A!Draft, A!Post
<1>9. A!DraftsInv'
  <2>1. ASSUME NEW q \in v5', ~q.overtaken
        PROVE  A!CanPost(q.community)' /\ q.items \cap v4'[q.community] = {}
    <3>1. q \in v5 /\ q.community # c /\ q.community \in Bound.communities
      BY <1>7, <2>1 DEF A!Draft
    <3>2. A!CanPost(q.community) /\ q.items \cap v4[q.community] = {}
      BY <2>1, <3>1 DEF SeedingInv, A!DraftsInv
    <3>3. v2'[q.community] = v2[q.community]
      BY <1>6, <3>1
    <3>. QED  BY <1>2, <3>2, <3>3 DEF A!CanPost, A!Recent
  <2>. QED  BY <2>1 DEF A!DraftsInv
<1>10. ~d.overtaken => v1 >= v3[c] /\ d.items \cap v4[c] = {}
                       /\ \A i \in DOMAIN v2[c] : ~(v2[c][i].on + Bound.week > v1)
  BY DEF SeedingInv, A!DraftsInv, A!CanPost, A!Recent
<1>11. A!OnePostAWeek'
  <2>1. ASSUME NEW i \in DOMAIN new, NEW j \in DOMAIN new, i < j, ~new[j].overtaken
        PROVE  new[j].on >= new[i].on + Bound.week
    <3>1. CASE j = Len(v2[c]) + 1
      <4>1. i \in DOMAIN v2[c] /\ v2[c][i].on \in Nat /\ v1 \in Nat
        BY <1>1, <1>4, <2>1, <3>1, SeedingDays DEF SeedingInv
      <4>. QED  BY <1>4, <1>5, <1>10, <2>1, <3>1, <4>1, SeedingAssumption
    <3>2. CASE j # Len(v2[c]) + 1
      <4>1. i \in DOMAIN v2[c] /\ j \in DOMAIN v2[c] /\ new[i] = v2[c][i] /\ new[j] = v2[c][j]
        BY <1>4, <2>1, <3>2
      <4>. QED  BY <1>1, <2>1, <4>1 DEF SeedingInv, A!OnePostAWeek
    <3>. QED  BY <3>1, <3>2
  <2>2. \A x \in Bound.communities : x # c => v2'[x] = v2[x]
    BY <1>6
  <2>. QED  BY <1>6, <2>1, <2>2 DEF SeedingInv, A!OnePostAWeek
<1>12. A!WarningsAreHeeded
  <2>1. ASSUME NEW x \in Bound.communities, v2'[x] # v2[x]
        PROVE  x = c
    BY <1>6, <2>1
  <2>2. v2'[c][Len(v2'[c])] = n
    BY <1>4, <1>6
  <2>. QED  BY <1>5, <1>10, <2>1, <2>2 DEF A!WarningsAreHeeded
<1>. QED  BY <1>8, <1>9, <1>11, <1>12 DEF SeedingInv

\* What changes neither the posts nor the days keeps what is said of the posts.
LEMMA SeedingQuiet ==
  ASSUME SeedingInv, v2' = v2
  PROVE  A!OnePostAWeek' /\ A!WarningsAreHeeded
BY DEF SeedingInv, A!OnePostAWeek, A!WarningsAreHeeded

\* A warning overtakes the drafts of its community.
LEMMA SeedingWarns ==
  ASSUME SeedingInv, NEW c \in Bound.communities, NEW item \in Ids, A!RecordStrike(c, item)
  PROVE  SeedingInv'
<1>1. /\ v3' = [v3 EXCEPT ![c] = v1 + Bound.warned] /\ v4' = [v4 EXCEPT ![c] = @ \cup {item}]
      /\ v5' = A!Overtake(v5, c) /\ UNCHANGED <<v1, v2>>
  BY DEF A!RecordStrike
<1>2. \A q \in v5' : /\ q \in A!Draft
                     /\ q.community = c => q.overtaken
                     /\ q.community # c => q \in v5
  <2>1. ASSUME NEW e \in v5
        PROVE  [e EXCEPT !.overtaken = TRUE] \in A!Draft /\ [e EXCEPT !.overtaken = TRUE].overtaken
               /\ [e EXCEPT !.overtaken = TRUE].community = e.community
    BY <2>1 DEF SeedingInv, A!TypeOK, A!Draft
  <2>2. v5 \subseteq A!Draft
    BY DEF SeedingInv, A!TypeOK
  <2>. QED  BY <1>1, <2>1, <2>2 DEF A!Overtake
<1>3. \A x \in Bound.communities : x # c => v3'[x] = v3[x] /\ v4'[x] = v4[x]
  BY <1>1 DEF SeedingInv, A!TypeOK
<1>4. A!TypeOK'
  <2>1. v1 + Bound.warned \in 0..(Bound.lastDay + Bound.warned)
    BY SeedingAssumption DEF SeedingInv, A!TypeOK
  <2>2. v3' \in [Bound.communities -> 0..(Bound.lastDay + Bound.warned)]
    BY <1>1, <2>1 DEF SeedingInv, A!TypeOK
  <2>3. v4' \in [Bound.communities -> SUBSET Ids]
    BY <1>1 DEF SeedingInv, A!TypeOK
  <2>4. v5' \subseteq A!Draft
    BY <1>2
  <2>. QED  BY <1>1, <2>2, <2>3, <2>4 DEF SeedingInv, A!TypeOK, A!Draft, A!Post
<1>5. A!DraftsInv'
  <2>1. ASSUME NEW q \in v5', ~q.overtaken
        PROVE  A!CanPost(q.community)' /\ q.items \cap v4'[q.community] = {}
    <3>1. q \in v5 /\ q.community # c /\ q.community \in Bound.communities
      BY <1>2, <2>1 DEF A!Draft
    <3>2. A!CanPost(q.community) /\ q.items \cap v4[q.community] = {}
      BY <2>1, <3>1 DEF SeedingInv, A!DraftsInv
    <3>. QED  BY <1>1, <1>3, <3>1, <3>2 DEF A!CanPost, A!Recent
  <2>. QED  BY <2>1 DEF A!DraftsInv
<1>. QED  BY <1>1, <1>4, <1>5, SeedingQuiet DEF SeedingInv

\* Whatever is drafted, approved late, or warned of, the limits stay.
LEMMA SeedingSteps == SeedingInv /\ [A!GNext]_(A!gvars) => SeedingInv' /\ A!WarningsAreHeeded
<1>. SUFFICES ASSUME SeedingInv, [A!GNext]_(A!gvars) PROVE SeedingInv' /\ A!WarningsAreHeeded
  OBVIOUS
<1>1. ASSUME NEW c \in Bound.communities, NEW items \in SUBSET Ids, A!WriteDraft(c, items)
      PROVE  SeedingInv' /\ A!WarningsAreHeeded
  <2>. DEFINE n == [community |-> c, items |-> items, requested |-> FALSE, overtaken |-> FALSE]
  <2>1. n \in A!Draft /\ n.community = c /\ n.items = items
    BY DEF A!Draft
  <2>2. v5' = v5 \cup {n} /\ UNCHANGED <<v1, v2, v3, v4>> /\ A!CanPost(c) /\ items \cap v4[c] = {}
    BY <1>1 DEF A!WriteDraft
  <2>. HIDE DEF n
  <2>3. A!TypeOK' /\ A!DraftsInv'
    BY <2>1, <2>2 DEF SeedingInv, A!TypeOK, A!DraftsInv, A!Draft, A!Post, A!CanPost, A!Recent
  <2>. QED  BY <2>2, <2>3, SeedingQuiet DEF SeedingInv
<1>2. ASSUME NEW c \in Bound.communities, NEW item \in Ids, A!RecordStrike(c, item)
      PROVE  SeedingInv' /\ A!WarningsAreHeeded
  BY <1>2, SeedingWarns, SeedingQuiet DEF A!RecordStrike
<1>3. ASSUME NEW d \in v5, A!RequestPost(d)
      PROVE  SeedingInv' /\ A!WarningsAreHeeded
  <2>. DEFINE n == [d EXCEPT !.requested = TRUE]
  <2>1. n \in A!Draft /\ n.community = d.community /\ n.items = d.items /\ n.overtaken = d.overtaken
    BY DEF SeedingInv, A!TypeOK, A!Draft
  <2>2. v5' = (v5 \ {d}) \cup {n} /\ UNCHANGED <<v1, v2, v3, v4>>
    BY <1>3 DEF A!RequestPost
  <2>. HIDE DEF n
  <2>3. A!TypeOK' /\ A!DraftsInv'
    BY <2>1, <2>2 DEF SeedingInv, A!TypeOK, A!DraftsInv, A!Draft, A!Post, A!CanPost, A!Recent
  <2>. QED  BY <2>2, <2>3, SeedingQuiet DEF SeedingInv
<1>4. ASSUME NEW d \in v5, A!Refuse(d)
      PROVE  SeedingInv' /\ A!WarningsAreHeeded
  <2>1. v5' = v5 \ {d} /\ UNCHANGED <<v1, v2, v3, v4>>
    BY <1>4 DEF A!Refuse
  <2>2. A!TypeOK' /\ A!DraftsInv'
    BY <2>1 DEF SeedingInv, A!TypeOK, A!DraftsInv, A!Draft, A!Post, A!CanPost, A!Recent
  <2>. QED  BY <2>1, <2>2, SeedingQuiet DEF SeedingInv
<1>5. ASSUME NEW d \in v5, A!RecordPosted(d)
      PROVE  SeedingInv' /\ A!WarningsAreHeeded
  BY <1>5, SeedingPosts
<1>6. CASE A!NextDay
  <2>1. v1' = v1 + 1 /\ v1 < Bound.lastDay /\ UNCHANGED <<v2, v3, v4, v5>> /\ v1 \in Nat
    BY <1>6, SeedingDays DEF A!NextDay, SeedingInv
  <2>2. A!TypeOK'
    BY <2>1, SeedingAssumption DEF SeedingInv, A!TypeOK
  <2>3. ASSUME NEW c \in Bound.communities, A!CanPost(c)
        PROVE  A!CanPost(c)'
    <3>1. v3[c] \in Nat /\ \A i \in DOMAIN v2[c] : v2[c][i].on \in Nat
      BY SeedingDays DEF SeedingInv
    <3>. QED  BY <2>1, <2>3, <3>1, SeedingAssumption DEF A!CanPost, A!Recent
  <2>4. \A q \in v5 : q.community \in Bound.communities
    BY DEF SeedingInv, A!TypeOK, A!Draft
  <2>5. A!DraftsInv'
    BY <2>1, <2>3, <2>4 DEF SeedingInv, A!DraftsInv
  <2>. QED  BY <2>1, <2>2, <2>5, SeedingQuiet DEF SeedingInv
<1>7. CASE UNCHANGED A!gvars
  <2>1. UNCHANGED <<v1, v2, v3, v4, v5>>
    BY <1>7 DEF A!gvars
  <2>2. A!TypeOK' /\ A!DraftsInv'
    BY <2>1 DEF SeedingInv, A!TypeOK, A!DraftsInv, A!Draft, A!Post, A!CanPost, A!Recent
  <2>. QED  BY <2>1, <2>2, SeedingQuiet DEF SeedingInv
<1>. QED  BY <1>1, <1>2, <1>3, <1>4, <1>5, <1>6, <1>7 DEF A!GNext

\* Each step keeps the invariant, ...
LEMMA SeedingKeeps == SeedingInv /\ [A!GNext]_(A!gvars) => SeedingInv'
BY SeedingSteps

\* ...and heeds the warnings.
LEMMA SeedingHeeds == SeedingInv /\ [A!GNext]_(A!gvars) => A!WarningsAreHeeded
BY SeedingSteps

-------------------------------------------------------------------------------
(* The rewards of referrals, Referral *)
F == INSTANCE Referral WITH
  People <- Bound.people, Codes <- Ids, Devices <- Names, DeviceLimit <- Bound.perDevice,
  owner <- v1, suspended <- v2, claims <- v3, accounts <- v4, paid <- v5, gate <- v6,
  reviewed <- v7, money <- v8

ASSUME ReferralAssumption ==
  /\ IsFiniteSet(Bound.people) /\ Bound.perDevice \in Nat \ {0}
  /\ None \notin Bound.people \cup F!Claim
  /\ None \notin [state : {"PENDING", "APPROVED", "HELD", "REJECTED"},
                  proposals : SUBSET Bound.people]

\* The claims, and what is paid for them.
ReferralInv == F!TypeOK /\ F!PaidInv /\ F!ClaimsInv /\ F!DeviceIsLimited

\* Of a part of the people there is a number.
LEMMA PeopleCounted ==
  /\ \A s \in SUBSET Bound.people : F!Cardinality(s) \in Nat
  /\ \A s \in SUBSET Bound.people : \A t \in SUBSET s : F!Cardinality(t) <= F!Cardinality(s)
  /\ F!Cardinality({}) = 0
<1>1. \A s : F!Cardinality(s) = Cardinality(s)
  BY DEF F!Cardinality, Cardinality
<1>2. \A s \in SUBSET Bound.people : IsFiniteSet(s)
  BY ReferralAssumption, FS_Subset
<1>. QED  BY <1>1, <1>2, FS_Subset, FS_CardinalityType, FS_EmptySet

\* Nobody has claimed.
LEMMA ReferralBegins == F!FInit => ReferralInv
<1>. SUFFICES ASSUME F!FInit PROVE ReferralInv
  OBVIOUS
<1>1. F!TypeOK
  BY DEF F!FInit, F!TypeOK
<1>2. F!PaidInv
  BY DEF F!FInit, F!PaidInv, F!Claimed
<1>3. \A d \in Names : F!From(d) = {}
  BY DEF F!FInit, F!From
<1>4. F!ClaimsInv
  BY <1>3 DEF F!FInit, F!ClaimsInv
<1>5. F!DeviceIsLimited
  <2>1. \A d \in Names : F!Cardinality(F!From(d)) = 0
    BY <1>3, PeopleCounted
  <2>2. 0 < Bound.perDevice
    BY ReferralAssumption
  <2>. QED  BY <2>1, <2>2 DEF F!DeviceIsLimited
<1>. QED  BY <1>1, <1>2, <1>4, <1>5 DEF ReferralInv

\* What a person claimed is kept, and so the claims and what is paid for them are as before.
LEMMA ReferralSame ==
  ASSUME ReferralInv, UNCHANGED <<v1, v3, v4>>
  PROVE  F!ClaimsInv' /\ F!DeviceIsLimited' /\ F!FirstContactCounts
<1>1. \A d \in Names : F!From(d)' = F!From(d)
  BY DEF F!From
<1>. QED  BY <1>1 DEF ReferralInv, F!ClaimsInv, F!DeviceIsLimited, F!FirstContactCounts

\* A code is claimed by a person who has none, from a device with room, or nobody claims.
LEMMA ReferralClaims ==
  ASSUME ReferralInv, NEW p \in Bound.people, NEW c \in Ids, NEW d \in Names, F!Claims(p, c, d)
  PROVE  ReferralInv' /\ F!FirstContactCounts
<1>. DEFINE n == [code |-> c, device |-> d, status |-> "claimed"]
<1>1. n \in F!Claim /\ n.code = c /\ n.device = d /\ n.status = "claimed" /\ n # None
  BY ReferralAssumption DEF F!Claim
<1>2. /\ v1[c] \notin {None, p} /\ v3[p] = None /\ UNCHANGED <<v1, v5, v6, v7, v8>>
      /\ v4' = [v4 EXCEPT ![d] = @ \cup {p}]
      /\ IF F!Cardinality(v4'[d]) >= Bound.perDevice
           THEN v2' = v2 \cup {c} /\ v3' = v3
           ELSE v3' = [v3 EXCEPT ![p] = n] /\ v2' = v2
  BY DEF F!Claims
<1>. HIDE DEF n
<1>3. /\ v3 \in [Bound.people -> F!Claim \cup {None}] /\ v4 \in [Names -> SUBSET Bound.people]
      /\ v1 \in [Ids -> Bound.people \cup {None}] /\ v2 \subseteq Ids
  BY DEF ReferralInv, F!TypeOK
<1>4. /\ v4' \in [Names -> SUBSET Bound.people] /\ v4'[d] = v4[d] \cup {p}
      /\ \A x \in Names \ {d} : v4'[x] = v4[x]
  BY <1>2, <1>3
<1>5. /\ v3' \in [Bound.people -> F!Claim \cup {None}]
      /\ \A q \in Bound.people \ {p} : v3'[q] = v3[q]
      /\ v3'[p] = None \/ (v3'[p] = n /\ F!Cardinality(v4'[d]) < Bound.perDevice)
  <2>1. F!Cardinality(v4'[d]) \in Nat
    BY <1>4, PeopleCounted
  <2>2. CASE F!Cardinality(v4'[d]) >= Bound.perDevice
    BY <1>2, <1>3, <2>2
  <2>3. CASE ~(F!Cardinality(v4'[d]) >= Bound.perDevice)
    <3>1. v3' = [v3 EXCEPT ![p] = n]
      BY <1>2, <2>3
    <3>. QED  BY <1>1, <1>3, <2>1, <2>3, <3>1, ReferralAssumption
  <2>. QED  BY <2>2, <2>3
<1>6. F!TypeOK'
  <2>1. v2' \subseteq {x \in Ids : v1'[x] # None}
    BY <1>2, <1>3 DEF ReferralInv, F!TypeOK
  <2>. QED  BY <1>2, <1>4, <1>5, <2>1 DEF ReferralInv, F!TypeOK
<1>7. \A q \in Bound.people : F!Claimed(q, "completed")' <=> F!Claimed(q, "completed")
  BY <1>1, <1>2, <1>5 DEF F!Claimed
<1>8. F!PaidInv'
  <2>1. \A q \in v5 : q \in Bound.people
    BY DEF ReferralInv, F!TypeOK
  <2>2. v6 # None => v6.proposals \subseteq Bound.people
    BY DEF ReferralInv, F!TypeOK
  <2>. QED  BY <1>2, <1>7, <2>1, <2>2 DEF ReferralInv, F!PaidInv
<1>9. \A x \in Names : x # d => F!From(x)' = F!From(x)
  BY <1>1, <1>2, <1>5 DEF F!From
<1>10. F!From(d)' \subseteq F!From(d) \cup {p} /\ (v3'[p] = None => F!From(d)' = F!From(d))
  BY <1>2, <1>5 DEF F!From
<1>11. F!ClaimsInv'
  <2>1. \A q \in Bound.people : v3'[q] # None => v1'[v3'[q].code] \notin {None, q}
    BY <1>1, <1>2, <1>5 DEF ReferralInv, F!ClaimsInv
  <2>2. \A x \in Names : F!From(x)' \subseteq v4'[x]
    BY <1>4, <1>9, <1>10 DEF ReferralInv, F!ClaimsInv
  <2>. QED  BY <2>1, <2>2 DEF F!ClaimsInv
<1>12. F!DeviceIsLimited'
  <2>1. CASE v3'[p] = None
    BY <1>9, <1>10, <2>1 DEF ReferralInv, F!DeviceIsLimited
  <2>2. CASE v3'[p] # None
    <3>1. F!Cardinality(v4'[d]) < Bound.perDevice /\ F!From(d)' \subseteq v4'[d]
      BY <1>5, <1>11, <2>2 DEF F!ClaimsInv
    <3>2. F!Cardinality(F!From(d)') < Bound.perDevice
      <4>. DEFINE s == v4'[d]
                  t == F!From(d)'
      <4>1. s \in SUBSET Bound.people /\ t \in SUBSET s
        BY <1>4, <3>1
      <4>. HIDE DEF s, t
      <4>2. F!Cardinality(t) <= F!Cardinality(s) /\ F!Cardinality(t) \in Nat /\ F!Cardinality(s) \in Nat
        BY <4>1, PeopleCounted
      <4>3. F!Cardinality(t) < Bound.perDevice
        BY <3>1, <4>2, ReferralAssumption DEF s
      <4>. QED  BY <4>3 DEF t
    <3>. QED  BY <1>9, <3>2 DEF ReferralInv, F!DeviceIsLimited
  <2>. QED  BY <2>1, <2>2
<1>13. F!FirstContactCounts
  BY <1>2, <1>5 DEF ReferralInv, F!ClaimsInv, F!FirstContactCounts
<1>. QED  BY <1>6, <1>8, <1>11, <1>12, <1>13 DEF ReferralInv

\* A first submission completes a claim.
LEMMA ReferralCompletes ==
  ASSUME ReferralInv, NEW p \in Bound.people, F!RecordFirstSubmission(p)
  PROVE  ReferralInv' /\ F!FirstContactCounts
<1>. DEFINE n == [v3[p] EXCEPT !.status = "completed"]
<1>1. /\ v3[p] # None /\ v3[p].status = "claimed" /\ v3' = [v3 EXCEPT ![p] = n]
      /\ v7' = v7 \cup {p} /\ UNCHANGED <<v1, v2, v4, v5, v6, v8>>
  BY DEF F!RecordFirstSubmission, F!Claimed
<1>2. v3[p] \in F!Claim /\ v3 \in [Bound.people -> F!Claim \cup {None}]
  BY <1>1 DEF ReferralInv, F!TypeOK
<1>3. n \in F!Claim /\ n.code = v3[p].code /\ n.device = v3[p].device /\ n.status = "completed"
  BY <1>2 DEF F!Claim
<1>. HIDE DEF n
<1>4. n # None
  BY <1>3, ReferralAssumption
<1>5. /\ v3' \in [Bound.people -> F!Claim \cup {None}] /\ v3'[p] = n
      /\ \A q \in Bound.people \ {p} : v3'[q] = v3[q]
  BY <1>1, <1>2, <1>3
<1>6. F!TypeOK'
  BY <1>1, <1>5 DEF ReferralInv, F!TypeOK
<1>7. /\ \A q \in Bound.people : F!Claimed(q, "completed") => F!Claimed(q, "completed")'
      /\ \A q \in Bound.people \ {p} : F!Claimed(q, "completed")' => F!Claimed(q, "completed")
  BY <1>3, <1>4, <1>5 DEF F!Claimed
<1>8. F!PaidInv'
  <2>1. v5 \subseteq Bound.people
    BY DEF ReferralInv, F!TypeOK
  <2>2. v6 # None => v6.proposals \subseteq Bound.people
    BY DEF ReferralInv, F!TypeOK
  <2>. QED  BY <1>1, <1>7, <2>1, <2>2 DEF ReferralInv, F!PaidInv
<1>9. \A x \in Names : F!From(x)' = F!From(x)
  BY <1>1, <1>3, <1>4, <1>5 DEF F!From
<1>10. F!ClaimsInv' /\ F!FirstContactCounts
  BY <1>1, <1>3, <1>4, <1>5, <1>9 DEF ReferralInv, F!ClaimsInv, F!FirstContactCounts
<1>11. F!DeviceIsLimited'
  BY <1>9 DEF ReferralInv, F!DeviceIsLimited
<1>. QED  BY <1>6, <1>8, <1>10, <1>11 DEF ReferralInv

\* What the runner and the approver do to a batch of payments.
LEMMA ReferralPays ==
  ASSUME ReferralInv,
         F!PayoutBatch \/ F!MarkPaid \/ F!DropPayout
           \/ \E state \in {"APPROVED", "HELD", "REJECTED"} : F!Decide(state)
  PROVE  ReferralInv' /\ F!FirstContactCounts
<1>. DEFINE Gate == [state : {"PENDING", "APPROVED", "HELD", "REJECTED"}, proposals : SUBSET Bound.people]
<1>1. UNCHANGED <<v1, v2, v3, v4, v7>>
  BY DEF F!PayoutBatch, F!MarkPaid, F!DropPayout, F!Decide
<1>2. /\ v6 # None => v6 \in Gate /\ v6.proposals \subseteq Bound.people
      /\ v5 \subseteq Bound.people /\ v8 \in [Bound.people -> Nat]
  BY DEF ReferralInv, F!TypeOK
<1>3. CASE F!PayoutBatch
  <2>. DEFINE due == {p \in Bound.people : F!Claimed(p, "completed") /\ p \notin v5}
              n == [state |-> "PENDING", proposals |-> due]
  <2>1. v6' = n /\ n \in Gate /\ n.proposals = due /\ UNCHANGED <<v5, v8>>
    BY <1>3 DEF F!PayoutBatch
  <2>. HIDE DEF n
  <2>2. F!TypeOK'
    BY <1>1, <2>1 DEF ReferralInv, F!TypeOK
  <2>3. F!PaidInv'
    BY <1>1, <2>1 DEF ReferralInv, F!PaidInv, F!Claimed
  <2>. QED  BY <1>1, <2>2, <2>3, ReferralSame DEF ReferralInv
<1>4. CASE F!MarkPaid
  <2>1. /\ v6 # None /\ v6' = None /\ v5' = v5 \cup v6.proposals
        /\ v8' = [p \in Bound.people |-> IF p \in v6.proposals THEN v8[p] + 1 ELSE v8[p]]
    BY <1>4 DEF F!MarkPaid
  <2>2. /\ v8' \in [Bound.people -> Nat]
        /\ \A p \in Bound.people : v8'[p] = IF p \in v6.proposals THEN v8[p] + 1 ELSE v8[p]
    BY <1>2, <2>1
  <2>3. F!TypeOK'
    BY <1>1, <1>2, <2>1, <2>2 DEF ReferralInv, F!TypeOK
  <2>4. F!PaidInv'
    <3>1. \A p \in v6.proposals : p \in Bound.people /\ F!Claimed(p, "completed") /\ p \notin v5
      BY <1>2, <2>1 DEF ReferralInv, F!PaidInv
    <3>2. \A p \in Bound.people : v8[p] = IF p \in v5 THEN 1 ELSE 0
      BY DEF ReferralInv, F!PaidInv
    <3>3. \A p \in Bound.people : v8'[p] = IF p \in v5' THEN 1 ELSE 0
      BY <2>1, <2>2, <3>1, <3>2
    <3>. QED  BY <1>1, <2>1, <3>1, <3>3 DEF ReferralInv, F!PaidInv, F!Claimed
  <2>. QED  BY <1>1, <2>3, <2>4, ReferralSame DEF ReferralInv
<1>5. CASE F!DropPayout
  <2>1. v6' = None /\ UNCHANGED <<v5, v8>>
    BY <1>5 DEF F!DropPayout
  <2>2. F!TypeOK'
    BY <1>1, <2>1 DEF ReferralInv, F!TypeOK
  <2>3. F!PaidInv'
    BY <1>1, <2>1 DEF ReferralInv, F!PaidInv, F!Claimed
  <2>. QED  BY <1>1, <2>2, <2>3, ReferralSame DEF ReferralInv
<1>6. ASSUME NEW state \in {"APPROVED", "HELD", "REJECTED"}, F!Decide(state)
      PROVE  ReferralInv' /\ F!FirstContactCounts
  <2>. DEFINE n == [v6 EXCEPT !.state = state]
  <2>1. v6 # None /\ v6' = n /\ UNCHANGED <<v5, v8>>
    BY <1>6 DEF F!Decide
  <2>2. n \in Gate /\ n.proposals = v6.proposals
    BY <1>2, <2>1
  <2>. HIDE DEF n
  <2>3. F!TypeOK'
    BY <1>1, <2>1, <2>2 DEF ReferralInv, F!TypeOK
  <2>4. F!PaidInv'
    BY <1>1, <2>1, <2>2 DEF ReferralInv, F!PaidInv, F!Claimed
  <2>. QED  BY <1>1, <2>3, <2>4, ReferralSame DEF ReferralInv
<1>. QED  BY <1>3, <1>4, <1>5, <1>6

\* Whoever claims, completes, or is paid for, and however often a batch is held.
LEMMA ReferralSteps == ReferralInv /\ [F!FNext]_(F!fvars) => ReferralInv' /\ F!FirstContactCounts
<1>. SUFFICES ASSUME ReferralInv, [F!FNext]_(F!fvars) PROVE ReferralInv' /\ F!FirstContactCounts
  OBVIOUS
<1>1. ASSUME NEW p \in Bound.people, NEW c \in Ids, F!IssueCode(p, c)
      PROVE  ReferralInv' /\ F!FirstContactCounts
  <2>1. v1[c] = None /\ v1' = [v1 EXCEPT ![c] = p] /\ UNCHANGED <<v2, v3, v4, v5, v6, v7, v8>>
    BY <1>1 DEF F!IssueCode
  <2>2. v1' \in [Ids -> Bound.people \cup {None}] /\ \A x \in Ids : v1[x] # None => v1'[x] = v1[x]
    BY <2>1 DEF ReferralInv, F!TypeOK
  <2>3. F!TypeOK'
    BY <2>1, <2>2 DEF ReferralInv, F!TypeOK
  <2>4. F!PaidInv'
    BY <2>1 DEF ReferralInv, F!PaidInv, F!Claimed
  <2>5. \A d \in Names : F!From(d)' = F!From(d)
    BY <2>1 DEF F!From
  <2>6. \A q \in Bound.people : v3[q] # None => v3[q].code \in Ids
    BY DEF ReferralInv, F!TypeOK, F!Claim
  <2>7. F!ClaimsInv' /\ F!DeviceIsLimited' /\ F!FirstContactCounts
    BY <2>1, <2>2, <2>5, <2>6 DEF ReferralInv, F!ClaimsInv, F!DeviceIsLimited, F!FirstContactCounts
  <2>. QED  BY <2>3, <2>4, <2>7 DEF ReferralInv
<1>2. CASE UNCHANGED F!fvars
  <2>1. UNCHANGED <<v1, v2, v3, v4, v5, v6, v7, v8>>
    BY <1>2 DEF F!fvars
  <2>2. F!TypeOK' /\ F!PaidInv'
    BY <2>1 DEF ReferralInv, F!TypeOK, F!PaidInv, F!Claimed
  <2>. QED  BY <2>1, <2>2, ReferralSame DEF ReferralInv
<1>. QED  BY <1>1, <1>2, ReferralClaims, ReferralCompletes, ReferralPays DEF F!FNext

\* Each step keeps the invariant, ...
LEMMA ReferralKeeps == ReferralInv /\ [F!FNext]_(F!fvars) => ReferralInv'
BY ReferralSteps

\* ...and the first code that an invitee used.
LEMMA ReferralFirst == ReferralInv /\ [F!FNext]_(F!fvars) => F!FirstContactCounts
BY ReferralSteps

\* An invitee is paid for once.
LEMMA ReferralOnce == ReferralInv => F!PaidOnce
BY DEF ReferralInv, F!PaidInv, F!PaidOnce

-------------------------------------------------------------------------------
(* The collector's search, Discovery *)
V == INSTANCE Discovery WITH
  Handles <- Names, Vendors <- Bound.vendors, Limit <- Bound.budget, Window <- Bound.observed,
  PerNew <- Bound.perNew, Streak <- Bound.streak, FanoutCap <- Bound.fanout,
  MaxPosts <- Bound.seen, pool <- v1, enriched <- v2, emitted <- v3, used <- v4, window <- v5,
  streak <- v6, queues <- v7, call <- v8, disabled <- v9, few <- v10, missed <- v11

ASSUME DiscoveryAssumption ==
  /\ Bound.budget \in Nat /\ Bound.observed \in Nat /\ Bound.perNew \in Nat
  /\ Bound.streak \in Nat \ {0} /\ Bound.fanout \in Nat
  /\ Bound.seen \in Nat /\ Bound.seen <= Bound.observed
  /\ None \notin V!Call

\* The search, the queue and what was stored.
DiscoveryInv ==
  V!TypeOK /\ V!FindsAreAccounted /\ V!PoolIsEnriched /\ V!EmittedOnce /\ V!CallInv /\ V!FewInv

\* How many there are of a set of workers, or of places in a queue or the window.
LEMMA SearchCounted ==
  /\ \A s : V!Cardinality(s) = Cardinality(s)
  /\ \A s \in SUBSET V!Workers : IsFiniteSet(s) /\ Cardinality(s) \in Nat
  /\ \A n \in Nat : \A s \in SUBSET (1..n) : IsFiniteSet(s) /\ Cardinality(s) \in Nat
  /\ Cardinality({}) = 0
<1>1. \A s : V!Cardinality(s) = Cardinality(s)
  BY DEF V!Cardinality, Cardinality
<1>2. IsFiniteSet({"hashtag", "graph"})
  <2>1. IsFiniteSet({"hashtag"})
    BY FS_Singleton
  <2>2. {"hashtag", "graph"} = {"hashtag"} \cup {"graph"}
    OBVIOUS
  <2>. QED  BY <2>1, <2>2, FS_AddElement
<1>3. \A s \in SUBSET V!Workers : IsFiniteSet(s)
  BY <1>2, FS_Subset DEF V!Workers
<1>4. \A n \in Nat : IsFiniteSet(1..n)
  BY FS_Interval
<1>5. \A n \in Nat : \A s \in SUBSET (1..n) : IsFiniteSet(s)
  BY <1>4, FS_Subset
<1>. QED  BY <1>1, <1>3, <1>5, FS_CardinalityType, FS_EmptySet

\* What is at the places of a sequence that are moved on by one is as much as before.
LEMMA ShiftedCounts ==
  ASSUME NEW n \in Nat, NEW s \in SUBSET (1..n), NEW k \in Int
  PROVE  Cardinality({i + k : i \in s}) = Cardinality(s) /\ IsFiniteSet({i + k : i \in s})
<1>. DEFINE t == {i + k : i \in s}
            f == [i \in s |-> i + k]
<1>1. f \in Bijection(s, t)
  BY DEF Bijection, Injection, Surjection, IsInjective
<1>2. IsFiniteSet(s)
  BY SearchCounted
<1>. QED  BY <1>1, <1>2, FS_Bijection DEF ExistsBijection

\* Who is found comes last in the queue, ...
LEMMA QueueGrows ==
  ASSUME v7.fetch \in Seq(Names), NEW h \in Names, v7'.fetch = Append(v7.fetch, h), NEW x
  PROVE  V!Waits(x)' = IF x = h THEN V!Waits(x) \cup {Len(v7.fetch) + 1} ELSE V!Waits(x)
<1>1. /\ Len(v7.fetch) \in Nat /\ DOMAIN v7.fetch = 1..Len(v7.fetch)
      /\ DOMAIN v7'.fetch = 1..Len(v7.fetch) + 1 /\ v7'.fetch[Len(v7.fetch) + 1] = h
      /\ \A i \in 1..Len(v7.fetch) : v7'.fetch[i] = v7.fetch[i]
  OBVIOUS
<1>. QED  BY <1>1 DEF V!Waits

\* ...and the first leaves it.
LEMMA QueuePops ==
  ASSUME v7.fetch \in Seq(Names), v7.fetch # <<>>, v7'.fetch = Tail(v7.fetch), NEW x
  PROVE  /\ Cardinality(V!Waits(x)') <= Cardinality(V!Waits(x))
         /\ V!Waits(x) # {} /\ x # Head(v7.fetch) => V!Waits(x)' # {}
<1>. DEFINE n == Len(v7.fetch)
<1>1. /\ n \in Nat \ {0} /\ DOMAIN v7.fetch = 1..n /\ Head(v7.fetch) = v7.fetch[1]
      /\ DOMAIN v7'.fetch = 1..n - 1
      /\ \A i \in 1..n - 1 : v7'.fetch[i] = v7.fetch[i + 1]
  OBVIOUS
<1>. HIDE DEF n
<1>2. V!Waits(x) \in SUBSET (1..n) /\ V!Waits(x)' \in SUBSET (1..n)
  BY <1>1 DEF V!Waits
<1>3. {i + 1 : i \in V!Waits(x)'} \subseteq V!Waits(x)
  BY <1>1 DEF V!Waits
<1>4. Cardinality({i + 1 : i \in V!Waits(x)'}) = Cardinality(V!Waits(x)')
  <2>1. ASSUME NEW t \in SUBSET (1..n)
        PROVE  Cardinality({i + 1 : i \in t}) = Cardinality(t)
    <3>1. n \in Nat /\ 1 \in Int
      BY <1>1
    <3>. QED  BY <3>1, ShiftedCounts, Zenon
  <2>. QED  BY <1>2, <2>1
<1>5. IsFiniteSet(V!Waits(x))
  BY <1>1, <1>2, SearchCounted
<1>6. Cardinality(V!Waits(x)') <= Cardinality(V!Waits(x))
  BY <1>3, <1>4, <1>5, FS_Subset
<1>7. ASSUME V!Waits(x) # {}, x # Head(v7.fetch)
      PROVE  V!Waits(x)' # {}
  <2>1. PICK i \in 1..n : v7.fetch[i] = x
    BY <1>1, <1>7 DEF V!Waits
  <2>2. i - 1 \in 1..n - 1 /\ v7'.fetch[i - 1] = x
    BY <1>1, <1>7, <2>1
  <2>. QED  BY <1>1, <2>2 DEF V!Waits
<1>. QED  BY <1>6, <1>7

\* Nothing is found, and what is stored has been enriched.
LEMMA DiscoveryBegins == V!DInit => DiscoveryInv
<1>. SUFFICES ASSUME V!DInit PROVE DiscoveryInv
  OBVIOUS
<1>1. v7 = [fetch |-> <<>>, enrich |-> {}, expand |-> {}, dead |-> {}] /\ v5 = <<>>
  BY DEF V!DInit
<1>2. v7 \in V!Queues
  BY <1>1 DEF V!Queues
<1>3. V!TypeOK
  BY <1>2, DiscoveryAssumption DEF V!DInit, V!TypeOK, V!Exists, V!Workers, V!Batch
<1>4. \A h : V!Waits(h) = {}
  BY <1>1 DEF V!Waits
<1>5. \A h : V!Finders(h) = {}
  BY DEF V!DInit, V!Finders
<1>6. V!FindsAreAccounted /\ V!PoolIsEnriched
  BY DEF V!DInit, V!FindsAreAccounted, V!PoolIsEnriched, V!Exists
<1>7. V!EmittedOnce
  BY <1>4, <1>5, SearchCounted DEF V!EmittedOnce
<1>8. V!CallInv /\ V!FewInv
  BY DEF V!DInit, V!CallInv, V!FewInv
<1>. QED  BY <1>3, <1>6, <1>7, <1>8 DEF DiscoveryInv

\* Queues of which one is put to use.
LEMMA QueueTypes ==
  ASSUME v7 \in V!Queues, NEW h \in Names, NEW videos \in BOOLEAN
  PROVE  /\ v7.fetch \in Seq(Names)
         /\ [v7 EXCEPT !.expand = @ \ {h}] \in V!Queues
         /\ [v7 EXCEPT !.enrich = @ \ {h}] \in V!Queues
         /\ [v7 EXCEPT !.fetch = Append(@, h)] \in V!Queues
         /\ v7.fetch # <<>> => V!Popped \in V!Queues /\ V!Popped.fetch = Tail(v7.fetch)
              /\ V!Popped.enrich = v7.enrich /\ V!Popped.dead = v7.dead /\ V!Popped.expand = v7.expand
<1>1. v7.fetch \in Seq(Names)
  BY DEF V!Queues
<1>2. Append(v7.fetch, h) \in Seq(Names) /\ (v7.fetch # <<>> => Tail(v7.fetch) \in Seq(Names))
  BY <1>1
<1>. QED  BY <1>1, <1>2 DEF V!Queues, V!Popped

\* What a call looks at.
LEMMA SearchConsiders ==
  ASSUME DiscoveryInv, NEW h \in Names, V!Consider(h)
  PROVE  /\ v8 \in V!Call /\ v8 # None /\ v8.left > 0
         /\ v8' \in V!Call /\ v8' # None /\ v8'.by = v8.by /\ v8'.left = v8.left - 1
         /\ v8'.new = IF V!Exists(h) THEN v8.new ELSE v8.new + 1
         /\ v5' \in Seq(BOOLEAN) /\ Len(v5') <= Bound.observed
         /\ v5' = IF Len(v5) < Bound.observed THEN Append(v5, ~V!Exists(h))
                                              ELSE Append(Tail(v5), ~V!Exists(h))
         /\ UNCHANGED <<v1, v2, v6, v9, v10, v11>>
         /\ \/ UNCHANGED <<v3, v4, v7>>
            \/ /\ ~V!Exists(h) /\ v4 # Bound.budget /\ v4' = v4 + 1
               /\ v3' = [v3 EXCEPT ![v8.by] = @ \cup {h}] /\ h \notin v3[v8.by]
               /\ v7' = [v7 EXCEPT !.fetch = Append(@, h)]
<1>1. v8 \in V!Call /\ v8 # None /\ v8.left > 0 /\ (v8.by = "graph" => v8.count < Bound.fanout)
  BY DEF DiscoveryInv, V!TypeOK, V!Consider
<1>2. v8.new <= Bound.seen - v8.left
  BY <1>1 DEF DiscoveryInv, V!CallInv, V!Looked
<1>3. /\ v8.left \in Nat /\ v8.new \in Nat /\ v8.count \in 0..Bound.fanout /\ v8.left <= Bound.seen
      /\ v8.by \in V!Workers
  BY <1>1, DiscoveryAssumption DEF V!Call
<1>4. v8' = [v8 EXCEPT !.left = @ - 1, !.new = IF V!Exists(h) THEN @ ELSE @ + 1]
      \/ /\ ~V!Exists(h)
         /\ v8' = [v8 EXCEPT !.left = @ - 1, !.new = @ + 1, !.count = IF v8.by = "graph" THEN @ + 1 ELSE @]
  BY DEF V!Consider
<1>5. v8.left - 1 \in 0..Bound.seen /\ v8.new \in 0..Bound.seen /\ v8.new + 1 \in 0..Bound.seen
      /\ (IF v8.by = "graph" THEN v8.count + 1 ELSE v8.count) \in 0..Bound.fanout
  BY <1>1, <1>2, <1>3, DiscoveryAssumption
<1>6. /\ v8' \in V!Call /\ v8'.by = v8.by /\ v8'.left = v8.left - 1
      /\ v8'.new = IF V!Exists(h) THEN v8.new ELSE v8.new + 1
  BY <1>1, <1>4, <1>5 DEF V!Call
<1>7. v5' = IF Len(v5) < Bound.observed THEN Append(v5, ~V!Exists(h))
                                        ELSE Append(Tail(v5), ~V!Exists(h))
  BY DEF V!Consider, V!Observe
<1>8. v5' \in Seq(BOOLEAN) /\ Len(v5') <= Bound.observed
  <2>. DEFINE new == ~V!Exists(h)
  <2>1. v5 \in Seq(BOOLEAN) /\ Len(v5) <= Bound.observed /\ new \in BOOLEAN
    BY DEF DiscoveryInv, V!TypeOK
  <2>2. v5' = IF Len(v5) < Bound.observed THEN Append(v5, new) ELSE Append(Tail(v5), new)
    BY <1>7
  <2>3. Bound.observed > 0
    BY <1>1, <1>3, DiscoveryAssumption
  <2>. HIDE DEF new
  <2>4. CASE Len(v5) < Bound.observed
    BY <2>1, <2>2, <2>4, DiscoveryAssumption
  <2>5. CASE ~(Len(v5) < Bound.observed)
    <3>1. v5 # <<>> /\ Len(v5) = Bound.observed
      BY <2>1, <2>3, <2>5, DiscoveryAssumption
    <3>2. Tail(v5) \in Seq(BOOLEAN) /\ Len(Tail(v5)) = Len(v5) - 1
      BY <2>1, <3>1
    <3>3. v5' = Append(Tail(v5), new)
      BY <2>2, <2>5
    <3>. HIDE DEF new
    <3>4. v5' \in Seq(BOOLEAN) /\ Len(v5') = Len(Tail(v5)) + 1
      BY <2>1, <3>2, <3>3
    <3>. QED  BY <2>1, <3>1, <3>2, <3>4, DiscoveryAssumption
  <2>. QED  BY <2>4, <2>5
<1>9. UNCHANGED <<v1, v2, v6, v9, v10, v11>>
  BY DEF V!Consider
<1>10. \/ UNCHANGED <<v3, v4, v7>>
       \/ /\ ~V!Exists(h) /\ v4 # Bound.budget /\ v4' = v4 + 1
          /\ v3' = [v3 EXCEPT ![v8.by] = @ \cup {h}] /\ h \notin v3[v8.by]
          /\ v7' = [v7 EXCEPT !.fetch = Append(@, h)]
  BY DEF V!Consider
<1>. QED  BY <1>1, <1>6, <1>7, <1>8, <1>9, <1>10, DiscoveryAssumption

\* A fetch and what follows it: the first of the queue is stored, or given up, or missed.
LEMMA SearchFetches ==
  ASSUME DiscoveryInv, NEW h \in Names, V!Fetch(h), v7'.fetch = Tail(v7.fetch), v3' = v3,
         v7.dead \subseteq v7'.dead, v11 \subseteq v11',
         \A x \in Names : V!Exists(x) => V!Exists(x)',
         V!Exists(h)' \/ h \in v7'.dead \/ h \in v11'
  PROVE  V!FindsAreAccounted' /\ V!EmittedOnce'
<1>1. v7.fetch \in Seq(Names) /\ v7.fetch # <<>> /\ h = Head(v7.fetch)
  BY QueueTypes DEF DiscoveryInv, V!TypeOK, V!Fetch
<1>2. \A x : V!Finders(x)' = V!Finders(x)
  BY DEF V!Finders
<1>3. ASSUME NEW w \in V!Workers, NEW x \in v3'[w] \ v11'
      PROVE  V!Exists(x)' \/ x \in v7'.dead \/ V!Waits(x)' # {}
  <2>1. x \in Names /\ x \in v3[w] \ v11
    BY <1>3 DEF DiscoveryInv, V!TypeOK
  <2>2. V!Exists(x) \/ x \in v7.dead \/ V!Waits(x) # {}
    BY <2>1 DEF DiscoveryInv, V!FindsAreAccounted
  <2>3. CASE x = h
    BY <1>3, <2>3
  <2>4. CASE x # h
    BY <1>1, <2>1, <2>2, <2>4, QueuePops
  <2>. QED  BY <2>3, <2>4
<1>4. ASSUME NEW x \in Names
      PROVE  Cardinality(V!Waits(x)') <= Cardinality(V!Finders(x)')
  <2>1. Cardinality(V!Waits(x)') <= Cardinality(V!Waits(x))
    BY <1>1, QueuePops
  <2>2. Cardinality(V!Waits(x)) <= Cardinality(V!Finders(x))
    BY SearchCounted DEF DiscoveryInv, V!EmittedOnce
  <2>3. /\ Cardinality(V!Waits(x)) \in Nat /\ Cardinality(V!Waits(x)') \in Nat
        /\ Cardinality(V!Finders(x)) \in Nat
    <3>1. V!Waits(x) \in SUBSET (1..Len(v7.fetch)) /\ Len(v7.fetch) \in Nat
      BY <1>1 DEF V!Waits
    <3>2. V!Waits(x)' \in SUBSET (1..Len(v7'.fetch)) /\ Len(v7'.fetch) \in Nat
      BY <1>1 DEF V!Waits
    <3>3. V!Finders(x) \in SUBSET V!Workers
      BY DEF V!Finders
    <3>. QED  BY <3>1, <3>2, <3>3, SearchCounted
  <2>4. Cardinality(V!Waits(x)') <= Cardinality(V!Finders(x))
    BY <2>1, <2>2, <2>3
  <2>. QED  BY <1>2, <2>4
<1>. QED  BY <1>3, <1>4, SearchCounted DEF V!FindsAreAccounted, V!EmittedOnce

\* What neither finds nor fetches keeps what is said of the finds.
LEMMA SearchWaits ==
  ASSUME DiscoveryInv, v7'.fetch = v7.fetch, v7'.dead = v7.dead, v3' = v3, v11 \subseteq v11',
         \A x \in Names : V!Exists(x) => V!Exists(x)'
  PROVE  V!FindsAreAccounted' /\ V!EmittedOnce'
<1>1. \A x : V!Finders(x)' = V!Finders(x) /\ V!Waits(x)' = V!Waits(x)
  BY DEF V!Finders, V!Waits
<1>2. V!EmittedOnce'
  BY <1>1 DEF DiscoveryInv, V!EmittedOnce
<1>3. \A w \in V!Workers : v3[w] \subseteq Names
  BY DEF DiscoveryInv, V!TypeOK
<1>. QED  BY <1>1, <1>2, <1>3 DEF DiscoveryInv, V!FindsAreAccounted

\* One who is found is found by one worker more, and waits once more.
LEMMA SearchFinds ==
  ASSUME DiscoveryInv, NEW h \in Names, V!Consider(h)
  PROVE  V!TypeOK' /\ V!FindsAreAccounted' /\ V!PoolIsEnriched' /\ V!EmittedOnce'
<1>1. /\ v8' \in V!Call /\ v5' \in Seq(BOOLEAN) /\ Len(v5') <= Bound.observed
      /\ UNCHANGED <<v1, v2, v6, v9, v10, v11>>
  BY SearchConsiders
<1>2. CASE UNCHANGED <<v3, v4, v7>>
  <2>1. V!TypeOK'
    BY <1>1, <1>2 DEF DiscoveryInv, V!TypeOK, V!Exists
  <2>2. V!PoolIsEnriched'
    BY <1>1, <1>2 DEF DiscoveryInv, V!PoolIsEnriched, V!Exists
  <2>. QED  BY <1>1, <1>2, <2>1, <2>2, SearchWaits DEF V!Exists
<1>3. CASE ~(UNCHANGED <<v3, v4, v7>>)
  <2>. DEFINE w == v8.by
              q == [v7 EXCEPT !.fetch = Append(@, h)]
  <2>1. /\ v4 # Bound.budget /\ v4' = v4 + 1 /\ w \in V!Workers
        /\ v3' = [v3 EXCEPT ![w] = @ \cup {h}] /\ h \notin v3[w] /\ v7' = q
    BY <1>3, SearchConsiders DEF V!Call
  <2>2. /\ v7 \in V!Queues /\ v7.fetch \in Seq(Names) /\ q \in V!Queues
        /\ q.fetch = Append(v7.fetch, h) /\ q.dead = v7.dead /\ q.enrich = v7.enrich
    BY QueueTypes DEF DiscoveryInv, V!TypeOK, V!Queues
  <2>. HIDE DEF w, q
  <2>3. /\ v3 \in [V!Workers -> SUBSET Names] /\ v3' \in [V!Workers -> SUBSET Names]
        /\ v3'[w] = v3[w] \cup {h} /\ \A u \in V!Workers \ {w} : v3'[u] = v3[u]
    BY <2>1 DEF DiscoveryInv, V!TypeOK
  <2>4. V!TypeOK'
    <3>1. v4' \in 0..Bound.budget
      BY <2>1, DiscoveryAssumption DEF DiscoveryInv, V!TypeOK
    <3>. QED  BY <1>1, <2>1, <2>2, <2>3, <3>1 DEF DiscoveryInv, V!TypeOK, V!Exists
  <2>5. V!PoolIsEnriched'
    BY <1>1, <2>1, <2>2 DEF DiscoveryInv, V!PoolIsEnriched, V!Exists
  <2>6. \A x \in Names : V!Waits(x)' = IF x = h THEN V!Waits(x) \cup {Len(v7.fetch) + 1} ELSE V!Waits(x)
    BY <2>1, <2>2, QueueGrows
  <2>7. V!FindsAreAccounted'
    <3>1. ASSUME NEW u \in V!Workers, NEW x \in v3'[u] \ v11'
          PROVE  V!Exists(x)' \/ x \in v7'.dead \/ V!Waits(x)' # {}
      <4>1. x \in Names /\ (x = h \/ x \in v3[u] \ v11)
        BY <1>1, <2>3, <3>1
      <4>2. CASE x = h
        BY <2>6, <4>1, <4>2
      <4>3. CASE x # h
        BY <1>1, <2>1, <2>2, <2>6, <4>1, <4>3 DEF DiscoveryInv, V!FindsAreAccounted, V!Exists
      <4>. QED  BY <4>2, <4>3
    <3>. QED  BY <3>1 DEF V!FindsAreAccounted
  <2>8. V!EmittedOnce'
    <3>1. ASSUME NEW x \in Names, x # h
          PROVE  V!Waits(x)' = V!Waits(x) /\ V!Finders(x)' = V!Finders(x)
      BY <2>3, <2>6, <3>1 DEF V!Finders
    <3>2. V!Finders(h)' = V!Finders(h) \cup {w} /\ w \notin V!Finders(h)
      BY <2>1, <2>3 DEF V!Finders
    <3>3. V!Finders(h) \in SUBSET V!Workers
      BY DEF V!Finders
    <3>4. V!Waits(h) \in SUBSET (1..Len(v7.fetch)) /\ Len(v7.fetch) \in Nat
      BY <2>2 DEF V!Waits
    <3>5. /\ IsFiniteSet(V!Finders(h)) /\ IsFiniteSet(V!Waits(h))
          /\ Cardinality(V!Finders(h)) \in Nat /\ Cardinality(V!Waits(h)) \in Nat
      BY <3>3, <3>4, SearchCounted
    <3>6. Cardinality(V!Finders(h)') = Cardinality(V!Finders(h)) + 1
      BY <3>2, <3>5, FS_AddElement
    <3>7. Cardinality(V!Waits(h)') = Cardinality(V!Waits(h)) + 1
      <4>1. Len(v7.fetch) + 1 \notin V!Waits(h) /\ V!Waits(h)' = V!Waits(h) \cup {Len(v7.fetch) + 1}
        BY <2>6, <3>4
      <4>. QED  BY <3>5, <4>1, FS_AddElement
    <3>8. Cardinality(V!Waits(h)) <= Cardinality(V!Finders(h))
      BY SearchCounted DEF DiscoveryInv, V!EmittedOnce
    <3>9. Cardinality(V!Waits(h)') <= Cardinality(V!Finders(h)')
      BY <3>5, <3>6, <3>7, <3>8
    <3>10. ASSUME NEW x \in Names
           PROVE  V!Cardinality(V!Waits(x)') <= V!Cardinality(V!Finders(x)')
      <4>1. CASE x = h
        BY <3>9, <4>1, SearchCounted
      <4>2. CASE x # h
        BY <3>1, <4>2 DEF DiscoveryInv, V!EmittedOnce
      <4>. QED  BY <4>1, <4>2
    <3>. QED  BY <3>10 DEF V!EmittedOnce
  <2>. QED  BY <2>4, <2>5, <2>7, <2>8
<1>. QED  BY <1>2, <1>3

\* What is said of what was found and stored.
FindsInv == V!TypeOK /\ V!FindsAreAccounted /\ V!PoolIsEnriched /\ V!EmittedOnce

\* The calls, the days and the vendors find and store nothing.
LEMMA SearchQuiet ==
  ASSUME DiscoveryInv, UNCHANGED <<v1, v2, v3, v7, v11>>,
         v4' \in 0..Bound.budget, v6' \in 0..Bound.streak, v8' = None \/ v8' \in V!Call,
         v9' \subseteq Bound.vendors, v10' \in [V!Batch -> BOOLEAN], v5' = v5
  PROVE  FindsInv'
<1>1. V!TypeOK'
  BY DEF DiscoveryInv, V!TypeOK, V!Exists
<1>2. V!PoolIsEnriched'
  BY DEF DiscoveryInv, V!PoolIsEnriched, V!Exists
<1>. QED  BY <1>1, <1>2, SearchWaits DEF FindsInv, V!Exists

\* Whatever is found, fetched, lost or forgotten, it is accounted for.
LEMMA FindsKept == DiscoveryInv /\ [V!DNext]_(V!dvars) => FindsInv'
<1>. SUFFICES ASSUME DiscoveryInv, [V!DNext]_(V!dvars) PROVE FindsInv'
  OBVIOUS
<1>t. /\ v1 \in [Names -> {"absent", "fresh", "stale"}] /\ v2 \subseteq {h \in Names : v1[h] # "absent"}
      /\ v7 \in V!Queues /\ v9 \subseteq Bound.vendors /\ v11 \subseteq Names
      /\ v4 \in 0..Bound.budget /\ v6 \in 0..Bound.streak /\ v10 \in [V!Batch -> BOOLEAN]
      /\ v8 = None \/ v8 \in V!Call
  BY DEF DiscoveryInv, V!TypeOK
<1>f. \A by \in V!Workers :
        [by |-> by, left |-> Bound.seen, count |-> 0, new |-> 0] \in V!Call
  BY DiscoveryAssumption DEF V!Call
<1>1. CASE V!RunSeed
  BY <1>1, <1>t, <1>f, SearchQuiet DEF V!RunSeed, V!Workers
<1>2. CASE V!EndSeed
  <2>1. v6' \in 0..Bound.streak
    BY <1>2, <1>t, DiscoveryAssumption DEF V!EndSeed, V!Converged
  <2>2. v10' \in [V!Batch -> BOOLEAN]
    <3>1. \A i \in V!Batch : i # 1 => i - 1 \in V!Batch
      BY DiscoveryAssumption DEF V!Batch
    <3>. DEFINE b == v8.new * Bound.perNew < Bound.observed
    <3>2. v10' = [i \in V!Batch |-> IF i = 1 THEN b ELSE v10[i - 1]] /\ b \in BOOLEAN
      BY <1>2 DEF V!EndSeed
    <3>. HIDE DEF b
    <3>. QED  BY <1>t, <3>1, <3>2
  <2>. QED  BY <1>2, <1>t, <2>1, <2>2, SearchQuiet DEF V!EndSeed
<1>3. CASE V!EndCall
  BY <1>3, <1>t, SearchQuiet DEF V!EndCall
<1>4. CASE V!Rollover
  BY <1>4, <1>t, DiscoveryAssumption, SearchQuiet DEF V!Rollover
<1>5. ASSUME NEW v \in Bound.vendors, V!Reactivate(v)
      PROVE  FindsInv'
  BY <1>5, <1>t, SearchQuiet DEF V!Reactivate
<1>6. ASSUME NEW h \in Names, V!Consider(h)
      PROVE  FindsInv'
  BY <1>6, SearchFinds DEF FindsInv
<1>7. ASSUME NEW h \in Names, V!Expand(h)
      PROVE  FindsInv'
  <2>1. /\ v7' = [v7 EXCEPT !.expand = @ \ {h}] /\ UNCHANGED <<v1, v2, v3, v4, v5, v6, v9, v10, v11>>
        /\ v8' = None \/ v8' \in V!Call
    BY <1>7, <1>f DEF V!Expand, V!Workers
  <2>2. v7' \in V!Queues /\ v7'.fetch = v7.fetch /\ v7'.dead = v7.dead /\ v7'.enrich = v7.enrich
    BY <1>t, <2>1, QueueTypes DEF V!Queues
  <2>3. V!TypeOK'
    BY <2>1, <2>2 DEF DiscoveryInv, V!TypeOK, V!Exists
  <2>4. V!PoolIsEnriched'
    BY <2>1, <2>2 DEF DiscoveryInv, V!PoolIsEnriched, V!Exists
  <2>. QED  BY <2>1, <2>2, <2>3, <2>4, SearchWaits DEF FindsInv, V!Exists
<1>8. ASSUME NEW h \in Names, V!SkipFresh(h)
      PROVE  FindsInv'
  <2>1. /\ v7' = V!Popped /\ v1[h] = "fresh" /\ V!Fetch(h)
        /\ UNCHANGED <<v1, v2, v3, v4, v5, v6, v8, v9, v10, v11>>
    BY <1>8 DEF V!SkipFresh
  <2>2. /\ v7' \in V!Queues /\ v7'.fetch = Tail(v7.fetch)
        /\ v7'.dead = v7.dead /\ v7'.enrich = v7.enrich
    BY <1>t, <2>1, QueueTypes DEF V!Fetch
  <2>3. V!TypeOK'
    BY <2>1, <2>2 DEF DiscoveryInv, V!TypeOK, V!Exists
  <2>4. V!PoolIsEnriched'
    BY <2>1, <2>2 DEF DiscoveryInv, V!PoolIsEnriched, V!Exists
  <2>. QED  BY <2>1, <2>2, <2>3, <2>4, SearchFetches DEF FindsInv, V!Exists
<1>9. ASSUME NEW h \in Names, NEW v \in Bound.vendors, NEW videos \in BOOLEAN, V!FetchOk(h, v, videos)
      PROVE  FindsInv'
  <2>. DEFINE q == [V!Popped EXCEPT !.enrich = @ \cup {h}, !.expand = IF videos THEN @ \cup {h} ELSE @]
  <2>1. /\ v7' = q /\ v1' = [v1 EXCEPT ![h] = "fresh"] /\ V!Fetch(h)
        /\ v9' \subseteq Bound.vendors /\ UNCHANGED <<v2, v3, v4, v5, v6, v8, v10, v11>>
    BY <1>9, <1>t DEF V!FetchOk, V!Asked
  <2>2. /\ q \in V!Queues /\ q.fetch = Tail(v7.fetch)
        /\ q.dead = v7.dead /\ q.enrich = v7.enrich \cup {h}
    BY <1>t, <2>1, QueueTypes DEF V!Fetch, V!Queues
  <2>. HIDE DEF q
  <2>3. /\ v1' \in [Names -> {"absent", "fresh", "stale"}] /\ v1'[h] = "fresh"
        /\ \A x \in Names \ {h} : v1'[x] = v1[x]
    BY <1>t, <2>1
  <2>4. V!TypeOK'
    BY <2>1, <2>2, <2>3 DEF DiscoveryInv, V!TypeOK, V!Exists
  <2>5. V!PoolIsEnriched'
    BY <2>1, <2>2, <2>3 DEF DiscoveryInv, V!PoolIsEnriched, V!Exists
  <2>. QED  BY <2>1, <2>2, <2>3, <2>4, <2>5, SearchFetches DEF FindsInv, V!Exists
<1>10. ASSUME NEW h \in Names, NEW v \in Bound.vendors, V!FetchLost(h, v)
       PROVE  FindsInv'
  <2>1. /\ v7' = V!Popped /\ v11' = v11 \cup {h} /\ V!Fetch(h)
        /\ v9' \subseteq Bound.vendors /\ UNCHANGED <<v1, v2, v3, v4, v5, v6, v8, v10>>
    BY <1>10, <1>t DEF V!FetchLost, V!Asked
  <2>2. /\ v7' \in V!Queues /\ v7'.fetch = Tail(v7.fetch)
        /\ v7'.dead = v7.dead /\ v7'.enrich = v7.enrich
    BY <1>t, <2>1, QueueTypes DEF V!Fetch
  <2>3. V!TypeOK'
    BY <2>1, <2>2 DEF DiscoveryInv, V!TypeOK, V!Exists
  <2>4. V!PoolIsEnriched'
    BY <2>1, <2>2 DEF DiscoveryInv, V!PoolIsEnriched, V!Exists
  <2>. QED  BY <2>1, <2>2, <2>3, <2>4, SearchFetches DEF FindsInv, V!Exists
<1>11. ASSUME NEW h \in Names, V!FetchFails(h)
       PROVE  FindsInv'
  <2>. DEFINE q == [V!Popped EXCEPT !.dead = @ \cup {h}]
  <2>1. /\ v7' = q /\ V!Fetch(h) /\ v9' \subseteq Bound.vendors
        /\ UNCHANGED <<v1, v2, v3, v4, v5, v6, v8, v10, v11>>
    BY <1>11, <1>t DEF V!FetchFails, V!Enabled
  <2>2. /\ q \in V!Queues /\ q.fetch = Tail(v7.fetch)
        /\ q.dead = v7.dead \cup {h} /\ q.enrich = v7.enrich
    BY <1>t, <2>1, QueueTypes DEF V!Fetch, V!Queues
  <2>. HIDE DEF q
  <2>3. V!TypeOK'
    BY <2>1, <2>2 DEF DiscoveryInv, V!TypeOK, V!Exists
  <2>4. V!PoolIsEnriched'
    BY <2>1, <2>2 DEF DiscoveryInv, V!PoolIsEnriched, V!Exists
  <2>. QED  BY <2>1, <2>2, <2>3, <2>4, SearchFetches DEF FindsInv, V!Exists
<1>12. ASSUME NEW h \in Names, NEW ok \in BOOLEAN, V!Enrich(h, ok)
       PROVE  FindsInv'
  <2>1. /\ h \in v7.enrich /\ v7' = [v7 EXCEPT !.enrich = @ \ {h}]
        /\ UNCHANGED <<v3, v4, v5, v6, v8, v9, v10>>
        /\ \/ v1' = [v1 EXCEPT ![h] = "fresh"] /\ v2' = v2 \cup {h} /\ v11' = v11
           \/ v1' = v1 /\ v2' = v2 /\ v11' = v11 \cup {h}
    BY <1>12 DEF V!Enrich
  <2>2. /\ v7' \in V!Queues /\ v7'.fetch = v7.fetch
        /\ v7'.dead = v7.dead /\ v7'.enrich = v7.enrich \ {h}
    BY <1>t, <2>1, QueueTypes DEF V!Queues
  <2>3. /\ v1' \in [Names -> {"absent", "fresh", "stale"}]
        /\ v1' = v1 \/ v1'[h] = "fresh"
        /\ \A x \in Names \ {h} : v1'[x] = v1[x]
    BY <1>t, <2>1
  <2>4. V!TypeOK'
    <3>1. v2' \subseteq {x \in Names : v1'[x] # "absent"} /\ v11' \subseteq Names
      BY <1>t, <2>1, <2>3
    <3>. QED  BY <2>1, <2>2, <2>3, <3>1 DEF DiscoveryInv, V!TypeOK, V!Exists
  <2>5. V!PoolIsEnriched'
    BY <2>1, <2>2, <2>3 DEF DiscoveryInv, V!PoolIsEnriched, V!Exists
  <2>6. \A x \in Names : V!Exists(x) => V!Exists(x)'
    BY <2>3 DEF V!Exists
  <2>. QED  BY <2>1, <2>2, <2>4, <2>5, <2>6, SearchWaits DEF FindsInv
<1>13. ASSUME NEW h \in Names, V!Age(h)
       PROVE  FindsInv'
  <2>1. /\ v1' = [v1 EXCEPT ![h] = "stale"] /\ v1[h] = "fresh"
        /\ UNCHANGED <<v2, v3, v4, v5, v6, v7, v8, v9, v10, v11>>
    BY <1>13 DEF V!Age
  <2>2. /\ v1' \in [Names -> {"absent", "fresh", "stale"}]
        /\ \A x \in Names : v1'[x] # "absent" <=> v1[x] # "absent"
    BY <1>t, <2>1
  <2>3. V!TypeOK' /\ V!PoolIsEnriched' /\ \A x \in Names : V!Exists(x) => V!Exists(x)'
    BY <2>1, <2>2 DEF DiscoveryInv, V!TypeOK, V!PoolIsEnriched, V!Exists
  <2>. QED  BY <2>1, <2>3, SearchWaits DEF FindsInv
<1>14. CASE V!Restart
  <2>1. /\ v7' = [fetch |-> <<>>, enrich |-> {}, expand |-> {}, dead |-> {}]
        /\ v3' = [w \in V!Workers |-> {}] /\ v4' = 0 /\ v5' = <<>> /\ v6' = 0 /\ v8' = None
        /\ v9' = {} /\ v10' = [i \in V!Batch |-> FALSE] /\ UNCHANGED <<v1, v2>>
        /\ v11' = v11 \cup v3["hashtag"] \cup v3["graph"] \cup v7.enrich
    BY <1>14 DEF V!Restart
  <2>2. v7' \in V!Queues /\ v7'.fetch = <<>>
    BY <2>1 DEF V!Queues
  <2>3. v3["hashtag"] \subseteq Names /\ v3["graph"] \subseteq Names /\ v7.enrich \subseteq Names
    BY <1>t DEF DiscoveryInv, V!TypeOK, V!Workers, V!Queues
  <2>4. V!TypeOK'
    <3>1. v11' \subseteq Names
      BY <1>t, <2>1, <2>3
    <3>2. v5' \in Seq(BOOLEAN) /\ Len(v5') <= Bound.observed
      BY <2>1, DiscoveryAssumption
    <3>3. v3' \in [V!Workers -> SUBSET Names] /\ v10' \in [V!Batch -> BOOLEAN]
      BY <2>1
    <3>. QED  BY <1>t, <2>1, <2>2, <3>1, <3>2, <3>3, DiscoveryAssumption DEF V!TypeOK, V!Exists
  <2>5. V!PoolIsEnriched'
    BY <2>1 DEF DiscoveryInv, V!PoolIsEnriched, V!Exists
  <2>6. V!FindsAreAccounted'
    BY <2>1 DEF V!FindsAreAccounted
  <2>7. \A x : V!Waits(x)' = {} /\ V!Finders(x)' = {}
    BY <2>1, <2>2 DEF V!Waits, V!Finders
  <2>8. V!EmittedOnce'
    BY <2>7, SearchCounted DEF V!EmittedOnce
  <2>. QED  BY <2>4, <2>5, <2>6, <2>8 DEF FindsInv
<1>15. CASE UNCHANGED V!dvars
  BY <1>15, <1>t, SearchQuiet DEF V!dvars
<1>. QED
  BY <1>1, <1>2, <1>3, <1>4, <1>5, <1>6, <1>7, <1>8, <1>9, <1>10, <1>11, <1>12, <1>13, <1>14, <1>15
     DEF V!DNext

\* A call that has begun has looked at nobody.
LEMMA CallBegins ==
  ASSUME DiscoveryInv, v8' = None \/ (v8'.left = Bound.seen /\ v8'.new = 0),
         v8' # None /\ v8'.by = "hashtag" => ~V!Converged, UNCHANGED <<v5, v6, v10>>
  PROVE  V!CallInv' /\ V!FewInv'
<1>1. V!FewInv'
  BY DEF DiscoveryInv, V!FewInv
<1>2. V!Cardinality({}) = 0 /\ Len(v5) \in Nat
  BY SearchCounted DEF DiscoveryInv, V!TypeOK
<1>3. V!CallInv'
  <2>1. ASSUME v8' # None
        PROVE  V!Looked' = 0
    BY <2>1, DiscoveryAssumption DEF V!Looked
  <2>. QED  BY <1>2, <2>1 DEF V!CallInv, V!Converged
<1>. QED  BY <1>1, <1>3

\* What a call finds is in the window.
LEMMA CallLooks ==
  ASSUME DiscoveryInv, NEW h \in Names, V!Consider(h)
  PROVE  V!CallInv' /\ V!FewInv'
<1>. DEFINE new == ~V!Exists(h)
            n == Len(v5)
            m == Len(v5')
            k == V!Looked
<1>1. /\ v8 \in V!Call /\ v8 # None /\ v8.left > 0
      /\ v8' # None /\ v8'.by = v8.by /\ v8'.left = v8.left - 1
      /\ v8'.new = IF new THEN v8.new + 1 ELSE v8.new
      /\ v5' = IF Len(v5) < Bound.observed THEN Append(v5, new) ELSE Append(Tail(v5), new)
      /\ UNCHANGED <<v6, v10>>
  BY SearchConsiders
<1>2. v5 \in Seq(BOOLEAN) /\ n \in Nat /\ n <= Bound.observed /\ DOMAIN v5 = 1..n /\ new \in BOOLEAN
  BY DEF DiscoveryInv, V!TypeOK
<1>3. v8.left \in Nat /\ v8.new \in Nat /\ v8.left <= Bound.seen
  BY <1>1, DiscoveryAssumption DEF V!Call
<1>4. /\ k = Bound.seen - v8.left /\ V!Looked' = k + 1 /\ k \in Nat /\ k < Bound.seen
      /\ v8.new <= k /\ k <= n /\ (v8.by = "hashtag" => ~V!Converged)
  BY <1>1, <1>3, DiscoveryAssumption DEF DiscoveryInv, V!CallInv, V!Looked
<1>5. PICK s \in SUBSET V!News : V!Cardinality(s) = v8.new /\ \A i \in s : i > n - k
  BY <1>1 DEF DiscoveryInv, V!CallInv
<1>6. s \in SUBSET (1..n) /\ \A i \in s : v5[i]
  BY <1>2, <1>5 DEF V!News
<1>. HIDE DEF new, n, m, k
\* The positions of what was new move on with the window.
<1>7. PICK d \in {0, 1} : /\ m = n + 1 - d /\ DOMAIN v5' = 1..m /\ v5'[m] = new
                          /\ \A i \in 1..n : i > d => v5'[i - d] = v5[i]
                          /\ n - k >= d
  <2>1. CASE n < Bound.observed
    <3>1. v5' = Append(v5, new)
      BY <1>1, <2>1 DEF n
    <3>2. m = n + 1 - 0 /\ DOMAIN v5' = 1..m /\ v5'[m] = new /\ \A i \in 1..n : v5'[i - 0] = v5[i]
      BY <1>2, <3>1 DEF n, m
    <3>3. n - k >= 0
      BY <1>2, <1>4
    <3>. QED  BY <3>2, <3>3
  <2>2. CASE ~(n < Bound.observed)
    <3>1. n = Bound.observed /\ n > k /\ n - k >= 1
      BY <1>2, <1>4, <2>2, DiscoveryAssumption
    <3>2. v5' = Append(Tail(v5), new) /\ v5 # <<>>
      BY <1>1, <1>2, <1>4, <2>2, <3>1 DEF n
    <3>3. /\ Tail(v5) \in Seq(BOOLEAN) /\ Len(Tail(v5)) = n - 1
          /\ \A i \in 1..n - 1 : Tail(v5)[i] = v5[i + 1]
      BY <1>2, <3>2 DEF n
    <3>. DEFINE t == Tail(v5)
    <3>4. t \in Seq(BOOLEAN) /\ Len(t) = n - 1 /\ v5' = Append(t, new)
      BY <3>2, <3>3
    <3>. HIDE DEF t
    <3>5. m = n /\ DOMAIN v5' = 1..m /\ v5'[m] = new /\ \A i \in 1..n - 1 : v5'[i] = t[i]
      BY <1>2, <3>1, <3>4 DEF m
    <3>6. \A i \in 1..n : i > 1 => v5'[i - 1] = v5[i]
      <4>1. ASSUME NEW i \in 1..n, i > 1
            PROVE  i - 1 \in 1..n - 1 /\ (i - 1) + 1 = i
        BY <1>2, <4>1
      <4>. QED  BY <3>3, <3>5, <4>1 DEF t
    <3>7. m = n + 1 - 1
      BY <1>2, <3>5
    <3>. QED  BY <3>1, <3>5, <3>6, <3>7
  <2>. QED  BY <2>1, <2>2
<1>. DEFINE old == {i + (0 - d) : i \in s}
<1>8. Cardinality(old) = Cardinality(s) /\ IsFiniteSet(old) /\ Cardinality(s) = v8.new
  <2>1. n \in Nat /\ 0 - d \in Int /\ s \in SUBSET (1..n)
    BY <1>2, <1>6
  <2>2. Cardinality(old) = Cardinality(s) /\ IsFiniteSet(old)
    BY <2>1, ShiftedCounts, Zenon
  <2>. QED  BY <1>5, <2>2, SearchCounted
<1>9. \A j \in old : j \in 1..m /\ j # m /\ v5'[j] /\ j > m - (k + 1)
  <2>1. ASSUME NEW i \in s
        PROVE  /\ i - d \in 1..m /\ i - d # m /\ v5'[i - d] /\ i - d > m - (k + 1)
               /\ i + (0 - d) = i - d
    <3>1. i \in 1..n /\ i > n - k /\ v5[i]
      BY <1>5, <1>6 DEF n, k
    <3>2. i \in Int /\ i > d
      BY <1>2, <1>4, <1>7, <3>1
    <3>3. v5'[i - d]
      BY <1>7, <3>1, <3>2
    <3>. QED  BY <1>2, <1>4, <1>7, <3>1, <3>2, <3>3
  <2>. QED  BY <2>1
<1>. HIDE DEF old
<1>10. m \in Nat /\ k + 1 <= m /\ m > m - (k + 1) /\ m \in 1..m
  <2>1. n \in Nat /\ k \in Nat /\ d \in {0, 1} /\ m = n + 1 - d /\ n - k >= d
    BY <1>2, <1>4, <1>7
  <2>. QED  BY <2>1
<1>11. \E t \in SUBSET V!News' : V!Cardinality(t) = v8'.new /\ \A i \in t : i > m - (k + 1)
  <2>1. CASE new
    <3>. DEFINE t == old \cup {m}
    <3>1. Cardinality(t) = v8'.new
      <4>1. m \notin old /\ v8'.new = v8.new + 1 /\ v8.new = Cardinality(old)
        BY <1>1, <1>8, <1>9, <2>1
      <4>2. Cardinality(t) = Cardinality(old) + 1
        BY <1>8, <4>1, FS_AddElement
      <4>. QED  BY <4>1, <4>2
    <3>2. t \in SUBSET V!News' /\ \A i \in t : i > m - (k + 1)
      BY <1>7, <1>9, <1>10, <2>1 DEF V!News
    <3>. QED  BY <3>1, <3>2, SearchCounted
  <2>2. CASE ~new
    <3>1. old \in SUBSET V!News' /\ Cardinality(old) = v8'.new
      BY <1>1, <1>7, <1>8, <1>9, <2>2 DEF V!News
    <3>. QED  BY <1>9, <3>1, SearchCounted
  <2>. QED  BY <2>1, <2>2
<1>12. v8'.new <= k + 1
  BY <1>1, <1>3, <1>4
<1>13. V!CallInv'
  <2>1. V!Looked' = k + 1 /\ Len(v5') = m /\ (v8'.by = "hashtag" => ~V!Converged')
    BY <1>1, <1>4 DEF m, V!Converged
  <2>. QED  BY <1>10, <1>11, <1>12, <2>1 DEF V!CallInv
<1>14. V!FewInv'
  BY <1>1 DEF DiscoveryInv, V!FewInv
<1>. QED  BY <1>13, <1>14

\* A batch that counts for the streak found few.
LEMMA CallEnds ==
  ASSUME DiscoveryInv, V!EndSeed
  PROVE  V!CallInv' /\ V!FewInv'
<1>1. /\ v8 # None /\ v8.by = "hashtag" /\ v8' = None
      /\ v6' = IF V!Converged THEN v6 ELSE IF V!Low THEN v6 + 1 ELSE 0
      /\ v10' = [i \in V!Batch |-> IF i = 1 THEN v8.new * Bound.perNew < Bound.observed ELSE v10[i - 1]]
  BY DEF V!EndSeed
<1>2. ~V!Converged /\ v6 \in 0..Bound.streak /\ v8 \in V!Call
  BY <1>1 DEF DiscoveryInv, V!CallInv, V!TypeOK
<1>3. v6 < Bound.streak /\ v6 \in Nat /\ v8.new \in Nat
  BY <1>2, DiscoveryAssumption DEF V!Converged, V!Call
<1>4. V!Low => v8.new * Bound.perNew < Bound.observed
  <2>1. v5 \in Seq(BOOLEAN) /\ Len(v5) \in Nat /\ Len(v5) <= Bound.observed /\ DOMAIN v5 = 1..Len(v5)
    BY DEF DiscoveryInv, V!TypeOK
  <2>2. PICK s \in SUBSET V!News : V!Cardinality(s) = v8.new
    BY <1>1 DEF DiscoveryInv, V!CallInv
  <2>. DEFINE c == V!Cardinality(V!News)
  <2>3. V!News \in SUBSET (1..Len(v5))
    BY <2>1 DEF V!News
  <2>4. v8.new <= c /\ c \in Nat
    BY <2>1, <2>2, <2>3, SearchCounted, FS_Subset
  <2>5. V!Low => c * Bound.perNew < Len(v5)
    BY DEF V!Low
  <2>. HIDE DEF c
  <2>6. v8.new * Bound.perNew <= c * Bound.perNew
    <3>1. ASSUME NEW a \in Nat, NEW b \in Nat, NEW p \in Nat, a <= b
          PROVE  a * p <= b * p
      BY <3>1
    <3>. QED  BY <1>3, <2>4, <3>1, DiscoveryAssumption
  <2>7. v8.new * Bound.perNew \in Nat /\ c * Bound.perNew \in Nat
    BY <1>3, <2>4, DiscoveryAssumption
  <2>. QED  BY <2>1, <2>5, <2>6, <2>7, DiscoveryAssumption
<1>5. V!FewInv'
  <2>1. CASE V!Low
    <3>1. v6' = v6 + 1
      BY <1>1, <1>2, <2>1
    <3>2. ASSUME NEW i \in 1..v6'
          PROVE  v10'[i]
      <4>1. i \in V!Batch /\ (i # 1 => i - 1 \in 1..v6)
        BY <1>3, <3>1, DiscoveryAssumption DEF V!Batch
      <4>2. CASE i = 1
        BY <1>1, <1>4, <2>1, <4>1, <4>2
      <4>3. CASE i # 1
        BY <1>1, <4>1, <4>3 DEF DiscoveryInv, V!FewInv
      <4>. QED  BY <4>2, <4>3
    <3>. QED  BY <3>2 DEF V!FewInv
  <2>2. CASE ~V!Low
    BY <1>1, <1>2, <2>2 DEF V!FewInv
  <2>. QED  BY <2>1, <2>2
<1>. QED  BY <1>1, <1>5 DEF V!CallInv

\* A streak is of batches that found few, whatever else is done.
LEMMA CallsKept == DiscoveryInv /\ [V!DNext]_(V!dvars) => V!CallInv' /\ V!FewInv'
<1>. SUFFICES ASSUME DiscoveryInv, [V!DNext]_(V!dvars) PROVE V!CallInv' /\ V!FewInv'
  OBVIOUS
<1>1. CASE V!RunSeed
  BY <1>1, CallBegins DEF V!RunSeed
<1>2. CASE V!EndSeed
  BY <1>2, CallEnds
<1>3. CASE V!EndCall
  BY <1>3, CallBegins DEF V!EndCall
<1>4. ASSUME NEW h \in Names, V!Expand(h)
      PROVE  V!CallInv' /\ V!FewInv'
  BY <1>4, CallBegins DEF V!Expand
<1>5. ASSUME NEW h \in Names, V!Consider(h)
      PROVE  V!CallInv' /\ V!FewInv'
  BY <1>5, CallLooks
<1>6. CASE V!Restart
  BY <1>6 DEF V!Restart, V!CallInv, V!FewInv
<1>7. CASE UNCHANGED <<v5, v6, v8, v10>>
  BY <1>7 DEF DiscoveryInv, V!CallInv, V!FewInv, V!News, V!Looked, V!Converged
<1>8. ASSUME NEW h \in Names, NEW v \in Bound.vendors, NEW b \in BOOLEAN,
             V!FetchLost(h, v) \/ V!FetchOk(h, v, b) \/ V!Enrich(h, b)
      PROVE  UNCHANGED <<v5, v6, v8, v10>>
  BY <1>8 DEF V!FetchLost, V!FetchOk, V!Enrich
<1>9. ASSUME NEW h \in Names, V!SkipFresh(h) \/ V!FetchFails(h) \/ V!Age(h)
      PROVE  UNCHANGED <<v5, v6, v8, v10>>
  BY <1>9 DEF V!SkipFresh, V!FetchFails, V!Age
<1>10. ASSUME V!Rollover \/ (\E v \in Bound.vendors : V!Reactivate(v)) \/ UNCHANGED V!dvars
       PROVE  UNCHANGED <<v5, v6, v8, v10>>
  BY <1>10 DEF V!Rollover, V!Reactivate, V!dvars
<1>11. ASSUME NEW h \in Names, NEW ok \in BOOLEAN, V!Enrich(h, ok)
       PROVE  UNCHANGED <<v5, v6, v8, v10>>
  BY <1>11 DEF V!Enrich
<1>. QED
  BY <1>1, <1>2, <1>3, <1>4, <1>5, <1>6, <1>7, <1>8, <1>9, <1>10, <1>11 DEF V!DNext

\* The collector keeps its invariant.
LEMMA DiscoveryKeeps == DiscoveryInv /\ [V!DNext]_(V!dvars) => DiscoveryInv'
BY FindsKept, CallsKept DEF DiscoveryInv, FindsInv

\* The search has ended only where the last batches found few.
LEMMA DiscoveryEnds == DiscoveryInv => V!ConvergedFoundLittle
BY DiscoveryAssumption DEF DiscoveryInv, V!FewInv, V!ConvergedFoundLittle, V!Converged, V!Batch

-------------------------------------------------------------------------------
(* The sequences of mails, MailSequence *)
Q == INSTANCE MailSequence WITH
  Emails <- Names, Delays <- Bound.delays, Cap <- Bound.warmup, MinSent <- Bound.minSent,
  PerMail <- Bound.perMail, MaxDay <- Bound.lastMail, day <- v1, since <- v2, people <- v3,
  suppressed <- v4, gate <- v5, counted <- v6, total <- v7, paused <- v8, mailed <- v9,
  today <- v10, broken <- v11, left <- v12, lost <- v13

ASSUME SequenceAssumption ==
  /\ IsFiniteSet(Names) /\ Bound.lastMail \in Nat
  /\ Bound.delays \in Seq(Nat) /\ Bound.warmup \in Seq(Nat) /\ Len(Bound.warmup) > Bound.lastMail
  /\ \A i, j \in DOMAIN Bound.warmup : i <= j => Bound.warmup[i] <= Bound.warmup[j]
  /\ None \notin Q!Gate \cup Q!Reasons

\* Who gets which mail, and how many.
DripInv ==
  /\ Q!TypeOK /\ Q!EachMailOnce /\ Q!SequenceInv /\ Q!BatchInv /\ Q!CountInv /\ Q!LeftInv

\* A number of addresses.
LEMMA AddressesCounted ==
  /\ \A s \in SUBSET Names : Q!Cardinality(s) \in Nat
  /\ \A s \in SUBSET Names : \A t \in SUBSET s : Q!Cardinality(t) <= Q!Cardinality(s)
  /\ Q!Cardinality({}) = 0
<1>1. \A s : Q!Cardinality(s) = Cardinality(s)
  BY DEF Q!Cardinality, Cardinality
<1>2. \A s \in SUBSET Names : IsFiniteSet(s)
  BY SequenceAssumption, FS_Subset
<1>. QED  BY <1>1, <1>2, FS_Subset, FS_CardinalityType, FS_EmptySet

\* The warm-up of a day.
LEMMA WarmsUp ==
  ASSUME Q!TypeOK, v2 <= v1
  PROVE  /\ v1 \in Nat /\ v2 \in Nat /\ v1 - v2 + 1 \in DOMAIN Bound.warmup
         /\ Q!WarmupCap \in Nat
<1>1. v1 \in 0..Bound.lastMail /\ v2 \in 0..Bound.lastMail
  BY DEF Q!TypeOK, Q!Days
<1>2. /\ Bound.lastMail \in Nat /\ Bound.warmup \in Seq(Nat)
      /\ Len(Bound.warmup) \in Nat /\ Len(Bound.warmup) > Bound.lastMail
  BY SequenceAssumption
<1>3. v1 - v2 + 1 \in 1..Len(Bound.warmup)
  BY <1>1, <1>2
<1>4. DOMAIN Bound.warmup = 1..Len(Bound.warmup) /\ Bound.warmup[v1 - v2 + 1] \in Nat
  BY <1>2, <1>3
<1>. QED  BY <1>1, <1>2, <1>3, <1>4 DEF Q!WarmupCap

\* No mail has gone out.
LEMMA DripBegins == Q!QInit => DripInv
<1>. SUFFICES ASSUME Q!QInit PROVE DripInv
  OBVIOUS
<1>1. Q!TypeOK
  <2>1. Q!Nobody \in Q!Person
    <3>1. 0 \in Q!Steps
      <4>1. Len(Bound.delays) \in Nat
        BY SequenceAssumption
      <4>. QED  BY <4>1 DEF Q!Steps
    <3>. QED  BY <3>1 DEF Q!Nobody, Q!Person, Q!Statuses
  <2>2. 0 \in Q!Days
    BY SequenceAssumption DEF Q!Days
  <2>3. <<>> \in Seq(Q!Steps)
    OBVIOUS
  <2>. QED  BY <2>1, <2>2, <2>3 DEF Q!QInit, Q!TypeOK
<1>2. Q!Nobody.status = "none"
  BY DEF Q!Nobody
<1>3. Q!CountInv
  BY <1>1, WarmsUp DEF Q!QInit, Q!CountInv
<1>. QED
  BY <1>1, <1>2, <1>3 DEF DripInv, Q!QInit, Q!EachMailOnce, Q!SequenceInv, Q!BatchInv, Q!LeftInv

\* Who is stopped is stopped, and the others are as they were.
LEMMA StopsThem ==
  ASSUME v3 \in [Names -> Q!Person], NEW es, v3' = Q!Stop(v3, es)
  PROVE  /\ v3' \in [Names -> Q!Person]
         /\ \A e \in Names : e \notin es => v3'[e] = v3[e]
         /\ \A e \in es \cap Names : v3'[e].status = "stopped" /\ v3'[e].step = v3[e].step
<1>1. ASSUME NEW p \in Q!Person
      PROVE  /\ [p EXCEPT !.status = "stopped"] \in Q!Person
             /\ [p EXCEPT !.status = "stopped"].status = "stopped"
             /\ [p EXCEPT !.status = "stopped"].step = p.step
  BY <1>1 DEF Q!Person, Q!Statuses
<1>2. v3' = [e \in Names |-> IF e \in es THEN [v3[e] EXCEPT !.status = "stopped"] ELSE v3[e]]
  BY DEF Q!Stop
<1>. QED  BY <1>1, <1>2

\* After a mail comes the next step, or none.
LEMMA Advances ==
  ASSUME Q!TypeOK, NEW p \in Q!Person
  PROVE  /\ Q!Advance(p) \in Q!Person
         /\ Q!Advance(p).status = "done" \/ (Q!Advance(p).status = p.status /\ Q!Advance(p).step = p.step + 1)
<1>1. p.step \in 0..Len(Bound.delays) /\ p.due \in Nat /\ Len(Bound.delays) \in Nat
  BY SequenceAssumption DEF Q!Person, Q!Steps
<1>2. CASE p.step = Len(Bound.delays)
  BY <1>2 DEF Q!Advance, Q!Person, Q!Statuses
<1>3. CASE p.step # Len(Bound.delays)
  <2>. DEFINE d == v1 + Bound.delays[p.step + 1]
  <2>1. d \in Nat
    BY <1>1, <1>3, SequenceAssumption DEF Q!TypeOK, Q!Days
  <2>2. p.step + 1 \in Q!Steps
    BY <1>1, <1>3 DEF Q!Steps
  <2>3. Q!Advance(p) = [p EXCEPT !.step = @ + 1, !.due = d]
    BY <1>3 DEF Q!Advance
  <2>. HIDE DEF d
  <2>. QED  BY <2>1, <2>2, <2>3 DEF Q!Person
<1>. QED  BY <1>2, <1>3

\* A batch goes out to those who are in it and have not stopped, in their turn.
LEMMA DripDelivers ==
  ASSUME DripInv, NEW es \in SUBSET Q!ToMail, NEW stopped \in SUBSET Q!ToStop,
         v5 # None, Q!Deliver(es, stopped), UNCHANGED <<v1, v2, v4, v12>>, v13 \subseteq v13'
  PROVE  /\ v3' \in [Names -> Q!Person] /\ v9' \in [Names -> Seq(Q!Steps)] /\ v5' = None
         /\ es \subseteq Names
         /\ \A e \in Names : v9'[e] # v9[e] => e \in es /\ v3[e].status = "active" /\ ~Q!Suppressed(e)
         /\ Q!EachMailOnce' /\ Q!SequenceInv' /\ Q!LeftInv'
<1>1. /\ v3 \in [Names -> Q!Person] /\ v9 \in [Names -> Seq(Q!Steps)] /\ v5 \in Q!Gate
      /\ v5.batch \subseteq Names \X Q!Steps /\ Q!TypeOK
  BY DEF DripInv, Q!TypeOK, Q!Gate
<1>2. Q!InBatch \subseteq Names
  BY <1>1 DEF Q!InBatch
<1>3. \A e \in es \cup stopped : e \in Names /\ v3[e].status = "active"
  BY <1>2 DEF Q!ToMail, Q!ToStop
<1>4. \A e \in es : ~Q!Suppressed(e) /\ e \in Q!InBatch
  BY DEF Q!ToMail
<1>. DEFINE Turn(e) == (CHOOSE m \in v5.batch : m[1] = e)[2]
<1>5. \A e \in es : Turn(e) = v3[e].step /\ v3[e].step \in Q!Steps
  <2>1. ASSUME NEW e \in es
        PROVE  Turn(e) = v3[e].step
    <3>. DEFINE m == CHOOSE m \in v5.batch : m[1] = e
    <3>1. m \in v5.batch /\ m[1] = e
      BY <1>4 DEF Q!InBatch
    <3>. HIDE DEF m
    <3>2. v3[m[1]].step = m[2]
      BY <1>3, <3>1 DEF DripInv, Q!BatchInv
    <3>. QED  BY <3>1, <3>2 DEF m
  <2>. QED  BY <1>1, <1>3, <2>1 DEF Q!Person
<1>6. v9' = [e \in Names |-> IF e \in es THEN Append(v9[e], Turn(e)) ELSE v9[e]] /\ v5' = None
  BY DEF Q!Deliver
<1>. HIDE DEF Turn
<1>7. /\ \A e \in es : v9'[e] = Append(v9[e], v3[e].step)
      /\ \A e \in Names \ es : v9'[e] = v9[e]
      /\ v9' \in [Names -> Seq(Q!Steps)]
  <2>1. \A e \in es : v9'[e] = Append(v9[e], v3[e].step)
    BY <1>3, <1>5, <1>6
  <2>2. \A e \in Names \ es : v9'[e] = v9[e]
    BY <1>6
  <2>3. \A e \in es : Append(v9[e], v3[e].step) \in Seq(Q!Steps)
    BY <1>1, <1>3, <1>5
  <2>4. \A e \in Names : v9'[e] \in Seq(Q!Steps)
    BY <1>1, <2>1, <2>2, <2>3
  <2>. QED  BY <1>6, <2>1, <2>2, <2>4
<1>8. \A e \in Names : v3'[e] = IF e \in es THEN Q!Advance(v3[e]) ELSE Q!Stop(v3, stopped)[e]
  BY DEF Q!Deliver
<1>9. /\ \A e \in es : v3'[e] = Q!Advance(v3[e])
      /\ \A e \in Names \ es : v3'[e] = v3[e] \/ v3'[e].status = "stopped"
      /\ v3' \in [Names -> Q!Person]
  <2>1. ASSUME NEW p \in Q!Person
        PROVE  /\ [p EXCEPT !.status = "stopped"] \in Q!Person
               /\ [p EXCEPT !.status = "stopped"].status = "stopped"
    BY <2>1 DEF Q!Person, Q!Statuses
  <2>2. \A e \in Names : Q!Stop(v3, stopped)[e] = IF e \in stopped THEN [v3[e] EXCEPT !.status = "stopped"]
                                                                   ELSE v3[e]
    BY DEF Q!Stop
  <2>3. \A e \in es : v3'[e] = Q!Advance(v3[e]) /\ v3'[e] \in Q!Person
    BY <1>1, <1>3, <1>8, Advances
  <2>4. \A e \in Names \ es : (v3'[e] = v3[e] \/ v3'[e].status = "stopped") /\ v3'[e] \in Q!Person
    <3>1. ASSUME NEW e \in Names \ es
          PROVE  (v3'[e] = v3[e] \/ v3'[e].status = "stopped") /\ v3'[e] \in Q!Person
      <4>1. v3[e] \in Q!Person
        BY <1>1
      <4>2. v3'[e] = v3[e] \/ v3'[e] = [v3[e] EXCEPT !.status = "stopped"]
        BY <1>8, <2>2
      <4>. QED  BY <2>1, <4>1, <4>2
    <3>. QED  BY <3>1
  <2>5. \A e \in Names : v3'[e] \in Q!Person
    BY <2>3, <2>4
  <2>6. v3' = [e \in Names |-> v3'[e]]
    BY DEF Q!Deliver
  <2>. QED  BY <2>3, <2>4, <2>5, <2>6
<1>10. \A e \in es : v3'[e].status = "done" \/ (v3'[e].status = "active" /\ v3'[e].step = v3[e].step + 1)
  BY <1>1, <1>3, <1>9, Advances
<1>11. ASSUME NEW e \in Names \ v13'
       PROVE  /\ \A i \in DOMAIN v9'[e] : v9'[e][i] = i - 1
              /\ v3'[e].status = "none" => v9'[e] = <<>>
              /\ v3'[e].status = "active" => Len(v9'[e]) = v3'[e].step
  <2>1. /\ \A i \in DOMAIN v9[e] : v9[e][i] = i - 1
        /\ v3[e].status = "none" => v9[e] = <<>>
        /\ v3[e].status = "active" => Len(v9[e]) = v3[e].step
        /\ v9[e] \in Seq(Q!Steps)
    BY <1>1, <1>11 DEF DripInv, Q!EachMailOnce, Q!SequenceInv
  <2>2. CASE e \in es
    <3>1. v9'[e] = Append(v9[e], v3[e].step) /\ Len(v9[e]) = v3[e].step /\ v3[e].step \in Q!Steps
      BY <1>3, <1>5, <1>7, <2>1, <2>2
    <3>2. Len(v9'[e]) = v3[e].step + 1 /\ \A i \in DOMAIN v9'[e] : v9'[e][i] = i - 1
      <4>. DEFINE t == v9[e]
                  k == v3[e].step
      <4>1. /\ t \in Seq(Q!Steps) /\ k \in Q!Steps /\ Len(t) = k /\ v9'[e] = Append(t, k)
            /\ \A i \in DOMAIN t : t[i] = i - 1
        BY <2>1, <3>1
      <4>2. k \in Nat
        BY <4>1
      <4>. HIDE DEF t, k
      <4>3. Len(v9'[e]) = k + 1 /\ \A i \in DOMAIN v9'[e] : v9'[e][i] = i - 1
        BY <4>1, <4>2
      <4>. QED  BY <4>3 DEF k
    <3>. QED  BY <1>10, <2>2, <3>2
  <2>3. CASE e \notin es
    BY <1>7, <1>9, <2>1, <2>3
  <2>. QED  BY <2>2, <2>3
<1>12. Q!EachMailOnce' /\ Q!SequenceInv'
  BY <1>11 DEF Q!EachMailOnce, Q!SequenceInv
<1>13. Q!LeftInv'
  <2>1. ASSUME NEW e \in v12' \ v13', ~Q!Suppressed(e)'
        PROVE  v3'[e].status \notin {"none", "active"}
    <3>1. /\ e \in Names /\ e \in v12 \ v13 /\ ~Q!Suppressed(e)
      BY <2>1 DEF DripInv, Q!TypeOK, Q!Suppressed
    <3>2. v3[e].status \notin {"none", "active"} /\ e \notin es
      BY <1>3, <3>1 DEF DripInv, Q!LeftInv
    <3>. QED  BY <1>9, <3>1, <3>2
  <2>. QED  BY <2>1 DEF Q!LeftInv
<1>14. \A e \in Names : v9'[e] # v9[e] => e \in es /\ v3[e].status = "active" /\ ~Q!Suppressed(e)
  BY <1>3, <1>4, <1>7
<1>. QED  BY <1>3, <1>6, <1>7, <1>9, <1>12, <1>13, <1>14

\* What a batch that waits says stays true while the day, the count and the steps do.
LEMMA BatchStays ==
  ASSUME DripInv, v5' = None \/ (v5 # None /\ v5'.batch = v5.batch), v6' = v6, v1' = v1, v2' = v2,
         v3' \in [Names -> Q!Person],
         \A e \in Names : v3[e].status # "none" =>
           /\ v3'[e].status # "none"
           /\ v3'[e].status = "active" => v3'[e].step = v3[e].step /\ v3[e].status = "active"
  PROVE  Q!BatchInv'
<1>. SUFFICES ASSUME v5' # None PROVE Q!BatchInv'
  BY DEF Q!BatchInv
<1>1. v5 # None /\ v5'.batch = v5.batch /\ v5.batch \subseteq Names \X Q!Steps
  BY DEF DripInv, Q!TypeOK, Q!Gate
<1>2. Q!InBatch' = Q!InBatch /\ Q!WarmupCap' = Q!WarmupCap
  BY <1>1 DEF Q!InBatch, Q!WarmupCap
<1>3. \A m \in v5.batch : m[1] \in Names
  BY <1>1
<1>. QED  BY <1>1, <1>2, <1>3 DEF DripInv, Q!BatchInv

\* What happens to one person: enrolled, answering, stopped, or suppressed.
LEMMA DripPerson ==
  ASSUME DripInv, NEW p \in Names, v3' \in [Names -> Q!Person],
         \A e \in Names \ {p} : v3'[e] = v3[e],
         v4' \in [Names -> Q!Reasons \cup {None}], \A e \in Names : Q!Suppressed(e) => Q!Suppressed(e)',
         UNCHANGED <<v1, v2, v5, v6, v7, v8, v9, v10, v11>>,
         v12' \subseteq v12 \cup {p}, v13' \subseteq v13 \cup {p}, v13 \subseteq v13',
         \/ v3'[p] = v3[p]
         \/ v3'[p].status \in {"replied", "stopped"}
         \/ v3[p].status = "none" /\ v3'[p].status = "active" /\ v3'[p].step = 0 /\ ~Q!Suppressed(p),
         p \in v12' \ v12 =>
           p \in v13' \/ Q!Suppressed(p)' \/ v3'[p].status \notin {"none", "active"}
  PROVE  DripInv'
<1>1. Q!TypeOK'
  <2>1. v12' \subseteq Names /\ v13' \subseteq Names
    BY DEF DripInv, Q!TypeOK
  <2>. QED  BY <2>1 DEF DripInv, Q!TypeOK
<1>2. Q!EachMailOnce'
  BY DEF DripInv, Q!EachMailOnce
<1>3. Q!SequenceInv'
  <2>1. ASSUME NEW e \in Names \ v13'
        PROVE  /\ v3'[e].status = "none" => v9[e] = <<>>
               /\ v3'[e].status = "active" => Len(v9[e]) = v3'[e].step
    <3>1. /\ v3[e].status = "none" => v9[e] = <<>>
          /\ v3[e].status = "active" => Len(v9[e]) = v3[e].step
      BY <2>1 DEF DripInv, Q!SequenceInv
    <3>2. CASE e = p
      BY <3>1, <3>2
    <3>3. CASE e # p
      BY <2>1, <3>1, <3>3
    <3>. QED  BY <3>2, <3>3
  <2>. QED  BY <2>1 DEF Q!SequenceInv
<1>4. Q!BatchInv'
  <2>1. \A e \in Names : v3[e].status # "none" =>
          /\ v3'[e].status # "none"
          /\ v3'[e].status = "active" => v3'[e].step = v3[e].step /\ v3[e].status = "active"
    OBVIOUS
  <2>2. v5 = None \/ (v5 # None /\ v5'.batch = v5.batch)
    OBVIOUS
  <2>. QED  BY <2>1, <2>2, BatchStays
<1>5. Q!CountInv'
  BY DEF DripInv, Q!CountInv, Q!WarmupCap
<1>6. Q!LeftInv'
  <2>1. ASSUME NEW e \in v12' \ v13', ~Q!Suppressed(e)'
        PROVE  v3'[e].status \notin {"none", "active"}
    <3>1. CASE e \in v12
      <4>1. e \in Names /\ ~Q!Suppressed(e) /\ e \notin v13
        BY <2>1, <3>1 DEF DripInv, Q!TypeOK
      <4>2. v3[e].status \notin {"none", "active"}
        BY <3>1, <4>1 DEF DripInv, Q!LeftInv
      <4>. QED  BY <4>1, <4>2
    <3>2. CASE e \notin v12
      BY <2>1, <3>2
    <3>. QED  BY <3>1, <3>2
  <2>. QED  BY <2>1 DEF Q!LeftInv
<1>. QED  BY <1>1, <1>2, <1>3, <1>4, <1>5, <1>6 DEF DripInv

\* A batch is decided on, or dropped.
LEMMA DripGate ==
  ASSUME DripInv, UNCHANGED <<v1, v2, v3, v4, v6, v7, v9, v10, v11, v12, v13>>, v8' \in BOOLEAN,
         v5' = None \/ (v5 # None /\ v5' \in Q!Gate /\ v5'.batch = v5.batch)
  PROVE  DripInv'
<1>1. Q!TypeOK'
  BY DEF DripInv, Q!TypeOK
<1>2. Q!BatchInv'
  <2>1. v3' \in [Names -> Q!Person]
    BY DEF DripInv, Q!TypeOK
  <2>. QED  BY <2>1, BatchStays
<1>3. Q!EachMailOnce' /\ Q!SequenceInv' /\ Q!CountInv' /\ Q!LeftInv'
  BY DEF DripInv, Q!EachMailOnce, Q!SequenceInv, Q!CountInv, Q!WarmupCap, Q!LeftInv, Q!Suppressed
<1>. QED  BY <1>1, <1>2, <1>3 DEF DripInv

\* A batch is built of those who are due, as many as the day has room for.
LEMMA DripBuilds ==
  ASSUME DripInv, Q!BuildBatch
  PROVE  DripInv'
<1>. DEFINE due == {e \in Names : Q!Fit(e) /\ ~Q!Suppressed(e)}
            gone == {e \in Names : Q!Fit(e) /\ Q!Suppressed(e)}
            room == Q!RemainingToday
<1>1. /\ v5 = None /\ UNCHANGED <<v1, v2, v4, v6, v7, v8, v9, v10, v11, v12, v13>>
      /\ \E es \in SUBSET due, stopped \in SUBSET gone :
           /\ Q!Cardinality(es) = IF Q!Cardinality(due) < room THEN Q!Cardinality(due) ELSE room
           /\ v3' = Q!Stop(v3, stopped)
           /\ v5' = IF es = {} THEN None
                    ELSE [state |-> "PENDING", batch |-> {<<e, v3[e].step>> : e \in es}]
  BY DEF Q!BuildBatch, Q!History
<1>2. PICK es \in SUBSET due, stopped \in SUBSET gone :
           /\ Q!Cardinality(es) = IF Q!Cardinality(due) < room THEN Q!Cardinality(due) ELSE room
           /\ v3' = Q!Stop(v3, stopped)
           /\ v5' = IF es = {} THEN None
                    ELSE [state |-> "PENDING", batch |-> {<<e, v3[e].step>> : e \in es}]
  BY <1>1
<1>3. /\ v3 \in [Names -> Q!Person] /\ es \subseteq Names /\ stopped \subseteq Names /\ Q!TypeOK
      /\ \A e \in es : e \notin stopped /\ v3[e].status = "active"
      /\ v6 \in Nat
  BY DEF DripInv, Q!TypeOK, Q!Fit
<1>4. Q!WarmupCap \in Nat
  BY WarmsUp DEF DripInv, Q!CountInv
<1>5. room \in Nat /\ (room > 0 => v6 + room = Q!WarmupCap)
  BY <1>3, <1>4 DEF Q!RemainingToday
<1>6. Q!Cardinality(es) <= room /\ Q!Cardinality(es) \in Nat /\ (Q!Cardinality(es) = 0 => es = {})
  <2>1. Q!Cardinality(due) \in Nat /\ Q!Cardinality(es) \in Nat
    BY AddressesCounted
  <2>2. Q!Cardinality(es) = 0 => es = {}
    <3>1. Q!Cardinality(es) = Cardinality(es)
      BY DEF Q!Cardinality, Cardinality
    <3>2. IsFiniteSet(es)
      BY <1>3, SequenceAssumption, FS_Subset
    <3>. QED  BY <3>1, <3>2, FS_EmptySet
  <2>3. Q!Cardinality(es) <= room
    BY <1>2, <1>5, <2>1
  <2>. QED  BY <2>1, <2>2, <2>3
<1>. HIDE DEF room, due, gone
<1>7. /\ v3' \in [Names -> Q!Person]
      /\ \A e \in Names : v3'[e] = v3[e] \/ (e \notin es /\ v3'[e].status = "stopped")
  BY <1>2, <1>3, StopsThem
<1>8. v5' = None \/ /\ v5' \in Q!Gate /\ v5'.batch = {<<e, v3[e].step>> : e \in es} /\ es # {}
  <2>. DEFINE n == [state |-> "PENDING", batch |-> {<<e, v3[e].step>> : e \in es}]
  <2>1. \A e \in es : v3[e].step \in Q!Steps /\ e \in Names
    BY <1>3 DEF Q!Person
  <2>2. {<<e, v3[e].step>> : e \in es} \in SUBSET (Names \X Q!Steps)
    BY <2>1
  <2>3. n \in Q!Gate /\ n.batch = {<<e, v3[e].step>> : e \in es}
    BY <2>2 DEF Q!Gate
  <2>4. v5' = IF es = {} THEN None ELSE n
    BY <1>2
  <2>. HIDE DEF n
  <2>. QED  BY <2>3, <2>4
<1>9. Q!TypeOK'
  BY <1>1, <1>7, <1>8 DEF DripInv, Q!TypeOK
<1>10. Q!BatchInv'
  <2>. SUFFICES ASSUME v5' # None PROVE Q!BatchInv'
    BY DEF Q!BatchInv
  <2>1. v5'.batch = {<<e, v3[e].step>> : e \in es} /\ es # {}
    BY <1>8
  <2>2. \A m \in v5'.batch : m[1] \in es /\ m[2] = v3[m[1]].step
    BY <2>1
  <2>3. Q!InBatch' = es
    <3>1. \A e \in es : <<e, v3[e].step>> \in v5'.batch /\ <<e, v3[e].step>>[1] = e
      BY <2>1
    <3>. QED  BY <2>2, <3>1 DEF Q!InBatch
  <2>4. \A m \in v5'.batch : v3'[m[1]] = v3[m[1]] /\ v3[m[1]].status = "active"
    BY <1>3, <1>7, <2>2
  <2>5. v6 + Q!Cardinality(es) <= Q!WarmupCap
    BY <1>3, <1>4, <1>5, <1>6, <2>1
  <2>6. Q!WarmupCap' = Q!WarmupCap
    BY <1>1 DEF Q!WarmupCap
  <2>. QED  BY <1>1, <2>2, <2>3, <2>4, <2>5, <2>6 DEF Q!BatchInv
<1>11. Q!EachMailOnce' /\ Q!CountInv'
  BY <1>1 DEF DripInv, Q!EachMailOnce, Q!CountInv, Q!WarmupCap
<1>12. Q!SequenceInv'
  BY <1>1, <1>7 DEF DripInv, Q!SequenceInv
<1>13. Q!LeftInv'
  <2>1. \A e : Q!Suppressed(e)' = Q!Suppressed(e)
    BY <1>1 DEF Q!Suppressed
  <2>2. v12 \subseteq Names
    BY DEF DripInv, Q!TypeOK
  <2>. QED  BY <1>1, <1>7, <2>1, <2>2 DEF DripInv, Q!LeftInv
<1>. QED  BY <1>9, <1>10, <1>11, <1>12, <1>13 DEF DripInv

\* A batch goes out, and each of its mails is counted.
LEMMA DripSends ==
  ASSUME DripInv, Q!SendBatch
  PROVE  DripInv' /\ Q!LeftAlone
<1>. DEFINE n == Q!Cardinality(Q!ToMail)
<1>1. /\ v5 # None /\ ~Q!Paused /\ Q!Deliver(Q!ToMail, Q!ToStop)
      /\ v6' = v6 + n /\ v7' = v7 + n /\ v10' = v10 + n
      /\ UNCHANGED <<v1, v2, v4, v8, v11, v12, v13>>
  BY DEF Q!SendBatch, Q!Ready
<1>2. /\ v3' \in [Names -> Q!Person] /\ v9' \in [Names -> Seq(Q!Steps)] /\ v5' = None
      /\ \A e \in Names : v9'[e] # v9[e] => v3[e].status = "active" /\ ~Q!Suppressed(e)
      /\ Q!EachMailOnce' /\ Q!SequenceInv' /\ Q!LeftInv'
  BY <1>1, DripDelivers
<1>3. Q!InBatch \in SUBSET Names /\ Q!ToMail \in SUBSET Q!InBatch
  <2>1. v5.batch \subseteq Names \X Q!Steps
    BY <1>1 DEF DripInv, Q!TypeOK, Q!Gate
  <2>. QED  BY <2>1 DEF Q!InBatch, Q!ToMail
<1>4. n <= Q!Cardinality(Q!InBatch) /\ n \in Nat /\ Q!Cardinality(Q!InBatch) \in Nat
  BY <1>3, AddressesCounted
<1>. HIDE DEF n
<1>5. /\ v6 \in Nat /\ v7 \in Nat /\ v10 \in Nat /\ Q!WarmupCap \in Nat
      /\ v6 + Q!Cardinality(Q!InBatch) <= Q!WarmupCap /\ (~v11 => v10 = v6)
  BY <1>1, WarmsUp DEF DripInv, Q!TypeOK, Q!CountInv, Q!BatchInv
<1>6. Q!TypeOK'
  BY <1>1, <1>2, <1>4, <1>5 DEF DripInv, Q!TypeOK
<1>7. Q!CountInv'
  <2>1. Q!WarmupCap' = Q!WarmupCap
    BY <1>1 DEF Q!WarmupCap
  <2>. QED  BY <1>1, <1>4, <1>5, <2>1 DEF DripInv, Q!CountInv
<1>8. Q!LeftAlone
  BY <1>1, <1>2 DEF DripInv, Q!LeftInv, Q!LeftAlone, Q!Paused
<1>. QED  BY <1>2, <1>6, <1>7, <1>8 DEF DripInv, Q!BatchInv

\* Or it breaks off, and none is counted.
LEMMA DripBreaks ==
  ASSUME DripInv, Q!SendBreaksOff
  PROVE  DripInv' /\ Q!LeftAlone
<1>1. PICK x \in Q!ToMail, es \in SUBSET Q!ToMail, stopped \in SUBSET Q!ToStop, out \in BOOLEAN :
        /\ Q!Deliver(es, stopped)
        /\ v13' = IF out THEN v13 \cup {x} ELSE v13
        /\ v10' = v10 + Q!Cardinality(es) + (IF out THEN 1 ELSE 0)
  BY DEF Q!SendBreaksOff
<1>2. v5 # None /\ ~Q!Paused /\ v11' = TRUE /\ UNCHANGED <<v1, v2, v4, v6, v7, v8, v12>>
  BY DEF Q!SendBreaksOff, Q!Ready
<1>3. Q!ToMail \in SUBSET Names
  <2>1. v5.batch \subseteq Names \X Q!Steps
    BY <1>2 DEF DripInv, Q!TypeOK, Q!Gate
  <2>. QED  BY <2>1 DEF Q!InBatch, Q!ToMail
<1>4. v13 \subseteq v13' /\ v13' \subseteq Names
  BY <1>1, <1>3 DEF DripInv, Q!TypeOK
<1>5. /\ v3' \in [Names -> Q!Person] /\ v9' \in [Names -> Seq(Q!Steps)] /\ v5' = None
      /\ \A e \in Names : v9'[e] # v9[e] => v3[e].status = "active" /\ ~Q!Suppressed(e)
      /\ Q!EachMailOnce' /\ Q!SequenceInv' /\ Q!LeftInv'
  BY <1>1, <1>2, <1>4, DripDelivers
<1>6. v10' \in Nat
  <2>1. Q!Cardinality(es) \in Nat /\ v10 \in Nat
    BY <1>3, AddressesCounted DEF DripInv, Q!TypeOK
  <2>2. v10' = v10 + Q!Cardinality(es) + 1 \/ v10' = v10 + Q!Cardinality(es) + 0
    BY <1>1
  <2>. QED  BY <2>1, <2>2
<1>7. Q!TypeOK'
  BY <1>2, <1>4, <1>5, <1>6 DEF DripInv, Q!TypeOK
<1>8. Q!CountInv'
  BY <1>2 DEF DripInv, Q!CountInv
<1>9. Q!LeftAlone
  BY <1>2, <1>5 DEF DripInv, Q!LeftInv, Q!LeftAlone, Q!Paused
<1>. QED  BY <1>5, <1>7, <1>8, <1>9 DEF DripInv, Q!BatchInv

\* A new day has as much room as the one before, or more.
LEMMA DripDawns ==
  ASSUME DripInv, Q!NextDay
  PROVE  DripInv'
<1>1. /\ v1 < Bound.lastMail /\ v1' = v1 + 1 /\ v6' = 0 /\ v10' = 0 /\ v11' = FALSE
      /\ UNCHANGED <<v2, v3, v4, v5, v7, v8, v9, v12, v13>>
  BY DEF Q!NextDay
<1>2. v1 \in 0..Bound.lastMail /\ v2 \in 0..Bound.lastMail /\ v2 <= v1
  BY DEF DripInv, Q!TypeOK, Q!Days, Q!CountInv
<1>3. Q!TypeOK'
  <2>1. v1' \in Q!Days
    BY <1>1, <1>2, SequenceAssumption DEF Q!Days
  <2>. QED  BY <1>1, <2>1 DEF DripInv, Q!TypeOK
<1>4. Q!WarmupCap \in Nat /\ Q!WarmupCap' \in Nat /\ Q!WarmupCap <= Q!WarmupCap'
  <2>. DEFINE i == v1 - v2 + 1
  <2>1. Bound.warmup \in Seq(Nat) /\ Len(Bound.warmup) > Bound.lastMail /\ Bound.lastMail \in Nat
    BY SequenceAssumption
  <2>2. Len(Bound.warmup) \in Nat /\ DOMAIN Bound.warmup = 1..Len(Bound.warmup)
    BY <2>1
  <2>3. i \in DOMAIN Bound.warmup /\ i + 1 \in DOMAIN Bound.warmup /\ i <= i + 1
    BY <1>1, <1>2, <2>1, <2>2
  <2>4. v1' - v2' + 1 = i + 1
    BY <1>1, <1>2
  <2>5. Q!WarmupCap = Bound.warmup[i] /\ Q!WarmupCap' = Bound.warmup[i + 1]
    BY <2>4 DEF Q!WarmupCap
  <2>6. Bound.warmup[i] <= Bound.warmup[i + 1]
    BY <2>3, SequenceAssumption
  <2>7. Bound.warmup[i] \in Nat /\ Bound.warmup[i + 1] \in Nat
    BY <2>1, <2>3
  <2>. QED  BY <2>5, <2>6, <2>7
<1>5. Q!BatchInv'
  <2>. SUFFICES ASSUME v5 # None PROVE Q!BatchInv'
    BY <1>1 DEF Q!BatchInv
  <2>1. Q!InBatch' = Q!InBatch
    BY <1>1 DEF Q!InBatch
  <2>2. Q!InBatch \in SUBSET Names
    <3>1. v5.batch \subseteq Names \X Q!Steps
      BY DEF DripInv, Q!TypeOK, Q!Gate
    <3>. QED  BY <3>1 DEF Q!InBatch
  <2>3. Q!Cardinality(Q!InBatch) \in Nat /\ v6 \in Nat
    BY <2>2, AddressesCounted DEF DripInv, Q!TypeOK
  <2>4. v6 + Q!Cardinality(Q!InBatch) <= Q!WarmupCap
    BY DEF DripInv, Q!BatchInv
  <2>5. 0 + Q!Cardinality(Q!InBatch) <= Q!WarmupCap'
    BY <1>4, <2>3, <2>4
  <2>. QED  BY <1>1, <2>1, <2>5 DEF DripInv, Q!BatchInv
<1>6. Q!CountInv'
  BY <1>1, <1>2, <1>4 DEF Q!CountInv
<1>7. Q!EachMailOnce' /\ Q!SequenceInv' /\ Q!LeftInv'
  BY <1>1 DEF DripInv, Q!EachMailOnce, Q!SequenceInv, Q!LeftInv, Q!Suppressed
<1>. QED  BY <1>3, <1>5, <1>6, <1>7 DEF DripInv

\* The engine that is started again knows nobody.
LEMMA DripRestarts ==
  ASSUME DripInv, Q!Restart
  PROVE  DripInv'
<1>1. /\ v2' = v1 /\ v1' = v1 /\ v3' = [e \in Names |-> Q!Nobody] /\ v4' = [e \in Names |-> None]
      /\ v5' = None /\ v6' = 0 /\ v7' = 0 /\ v8' = FALSE /\ v11' = TRUE
      /\ v13' = v13 \cup v12 \cup {e \in Names : v9[e] # <<>>} /\ UNCHANGED <<v9, v10, v12>>
  BY DEF Q!Restart
<1>2. v1 \in 0..Bound.lastMail
  BY DEF DripInv, Q!TypeOK, Q!Days
<1>3. Q!Nobody.status = "none"
  BY DEF Q!Nobody
<1>4. Q!TypeOK'
  <2>1. Q!Nobody \in Q!Person
    <3>1. Len(Bound.delays) \in Nat
      BY SequenceAssumption
    <3>. QED  BY <3>1 DEF Q!Nobody, Q!Person, Q!Statuses, Q!Steps
  <2>2. v13' \subseteq Names
    BY <1>1 DEF DripInv, Q!TypeOK
  <2>3. v3' \in [Names -> Q!Person] /\ v4' \in [Names -> Q!Reasons \cup {None}]
    BY <1>1, <2>1
  <2>. QED  BY <1>1, <2>2, <2>3 DEF DripInv, Q!TypeOK
<1>5. Q!EachMailOnce' /\ Q!SequenceInv' /\ Q!BatchInv' /\ Q!LeftInv'
  <2>1. \A e \in Names \ v13' : v9'[e] = <<>> /\ v3'[e].status = "none"
    BY <1>1, <1>3
  <2>2. v12' \subseteq v13'
    BY <1>1
  <2>. QED  BY <1>1, <2>1, <2>2 DEF Q!EachMailOnce, Q!SequenceInv, Q!BatchInv, Q!LeftInv
<1>6. Q!CountInv'
  BY <1>1, <1>2 DEF Q!CountInv
<1>. QED  BY <1>4, <1>5, <1>6 DEF DripInv

\* What does not mail anybody leaves alone who left.
LEMMA DripQuiet == v9' = v9 => Q!LeftAlone
BY DEF Q!LeftAlone

\* Whatever people answer, approvers decide and processes do, the engine keeps to its limits.
LEMMA DripSteps == DripInv /\ [Q!QNext]_(Q!qvars) => DripInv' /\ Q!LeftAlone
<1>. SUFFICES ASSUME DripInv, [Q!QNext]_(Q!qvars) PROVE DripInv' /\ Q!LeftAlone
  OBVIOUS
<1>t. /\ v3 \in [Names -> Q!Person] /\ v4 \in [Names -> Q!Reasons \cup {None}]
      /\ v8 \in BOOLEAN /\ v5 \in Q!Gate \cup {None}
  BY DEF DripInv, Q!TypeOK
<1>s. ASSUME NEW e \in Names, NEW r \in Q!Reasons, Q!Suppress(e, r)
      PROVE  /\ v4' \in [Names -> Q!Reasons \cup {None}] /\ Q!Suppressed(e)'
             /\ \A x \in Names : Q!Suppressed(x) => Q!Suppressed(x)'
  <2>1. v4' = [v4 EXCEPT ![e] = r] /\ r # None
    BY <1>s, SequenceAssumption DEF Q!Suppress
  <2>. QED  BY <1>t, <2>1 DEF Q!Suppressed
<1>p. ASSUME NEW e \in Names, v3' = Q!Stop(v3, {e})
      PROVE  /\ v3' \in [Names -> Q!Person] /\ v3'[e].status = "stopped"
             /\ \A x \in Names \ {e} : v3'[x] = v3[x]
  BY <1>t, <1>p, StopsThem
<1>1. ASSUME NEW e \in Names, Q!Enroll(e)
      PROVE  DripInv' /\ Q!LeftAlone
  <2>. DEFINE n == [status |-> "active", step |-> 0, due |-> v1]
  <2>1. /\ v3[e].status = "none" /\ ~Q!Suppressed(e) /\ v3' = [v3 EXCEPT ![e] = n]
        /\ UNCHANGED <<v1, v2, v4, v5, v6, v7, v8, v9, v10, v11, v12, v13>>
    BY <1>1 DEF Q!Enroll, Q!History
  <2>2. n \in Q!Person /\ n.status = "active" /\ n.step = 0
    <3>1. Len(Bound.delays) \in Nat /\ v1 \in Nat
      BY SequenceAssumption DEF DripInv, Q!TypeOK, Q!Days
    <3>. QED  BY <3>1 DEF Q!Person, Q!Statuses, Q!Steps
  <2>. HIDE DEF n
  <2>3. v3' \in [Names -> Q!Person] /\ v3'[e] = n /\ \A x \in Names \ {e} : v3'[x] = v3[x]
    BY <1>t, <2>1, <2>2
  <2>4. \A x \in Names : Q!Suppressed(x) => Q!Suppressed(x)'
    BY <2>1 DEF Q!Suppressed
  <2>. QED  BY <1>t, <2>1, <2>2, <2>3, <2>4, DripPerson, DripQuiet
<1>2. ASSUME NEW e \in Names, Q!SuppressByHand(e)
      PROVE  DripInv' /\ Q!LeftAlone
  <2>1. /\ Q!Suppress(e, "other") /\ v12' = v12 \cup {e}
        /\ UNCHANGED <<v1, v2, v3, v5, v6, v7, v8, v9, v10, v11, v13>>
    BY <1>2 DEF Q!SuppressByHand
  <2>2. "other" \in Q!Reasons
    BY DEF Q!Reasons
  <2>. QED  BY <1>t, <1>s, <2>1, <2>2, DripPerson, DripQuiet
<1>3. ASSUME NEW e \in Names, NEW r \in Q!Reasons, Q!Report(e, r)
      PROVE  DripInv' /\ Q!LeftAlone
  <2>1. /\ Q!Suppress(e, r) /\ v12' = v12 \cup {e}
        /\ v3' = Q!Stop(v3, {e}) \/ v3' = v3
        /\ UNCHANGED <<v1, v2, v5, v6, v7, v8, v9, v10, v11, v13>>
    BY <1>3 DEF Q!Report
  <2>. QED  BY <1>t, <1>s, <1>p, <2>1, DripPerson, DripQuiet
<1>4. ASSUME NEW e \in Names, NEW kind \in {"unsubscribe", "out_of_office", "other"}, Q!Reply(e, kind)
      PROVE  DripInv' /\ Q!LeftAlone
  <2>1. /\ UNCHANGED <<v1, v2, v5, v6, v7, v8, v9, v10, v11>>
        /\ v12' = IF kind = "out_of_office" THEN v12 ELSE v12 \cup {e}
        /\ v13' = IF Q!Known(e) THEN v13 ELSE v13 \cup {e}
    BY <1>4 DEF Q!Reply
  <2>2. CASE v3' = v3 /\ v4' = v4 /\ (~Q!Known(e) \/ kind = "out_of_office")
    <3>1. \A x \in Names : Q!Suppressed(x) => Q!Suppressed(x)'
      BY <2>2 DEF Q!Suppressed
    <3>. QED  BY <1>t, <2>1, <2>2, <3>1, DripPerson, DripQuiet
  <2>3. CASE v3' = Q!Stop(v3, {e}) /\ Q!Suppress(e, "other")
    <3>1. "other" \in Q!Reasons
      BY DEF Q!Reasons
    <3>. QED  BY <1>t, <1>s, <1>p, <2>1, <2>3, <3>1, DripPerson, DripQuiet
  <2>4. CASE v3' = [v3 EXCEPT ![e].status = "replied"] /\ v4' = v4
    <3>. DEFINE n == [v3[e] EXCEPT !.status = "replied"]
    <3>1. n \in Q!Person /\ n.status = "replied"
      BY <1>t DEF Q!Person, Q!Statuses
    <3>2. v3' = [v3 EXCEPT ![e] = n]
      BY <2>4
    <3>. HIDE DEF n
    <3>3. v3' \in [Names -> Q!Person] /\ v3'[e] = n /\ \A x \in Names \ {e} : v3'[x] = v3[x]
      BY <1>t, <3>1, <3>2
    <3>4. \A x \in Names : Q!Suppressed(x) => Q!Suppressed(x)'
      BY <2>4 DEF Q!Suppressed
    <3>. QED  BY <1>t, <2>1, <2>4, <3>1, <3>3, <3>4, DripPerson, DripQuiet
  <2>5. \/ v3' = v3 /\ v4' = v4 /\ (~Q!Known(e) \/ kind = "out_of_office")
        \/ v3' = Q!Stop(v3, {e}) /\ Q!Suppress(e, "other")
        \/ v3' = [v3 EXCEPT ![e].status = "replied"] /\ v4' = v4
    <3>1. CASE ~Q!Known(e)
      BY <1>4, <3>1 DEF Q!Reply
    <3>2. CASE Q!Known(e) /\ kind = "unsubscribe"
      BY <1>4, <3>2 DEF Q!Reply
    <3>3. CASE Q!Known(e) /\ kind = "out_of_office"
      BY <1>4, <3>3 DEF Q!Reply
    <3>4. CASE Q!Known(e) /\ kind = "other"
      BY <1>4, <3>4 DEF Q!Reply
    <3>. QED  BY <3>1, <3>2, <3>3, <3>4
  <2>. QED  BY <2>2, <2>3, <2>4, <2>5
<1>5. ASSUME NEW state \in {"APPROVED", "HELD", "REJECTED"}, Q!Decide(state)
      PROVE  DripInv' /\ Q!LeftAlone
  <2>. DEFINE n == [v5 EXCEPT !.state = state]
  <2>1. v5 # None /\ v5' = n /\ UNCHANGED <<v1, v2, v3, v4, v6, v7, v8, v9, v10, v11, v12, v13>>
    BY <1>5 DEF Q!Decide, Q!History
  <2>2. n \in Q!Gate /\ n.batch = v5.batch
    BY <1>t, <2>1 DEF Q!Gate
  <2>. HIDE DEF n
  <2>. QED  BY <1>t, <2>1, <2>2, DripGate, DripQuiet
<1>6. CASE Q!Resume
  <2>1. v8' = FALSE /\ UNCHANGED <<v1, v2, v3, v4, v5, v6, v7, v9, v10, v11, v12, v13>>
    BY <1>6 DEF Q!Resume, Q!History
  <2>. QED  BY <1>t, <2>1, DripGate, DripQuiet
<1>7. CASE Q!Pause
  <2>1. v8' = TRUE /\ v5' = None /\ UNCHANGED <<v1, v2, v3, v4, v6, v7, v9, v10, v11, v12, v13>>
    BY <1>7 DEF Q!Pause, Q!History
  <2>. QED  BY <2>1, DripGate, DripQuiet
<1>8. CASE Q!DropBatch
  <2>1. v5' = None /\ UNCHANGED <<v1, v2, v3, v4, v6, v7, v8, v9, v10, v11, v12, v13>>
    BY <1>8 DEF Q!DropBatch, Q!History
  <2>. QED  BY <1>t, <2>1, DripGate, DripQuiet
<1>9. CASE Q!BuildBatch
  <2>1. v9' = v9
    BY <1>9 DEF Q!BuildBatch, Q!History
  <2>. QED  BY <1>9, <2>1, DripBuilds, DripQuiet
<1>10. CASE Q!SendBatch \/ Q!SendBreaksOff
  BY <1>10, DripSends, DripBreaks
<1>11. CASE Q!NextDay
  BY <1>11, DripDawns, DripQuiet DEF Q!NextDay
<1>12. CASE Q!Restart
  BY <1>12, DripRestarts, DripQuiet DEF Q!Restart
<1>13. CASE UNCHANGED Q!qvars
  <2>1. UNCHANGED <<v1, v2, v3, v4, v5, v6, v7, v8, v9, v10, v11, v12, v13>>
    BY <1>13 DEF Q!qvars
  <2>. QED  BY <1>t, <2>1, DripGate, DripQuiet
<1>. QED
  BY <1>1, <1>2, <1>3, <1>4, <1>5, <1>6, <1>7, <1>8, <1>9, <1>10, <1>11, <1>12, <1>13 DEF Q!QNext

\* Each step keeps the invariant, ...
LEMMA DripKeeps == DripInv /\ [Q!QNext]_(Q!qvars) => DripInv'
BY DripSteps

\* ...and leaves alone who left.
LEMMA DripLeaves == DripInv /\ [Q!QNext]_(Q!qvars) => Q!LeftAlone
BY DripSteps

\* A day has its limit.
LEMMA DripLimited == DripInv => Q!DailyCap
<1>. SUFFICES ASSUME DripInv PROVE Q!DailyCap
  OBVIOUS
<1>1. ~v11 => v10 = v6 /\ v6 <= Q!WarmupCap
  BY DEF DripInv, Q!CountInv
<1>. QED  BY <1>1 DEF Q!DailyCap
===============================================================================
